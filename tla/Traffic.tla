------------------------------ MODULE Traffic ------------------------------
(***************************************************************************)
(* The traffic between the Bluetooth controllers and the console: packets  *)
(* in (Reassembly) and out (Transmit), reports on their way to the ports   *)
(* (Bridge), key codes on theirs (Keyboard), and what the console sends    *)
(* back (Rumble) through the feedback queue, whose rings FbQueue has.  The *)
(* paths share no variable but the queue and the timers, each within one   *)
(* module, so a behaviour follows one path.                                *)
(***************************************************************************)
EXTENDS FbQueue, FiniteSets

CONSTANTS
  Links, MaxFrags,          \* Reassembly
  Room,                     \* Transmit
  Ports, Queued, MaxOld,    \* Rumble: Queued, the items of its queue, 15 in the code
  Slots, Srcs, Cleared,     \* Bridge
  Keys, MaxCodes            \* Keyboard: MaxCodes, the codes of its queue, 31 in the code

ASSUME TrafficAssumption ==
  /\ MaxFrags \in Nat \ {0} /\ Room \in Nat \ {0} /\ Queued \in Nat \ {0} /\ MaxOld \in Nat
  /\ Ports \subseteq Nat \ {0} /\ Slots \subseteq Nat /\ Cleared \subseteq Slots
  /\ {"x", "y"} \subseteq Srcs
  /\ Keys \subseteq Nat /\ IsFiniteSet(Keys) /\ 1 \in Keys /\ MaxCodes \in Nat \ {0}

\* The default configuration, and one in which the controllers share a port, cross, and
\* use one button for two purposes
OwnPorts == [d \in Slots |-> {<<"x", d, "a">>, <<"x", d, "base">>,
                              <<"y", d, "pair">>, <<"y", d, "toggle">>}]
Crossed == [d \in Slots |->
              {<<"x", 1, "a">>, <<"y", 1, "toggle">>, <<"y", d, "pair">>}
                \cup {<<"y", e, "a">> : e \in Slots \ {d}}]

\* A keyboard with every key, and controllers that have one key in common with it
KeysOf == [d \in Slots |-> IF d = 1 THEN Keys ELSE {1}]

VARIABLES
  path,
  now, buf, size, fate, crossed,
  tmp, pc, blocked, txq, tx, ready, taken, waited,
  drv, want, fbq, mute, hdl, old, cb, fb, pad, out, motor, due, muter, excused,
  cfg, paired, out_idx, word, shown, flags, mflags, meant, combo, left,
  last, keys_state, armed, tm_key_id, tm_cb, scq, typed, unsure, runaway

Reassembly == INSTANCE Reassembly
Transmit == INSTANCE Transmit
Rumble == INSTANCE Rumble WITH ready <- pad, Cap <- Queued
Bridge == INSTANCE Bridge WITH
  Devs <- Slots, Configs <- {OwnPorts, Crossed}, Macros <- {{"base", "pair"}}
Keyboard == INSTANCE Keyboard WITH
  Ctrls <- Slots, Drives <- KeysOf, CodeMax <- MaxCodes, cb <- tm_cb, excused <- unsure

rxVars == <<now, buf, size, fate, crossed>>
txVars == <<tmp, pc, blocked, txq, tx, ready, taken, waited>>
rumbleVars == <<drv, want, fbq, mute, hdl, old, cb, fb, pad, out, motor, due, muter, excused>>
bridgeVars == <<cfg, paired, out_idx, word, shown, flags, mflags, meant, combo, left>>
kbVars == <<last, keys_state, armed, tm_key_id, tm_cb, scq, typed, unsure, runaway>>
allVars == <<path, vars, rxVars, txVars, rumbleVars, bridgeVars, kbVars>>

TrafficInit ==
  /\ path \in {"queue", "packets in", "packets out", "rumble", "reports", "keys"}
  /\ Init /\ Reassembly!Init /\ Transmit!Init
  /\ Rumble!Init /\ (path # "rumble" => drv = "pak")
  /\ Bridge!Init /\ (path # "reports" => cfg = OwnPorts)
  /\ Keyboard!Init /\ (path # "keys" => tm_key_id = 1)

TrafficNext ==
  \/ path = "queue" /\ Next
     /\ UNCHANGED <<path, rxVars, txVars, rumbleVars, bridgeVars, kbVars>>
  \/ path = "packets in" /\ Reassembly!Next
     /\ UNCHANGED <<path, vars, txVars, rumbleVars, bridgeVars, kbVars>>
  \/ path = "packets out" /\ Transmit!Next
     /\ UNCHANGED <<path, vars, rxVars, rumbleVars, bridgeVars, kbVars>>
  \/ path = "rumble" /\ Rumble!Next
     /\ UNCHANGED <<path, vars, rxVars, txVars, bridgeVars, kbVars>>
  \/ path = "reports" /\ Bridge!Next
     /\ UNCHANGED <<path, vars, rxVars, txVars, rumbleVars, kbVars>>
  \/ path = "keys" /\ Keyboard!Next
     /\ UNCHANGED <<path, vars, rxVars, txVars, rumbleVars, bridgeVars>>

TrafficSpec == TrafficInit /\ [][TrafficNext]_allVars
-----------------------------------------------------------------------------
\* A received packet is handled whole and once, unless fragments of two links mix; and
\* the way out never stops with packets in it, nor carries another's packet, but for what
\* Transmit names
AclSound == Reassembly!ReassemblyInv /\ Transmit!TxInv

\* A mute ends, and a motor stops when it is not wanted, but for the stops Rumble names
MotorSound == Rumble!RumbleInv

\* No button stays pressed, no macro or toggle happens and no key repeats, that no
\* controller pressed, and the codes of keys agree with the reports, but for those Bridge
\* and Keyboard name
BridgeSound == Bridge!BridgeInv /\ Keyboard!KeyboardInv
=============================================================================
