------------------------------- MODULE Wired -------------------------------
(***************************************************************************)
(* The wired side of the adapter: wired_adapter.system_id selects one      *)
(* driver (main.c, wired/wired_bare.c), which has core 1 to itself.  The   *)
(* pads and the memory card of a PlayStation port share its buffers; each  *)
(* of PsPad and PsCard sees the other's packets as packets that take a     *)
(* buffer.                                                                 *)
(***************************************************************************)
EXTENDS Integers

CONSTANTS
  Addrs, Words, GameIds, MaxPackets,      \* PsCard
  Pads, Kinds, MaxEvents,                 \* PsPad
  Channels, Banks, Countdown, MaxChange,  \* Nsi
  Ports, Settings                         \* Maple

ASSUME WiredAssumption ==
  /\ Addrs \subseteq Nat /\ 0 \in Addrs /\ "even" \in Words /\ Words \subseteq {"even", "odd"}
  /\ GameIds \cap {"even", "odd", "junk", "none"} = {}
  /\ Pads \in {0..n : n \in 0..3} /\ Kinds \subseteq {"pad", "mouse"}
  /\ Channels \subseteq 0..3 /\ Banks \subseteq Nat /\ Countdown \in Nat \ {0, 1}
  /\ {"idle", "5s", "0"} \subseteq Settings
  /\ MaxPackets \in Nat /\ MaxEvents \in Nat /\ MaxChange \in Nat

\* SegaIo: what is plugged into the two ports
DevPairs == {<<"6", "6">>, <<"3", "6">>, <<"6", "serial">>, <<"serial", "6">>}

VARIABLES
  system,
  usable, active_port_type, mc_cmd, mc_addr, mc_crc, mc_flags, card_rx, card_active,
  card, gid, packets, kept, suspect, echo,
  root, kind, mt_state, pad_rx, pad_active, pad, pressed,
  led, events, due, owed, ran, stale, forced,
  acc_mode, dev_mode, banksel, ctrl_acc_mode, ctrl_mem_banksel, ctrl_acc_update, ctrl_init,
  changes, told, swapped,
  acc_rumble, rumble_config, rumble_timeout, rumble_timeout_prev, given, now, before, unheard,
  dev, th, prev, cur, pc, serve, ending, serial, shown, lock,
  core0, pending, start_var, end_var, overlooked, hasty

PsCard == INSTANCE PsCard WITH rx_buf <- card_rx, active_rx_buf <- card_active
PsPad == INSTANCE PsPad WITH rx_buf <- pad_rx, active_rx_buf <- pad_active
Nsi == INSTANCE Nsi
Maple == INSTANCE Maple
SegaIo == INSTANCE SegaIo

cardVars == <<usable, active_port_type, mc_cmd, mc_addr, mc_crc, mc_flags, card_rx, card_active,
              card, gid, packets, kept, suspect, echo>>
padVars == <<root, kind, mt_state, pad_rx, pad_active, pad, pressed,
             led, events, due, owed, ran, stale, forced>>
n64Vars == <<acc_mode, dev_mode, banksel, ctrl_acc_mode, ctrl_mem_banksel, ctrl_acc_update,
             ctrl_init, changes, told, swapped>>
dcVars == <<acc_rumble, rumble_config, rumble_timeout, rumble_timeout_prev, given, now, before,
            unheard>>
segaVars == <<dev, th, prev, cur, pc, serve, ending, serial, shown, lock,
              core0, pending, start_var, end_var, overlooked, hasty>>
vars == <<system, cardVars, padVars, n64Vars, dcVars, segaVars>>

\* wired_init_task: the console found, or the one of the configuration.  The drivers of
\* the others never run: each keeps one state
Init ==
  /\ system \in {"PSX card", "PSX pads", "N64", "DC", "Genesis"}
  /\ PsCard!Init /\ (system # "PSX card" => ~usable)
  /\ PsPad!Init /\ (system # "PSX pads" => root = "pad")
  /\ Nsi!Init
  /\ system # "N64" => banksel = 0 /\ acc_mode = [c \in Channels |-> "none"]
  /\ Maple!Init /\ (system # "DC" => acc_rumble = [p \in Ports |-> TRUE])
  /\ SegaIo!Init /\ (system # "Genesis" => dev = <<"6", "6">>)

\* wired_bare_init: the interrupts of the driver chosen
PsxCard ==
  system = "PSX card" /\ PsCard!Next /\ UNCHANGED <<system, padVars, n64Vars, dcVars, segaVars>>
PsxPads ==
  system = "PSX pads" /\ PsPad!Next /\ UNCHANGED <<system, cardVars, n64Vars, dcVars, segaVars>>
N64 == system = "N64" /\ Nsi!Next /\ UNCHANGED <<system, cardVars, padVars, dcVars, segaVars>>
DC == system = "DC" /\ Maple!Next /\ UNCHANGED <<system, cardVars, padVars, n64Vars, segaVars>>
Genesis ==
  system = "Genesis" /\ SegaIo!Next /\ UNCHANGED <<system, cardVars, padVars, n64Vars, dcVars>>

Next == PsxCard \/ PsxPads \/ N64 \/ DC \/ Genesis

Spec == Init /\ [][Next]_vars
-----------------------------------------------------------------------------
\* PlayStation: a packet that stops early can damage only the block it named, every
\* command of the tap is executed once and in turn, and a digital pad never reports as
\* an analog one, each but for the cases its definition names
PsSound == PsCard!CardInv /\ PsPad!PadInv

\* Nintendo 64: no pak is exchanged for another without the console being told; and
\* Dreamcast: the bridge is never more than one rumble command behind
AccessorySound == Nsi!NsiInv /\ Maple!MapleInv

\* Genesis: a port shows the buttons for the level its console drives, core 0 stands still
\* during polls only, and the cores never wait for each other, each but for the cases its
\* definition names
LinesSound == SegaIo!SegaInv
=============================================================================
