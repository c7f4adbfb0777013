------------------------------- MODULE Maple -------------------------------
(***************************************************************************)
(* The rumble pack of a Dreamcast controller (wired/maple.c, the ADDR_     *)
(* RUMBLE cases of maple_rx): what the console sets, and what is given to  *)
(* the bridge.  A word is a motor setting or a timeout; the code compares  *)
(* one with the other.  maple_tx overwrites the first word of the packet   *)
(* with its checksum before the command reads the ones after it.           *)
(***************************************************************************)
CONSTANTS
  Ports,    \* controller ports
  Settings  \* motor settings and timeouts the console sends

VARIABLES
  acc_rumble,          \* out_cfg[port].acc_mode & ACC_RUMBLE
  rumble_config, rumble_timeout, rumble_timeout_prev,
  given,               \* the motor setting of the last feedback queued
  now, before,         \* history: the last setting acknowledged, and the one it replaced
  unheard              \* history: a setting was acknowledged and not acted upon

setVars == <<rumble_config, rumble_timeout, rumble_timeout_prev>>
vars == <<acc_rumble, setVars, given, now, before, unheard>>

Init ==
  /\ acc_rumble \in [Ports -> BOOLEAN]
  /\ rumble_config = [p \in Ports |-> "idle"] /\ rumble_timeout = [p \in Ports |-> "5s"]
  /\ rumble_timeout_prev = [p \in Ports |-> "0"]
  /\ given = rumble_config /\ now = rumble_config /\ before = rumble_config
  /\ unheard = [p \in Ports |-> FALSE]

Configure(p) == acc_rumble' = [acc_rumble EXCEPT ![p] = ~@]
                /\ UNCHANGED <<setVars, given, now, before, unheard>>

\* CMD_BLOCK_WRITE; a frame that lost bits is acknowledged and dropped
BlockWrite(p, w, bad_frame) ==
  /\ rumble_timeout' = IF bad_frame THEN rumble_timeout ELSE [rumble_timeout EXCEPT ![p] = w]
  /\ UNCHANGED <<acc_rumble, rumble_config, rumble_timeout_prev, given, now, before, unheard>>

ChangedTimeout(p, w) ==  \* mutant: the motor setting is not compared
  rumble_timeout[p] # rumble_timeout_prev[p]
Changed(p, w) == rumble_config[p] # w \/ rumble_timeout[p] # rumble_timeout_prev[p]

\* CMD_SET_CONDITION: the feedback is filled before rumble_config is assigned
SetCondition(p, w, bad_frame) ==
  LET queued == ~bad_frame /\ acc_rumble[p] /\ Changed(p, w)
  IN /\ given' = IF queued THEN [given EXCEPT ![p] = rumble_config[p]] ELSE given
     /\ IF bad_frame THEN UNCHANGED <<rumble_config, rumble_timeout_prev>>
        ELSE /\ rumble_config' = [rumble_config EXCEPT ![p] = w]
             /\ rumble_timeout_prev' = [rumble_timeout_prev EXCEPT ![p] = w]
     /\ now' = [now EXCEPT ![p] = w]
     /\ before' = IF w = now[p] THEN before ELSE [before EXCEPT ![p] = now[p]]
     /\ unheard' = [unheard EXCEPT ![p] = bad_frame \/ ~acc_rumble[p] \/ (@ /\ ~(queued /\ rumble_config[p] = now[p]))]
     /\ UNCHANGED <<acc_rumble, rumble_timeout>>

Next ==
  \E p \in Ports :
    \/ Configure(p)
    \/ \E w \in Settings, bad_frame \in BOOLEAN : BlockWrite(p, w, bad_frame) \/ SetCondition(p, w, bad_frame)

Spec == Init /\ [][Next]_vars
-----------------------------------------------------------------------------
TypeOK ==
  /\ {acc_rumble, unheard} \subseteq [Ports -> BOOLEAN]
  /\ {rumble_config, rumble_timeout, rumble_timeout_prev, given, now, before}
       \subseteq [Ports -> Settings]

\* The bridge is never more than one command behind the console: what it was given is
\* the setting acknowledged last or the one before it, unless that one was dropped (lost
\* bits, rumble switched off)
OneBehind == \A p \in Ports : unheard[p] \/ given[p] \in {now[p], before[p]}

MapleInv == TypeOK /\ OneBehind
=============================================================================
