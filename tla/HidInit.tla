------------------------------ MODULE HidInit ------------------------------
(***************************************************************************)
(* What makes a connected controller usable, on one slot of bt_dev[]: the  *)
(* subcommand handshake of a Switch controller over BR/EDR (SwInit), that  *)
(* of a Wii Remote with its extensions (WiiInit), or the discovery and the *)
(* commands of an LE controller (LeSession).  Which of them runs is told   *)
(* by the event that took the slot and the name of the controller; the     *)
(* parts share hid_state and the type of the slot, and run in different    *)
(* tasks.  The slot serves one kind of controller.                         *)
(***************************************************************************)
EXTENDS Naturals

CONSTANTS
  RetryMax, Timers, NoTimer, MaxAck,   \* SwInit
  MaxReport, MaxMore, MaxErr, MaxConn, \* LeSession
  MaxPlug, MaxFail                     \* WiiInit

ASSUME SwInitAssumption ==
  RetryMax \in Nat \ {0} /\ NoTimer \notin Timers /\ MaxAck \in Nat \ {0}

ASSUME LeAssumption ==
  MaxReport \in Nat \ {0} /\ MaxMore \in Nat /\ MaxErr \in Nat /\ MaxConn \in Nat \ {0}

ASSUME WiiAssumption == MaxPlug \in Nat /\ MaxFail \in Nat

VARIABLES
  radio,                   \* bt_dev.type, "Wii" for the BR/EDR controllers of that name
  type, hid_state, stale,  \* of both parts
  hid_retry_cnt, timer_hdl, init_done, calib_set, calib, armed, cb, acks, started, again, ended,
  up, flags, ltk, rdist, found, props, report_idx, written, asked, enc, owed, peer, bond,
  more, errs, conns, derailed, dead,
  subtype, init, plugged, woken, eight, reporting, reqs, rsps, plugs, fails, crossed

swVars == <<hid_retry_cnt, timer_hdl, init_done, calib_set, calib, armed, cb, acks, started, again,
            ended>>
leVars == <<up, flags, ltk, rdist, found, props, report_idx, written, asked, enc, owed, peer, bond,
            more, errs, conns, derailed, dead>>
wiiVars == <<subtype, init, plugged, woken, eight, reporting, reqs, rsps, plugs, fails, crossed>>
vars == <<radio, type, hid_state, stale, swVars, leVars, wiiVars>>

Sw == INSTANCE SwInit
Le == INSTANCE LeSession
Wii == INSTANCE WiiInit

Init ==
  /\ radio \in {"BR/EDR", "LE", "Wii"}
  /\ Sw!Init /\ Le!Init /\ (radio # "LE" => peer = "generic") /\ Wii!Init

Classic == radio = "BR/EDR" /\ Sw!Next /\ UNCHANGED <<radio, leVars, wiiVars>>
LowEnergy == radio = "LE" /\ Le!Next /\ UNCHANGED <<radio, swVars, wiiVars>>
WiiRemote == radio = "Wii" /\ Wii!Next /\ UNCHANGED <<radio, stale, swVars, leVars>>

Next == Classic \/ LowEnergy \/ WiiRemote

Timer == radio = "BR/EDR" /\ Sw!Timer /\ UNCHANGED <<radio, leVars, wiiVars>>
AckStep == radio = "BR/EDR" /\ Sw!AckStep /\ UNCHANGED <<radio, leVars, wiiVars>>
Arrives == radio = "LE" /\ Le!Arrives /\ UNCHANGED <<radio, swVars, wiiVars>>
Closed == radio = "LE" /\ Le!Closed /\ UNCHANGED <<radio, swVars, wiiVars>>
Serve == radio = "Wii" /\ Wii!Serve /\ UNCHANGED <<radio, stale, swVars, leVars>>
Handle == radio = "Wii" /\ Wii!Handle /\ UNCHANGED <<radio, stale, swVars, leVars>>

(* Timers expire, the esp_timer task runs, packets received are handled;   *)
(* an LE controller answers, and a link the host closes ends; a Wii Remote *)
(* answers.  Only the steps of one kind of controller are ever enabled.    *)
Spec ==
  /\ Init /\ [][Next]_vars
  /\ WF_vars(Timer \/ Arrives \/ Serve)
  /\ WF_vars(AckStep \/ Closed \/ Handle)
-----------------------------------------------------------------------------
(* The handshake of a Switch controller never stalls, and no device counts *)
(* as initialised without cause (SwInit); an answer of an LE controller    *)
(* meets the state that asked for it (LeSession).                          *)
Inv ==
  CASE radio = "BR/EDR" -> Sw!Inv [] radio = "LE" -> Le!Inv [] radio = "Wii" -> Wii!TypeOK

(* What counts as done is done: the flag for a Switch controller's         *)
(* calibration covers all of it, from this controller, whatever requests   *)
(* and answers are repeated; an LE controller that counts as ready was     *)
(* told to notify of every report that can, or as a Switch 2 controller    *)
(* has its calibration read; a Wii Remote at rest is decoded as what is    *)
(* plugged into it, but where an older chain of requests crossed this one. *)
ReadySound == Sw!CalibComplete /\ Le!ReadySound /\ Wii!ExtKnown

\* A controller that stays has something to wait for, and has it
Pending ==
  CASE radio = "BR/EDR" -> Sw!HandshakeStarted [] radio = "LE" -> up [] radio = "Wii" -> Wii!Silent
Settled ==
  CASE radio = "BR/EDR" -> Sw!HandshakeOver [] radio = "LE" -> Le!LeOver [] radio = "Wii" -> Wii!Resumed

(* The initialisation of a controller that stays comes to its end: the     *)
(* handshake even when nothing is answered, the discovery when the peer    *)
(* answers, has a report, and does not refuse its pairing; and a Wii       *)
(* Remote is told to report again whatever is plugged or unplugged.        *)
InitEnds == Pending ~> Settled
=============================================================================
