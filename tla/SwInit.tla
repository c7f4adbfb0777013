------------------------------- MODULE SwInit -------------------------------
(***************************************************************************)
(* The initialisation handshake of a Switch controller, bluetooth/hidp/sw.c *)
(* on one slot of bt_dev[]: a chain of subcommands, each sent when the one *)
(* before is acknowledged, and a timer that sends the current one again    *)
(* and after RetryMax times goes on without an answer.                     *)
(*                                                                         *)
(* The controller's callback (acknowledgements, disconnection) preempts    *)
(* the esp_timer task, whose callback therefore takes several steps; and   *)
(* the slot can be freed, and taken again, while a timer that holds its    *)
(* address is still armed.  A request is answered later, once, or never.   *)
(***************************************************************************)
EXTENDS Naturals, Sequences

CONSTANTS
  RetryMax,  \* SW_INIT_STATE_RETRY_MAX
  Timers,    \* timers of the slot that can exist at a time
  NoTimer,   \* a NULL timer_hdl
  MaxAck     \* bound: acknowledgements under way

(* hid_state; every value above SET_LED behaves alike and is Beyond here. *)
READ_INFO  == 0
READ_CALIB == 1
EN_RUMBLE  == 2
SET_LED    == 3
Beyond     == 4
HidState   == 0..Beyond

(* The areas of SPI flash read one after the other in state READ_CALIB. *)
Areas   == {"603D", "6086", "6098", "8010"}
Subcmds == Areas \cup {"info", "rumble", "led"}

VARIABLES
  type,       \* ids.type of the slot: "none" when free, "sw" or "other"
  hid_state, hid_retry_cnt, timer_hdl,
  init_done,  \* BT_DEV_HID_INIT_DONE
  calib_set,  \* BT_DEV_CALIB_SET
  calib,      \* areas stored in calib[] since it was cleared
  armed,      \* timers that run
  cb,         \* where bt_hid_sw_init_callback is
  acks,       \* acknowledgements under way from the controller
  started,    \* history: bt_hid_init was called since the slot was taken
  again,      \* history: it was called again
  ended,      \* history: the handshake's last answer came or was given up
  stale       \* history: the slot was last freed with a timer or callback active

devVars  == <<type, hid_state, hid_retry_cnt, timer_hdl, init_done, calib_set>>
histVars == <<started, again, ended, stale>>
vars == <<devVars, calib, armed, cb, acks, histVars>>
-----------------------------------------------------------------------------
NextState == IF hid_state = Beyond THEN Beyond ELSE hid_state + 1

Request(s) == CASE s = READ_INFO  -> "info"
                [] s = READ_CALIB -> "603D"
                [] s = EN_RUMBLE  -> "rumble"
                [] OTHER          -> "led"

NextArea(a) == CASE a = "603D" -> "6086"
                 [] a = "6086" -> "6098"
                 [] OTHER      -> "8010"

(* Only a Switch controller answers, or it does not.                        *)
Answered(q, sub) ==
  {q} \cup (IF type = "sw" /\ Len(q) < MaxAck THEN {Append(q, sub)} ELSE {})

(* bt_hid_sw_exec_next_state: send what the state calls for. *)
ExecState(s, q) == acks' \in Answered(q, Request(s))

(* esp_timer_delete refuses a timer that runs; the handle is lost anyway. *)
DeleteTimer == timer_hdl' = NoTimer /\ ended' = TRUE

Init ==
  /\ type = "none"
  /\ hid_state = READ_INFO /\ hid_retry_cnt = 0 /\ timer_hdl = NoTimer
  /\ init_done = FALSE /\ calib_set = FALSE /\ calib = {}
  /\ armed = {} /\ cb = "idle" /\ acks = <<>>
  /\ started = FALSE /\ again = FALSE /\ ended = FALSE /\ stale = FALSE
-----------------------------------------------------------------------------
(* The slot is taken, and freed (bt_host_reset_dev), by the HCI events. *)

Connect(t) ==
  /\ type = "none"
  /\ type' = t
  /\ UNCHANGED <<hid_state, hid_retry_cnt, timer_hdl, init_done, calib_set,
                 calib, armed, cb, acks, histVars>>

Disconnect ==
  /\ type # "none"
  /\ type' = "none"
  /\ hid_state' = READ_INFO /\ hid_retry_cnt' = 0 /\ timer_hdl' = NoTimer
  /\ init_done' = FALSE /\ calib_set' = FALSE
  /\ acks' = <<>>
  /\ started' = FALSE /\ again' = FALSE /\ ended' = FALSE
  /\ stale' = (armed # {} \/ cb # "idle")
  /\ UNCHANGED <<calib, armed, cb>>
-----------------------------------------------------------------------------
(* bt_hid_init, when the interrupt channel is configured *)

(* The previous timer of the slot, if any, keeps running without a handle. *)
HidSwInit ==
  /\ type = "sw" /\ (started => ~again)
  /\ \E t \in Timers \ (armed \cup {timer_hdl}) :
       timer_hdl' = t /\ armed' = armed \cup {t}
  /\ calib' = {}
  /\ started' = TRUE /\ again' = started /\ ended' = FALSE
  /\ UNCHANGED <<type, hid_state, hid_retry_cnt, init_done, calib_set, cb, acks,
                 stale>>

OtherInit ==
  /\ type = "other" /\ ~started
  /\ init_done' = TRUE
  /\ started' = TRUE
  /\ UNCHANGED <<type, hid_state, hid_retry_cnt, timer_hdl, calib_set, calib, armed,
                 cb, acks, again, ended, stale>>
-----------------------------------------------------------------------------
(* bt_hid_sw_init_callback *)

GivesUp == hid_retry_cnt > RetryMax /\ hid_state = SET_LED

CountRestarts == 0

TimerCount(t) ==
  /\ t \in armed /\ cb = "idle"
  /\ armed' = armed \ {t}
  /\ \/ /\ GivesUp
        /\ hid_retry_cnt' = RetryMax + 1  \* only compared with RetryMax from here on
        /\ DeleteTimer
        /\ UNCHANGED <<hid_state, cb>>
     \/ /\ hid_retry_cnt > RetryMax /\ ~GivesUp
        /\ hid_state' = NextState
        /\ hid_retry_cnt' = CountRestarts
        /\ cb' = "send"
        /\ UNCHANGED <<timer_hdl, ended>>
     \/ /\ hid_retry_cnt <= RetryMax
        /\ hid_retry_cnt' = hid_retry_cnt + 1
        /\ cb' = "send"
        /\ UNCHANGED <<hid_state, timer_hdl, ended>>
  /\ UNCHANGED <<type, init_done, calib_set, calib, acks, started, again, stale>>

TimerSend ==
  /\ cb = "send"
  /\ ExecState(hid_state, acks)
  /\ cb' = "start"
  /\ UNCHANGED <<devVars, calib, armed, started, again, ended, stale>>

TimerStartForgets ==  \* mutant: the timer is started on the first attempt only
  /\ cb = "start"
  /\ armed' = IF hid_retry_cnt = 1 THEN armed \cup ({timer_hdl} \cap Timers) ELSE armed
  /\ cb' = "done"
  /\ UNCHANGED <<devVars, calib, acks, histVars>>

(* esp_timer_start_once does nothing for NULL or a timer that runs. *)
TimerStart ==
  /\ cb = "start"
  /\ armed' = armed \cup ({timer_hdl} \cap Timers)
  /\ cb' = "done"
  /\ UNCHANGED <<devVars, calib, acks, histVars>>

TimerDone ==
  /\ cb = "done"
  /\ init_done' = TRUE
  /\ cb' = "idle"
  /\ UNCHANGED <<type, hid_state, hid_retry_cnt, timer_hdl, calib_set, calib, armed, acks,
                 histVars>>
-----------------------------------------------------------------------------
(* bt_hid_sw_hdlr: acknowledgements.  esp_timer_restart only moves the     *)
(* deadline of a timer that runs, which has no place in an untimed model.  *)

Ack(subs) == acks # <<>> /\ Head(acks) \in subs

AckNext ==
  /\ Ack({"info", "rumble"})
  /\ hid_state' = NextState
  /\ ExecState(NextState, Tail(acks))
  /\ UNCHANGED <<type, hid_retry_cnt, timer_hdl, init_done, calib_set, calib, armed, cb,
                 started, again, ended, stale>>

AckArea ==
  /\ Ack(Areas \ {"8010"})
  /\ calib' = calib \cup {Head(acks)}
  /\ acks' \in Answered(Tail(acks), NextArea(Head(acks)))
  /\ UNCHANGED <<devVars, armed, cb, histVars>>

AckLastArea ==
  /\ Ack({"8010"})
  /\ calib' = calib \cup {"8010"}
  /\ calib_set' = TRUE
  /\ hid_state' = NextState
  /\ ExecState(NextState, Tail(acks))
  /\ UNCHANGED <<type, hid_retry_cnt, timer_hdl, init_done, armed, cb,
                 started, again, ended, stale>>

AckLed ==
  /\ Ack({"led"})
  /\ acks' = Tail(acks)
  /\ DeleteTimer
  /\ UNCHANGED <<type, hid_state, hid_retry_cnt, init_done, calib_set, calib, armed, cb,
                 started, again, stale>>

(* bt_fb_task: the feedback report of a Switch controller is a SET_LED too *)
(* unless it carries rumble, which is not acknowledged.                    *)
Feedback ==
  /\ init_done /\ type = "sw"
  /\ acks' \in Answered(acks, "led")
  /\ UNCHANGED <<devVars, calib, armed, cb, started, again, ended, stale>>
-----------------------------------------------------------------------------
Timer == (\E t \in Timers : TimerCount(t)) \/ TimerSend \/ TimerStart \/ TimerDone
AckStep == AckNext \/ AckArea \/ AckLastArea \/ AckLed

Next ==
  \/ \E t \in {"sw", "other"} : Connect(t)
  \/ Disconnect
  \/ HidSwInit \/ OtherInit
  \/ Timer \/ AckStep \/ Feedback

Spec == Init /\ [][Next]_vars

(* Timers expire, the esp_timer task runs, packets received are handled. *)
FairSpec == Spec /\ WF_vars(Timer) /\ WF_vars(AckStep)
-----------------------------------------------------------------------------
(* Every variable stays in its domain. *)
TypeOK ==
  /\ type \in {"none", "sw", "other"}
  /\ hid_state \in HidState /\ hid_retry_cnt \in 0..(RetryMax + 1)
  /\ timer_hdl \in Timers \cup {NoTimer}
  /\ init_done \in BOOLEAN /\ calib_set \in BOOLEAN /\ calib \subseteq Areas
  /\ armed \subseteq Timers /\ cb \in {"idle", "send", "start", "done"}
  /\ acks \in Seq(Subcmds)
  /\ started \in BOOLEAN /\ again \in BOOLEAN /\ ended \in BOOLEAN
  /\ stale \in BOOLEAN

(* BT_DEV_CALIB_SET tells readers of calib[] on the other tasks that all   *)
(* of it was read from this controller: however requests and answers       *)
(* repeat, the flag never covers a part that was skipped or belongs to an  *)
(* earlier controller; only a second bt_hid_init, or one after a request   *)
(* of the timer of the slot's last owner, clears data under it.            *)
CalibComplete == calib_set => calib = Areas \/ again \/ stale

(* While the handshake goes on its timer runs or is about to be started    *)
(* again: no crossing of an answer, a time-out, a second initialisation    *)
(* and the timer of the slot's last owner stalls it.                       *)
NeverStalls ==
  type = "sw" /\ started /\ ~ended => timer_hdl \in armed \/ cb \in {"send", "start"}

(* A slot whose device was not initialised counts as ready, for power-on   *)
(* and port mapping, only when it was freed with its timer still active.   *)
ReadyHasCause == init_done => started \/ stale

(* The slot's initialisation is consistent whatever crosses what.  *)
Inv == TypeOK /\ NeverStalls /\ ReadyHasCause

(* A silent controller does not keep the handshake going forever, unless   *)
(* repeated answers moved it beyond its last state.                        *)
HandshakeStarted == type = "sw" /\ started
HandshakeOver == ended \/ type = "none" \/ hid_state = Beyond
=============================================================================
