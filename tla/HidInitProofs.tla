--------------------------- MODULE HidInitProofs ---------------------------
(***************************************************************************)
(* What HidInit promises in every state: Inv and ReadySound.  Each kind of *)
(* controller has an inductive invariant of its own (SwIInv, LeIInv,       *)
(* WiiIInv), kept by each of its steps; the slot keeps the one of the kind *)
(* it serves.                                                              *)
(***************************************************************************)
EXTENDS HidInit, Integers, Sequences, SequenceTheorems, FiniteSetTheorems, WellFoundedInduction,
        TLAPS

(***************************************************************************)
(* The Switch controller.                                                  *)
(***************************************************************************)

(* What an answer under way says of calib[]: an area is asked for when the *)
(* one before was read.                                                    *)
Before(a) == CASE a = "6086" -> {"603D"}
               [] a = "6098" -> {"603D", "6086"}
               [] a = "8010" -> {"603D", "6086", "6098"}
               [] OTHER -> {}

Due(c) == {a \in Sw!Subcmds : Before(a) \subseteq c}

(* While the handshake goes on it has its timer; a slot that no bt_hid_init *)
(* touched is as it was freed, unless it was freed with a timer active.    *)
SwIInv ==
  /\ Sw!TypeOK /\ Sw!NeverStalls /\ Sw!CalibComplete
  /\ type = "sw" /\ started /\ ~ended => timer_hdl \in Timers
  /\ type = "none" => ~started
  /\ ~stale /\ ~started => acks = <<>> /\ armed = {} /\ cb = "idle" /\ ~init_done /\ ~calib_set
  /\ again => started
  /\ ~stale /\ ~again => acks \in Seq(Due(calib))

LEMMA SwSound == SwIInv => Sw!Inv /\ Sw!CalibComplete
  BY DEF SwIInv, Sw!Inv, Sw!TypeOK, Sw!ReadyHasCause

LEMMA SeqWider ==
  ASSUME NEW S, NEW T, S \subseteq T, NEW q \in Seq(S)
  PROVE  q \in Seq(T)
<1>1. \A i \in 1..Len(q) : q[i] \in T
  OBVIOUS
<1> QED BY <1>1

(* A queue of answers once the head was taken, and one may be due.         *)
LEMMA AnsweredType ==
  ASSUME NEW S, NEW q \in Seq(S), NEW x \in S, NEW a \in Sw!Answered(q, x)
  PROVE  a \in Seq(S)
  BY DEF Sw!Answered

LEMMA TailType ==
  ASSUME NEW S, NEW q \in Seq(S), q # <<>>
  PROVE  Head(q) \in S /\ Tail(q) \in Seq(S)
  OBVIOUS

LEMMA NextStateType == hid_state \in Sw!HidState => Sw!NextState \in Sw!HidState
  BY DEF Sw!HidState, Sw!NextState, Sw!Beyond

LEMMA RequestType == \A s : \A c : Sw!Request(s) \in Sw!Subcmds \cap Due(c)
  BY DEF Sw!Request, Sw!Subcmds, Sw!Areas, Due, Before

LEMMA DueMore ==
  ASSUME NEW c, NEW d, c \subseteq d, NEW q \in Seq(Due(c))
  PROVE  q \in Seq(Due(d))
  BY SeqWider DEF Due

LEMMA SwInitOK == Sw!Init => SwIInv
<1>1. ASSUME Sw!Init PROVE acks \in Seq(Sw!Subcmds) /\ acks \in Seq(Due(calib))
  BY <1>1 DEF Sw!Init
<1>2. ASSUME Sw!Init PROVE Sw!TypeOK
  <2>1. 0 \in 0..4 /\ 0 \in 0..(RetryMax + 1)
    BY SwInitAssumption
  <2> QED BY <1>1, <1>2, <2>1 DEF Sw!Init, Sw!TypeOK, Sw!HidState, Sw!READ_INFO, Sw!Beyond
<1> QED BY <1>1, <1>2 DEF Sw!Init, SwIInv, Sw!NeverStalls, Sw!CalibComplete

LEMMA SwConnect ==
  ASSUME SwIInv, NEW t \in {"sw", "other"}, Sw!Connect(t)
  PROVE  SwIInv'
<1>1. Due(calib)' = Due(calib)
  BY DEF Due, Sw!Connect
<1>0. /\ type = "none" /\ type' \in {"sw", "other"}
      /\ UNCHANGED <<hid_state, hid_retry_cnt, timer_hdl, init_done, calib_set, calib, armed, cb, acks,
                     started, again, ended, stale>>
  BY DEF Sw!Connect, Sw!histVars
<1>2. Sw!TypeOK'
  BY <1>0 DEF SwIInv, Sw!TypeOK
<1>3. Sw!NeverStalls' /\ Sw!CalibComplete'
  BY <1>0 DEF SwIInv, Sw!NeverStalls, Sw!CalibComplete
<1> QED BY <1>0, <1>1, <1>2, <1>3 DEF SwIInv

LEMMA SwDisconnect ==
  ASSUME SwIInv, Sw!Disconnect
  PROVE  SwIInv'
<1>0. /\ type' = "none" /\ hid_state' = 0 /\ hid_retry_cnt' = 0 /\ timer_hdl' = NoTimer
      /\ init_done' = FALSE /\ calib_set' = FALSE /\ acks' = <<>>
      /\ started' = FALSE /\ again' = FALSE /\ ended' = FALSE
      /\ stale' = (armed # {} \/ cb # "idle") /\ UNCHANGED <<calib, armed, cb>>
  BY DEF Sw!Disconnect, Sw!READ_INFO
<1>1. acks' \in Seq(Due(calib)') /\ acks' \in Seq(Sw!Subcmds)
  BY <1>0
<1>2. 0 \in 0..4 /\ 0 \in 0..(RetryMax + 1)
  BY SwInitAssumption
<1>3. Sw!TypeOK'
  BY <1>0, <1>1, <1>2 DEF SwIInv, Sw!TypeOK, Sw!HidState, Sw!Beyond
<1>4. Sw!NeverStalls' /\ Sw!CalibComplete'
  BY <1>0 DEF Sw!NeverStalls, Sw!CalibComplete
<1> QED BY <1>0, <1>1, <1>3, <1>4 DEF SwIInv

LEMMA SwHidSwInit ==
  ASSUME SwIInv, Sw!HidSwInit
  PROVE  SwIInv'
<1>1. PICK t \in Timers \ (armed \cup {timer_hdl}) : timer_hdl' = t /\ armed' = armed \cup {t}
  BY DEF Sw!HidSwInit
<1>2. ~stale /\ ~again' => acks = <<>> /\ acks' \in Seq(Due(calib)')
  BY DEF SwIInv, Sw!HidSwInit
<1>3. ~stale /\ ~started => ~calib_set
  BY DEF SwIInv
<1> QED BY <1>1, <1>2, <1>3 DEF SwIInv, Sw!HidSwInit, Sw!TypeOK, Sw!NeverStalls, Sw!CalibComplete

LEMMA SwOtherInit ==
  ASSUME SwIInv, Sw!OtherInit
  PROVE  SwIInv'
  BY DEF SwIInv, Sw!OtherInit, Sw!TypeOK, Sw!NeverStalls, Sw!CalibComplete, Due

LEMMA SwTimerCount ==
  ASSUME SwIInv, NEW t \in Timers, Sw!TimerCount(t)
  PROVE  SwIInv'
<1>0. /\ t \in armed /\ cb = "idle" /\ armed' = armed \ {t} /\ (cb' = "send" \/ (cb' = "idle" /\ ended'))
      /\ UNCHANGED <<type, init_done, calib_set, calib, acks, started, again, stale>>
      /\ (UNCHANGED <<timer_hdl, ended>> \/ (timer_hdl' = NoTimer /\ ended'))
  BY DEF Sw!TimerCount, Sw!DeleteTimer
<1>1. hid_state' \in Sw!HidState /\ hid_retry_cnt' \in 0..(RetryMax + 1)
  BY NextStateType, SwInitAssumption DEF SwIInv, Sw!TypeOK, Sw!TimerCount, Sw!CountRestarts
<1>2. Due(calib)' = Due(calib)
  BY <1>0 DEF Due
<1>3. Sw!TypeOK'
  BY <1>0, <1>1 DEF SwIInv, Sw!TypeOK
<1>4. Sw!NeverStalls'
  BY <1>0 DEF SwIInv, Sw!NeverStalls
<1>5. Sw!CalibComplete'
  BY <1>0 DEF SwIInv, Sw!CalibComplete
<1> QED BY <1>0, <1>2, <1>3, <1>4, <1>5 DEF SwIInv

LEMMA SwTimerSend ==
  ASSUME SwIInv, Sw!TimerSend
  PROVE  SwIInv'
<1>0. cb = "send" /\ cb' = "start" /\ acks' \in Sw!Answered(acks, Sw!Request(hid_state))
      /\ UNCHANGED <<type, hid_state, hid_retry_cnt, timer_hdl, init_done, calib_set, calib, armed,
                     started, again, ended, stale>>
  BY DEF Sw!TimerSend, Sw!ExecState, Sw!devVars
<1>1. acks' \in Seq(Sw!Subcmds)
  BY <1>0, AnsweredType, RequestType DEF SwIInv, Sw!TypeOK
<1>2. acks \in Seq(Due(calib)) => acks' \in Seq(Due(calib))
  BY <1>0, AnsweredType, RequestType
<1>3. Due(calib)' = Due(calib)
  BY <1>0 DEF Due
<1> QED BY <1>0, <1>1, <1>2, <1>3 DEF SwIInv, Sw!TypeOK, Sw!NeverStalls, Sw!CalibComplete

LEMMA SwTimerEnds ==
  ASSUME SwIInv, Sw!TimerStart \/ Sw!TimerDone
  PROVE  SwIInv'
<1>1. Due(calib)' = Due(calib)
  BY DEF Due, Sw!TimerStart, Sw!TimerDone
<1>0. /\ cb \in {"start", "done"}
      /\ \/ cb = "start" /\ cb' = "done" /\ armed' = armed \cup ({timer_hdl} \cap Timers)
            /\ init_done' = init_done
         \/ cb = "done" /\ cb' = "idle" /\ armed' = armed /\ init_done'
      /\ UNCHANGED <<type, hid_state, hid_retry_cnt, timer_hdl, calib_set, calib, acks,
                     started, again, ended, stale>>
  BY DEF Sw!TimerStart, Sw!TimerDone, Sw!devVars, Sw!histVars
<1>3. Sw!TypeOK'
  BY <1>0 DEF SwIInv, Sw!TypeOK
<1>4. Sw!NeverStalls'
  BY <1>0 DEF SwIInv, Sw!NeverStalls
<1>5. Sw!CalibComplete'
  BY <1>0 DEF SwIInv, Sw!CalibComplete
<1> QED BY <1>0, <1>1, <1>3, <1>4, <1>5 DEF SwIInv

LEMMA SwAckNext ==
  ASSUME SwIInv, Sw!AckNext
  PROVE  SwIInv'
<1>0. /\ acks # <<>> /\ hid_state' = Sw!NextState /\ acks' \in Sw!Answered(Tail(acks), Sw!Request(Sw!NextState))
      /\ UNCHANGED <<type, hid_retry_cnt, timer_hdl, init_done, calib_set, calib, armed, cb,
                     started, again, ended, stale>>
  BY DEF Sw!AckNext, Sw!ExecState, Sw!Ack
<1>1. acks' \in Seq(Sw!Subcmds)
  <2>1. Tail(acks) \in Seq(Sw!Subcmds)
    BY <1>0, TailType DEF SwIInv, Sw!TypeOK
  <2> QED BY <1>0, <2>1, AnsweredType, RequestType
<1>2. ASSUME acks \in Seq(Due(calib)) PROVE acks' \in Seq(Due(calib))
  <2>1. Tail(acks) \in Seq(Due(calib))
    BY <1>0, <1>2, TailType
  <2> QED BY <1>0, <2>1, AnsweredType, RequestType
<1>3. Due(calib)' = Due(calib)
  BY <1>0 DEF Due
<1> QED BY <1>0, <1>1, <1>2, <1>3, NextStateType DEF SwIInv, Sw!TypeOK, Sw!NeverStalls, Sw!CalibComplete

LEMMA SwAckArea ==
  ASSUME SwIInv, Sw!AckArea
  PROVE  SwIInv'
<1> DEFINE a == Head(acks)
           c == calib \cup {a}
<1>0. /\ acks # <<>> /\ a \in {"603D", "6086", "6098"} /\ calib' = c
      /\ acks' \in Sw!Answered(Tail(acks), Sw!NextArea(a))
      /\ UNCHANGED <<type, hid_state, hid_retry_cnt, timer_hdl, init_done, calib_set, armed, cb,
                     started, again, ended, stale>>
  BY DEF Sw!AckArea, Sw!Ack, Sw!Areas, Sw!devVars, Sw!histVars
<1>1. acks' \in Seq(Sw!Subcmds)
  <2>1. Tail(acks) \in Seq(Sw!Subcmds)
    BY <1>0, TailType DEF SwIInv, Sw!TypeOK
  <2>2. Sw!NextArea(a) \in Sw!Subcmds
    BY <1>0 DEF Sw!Subcmds, Sw!Areas, Sw!NextArea
  <2> QED BY <1>0, <2>1, <2>2, AnsweredType
<1>2. ASSUME acks \in Seq(Due(calib))
      PROVE  acks' \in Seq(Due(c))
  <2>1. Tail(acks) \in Seq(Due(c)) /\ a \in Due(calib)
    BY <1>0, <1>2, DueMore
  <2>2. Sw!NextArea(a) \in Due(c)
    BY <1>0, <2>1 DEF Due, Before, Sw!Subcmds, Sw!Areas, Sw!NextArea
  <2> QED BY <1>0, <2>1, <2>2, AnsweredType
<1>3. Due(calib)' = Due(c)
  BY <1>0 DEF Due
<1>4. calib' \subseteq Sw!Areas /\ (calib = Sw!Areas => calib' = Sw!Areas)
  BY <1>0 DEF SwIInv, Sw!TypeOK, Sw!Areas
<1> QED BY <1>0, <1>1, <1>2, <1>3, <1>4 DEF SwIInv, Sw!TypeOK, Sw!NeverStalls, Sw!CalibComplete

LEMMA SwAckLastArea ==
  ASSUME SwIInv, Sw!AckLastArea
  PROVE  SwIInv'
<1> DEFINE c == calib \cup {"8010"}
<1>0. /\ acks # <<>> /\ Head(acks) = "8010" /\ calib' = c /\ calib_set' = TRUE
      /\ hid_state' = Sw!NextState /\ acks' \in Sw!Answered(Tail(acks), Sw!Request(Sw!NextState))
      /\ UNCHANGED <<type, hid_retry_cnt, timer_hdl, init_done, armed, cb, started, again, ended, stale>>
  BY DEF Sw!AckLastArea, Sw!ExecState, Sw!Ack
<1>1. acks' \in Seq(Sw!Subcmds)
  <2>1. Tail(acks) \in Seq(Sw!Subcmds)
    BY <1>0, TailType DEF SwIInv, Sw!TypeOK
  <2> QED BY <1>0, <2>1, AnsweredType, RequestType
<1>2. ASSUME acks \in Seq(Due(calib))
      PROVE  acks' \in Seq(Due(c)) /\ c = Sw!Areas
  <2>1. Tail(acks) \in Seq(Due(c)) /\ Head(acks) \in Due(calib)
    BY <1>0, <1>2, DueMore
  <2>2. c = Sw!Areas
    BY <1>0, <2>1 DEF Due, Before, Sw!Areas, SwIInv, Sw!TypeOK
  <2> QED BY <1>0, <2>1, <2>2, AnsweredType, RequestType
<1>3. Due(calib)' = Due(c)
  BY <1>0 DEF Due
<1>4. calib' \subseteq Sw!Areas
  BY <1>0 DEF SwIInv, Sw!TypeOK, Sw!Areas
<1> QED BY <1>0, <1>1, <1>2, <1>3, <1>4, NextStateType DEF SwIInv, Sw!TypeOK, Sw!NeverStalls, Sw!CalibComplete

LEMMA SwAckLed ==
  ASSUME SwIInv, Sw!AckLed
  PROVE  SwIInv'
<1>0. /\ acks # <<>> /\ acks' = Tail(acks) /\ timer_hdl' = NoTimer /\ ended' = TRUE
      /\ UNCHANGED <<type, hid_state, hid_retry_cnt, init_done, calib_set, calib, armed, cb,
                     started, again, stale>>
  BY DEF Sw!AckLed, Sw!Ack, Sw!DeleteTimer
<1>1. Due(calib)' = Due(calib)
  BY <1>0 DEF Due
<1> QED BY <1>0, <1>1 DEF SwIInv, Sw!TypeOK, Sw!NeverStalls, Sw!CalibComplete

LEMMA SwFeedback ==
  ASSUME SwIInv, Sw!Feedback
  PROVE  SwIInv'
<1>0. /\ init_done /\ acks' \in Sw!Answered(acks, "led")
      /\ UNCHANGED <<type, hid_state, hid_retry_cnt, timer_hdl, init_done, calib_set, calib, armed, cb,
                     started, again, ended, stale>>
  BY DEF Sw!Feedback, Sw!devVars
<1>1. "led" \in Sw!Subcmds /\ \A c : "led" \in Due(c)
  BY DEF Sw!Subcmds, Sw!Areas, Due, Before
<1>2. acks' \in Seq(Sw!Subcmds) /\ (acks \in Seq(Due(calib)) => acks' \in Seq(Due(calib)))
  BY <1>0, <1>1, AnsweredType DEF SwIInv, Sw!TypeOK
<1>3. Due(calib)' = Due(calib)
  BY <1>0 DEF Due
<1> QED BY <1>0, <1>2, <1>3 DEF SwIInv, Sw!TypeOK, Sw!NeverStalls, Sw!CalibComplete

LEMMA SwStep ==
  ASSUME SwIInv, Sw!Next
  PROVE  SwIInv'
<1>1. CASE \E t \in {"sw", "other"} : Sw!Connect(t)
  BY <1>1, SwConnect
<1>2. CASE Sw!Timer
  BY <1>2, SwTimerCount, SwTimerSend, SwTimerEnds DEF Sw!Timer
<1>3. CASE Sw!AckStep
  BY <1>3, SwAckNext, SwAckArea, SwAckLastArea, SwAckLed DEF Sw!AckStep
<1> QED BY <1>1, <1>2, <1>3, SwDisconnect, SwHidSwInit, SwOtherInit, SwFeedback DEF Sw!Next
-----------------------------------------------------------------------------
(***************************************************************************)
(* The LE controller.                                                      *)
(***************************************************************************)
Pairs == {"pairing", "confirm", "random", "enc_info", "ident"}
Reads == {"name", "appearance", "pnp", "prop", "ppcp", "batt", "group", "find", "map", "ref",
          "name_blob", "map_blob", "cfg", "write"}
Atts  == Reads \cup {"mtu"}
Cmds  == {"info", "ltk", "bdaddr", "new_ltk", "left", "right", "user", "led", "reports"}
Items == Pairs \cup Atts \cup Cmds

(* At most one entry of a queue is in a set.                               *)
One(q, A) == \A i, j \in DOMAIN q : q[i] \in A /\ q[j] \in A => i = j

(* What the peer may owe of the discovery in a state of it.                *)
Waits(s) ==
  {x \in Reads : s <= Le!Final /\ Le!Discovery[s + 1] \in Le!Takers[Le!Op[x]]}
    \cup (IF s = 0 THEN {"mtu"} ELSE {})

(* A slot is as it was freed until its discovery begins.                   *)
LeBase ==
  /\ Le!TypeOK
  /\ owed \in Seq(Items) /\ props \subseteq 0..(found - 1)
  /\ ~up => flags = {} /\ owed = <<>> /\ hid_state = 0 /\ type = "none" /\ enc = "off"
  /\ up => type # "none"
  /\ "intr_pending" \notin flags => flags = {} /\ hid_state = 0 /\ type # "sw2" /\ owed \in Seq(Pairs)
  /\ peer \in {"generic", "sw2"} /\ (peer = "generic" => type # "sw2")
  /\ "intr_pending" \in flags /\ hid_state <= 5 => props = {}

(* The reports below report_idx, and past their state all of them, were    *)
(* told to notify.                                                         *)
Told ==
  /\ hid_state = 8 => \A j \in props : j < report_idx => j \in written
  /\ hid_state > 8 => props \subseteq written

LePlain ==
  type # "sw2" =>
    /\ ("init_done" \in flags <=> "intr_ready" \in flags)
    /\ "intr_ready" \in flags => hid_state = 11
    /\ hid_state <= 11
    /\ One(owed, Atts) /\ owed \in Seq(Pairs \cup Waits(hid_state))
    /\ "intr_pending" \in flags => Told

(* A Switch 2 controller is read command by command, in step with          *)
(* hid_state until it refuses a write; the discovery goes on after that.   *)
LeSwitch2 ==
  type = "sw2" =>
    /\ "init_done" \in flags /\ owed \in Seq(Items \ {"mtu"})
    /\ hid_state <= 12 /\ One(owed, Cmds) /\ (hid_state = 12 => owed \in Seq(Items \ Cmds))
    /\ ~derailed =>
         /\ props = {} /\ ("intr_ready" \in flags => hid_state >= 7)
         /\ hid_state >= 7 => "calib_set" \in flags
         /\ owed \in Seq(Pairs \cup (IF hid_state <= 7 THEN {"write", Le!Sw2Of(hid_state)} ELSE Atts))

LeIInv == LeBase /\ LePlain /\ LeSwitch2

(***************************************************************************)
(* Queues.                                                                 *)
(***************************************************************************)
LEMMA OneTail ==
  ASSUME NEW S, NEW A, NEW q \in Seq(S), q # <<>>, One(q, A)
  PROVE  One(Tail(q), A) /\ (Head(q) \in A => Tail(q) \in Seq(S \ A))
<1>1. /\ Len(Tail(q)) = Len(q) - 1 /\ Len(q) \in Nat \ {0} /\ Tail(q) \in Seq(S)
      /\ \A i \in 1..Len(Tail(q)) : Tail(q)[i] = q[i + 1] /\ i + 1 \in 1..Len(q) /\ Tail(q)[i] \in S
  OBVIOUS
<1>2. One(Tail(q), A)
  BY <1>1 DEF One
<1>3. ASSUME Head(q) \in A PROVE Tail(q) \in Seq(S \ A)
  <2>1. 1 \in 1..Len(q) /\ q[1] \in A /\ \A i \in 1..Len(Tail(q)) : i + 1 # 1
    BY <1>1, <1>3
  <2>2. \A i \in 1..Len(Tail(q)) : Tail(q)[i] \in S \ A
    BY <1>1, <2>1 DEF One
  <2>3. \A p \in Seq(S) : (\A i \in 1..Len(p) : p[i] \in S \ A) => p \in Seq(S \ A)
    OBVIOUS
  <2> QED BY <1>1, <2>2, <2>3
<1> QED BY <1>2, <1>3

LEMMA OneAppend ==
  ASSUME NEW S, NEW A, NEW q \in Seq(S), NEW x, One(q, A), x \notin A \/ q \in Seq(S \ A)
  PROVE  One(Append(q, x), A)
<1>1. /\ Len(Append(q, x)) = Len(q) + 1 /\ Len(q) \in Nat /\ Append(q, x)[Len(q) + 1] = x
      /\ \A i \in 1..Len(q) : Append(q, x)[i] = q[i]
  OBVIOUS
<1>2. x \notin A \/ \A i \in 1..Len(q) : q[i] \notin A
  OBVIOUS
<1>3. \A i, j \in 1..Len(q) : q[i] \in A /\ q[j] \in A => i = j
  BY DEF One
<1>4. Append(q, x) \in Seq(S \cup {x})
  OBVIOUS
<1>5. SUFFICES ASSUME NEW i \in 1..(Len(q) + 1), NEW j \in 1..(Len(q) + 1),
                      Append(q, x)[i] \in A, Append(q, x)[j] \in A
               PROVE  i = j
  BY <1>1, <1>4 DEF One
<1> QED BY <1>1, <1>2, <1>3, <1>5

LEMMA OneMore ==
  ASSUME NEW A, NEW S, S \cap A = {}, NEW q \in Seq(S), NEW x
  PROVE  One(Append(q, x), A)
<1>1. q \in Seq(S \ A) /\ q \in Seq(S)
  <2>1. S \ A = S
    OBVIOUS
  <2> QED BY <2>1
<1>2. One(q, A)
  BY <1>1 DEF One
<1> QED BY <1>1, <1>2, OneAppend

LEMMA OneNone ==
  ASSUME NEW S, NEW A, NEW q \in Seq(S \ A)
  PROVE  One(q, A)
  BY DEF One

LEMMA AppendType ==
  ASSUME NEW S, NEW q \in Seq(S), NEW x \in S
  PROVE  Append(q, x) \in Seq(S)
  OBVIOUS

LEMMA ConcatAppend ==
  ASSUME NEW S, NEW q \in Seq(S), NEW x \in S, NEW y \in S
  PROVE  q \o <<>> = q /\ q \o <<x>> = Append(q, x) /\ q \o <<x, y>> = Append(Append(q, x), y)
  OBVIOUS

(***************************************************************************)
(* The tables.                                                             *)
(***************************************************************************)
LEMMA States == Le!Final = 11 /\ Le!StateOf("ref") = 7 /\ Le!StateOf("cfg") = 8 /\ Le!StateOf("init") = 11
<1>1. Le!Final = 11
  BY DEF Le!Final, Le!Discovery
<1>2. /\ Le!Discovery[8] = "ref" /\ \A s \in 0..11 : Le!Discovery[s + 1] = "ref" => s = 7
      /\ Le!Discovery[9] = "cfg" /\ \A s \in 0..11 : Le!Discovery[s + 1] = "cfg" => s = 8
      /\ Le!Discovery[12] = "init" /\ \A s \in 0..11 : Le!Discovery[s + 1] = "init" => s = 11
  BY DEF Le!Discovery
<1>3. 7 \in 0..11 /\ 8 \in 0..11 /\ 11 \in 0..11
  OBVIOUS
<1> QED BY <1>1, <1>2, <1>3 DEF Le!StateOf

LEMMA Items3 == /\ Pairs \cap Atts = {} /\ Pairs \cap Cmds = {} /\ Atts \cap Cmds = {}
                /\ DOMAIN Le!Op = Reads /\ Le!Range(Le!Sw2) = Cmds
<1>1. Le!Range(Le!Sw2) = {Le!Sw2[i] : i \in 1..9}
  BY DEF Le!Range, Le!Sw2
<1>2. {Le!Sw2[i] : i \in 1..9} = Cmds
  BY DEF Le!Sw2, Cmds
<1> QED BY <1>1, <1>2 DEF Pairs, Atts, Reads, Cmds, Le!Op

LEMMA Sw2Names ==
  /\ \A s \in Nat : Le!Sw2Of(s) \in Cmds
  /\ \A s \in 0..12 : IF s <= 7 THEN Le!Exec(s) = <<Le!Sw2Of(s)>> ELSE Le!Exec(s) = <<"write", "write">>
  /\ \A s \in 0..12 : (Le!Sw2Of(s) = "ltk" <=> s = 1) /\ (Le!Sw2Of(s) = "user" <=> s = 6)
  /\ Le!Sw2Of(6) = "user" /\ Le!Sw2Of(0) = "info"
  BY DEF Le!Sw2Of, Le!Sw2, Cmds, Le!Exec

LEMMA WaitsNext ==
  /\ \A s \in 0..10 : Le!Discovery[s + 1] \in Waits(s) /\ Le!Discovery[s + 1] \in Reads
  /\ "name_blob" \in Waits(0) /\ "map_blob" \in Waits(6) /\ "mtu" \in Waits(0)
  /\ Waits(11) = {}
  /\ \A s : Waits(s) \subseteq Atts
<1>1. \A s \in 0..10 : Le!Discovery[s + 1] \in Reads /\ Le!Discovery[s + 1] \in Le!Takers[Le!Op[Le!Discovery[s + 1]]]
  BY DEF Le!Discovery, Reads, Le!Takers, Le!Op
<1>2. /\ "name" \in Le!Takers[Le!Op["name_blob"]] /\ "map" \in Le!Takers[Le!Op["map_blob"]]
      /\ Le!Discovery[1] = "name" /\ Le!Discovery[7] = "map"
  BY DEF Le!Discovery, Le!Takers, Le!Op
<1>3. \A x \in Reads : "init" \notin Le!Takers[Le!Op[x]]
  BY DEF Reads, Le!Takers, Le!Op
<1>4. Le!Discovery[12] = "init"
  BY DEF Le!Discovery
<1>5. 0 <= 11 /\ 6 <= 11 /\ 11 # 0 /\ \A s \in 0..10 : s <= 11
  OBVIOUS
<1> QED BY <1>1, <1>2, <1>3, <1>4, <1>5, States DEF Waits, Atts, Reads

LEMMA Least ==
  ASSUME NEW S \in SUBSET Nat, S # {}
  PROVE  Le!Min(S) \in S /\ \A y \in S : Le!Min(S) <= y
<1> DEFINE T == {0..x : x \in S}
<1>1. T \subseteq FiniteSubsetsOf(Nat) /\ T # {}
  <2>1. \A x \in S : 0 \in Int /\ x \in Int /\ 0..x \in SUBSET Nat
    OBVIOUS
  <2>2. \A x \in S : IsFiniteSet(0..x)
    BY <2>1, FS_Interval
  <2> QED BY <2>1, <2>2 DEF FiniteSubsetsOf
<1>2. PICK a \in T : \A b \in T : ~ (<<b, a>> \in StrictSubsetOrdering(Nat))
  <2> HIDE DEF T
  <2> QED BY <1>1, FS_StrictSubsetOrderingWellFounded, WFMin
<1>3. PICK x \in S : a = 0..x
  OBVIOUS
<1>4. ASSUME NEW y \in S PROVE x <= y
  <2>1. SUFFICES ASSUME y < x PROVE FALSE
    OBVIOUS
  <2>2. 0..y \subseteq 0..x /\ 0..y # 0..x /\ 0..y \in SUBSET Nat /\ 0..x \in SUBSET Nat
    BY <2>1
  <2>3. <<0..y, 0..x>> \in StrictSubsetOrdering(Nat)
    BY <2>2 DEF StrictSubsetOrdering
  <2>4. 0..y \in T
    OBVIOUS
  <2>5. ~ (<<0..y, a>> \in StrictSubsetOrdering(Nat))
    <3> HIDE DEF T
    <3> QED BY <1>2, <2>4
  <2> QED BY <1>3, <2>3, <2>5
<1> QED BY <1>4 DEF Le!Min

(***************************************************************************)
(* What leaves the discovery alone.                                        *)
(***************************************************************************)

(* A queue that owes nothing new but what belongs to the pairing.          *)
Fits(p, q) ==
  /\ \A S \in SUBSET Items : Pairs \subseteq S /\ q \in Seq(S) => p \in Seq(S)
  /\ One(q, Atts) => One(p, Atts)
  /\ One(q, Cmds) => One(p, Cmds)

LEMMA FitsTail ==
  ASSUME NEW q \in Seq(Items), q # <<>>
  PROVE  Fits(Tail(q), q)
<1>1. \A S : q \in Seq(S) => Tail(q) \in Seq(S)
  BY TailType
<1> QED BY <1>1, OneTail DEF Fits

LEMMA FitsAppend ==
  ASSUME NEW q \in Seq(Items), NEW x \in Pairs
  PROVE  Fits(Append(q, x), q)
<1>1. x \notin Atts /\ x \notin Cmds
  BY Items3
<1>2. \A S : Pairs \subseteq S /\ q \in Seq(S) => Append(q, x) \in Seq(S)
  BY AppendType
<1> QED BY <1>1, <1>2, OneAppend DEF Fits

LEMMA FitsSame ==
  ASSUME NEW q
  PROVE  Fits(q, q)
  BY DEF Fits

LEMMA FitsTrans ==
  ASSUME NEW p, NEW q, NEW r, Fits(p, q), Fits(q, r)
  PROVE  Fits(p, r)
  BY DEF Fits

LEMMA ItemSets ==
  /\ \A s : Pairs \cup Waits(s) \in SUBSET Items
  /\ Items \ {"mtu"} \in SUBSET Items /\ Items \ Cmds \in SUBSET Items /\ Pairs \in SUBSET Items
  /\ Pairs \subseteq Items \ {"mtu"} /\ Pairs \subseteq Items \ Cmds
  /\ Pairs \cup Atts \in SUBSET Items
  /\ \A s \in Nat : Pairs \cup {"write", Le!Sw2Of(s)} \in SUBSET Items
<1>1. \A s : Waits(s) \subseteq Items
  BY WaitsNext DEF Items
<1>2. "write" \in Items /\ Cmds \subseteq Items /\ "mtu" \notin Pairs
  BY DEF Items, Atts, Reads, Pairs
<1> QED BY <1>1, <1>2, Items3, Sw2Names DEF Items

KeyTypes ==
  /\ ltk \in {"none", "ltk", "full"} /\ bond \in {"none", "ltk", "full"} /\ rdist \subseteq {"enc"}
  /\ enc \in {"off", "asked", "stk", "on", "failed"}

LEMMA LePairStep ==
  ASSUME LeIInv, up \/ (owed' = owed /\ enc' = enc), KeyTypes', Fits(owed', owed),
         UNCHANGED <<up, flags, type, hid_state, found, props, report_idx, written, peer>>,
         ~derailed' => ~derailed
  PROVE  LeIInv'
<1>1. owed' \in Seq(Items)
  BY ItemSets DEF LeIInv, LeBase, Fits, Items
<1>2. "intr_pending" \notin flags => owed' \in Seq(Pairs)
  BY ItemSets DEF LeIInv, LeBase, Fits
<1>3. LeBase'
  BY <1>1, <1>2 DEF LeIInv, LeBase, Le!TypeOK, KeyTypes
<1>4. /\ Told' = Told /\ \A s : Waits(s)' = Waits(s)
      /\ Le!Sw2Of(hid_state)' = Le!Sw2Of(hid_state)
  BY DEF Told, Waits, Le!Sw2Of
<1>5. type # "sw2" => One(owed', Atts) /\ owed' \in Seq(Pairs \cup Waits(hid_state))
  BY ItemSets DEF LeIInv, LePlain, Fits
<1>6. LePlain'
  BY <1>4, <1>5 DEF LeIInv, LePlain
<1>7. ASSUME type = "sw2"
      PROVE  /\ owed' \in Seq(Items \ {"mtu"}) /\ One(owed', Cmds)
             /\ hid_state = 12 => owed' \in Seq(Items \ Cmds)
             /\ ~derailed => owed' \in Seq(Pairs \cup (IF hid_state <= 7 THEN {"write", Le!Sw2Of(hid_state)} ELSE Atts))
  <2>1. hid_state \in Nat
    BY States DEF LeIInv, LeBase, Le!TypeOK
  <2>2. Pairs \cup (IF hid_state <= 7 THEN {"write", Le!Sw2Of(hid_state)} ELSE Atts) \in SUBSET Items
    BY <2>1, ItemSets
  <2> QED BY <1>7, <2>2, ItemSets DEF LeIInv, LeSwitch2, Fits
<1>8. LeSwitch2'
  BY <1>4, <1>7 DEF LeIInv, LeSwitch2
<1> QED BY <1>3, <1>6, <1>8 DEF LeIInv

(* bt_att_hid_init, whatever comes first of what starts it.                *)
LEMMA LeAttInit ==
  ASSUME LeIInv, up, KeyTypes', NEW next, Fits(next, owed), Le!AttInit(next),
         UNCHANGED <<up, type, hid_state, peer, derailed>>
  PROVE  LeIInv'
<1>1. CASE "intr_pending" \in flags
  BY <1>1, LePairStep DEF Le!AttInit
<1>2. CASE "intr_pending" \notin flags
  <2>0. /\ flags' = {"intr_pending"} /\ found' = 0 /\ props' = {} /\ report_idx' = 0 /\ written' = {}
        /\ owed' = Append(next, "mtu") /\ hid_state = 0 /\ type # "sw2" /\ next \in Seq(Pairs)
    BY <1>2, ItemSets DEF Le!AttInit, LeIInv, LeBase, Fits
  <2>1. owed' \in Seq(Pairs \cup Waits(0)) /\ One(owed', Atts)
    <3>1. next \in Seq(Pairs \cup Waits(0))
      BY <2>0, SeqWider
    <3> QED BY <2>0, <3>1, WaitsNext, AppendType, OneMore, Items3
  <2>2. owed' \in Seq(Items)
    BY <2>1, ItemSets, SeqWider
  <2>3. LeBase'
    BY <2>0, <2>2, LeAssumption, States DEF LeIInv, LeBase, Le!TypeOK, KeyTypes, Le!Flags
  <2> QED BY <2>0, <2>1, <2>3 DEF LeIInv, LePlain, LeSwitch2, Told, Waits
<1> QED BY <1>1, <1>2

LEMMA LeInitOK == Le!Init => LeIInv
<1> SUFFICES ASSUME Le!Init PROVE LeIInv
  OBVIOUS
<1>1. owed = <<>> /\ flags = {} /\ hid_state = 0 /\ type = "none" /\ props = {} /\ found = 0 /\ up = FALSE
  BY DEF Le!Init
<1>2. \A S : owed \in Seq(S)
  BY <1>1
<1>3. One(owed, Atts)
  BY <1>1 DEF One
<1>5. Le!TypeOK
  <2>1. 0 \in 0..(Le!Final + 4) /\ 0 \in 0..MaxReport
    BY LeAssumption, States
  <2> QED BY <1>1, <2>1 DEF Le!Init, Le!TypeOK
<1>4. LeBase
  BY <1>1, <1>2, <1>5 DEF Le!Init, LeBase
<1> QED BY <1>1, <1>2, <1>3, <1>4 DEF LeIInv, LePlain, LeSwitch2

LEMMA LeConnect ==
  ASSUME LeIInv, Le!Connect
  PROVE  LeIInv'
<1>1. /\ ~up /\ up' = TRUE /\ flags' = {} /\ type' = "generic" /\ hid_state' = 0 /\ rdist' = {}
      /\ enc' \in {"off", "asked"} /\ owed' \in {owed \o <<"pairing">>, owed \o <<>>}
      /\ UNCHANGED <<found, props, report_idx, written, ltk, bond, peer>>
  BY DEF Le!Connect, Le!Owe
<1>2. owed = <<>>
  BY <1>1 DEF LeIInv, LeBase
<1>3. owed' \in {<<"pairing">>, <<>>}
  BY <1>1, <1>2
<1>4. owed' \in Seq(Pairs) /\ One(owed', Atts)
  <2>1. "pairing" \in Pairs /\ Pairs \ Atts = Pairs
    BY Items3 DEF Pairs
  <2>2. owed' \in Seq(Pairs)
    <3>1. <<"pairing">> \in Seq(Pairs) /\ <<>> \in Seq(Pairs)
      BY <2>1
    <3> QED BY <1>3, <3>1
  <2> QED BY <2>1, <2>2, OneNone
<1>5. owed' \in Seq(Items) /\ owed' \in Seq(Pairs \cup Waits(0))
  BY <1>4, ItemSets, SeqWider
<1>6. LeBase'
  BY <1>1, <1>4, <1>5, States DEF LeIInv, LeBase, Le!TypeOK
<1> QED BY <1>1, <1>4, <1>5, <1>6 DEF LeIInv, LePlain, LeSwitch2, Waits

LEMMA LeDisconnect ==
  ASSUME LeIInv, Le!Disconnect
  PROVE  LeIInv'
<1>1. /\ up' = FALSE /\ flags' = {} /\ type' = "none" /\ hid_state' = 0 /\ rdist' = {} /\ enc' = "off"
      /\ owed' = <<>> /\ UNCHANGED <<ltk, found, props, report_idx, written, peer, bond>>
  BY DEF Le!Disconnect
<1>2. \A S : owed' \in Seq(S)
  BY <1>1
<1>3. One(owed', Atts)
  BY <1>1 DEF One
<1>5. Le!TypeOK'
  <2>1. 0 \in 0..(Le!Final + 4)
    BY States
  <2> QED BY <1>1, <2>1 DEF LeIInv, LeBase, Le!TypeOK
<1>4. LeBase'
  BY <1>1, <1>2, <1>5 DEF LeIInv, LeBase
<1> QED BY <1>1, <1>2, <1>3, <1>4 DEF LeIInv, LePlain, LeSwitch2

LEMMA LeOwed == LeIInv => owed \in Seq(Items) /\ KeyTypes /\ owed \o <<>> = owed
<1>1. \A q \in Seq(Items) : q \o <<>> = q
  OBVIOUS
<1> QED BY <1>1 DEF LeIInv, LeBase, Le!TypeOK, KeyTypes

LEMMA LePeerForgets ==
  ASSUME LeIInv, Le!PeerForgets
  PROVE  LeIInv'
<1>1. KeyTypes'
  BY LeOwed DEF Le!PeerForgets, KeyTypes
<1> QED BY <1>1, LePairStep, FitsSame DEF Le!PeerForgets, Le!attVars, Le!histVars

LEMMA LeEncryptChange ==
  ASSUME LeIInv, Le!EncryptChange
  PROVE  LeIInv'
<1>1. KeyTypes'
  BY LeOwed DEF Le!EncryptChange, KeyTypes
<1>2. up /\ UNCHANGED <<up, type, hid_state, rdist, asked, peer, derailed>>
  BY DEF Le!EncryptChange, Le!histVars
<1>3. CASE enc = "asked" /\ ltk # bond
  BY <1>1, <1>2, <1>3, LePairStep, FitsSame DEF Le!EncryptChange
<1>4. CASE ~ (enc = "asked" /\ ltk # bond)
  <2>1. PICK x \in {owed \o <<>>, owed \o <<"enc_info", "ident">>} : Le!AttInit(x)
    BY <1>4 DEF Le!EncryptChange
  <2>2. x \in {owed, Append(Append(owed, "enc_info"), "ident")}
    <3>1. "enc_info" \in Items /\ "ident" \in Items
      BY DEF Items, Pairs
    <3>2. owed \o <<"enc_info", "ident">> = Append(Append(owed, "enc_info"), "ident")
      BY <3>1, LeOwed, ConcatAppend
    <3> QED BY <2>1, <3>2, LeOwed
  <2>3. Fits(Append(owed, "enc_info"), owed) /\ Append(owed, "enc_info") \in Seq(Items)
        /\ Fits(Append(Append(owed, "enc_info"), "ident"), Append(owed, "enc_info"))
    BY LeOwed, FitsAppend, AppendType DEF Items, Pairs
  <2>4. Fits(x, owed)
    <3>1. Fits(Append(Append(owed, "enc_info"), "ident"), owed)
      BY <2>3, FitsTrans
    <3> QED BY <2>2, <3>1, FitsSame
  <2> QED BY <1>1, <1>2, <2>1, <2>4, LeAttInit
<1> QED BY <1>3, <1>4

(* The first answer under way is taken, and what belongs to the pairing    *)
(* may be added.                                                           *)
LEMMA LeTake ==
  ASSUME LeIInv, owed # <<>>
  PROVE  /\ Fits(Tail(owed), owed) /\ Tail(owed) \o <<>> = Tail(owed)
         /\ \A x \in Pairs : Fits(Tail(owed) \o <<x>>, owed)
<1>1. Tail(owed) \in Seq(Items) /\ Fits(Tail(owed), owed)
  BY LeOwed, TailType, FitsTail
<1>2. ASSUME NEW x \in Pairs PROVE Fits(Tail(owed) \o <<x>>, owed)
  <2>1. Tail(owed) \o <<x>> = Append(Tail(owed), x)
    BY <1>1
  <2> QED BY <1>1, <2>1, FitsAppend, FitsTrans
<1> QED BY <1>1, <1>2, ConcatAppend DEF Items, Pairs

LEMMA LePairing ==
  ASSUME LeIInv,
         \/ \E keys \in {{}, {"enc"}} : Le!PairingRsp(keys)
         \/ Le!PairingFail \/ Le!PairingConfirm \/ Le!EncryptInfo
  PROVE  LeIInv'
<1>1. KeyTypes'
  BY LeOwed DEF Le!PairingRsp, Le!PairingFail, Le!PairingConfirm, Le!EncryptInfo, KeyTypes, Le!keyVars
<1>2. /\ up /\ owed # <<>> /\ owed' \in {Tail(owed) \o <<>>, Tail(owed) \o <<"random">>}
      /\ UNCHANGED <<up, flags, type, hid_state, found, props, report_idx, written, peer, derailed>>
  BY DEF Le!PairingRsp, Le!PairingFail, Le!PairingConfirm, Le!EncryptInfo, Le!Answers, Le!Rest, Le!attVars,
     Le!histVars
<1>3. Fits(owed', owed)
  BY <1>2, LeTake DEF Pairs
<1> QED BY <1>1, <1>2, <1>3, LePairStep

LEMMA LePairingRandom ==
  ASSUME LeIInv, Le!PairingRandom
  PROVE  LeIInv'
<1>1. KeyTypes'
  BY LeOwed DEF Le!PairingRandom, KeyTypes, Le!keyVars
<1>2. /\ up /\ owed # <<>> /\ UNCHANGED <<up, type, hid_state, peer, derailed>>
      /\ \/ Le!AttInit(Tail(owed))
         \/ owed' = Tail(owed) \o <<>> /\ UNCHANGED <<flags, found, props, report_idx, written>>
  BY DEF Le!PairingRandom, Le!Answers, Le!Rest, Le!histVars
<1>3. Fits(Tail(owed), owed) /\ Fits(Tail(owed) \o <<>>, owed)
  BY <1>2, LeTake
<1> QED BY <1>1, <1>2, <1>3, LePairStep, LeAttInit

LEMMA LeMasterIdent ==
  ASSUME LeIInv, Le!MasterIdent
  PROVE  LeIInv'
<1>1. KeyTypes'
  BY LeOwed DEF Le!MasterIdent, KeyTypes
<1>2. /\ up /\ owed # <<>> /\ UNCHANGED <<up, type, hid_state, peer, derailed>>
      /\ Le!AttInit(Tail(owed))
  BY DEF Le!MasterIdent, Le!Answers, Le!histVars
<1> QED BY <1>1, <1>2, LeTake, LeAttInit

LEMMA LeCallback ==
  ASSUME LeIInv, Le!Callback
  PROVE  LeIInv'
<1>1. /\ enc' \in {enc, "stk"} /\ owed' \in {owed \o <<"confirm">>, owed \o <<>>}
      /\ up \/ (enc' = enc /\ owed' = owed \o <<>>)
      /\ UNCHANGED <<up, flags, type, hid_state, found, props, report_idx, written, ltk, rdist, bond, peer,
                     derailed>>
  BY DEF Le!Callback, Le!Owe, Le!attVars
<1>2. KeyTypes'
  BY <1>1, LeOwed DEF KeyTypes
<1>3. owed \o <<"confirm">> = Append(owed, "confirm") /\ "confirm" \in Pairs
  BY LeOwed DEF Pairs
<1>4. Fits(owed', owed)
  BY <1>1, <1>3, LeOwed, FitsSame, FitsAppend
<1> QED BY <1>1, <1>2, <1>4, LeOwed, LePairStep

(***************************************************************************)
(* The steps of the discovery.                                             *)
(***************************************************************************)
Frame == UNCHANGED <<up, ltk, bond, rdist, enc, peer>>

StateName == IF hid_state <= Le!Final THEN Le!Discovery[hid_state + 1] ELSE "init"

LEMMA StateNames ==
  ASSUME hid_state \in 0..12
  PROVE  /\ StateName = "name" <=> hid_state = 0
         /\ StateName = "group" <=> hid_state = 3
         /\ StateName = "find" <=> hid_state = 4
         /\ StateName = "prop" <=> hid_state = 5
         /\ StateName = "map" <=> hid_state = 6
         /\ StateName = "ref" <=> hid_state = 7
         /\ StateName = "cfg" <=> hid_state = 8
         /\ StateName = "init" <=> hid_state >= 11
  BY States DEF StateName, Le!Discovery

LEMMA LeNextCases ==
  ASSUME hid_state \in 0..10, NEW next, Le!NextState(next), type' # "sw2" \/ "init_done" \in flags
  PROVE  LET s == IF hid_state = 7 /\ props' = {} THEN 9 ELSE hid_state + 1
         IN /\ hid_state' = s
            /\ s < 11 => owed' = Append(next, Le!Discovery[s + 1]) /\ flags' = flags
            /\ s = 8 => report_idx' = Le!Min(props') + 1 /\ written' = written \cup {Le!Min(props')}
            /\ s # 8 => report_idx' \in {0, report_idx} /\ written' = written
            /\ s = 11 /\ type' # "sw2" => owed' = next /\ flags' = flags \cup {"intr_ready", "init_done"}
            /\ s = 11 /\ type' = "sw2" => Le!Sw2Init(flags \cup {"intr_ready"}, 11, next)
<1>1. (hid_state + 1 = 8 /\ props' = {}) <=> (hid_state = 7 /\ props' = {})
  OBVIOUS
<1>2. hid_state = 7 => hid_state + 2 = 9
  OBVIOUS
<1> QED BY <1>1, <1>2, States DEF Le!NextState

(* A report is told to notify: the first one of those that can.            *)
LEMMA FirstOf ==
  ASSUME NEW n \in Nat, NEW P \in SUBSET (0..(n - 1)), P # {}, n \in 0..MaxReport
  PROVE  /\ Le!Min(P) \in P /\ Le!Min(P) + 1 \in 0..MaxReport /\ Le!Min(P) \in 0..(MaxReport - 1)
         /\ \A j \in P : j < Le!Min(P) + 1 => j = Le!Min(P)
<1>1. P \in SUBSET Nat /\ MaxReport \in Nat
  BY LeAssumption
<1>2. Le!Min(P) \in P /\ \A y \in P : Le!Min(P) <= y
  BY <1>1, Least
<1> DEFINE m == Le!Min(P)
<1>0. m \in P
  BY <1>2
<1> HIDE DEF m
<1>3. m \in 0..(n - 1) /\ n <= MaxReport
  BY <1>0, <1>1
<1>4. m + 1 \in 0..MaxReport /\ m \in 0..(MaxReport - 1)
  BY <1>1, <1>3
<1>5. \A j \in P : j < m + 1 => j = m
  BY <1>1, <1>2, <1>3 DEF m
<1> QED BY <1>2, <1>4, <1>5 DEF m

LEMMA LeNextPlain ==
  ASSUME LeIInv, up, Frame, NEW next \in Seq(Pairs), Le!NextState(next), hid_state \in 0..10,
         "intr_pending" \in flags, "init_done" \notin flags, "intr_ready" \notin flags,
         type' = "generic", found' \in 0..MaxReport, props' \subseteq 0..(found' - 1),
         hid_state <= 4 => props' = {}, hid_state >= 8 => props' \subseteq written
  PROVE  LeIInv'
<1> DEFINE s == hid_state'
<1>1. /\ s = (IF hid_state = 7 /\ props' = {} THEN 9 ELSE hid_state + 1)
      /\ s < 11 => owed' = Append(next, Le!Discovery[s + 1]) /\ flags' = flags
      /\ s = 8 => report_idx' = Le!Min(props') + 1 /\ written' = written \cup {Le!Min(props')}
      /\ s # 8 => report_idx' \in {0, report_idx} /\ written' = written
      /\ s = 11 => owed' = next /\ flags' = flags \cup {"intr_ready", "init_done"}
  BY LeNextCases
<1>2. s \in 1..11 /\ s # hid_state /\ (s = 8 => props' # {}) /\ (s <= 5 => hid_state <= 4)
      /\ (s > 8 => hid_state >= 8 \/ props' = {})
  BY <1>1
<1> HIDE DEF s
<1>3. owed' \in Seq(Pairs \cup Waits(s)) /\ One(owed', Atts)
  <2>1. next \in Seq(Pairs \cup Waits(s))
    BY SeqWider
  <2>2. CASE s < 11
    <3>1. s \in 0..10
      BY <1>2, <2>2
    <3>2. Le!Discovery[s + 1] \in Pairs \cup Waits(s)
      BY <3>1, WaitsNext
    <3>3. One(Append(next, Le!Discovery[s + 1]), Atts)
      BY OneMore, Items3
    <3>4. Append(next, Le!Discovery[s + 1]) \in Seq(Pairs \cup Waits(s))
      BY <2>1, <3>2, AppendType
    <3> QED BY <1>1, <2>2, <3>3, <3>4
  <2>3. CASE s = 11
    <3>1. Pairs \ Atts = Pairs
      BY Items3
    <3> QED BY <1>1, <2>1, <2>3, <3>1, OneNone
  <2>4. s < 11 \/ s = 11
    BY <1>2
  <2> QED BY <2>2, <2>3, <2>4
<1>4. report_idx' \in 0..MaxReport /\ written' \subseteq 0..(MaxReport - 1)
      /\ (s = 8 => \A j \in props' : j < report_idx' => j \in written')
  <2>1. CASE s = 8
    <3>0. found' \in Nat
      BY LeAssumption
    <3>1. found' \in Nat /\ props' \in SUBSET (0..(found' - 1)) /\ props' # {}
      BY <1>2, <2>1, <3>0
    <3>2. /\ Le!Min(props') \in props' /\ Le!Min(props') + 1 \in 0..MaxReport
          /\ Le!Min(props') \in 0..(MaxReport - 1)
          /\ \A j \in props' : j < Le!Min(props') + 1 => j = Le!Min(props')
      BY <3>1, FirstOf
    <3> QED BY <1>1, <2>1, <3>2 DEF LeIInv, LeBase, Le!TypeOK
  <2>2. CASE s # 8
    <3>1. 0 \in 0..MaxReport
      BY LeAssumption
    <3> QED BY <1>1, <2>2, <3>1 DEF LeIInv, LeBase, Le!TypeOK
  <2> QED BY <2>1, <2>2
<1>5. flags' \subseteq Le!Flags /\ "intr_pending" \in flags'
      /\ ("init_done" \in flags' <=> "intr_ready" \in flags') /\ ("intr_ready" \in flags' => s = 11)
  <2>1. flags \subseteq Le!Flags /\ {"intr_ready", "init_done"} \subseteq Le!Flags
    BY DEF LeIInv, LeBase, Le!TypeOK, Le!Flags
  <2>2. \/ flags' = flags /\ s < 11
        \/ flags' = flags \cup {"intr_ready", "init_done"} /\ s = 11
    BY <1>1, <1>2
  <2> QED BY <2>1, <2>2
<1>6. written' = written \/ s = 8
  BY <1>1
<1>7. owed' \in Seq(Items)
  BY <1>3, ItemSets, SeqWider
<1>8. props' \subseteq 0..(MaxReport - 1)
  <2>1. \A n \in 0..MaxReport : 0..(n - 1) \subseteq 0..(MaxReport - 1)
    BY LeAssumption
  <2> QED BY <2>1
<1>9. LeBase'
  <2>1. s \in 0..(Le!Final + 4)
    BY <1>2, States
  <2>2. Le!TypeOK'
    BY <1>4, <1>5, <1>8, <2>1 DEF LeIInv, LeBase, Le!TypeOK, Frame, s
  <2> QED BY <1>2, <1>5, <1>7, <2>2 DEF LeIInv, LeBase, Frame, s
<1>10. Told'
  BY <1>2, <1>4, <1>6 DEF Told, s
<1> QED BY <1>2, <1>3, <1>5, <1>9, <1>10 DEF LeIInv, LePlain, LeSwitch2, Waits, s

(* The name says it is a Switch 2 controller.                              *)
LEMMA LeBecomesSw2 ==
  ASSUME LeIInv, up, Frame, NEW next \in Seq(Pairs), Le!NextState(next), hid_state = 0,
         "intr_pending" \in flags, "init_done" \notin flags, "intr_ready" \notin flags,
         type' = "sw2", peer = "sw2", UNCHANGED <<found, props>>
  PROVE  LeIInv'
<1>1. /\ owed' = next \o <<"write">> \o Le!Exec(0) /\ flags' = flags \cup {"init_done"}
      /\ UNCHANGED <<hid_state, report_idx, written>>
  BY DEF Le!NextState, Le!Sw2Init
<1>2. Le!Exec(0) = <<"info">> /\ Le!Sw2Of(0) = "info"
  BY Sw2Names
<1>3. owed' = Append(Append(next, "write"), "info")
  <2>1. "write" \in Items /\ "info" \in Items /\ next \in Seq(Items)
    BY ItemSets, SeqWider DEF Items, Atts, Reads, Cmds
  <2>2. next \o <<"write">> = Append(next, "write") /\ Append(next, "write") \in Seq(Items)
    BY <2>1, ConcatAppend, AppendType
  <2>3. Append(next, "write") \o <<"info">> = Append(Append(next, "write"), "info")
    BY <2>1, <2>2, ConcatAppend
  <2> QED BY <1>1, <1>2, <2>2, <2>3
<1>4. owed' \in Seq(Pairs \cup {"write", "info"}) /\ One(owed', Cmds)
  <2>1. next \in Seq(Pairs \cup {"write"}) /\ (Pairs \cup {"write"}) \cap Cmds = {}
    BY SeqWider, Items3 DEF Cmds
  <2>2. Append(next, "write") \in Seq(Pairs \cup {"write"})
    BY <2>1, AppendType
  <2>3. Append(next, "write") \in Seq(Pairs \cup {"write", "info"})
    BY <2>2, SeqWider
  <2> QED BY <1>3, <2>1, <2>2, <2>3, AppendType, OneMore
<1>5. owed' \in Seq(Items) /\ owed' \in Seq(Items \ {"mtu"})
  <2>1. Pairs \cup {"write", "info"} \subseteq Items \ {"mtu"}
    BY ItemSets DEF Items, Atts, Reads, Cmds
  <2> QED BY <1>4, <2>1, SeqWider
<1>6. props = {}
  BY DEF LeIInv, LeBase
<1>7. Le!TypeOK'
  BY <1>1 DEF LeIInv, LeBase, Le!TypeOK, Le!Flags, Frame
<1>8. LeBase'
  BY <1>1, <1>5, <1>7 DEF LeIInv, LeBase, Frame
<1>9. LeSwitch2'
  BY <1>1, <1>2, <1>4, <1>5, <1>6 DEF LeSwitch2
<1> QED BY <1>8, <1>9 DEF LeIInv, LePlain

LEMMA LeNextSw2 ==
  ASSUME LeIInv, up, Frame, NEW next \in Seq(Items \ {"mtu"}), One(next, Cmds), Le!NextState(next),
         hid_state \in 0..10, type = "sw2", type' = "sw2", "intr_pending" \in flags,
         found' \in 0..MaxReport, props' \subseteq 0..(found' - 1), hid_state <= 4 => props' = {},
         ~derailed' => ~derailed /\ hid_state >= 8 /\ props' = {} /\ next \in Seq(Pairs \cup Atts)
  PROVE  LeIInv'
<1> DEFINE s == hid_state'
<1>0. "init_done" \in flags
  BY DEF LeIInv, LeSwitch2
<1>1. /\ s = (IF hid_state = 7 /\ props' = {} THEN 9 ELSE hid_state + 1)
      /\ s < 11 => owed' = Append(next, Le!Discovery[s + 1]) /\ flags' = flags
      /\ s = 8 => report_idx' = Le!Min(props') + 1 /\ written' = written \cup {Le!Min(props')}
      /\ s # 8 => report_idx' \in {0, report_idx} /\ written' = written
      /\ s = 11 => Le!Sw2Init(flags \cup {"intr_ready"}, 11, next)
  BY <1>0, LeNextCases
<1>2. s \in 1..11 /\ s # hid_state /\ (s = 8 => props' # {}) /\ (s <= 5 => hid_state <= 4)
      /\ (hid_state >= 8 => s >= 9)
  BY <1>1
<1> HIDE DEF s
<1>3. ASSUME NEW S, next \in Seq(S), Reads \subseteq S
      PROVE  owed' \in Seq(S)
  <2>1. CASE s < 11
    <3>1. s \in 0..10
      BY <1>2, <2>1
    <3>2. Le!Discovery[s + 1] \in S
      BY <1>3, <3>1, WaitsNext
    <3>3. Append(next, Le!Discovery[s + 1]) \in Seq(S)
      BY <1>3, <3>2, AppendType
    <3> QED BY <1>1, <2>1, <3>3
  <2>2. CASE s = 11
    <3>1. owed' = next \o <<"write">> \o <<"write", "write">>
      <4>1. 11 \in 0..12 /\ ~(11 <= 7)
        OBVIOUS
      <4>2. Le!Exec(11) = <<"write", "write">>
        BY <4>1, Sw2Names
      <4> QED BY <1>1, <2>2, <4>2 DEF Le!Sw2Init
    <3>2. "write" \in S
      BY <1>3 DEF Reads
    <3>3. next \o <<"write">> \in Seq(S)
      BY <1>3, <3>2
    <3> QED BY <1>3, <3>1, <3>2, <3>3
  <2>3. s < 11 \/ s = 11
    BY <1>2
  <2> QED BY <2>1, <2>2, <2>3
<1>4. One(owed', Cmds)
  <2>1. CASE s < 11
    <3>1. s \in 0..10
      BY <1>2, <2>1
    <3>2. Le!Discovery[s + 1] \notin Cmds
      BY <3>1, WaitsNext, Items3 DEF Atts
    <3>3. One(Append(next, Le!Discovery[s + 1]), Cmds)
      BY <3>2, OneAppend
    <3> QED BY <1>1, <2>1, <3>3
  <2>2. CASE s = 11
    <3>0. "write" \notin Cmds /\ "write" \in Items \ {"mtu"}
      BY DEF Cmds, Items, Atts, Reads
    <3>1. owed' = next \o <<"write">> \o <<"write", "write">>
      <4>1. 11 \in 0..12 /\ ~(11 <= 7)
        OBVIOUS
      <4>2. Le!Exec(11) = <<"write", "write">>
        BY <4>1, Sw2Names
      <4> QED BY <1>1, <2>2, <4>2 DEF Le!Sw2Init
    <3>2. next \o <<"write">> = Append(next, "write")
      BY <3>0, ConcatAppend
    <3>3. Append(next, "write") \in Seq(Items \ {"mtu"}) /\ One(Append(next, "write"), Cmds)
      BY <3>0, AppendType, OneAppend
    <3>4. owed' = Append(Append(Append(next, "write"), "write"), "write")
      BY <3>0, <3>1, <3>2, <3>3, ConcatAppend
    <3>5. Append(Append(next, "write"), "write") \in Seq(Items \ {"mtu"})
          /\ One(Append(Append(next, "write"), "write"), Cmds)
      BY <3>0, <3>3, AppendType, OneAppend
    <3> QED BY <3>0, <3>4, <3>5, OneAppend
  <2>3. s < 11 \/ s = 11
    BY <1>2
  <2> QED BY <2>1, <2>2, <2>3
<1>5. report_idx' \in 0..MaxReport /\ written' \subseteq 0..(MaxReport - 1)
  <2>1. CASE s = 8
    <3>0. found' \in Nat
      BY LeAssumption
    <3>1. found' \in Nat /\ props' \in SUBSET (0..(found' - 1)) /\ props' # {}
      BY <1>2, <2>1, <3>0
    <3>2. Le!Min(props') + 1 \in 0..MaxReport /\ Le!Min(props') \in 0..(MaxReport - 1)
      BY <3>1, FirstOf
    <3> QED BY <1>1, <2>1, <3>2 DEF LeIInv, LeBase, Le!TypeOK
  <2>2. CASE s # 8
    <3>1. 0 \in 0..MaxReport
      BY LeAssumption
    <3> QED BY <1>1, <2>2, <3>1 DEF LeIInv, LeBase, Le!TypeOK
  <2> QED BY <2>1, <2>2
<1>6. flags \subseteq flags' /\ flags' \subseteq Le!Flags
  <2>1. flags \subseteq Le!Flags /\ {"intr_ready", "init_done"} \subseteq Le!Flags
    BY DEF LeIInv, LeBase, Le!TypeOK, Le!Flags
  <2>2. s < 11 \/ s = 11
    BY <1>2
  <2>3. flags' = flags \/ flags' = flags \cup {"intr_ready"} \cup {"init_done"}
    BY <1>1, <2>2 DEF Le!Sw2Init
  <2> QED BY <2>1, <2>3
<1>7. Reads \subseteq Items \ {"mtu"} /\ Reads \subseteq Pairs \cup Atts /\ Reads \subseteq Items
  BY DEF Items, Atts, Reads
<1>8. owed' \in Seq(Items \ {"mtu"}) /\ owed' \in Seq(Items)
  <2>1. owed' \in Seq(Items \ {"mtu"})
    BY <1>3, <1>7
  <2> QED BY <2>1, SeqWider
<1>9. props' \subseteq 0..(MaxReport - 1)
  <2>1. \A n \in 0..MaxReport : 0..(n - 1) \subseteq 0..(MaxReport - 1)
    BY LeAssumption
  <2> QED BY <2>1
<1>10. LeBase'
  <2>1. s \in 0..(Le!Final + 4)
    BY <1>2, States
  <2>2. Le!TypeOK'
    BY <1>5, <1>6, <1>9, <2>1 DEF LeIInv, LeBase, Le!TypeOK, Frame, s
  <2> QED BY <1>2, <1>6, <1>8, <2>2 DEF LeIInv, LeBase, Frame, s
<1>11. LeSwitch2'
  <2>1. ASSUME ~derailed'
        PROVE  /\ props' = {} /\ hid_state' >= 7 /\ "calib_set" \in flags'
               /\ owed' \in Seq(Pairs \cup Atts) /\ ~(hid_state' <= 7)
    <3>1. s >= 9 /\ next \in Seq(Pairs \cup Atts) /\ props' = {}
      BY <1>2, <2>1
    <3>2. "calib_set" \in flags
      BY <2>1 DEF LeIInv, LeSwitch2
    <3>3. owed' \in Seq(Pairs \cup Atts)
      BY <1>3, <1>7, <3>1
    <3> QED BY <1>2, <1>6, <3>1, <3>2, <3>3 DEF s
  <2>2. hid_state' <= 12 /\ hid_state' # 12
    BY <1>2 DEF s
  <2> QED BY <1>0, <1>4, <1>6, <1>8, <2>1, <2>2 DEF LeSwitch2
<1> QED BY <1>10, <1>11 DEF LeIInv, LePlain

(* What an answer or an error does in each state.                          *)
LEMMA LeProcessCases ==
  ASSUME LeBase, hid_state \in 0..12, NEW data \in BOOLEAN, NEW cont \in BOOLEAN, NEW next,
         Le!Process(data, cont, next)
  PROVE  \/ /\ \E x \in Waits(hid_state) \ {"mtu"} : owed' = Append(next, x)
            /\ hid_state <= 8 /\ UNCHANGED <<flags, hid_state, type, found, props>>
            /\ \/ UNCHANGED <<report_idx, written>>
               \/ /\ hid_state = 7 /\ report_idx + 1 < found /\ report_idx' = report_idx + 1
                  /\ written' = written
               \/ /\ hid_state = 8
                  /\ \E i \in props :
                       /\ i >= report_idx /\ \A j \in props : j >= report_idx => i <= j
                       /\ report_idx' = i + 1 /\ written' = written \cup {i}
         \/ /\ owed' = next /\ UNCHANGED <<flags, hid_state, type, found, props, report_idx, written>>
         \/ /\ hid_state <= 10 /\ Le!NextState(next)
            /\ type' \in {type} \cup (IF hid_state = 0 THEN {peer} ELSE {})
            /\ found' = found \/ (hid_state = 4 /\ found' \in 0..MaxReport)
            /\ props' = props \/ (hid_state = 5 /\ props' \subseteq 0..(found - 1))
            /\ found' = found \/ props' = props
            /\ hid_state = 8 => \A j \in props : j < report_idx
<1> DEFINE s == StateName
<1>0. /\ s = "name" <=> hid_state = 0
      /\ s = "group" <=> hid_state = 3
      /\ s = "find" <=> hid_state = 4
      /\ s = "prop" <=> hid_state = 5
      /\ s = "map" <=> hid_state = 6
      /\ s = "ref" <=> hid_state = 7
      /\ s = "cfg" <=> hid_state = 8
      /\ s = "init" <=> hid_state >= 11
  BY StateNames
<1> HIDE DEF s
<1>1. /\ "name_blob" \in Waits(0) /\ "group" \in Waits(3) /\ "find" \in Waits(4) /\ "prop" \in Waits(5)
      /\ "map_blob" \in Waits(6) /\ "ref" \in Waits(7) /\ "cfg" \in Waits(8)
  <2>1. 3 \in 0..10 /\ 4 \in 0..10 /\ 5 \in 0..10 /\ 7 \in 0..10 /\ 8 \in 0..10
    OBVIOUS
  <2>2. /\ Le!Discovery[4] = "group" /\ Le!Discovery[5] = "find" /\ Le!Discovery[6] = "prop"
        /\ Le!Discovery[8] = "ref" /\ Le!Discovery[9] = "cfg"
    BY DEF Le!Discovery
  <2>3. /\ Le!Discovery[3 + 1] \in Waits(3) /\ Le!Discovery[4 + 1] \in Waits(4)
        /\ Le!Discovery[5 + 1] \in Waits(5) /\ Le!Discovery[7 + 1] \in Waits(7) /\ Le!Discovery[8 + 1] \in Waits(8)
    BY <2>1, WaitsNext
  <2>4. 3 + 1 = 4 /\ 4 + 1 = 5 /\ 5 + 1 = 6 /\ 7 + 1 = 8 /\ 8 + 1 = 9
    OBVIOUS
  <2> QED BY <2>2, <2>3, <2>4, WaitsNext
<1> HIDE DEF s
<1>2. CASE s = "name"
  BY <1>0, <1>1, <1>2 DEF Le!Process, StateName, s, Le!Again
<1>3. CASE s = "group"
  BY <1>0, <1>1, <1>3 DEF Le!Process, StateName, s, Le!Again
<1>4. CASE s = "find"
  BY <1>0, <1>1, <1>4 DEF Le!Process, StateName, s, Le!Again
<1>5. CASE s = "prop"
  BY <1>0, <1>1, <1>5 DEF Le!Process, StateName, s, Le!Again
<1>6. CASE s = "map"
  BY <1>0, <1>1, <1>6 DEF Le!Process, StateName, s, Le!Again, Le!Stuck
<1>7. CASE s = "ref"
  BY <1>0, <1>1, <1>7 DEF Le!Process, StateName, s, Le!Again
<1>8. CASE s = "cfg"
  <2>1. CASE \E i \in props : i >= report_idx
    <3> DEFINE R == {j \in props : j >= report_idx}
               i == Le!Min(R)
    <3>1. R \in SUBSET Nat /\ R # {}
      BY <2>1, LeAssumption DEF LeBase, Le!TypeOK
    <3>2. i \in R /\ \A y \in R : i <= y
      BY <3>1, Least
    <3>3. /\ report_idx' = i + 1 /\ written' = written \cup {i} /\ owed' = Append(next, "cfg")
          /\ UNCHANGED <<flags, hid_state, type, found, props>>
      BY <1>8, <2>1 DEF Le!Process, StateName, s
    <3> HIDE DEF i
    <3> QED BY <1>0, <1>1, <1>8, <3>2, <3>3
  <2>2. CASE ~ \E i \in props : i >= report_idx
    <3>1. Le!NextState(next) /\ UNCHANGED <<type, found, props>>
      BY <1>8, <2>2 DEF Le!Process, StateName, s
    <3>2. \A j \in props : j < report_idx
      BY <2>2, LeAssumption DEF LeBase, Le!TypeOK
    <3> QED BY <1>0, <1>8, <3>1, <3>2
  <2> QED BY <2>1, <2>2
<1>9. CASE s = "init"
  BY <1>0, <1>9 DEF Le!Process, StateName, s, Le!Stuck
<1>10. CASE s \notin {"name", "group", "find", "prop", "map", "ref", "cfg", "init"}
  <2>1. Le!NextState(next) /\ UNCHANGED <<type, found, props>>
    BY <1>10 DEF Le!Process, StateName, s
  <2>2. hid_state <= 10 /\ hid_state # 8
    BY <1>0, <1>10
  <2> QED BY <2>1, <2>2
<1> QED BY <1>2, <1>3, <1>4, <1>5, <1>6, <1>7, <1>8, <1>9, <1>10

(* An answer or an error that is taken.                                    *)
LEMMA LeProcessPlain ==
  ASSUME LeIInv, up, Frame, type # "sw2", NEW data \in BOOLEAN, NEW cont \in BOOLEAN,
         owed # <<>>, Head(owed) \in Atts, Le!Process(data, cont, Tail(owed))
  PROVE  LeIInv'
<1> DEFINE next == Tail(owed)
<1>1. /\ owed \in Seq(Pairs \cup Waits(hid_state)) /\ One(owed, Atts) /\ hid_state \in 0..11
      /\ (hid_state = 11 => Waits(hid_state) = {})
  BY WaitsNext, States DEF LeIInv, LePlain, LeBase, Le!TypeOK
<1>2. Head(owed) \in Pairs \cup Waits(hid_state) /\ next \in Seq((Pairs \cup Waits(hid_state)) \ Atts)
  BY <1>1, TailType, OneTail
<1>3. hid_state \in 0..10 /\ next \in Seq(Pairs)
  <2>1. Head(owed) \notin Pairs
    BY Items3
  <2>2. (Pairs \cup Waits(hid_state)) \ Atts \subseteq Pairs
    BY WaitsNext
  <2> QED BY <1>1, <1>2, <2>1, <2>2, SeqWider
<1>4. "intr_pending" \in flags
  <2>1. ASSUME owed \in Seq(Pairs) PROVE Head(owed) \in Pairs
    BY <2>1, TailType
  <2> QED BY <2>1, Items3 DEF LeIInv, LeBase
<1>5. "init_done" \notin flags /\ "intr_ready" \notin flags /\ type = "generic" /\ Told
  BY <1>3, <1>4 DEF LeIInv, LePlain, LeBase, Le!TypeOK
<1>6. found \in 0..MaxReport /\ props \subseteq 0..(found - 1) /\ report_idx \in 0..MaxReport
      /\ (hid_state <= 5 => props = {}) /\ MaxReport \in Nat \ {0}
  BY <1>4, LeAssumption DEF LeIInv, LeBase, Le!TypeOK
<1> HIDE DEF next
<1>7. CASE /\ \E x \in Waits(hid_state) \ {"mtu"} : owed' = Append(next, x)
           /\ hid_state <= 8 /\ UNCHANGED <<flags, hid_state, type, found, props>>
           /\ \/ UNCHANGED <<report_idx, written>>
              \/ /\ hid_state = 7 /\ report_idx + 1 < found /\ report_idx' = report_idx + 1
                 /\ written' = written
              \/ /\ hid_state = 8
                 /\ \E i \in props :
                      /\ i >= report_idx /\ \A j \in props : j >= report_idx => i <= j
                      /\ report_idx' = i + 1 /\ written' = written \cup {i}
  <2>1. owed' \in Seq(Pairs \cup Waits(hid_state)) /\ One(owed', Atts) /\ owed' \in Seq(Items)
    <3>1. PICK x \in Waits(hid_state) : owed' = Append(next, x)
      BY <1>7
    <3>2. next \in Seq(Pairs \cup Waits(hid_state))
      BY <1>3, SeqWider
    <3>3. owed' \in Seq(Pairs \cup Waits(hid_state)) /\ One(owed', Atts)
      BY <1>3, <3>1, <3>2, AppendType, OneMore, Items3
    <3> QED BY <3>3, ItemSets, SeqWider
  <2>2. report_idx' \in 0..MaxReport /\ written' \subseteq 0..(MaxReport - 1)
        /\ (hid_state = 8 => \A j \in props : j < report_idx' => j \in written')
    <3>1. CASE UNCHANGED <<report_idx, written>>
      BY <1>5, <3>1 DEF Told, LeIInv, LeBase, Le!TypeOK
    <3>2. CASE hid_state = 7 /\ report_idx + 1 < found /\ report_idx' = report_idx + 1 /\ written' = written
      BY <1>6, <3>2 DEF LeIInv, LeBase, Le!TypeOK
    <3>3. ASSUME hid_state = 8, NEW i \in props, i >= report_idx, \A j \in props : j >= report_idx => i <= j,
                 report_idx' = i + 1, written' = written \cup {i}
          PROVE  /\ report_idx' \in 0..MaxReport /\ written' \subseteq 0..(MaxReport - 1)
                 /\ \A j \in props : j < report_idx' => j \in written'
      <4>1. i \in 0..(found - 1) /\ \A j \in props : j \in Nat
        BY <1>6
      <4>2. i \in 0..(MaxReport - 1) /\ i + 1 \in 0..MaxReport
        BY <1>6, <4>1
      <4>3. ASSUME NEW j \in props, j < i + 1 PROVE j \in written'
        <5>1. j < report_idx \/ j = i
          BY <1>6, <3>3, <4>1, <4>3
        <5> QED BY <1>5, <3>3, <5>1 DEF Told
      <4> QED BY <3>3, <4>2, <4>3 DEF LeIInv, LeBase, Le!TypeOK
    <3> QED BY <1>7, <3>1, <3>2, <3>3
  <2>3. LeBase'
    BY <1>4, <1>5, <1>7, <2>1, <2>2 DEF LeIInv, LeBase, Le!TypeOK, Frame
  <2>4. Told'
    BY <1>5, <1>7, <2>2 DEF Told
  <2> QED BY <1>3, <1>5, <1>7, <2>1, <2>3, <2>4 DEF LeIInv, LePlain, LeSwitch2, Waits
<1>8. CASE owed' = next /\ UNCHANGED <<flags, hid_state, type, found, props, report_idx, written>>
  <2>1. Pairs \ Atts = Pairs
    BY Items3
  <2>2. owed' \in Seq(Pairs \cup Waits(hid_state)) /\ One(owed', Atts) /\ owed' \in Seq(Items)
    BY <1>3, <1>8, <2>1, OneNone, ItemSets, SeqWider
  <2>3. LeBase'
    BY <1>4, <1>8, <2>2 DEF LeIInv, LeBase, Le!TypeOK, Frame
  <2> QED BY <1>3, <1>5, <1>8, <2>2, <2>3 DEF LeIInv, LePlain, LeSwitch2, Told, Waits
<1>9. CASE /\ hid_state <= 10 /\ Le!NextState(next)
           /\ type' \in {type} \cup (IF hid_state = 0 THEN {peer} ELSE {})
           /\ found' = found \/ (hid_state = 4 /\ found' \in 0..MaxReport)
           /\ props' = props \/ (hid_state = 5 /\ props' \subseteq 0..(found - 1))
           /\ found' = found \/ props' = props
           /\ hid_state = 8 => \A j \in props : j < report_idx
  <2>1. CASE type' = "generic"
    <3>1. found' \in 0..MaxReport /\ props' \subseteq 0..(found' - 1) /\ (hid_state <= 4 => props' = {})
      <4>1. found' \in 0..MaxReport
        BY <1>6, <1>9
      <4>2. hid_state <= 4 => props' = {}
        <5>1. hid_state # 5 => props' = props
          BY <1>9
        <5>2. hid_state <= 4 => hid_state # 5 /\ hid_state <= 5
          BY <1>3
        <5>3. hid_state <= 5 => props = {}
          BY <1>6
        <5> QED BY <5>1, <5>2, <5>3
      <4>3. ASSUME hid_state = 4 PROVE props' = {}
        BY <4>2, <4>3
      <4>4. hid_state # 4 => found' = found
        BY <1>9
      <4>5. props' = props \/ props' \subseteq 0..(found - 1)
        BY <1>9
      <4>6. props' \subseteq 0..(found - 1)
        BY <1>6, <4>5
      <4> QED BY <4>1, <4>2, <4>3, <4>4, <4>6
    <3>2. hid_state >= 8 => props' \subseteq written
      BY <1>3, <1>5, <1>9 DEF Told
    <3> QED BY <1>3, <1>4, <1>5, <1>9, <2>1, <3>1, <3>2, LeNextPlain
  <2>2. CASE type' # "generic"
    <3>1. hid_state = 0 /\ type' = "sw2" /\ peer = "sw2" /\ UNCHANGED <<found, props>>
      BY <1>5, <1>9, <2>2 DEF LeIInv, LeBase
    <3> QED BY <1>3, <1>4, <1>5, <1>9, <3>1, LeBecomesSw2
  <2> QED BY <2>1, <2>2
<1>10. hid_state \in 0..12 /\ LeBase
  BY <1>3 DEF LeIInv
<1> QED BY <1>7, <1>8, <1>9, <1>10, LeProcessCases DEF next

LEMMA LeProcessSw2 ==
  ASSUME LeIInv, up, Frame, type = "sw2", NEW data \in BOOLEAN, NEW cont \in BOOLEAN,
         owed # <<>>, Head(owed) \in Atts, Le!Process(data, cont, Tail(owed)),
         ~derailed' => ~derailed /\ hid_state >= 8
  PROVE  LeIInv'
<1> DEFINE next == Tail(owed)
           late == ~derailed'
<1>1. /\ owed \in Seq(Items \ {"mtu"}) /\ One(owed, Cmds) /\ hid_state \in 0..12
      /\ "init_done" \in flags /\ peer = "sw2"
      /\ late => props = {} /\ "calib_set" \in flags /\ owed \in Seq(Pairs \cup Atts)
      /\ hid_state = 12 => owed \in Seq(Items \ Cmds)
  BY States DEF LeIInv, LeSwitch2, LeBase, Le!TypeOK
<1>2. /\ next \in Seq(Items \ {"mtu"}) /\ One(next, Cmds) /\ (late => next \in Seq(Pairs \cup Atts))
      /\ (hid_state = 12 => next \in Seq(Items \ Cmds))
  <2>1. \A S : owed \in Seq(S) => next \in Seq(S)
    BY TailType
  <2> QED BY <1>1, <2>1, OneTail
<1>4. "intr_pending" \in flags
  BY DEF LeIInv, LeBase
<1>6. found \in 0..MaxReport /\ props \subseteq 0..(found - 1) /\ report_idx \in 0..MaxReport
      /\ (hid_state <= 5 => props = {}) /\ MaxReport \in Nat \ {0}
  BY <1>4, LeAssumption DEF LeIInv, LeBase, Le!TypeOK
<1> HIDE DEF next, late
<1>7. CASE /\ \E x \in Waits(hid_state) \ {"mtu"} : owed' = Append(next, x)
           /\ hid_state <= 8 /\ UNCHANGED <<flags, hid_state, type, found, props>>
           /\ \/ UNCHANGED <<report_idx, written>>
              \/ /\ hid_state = 7 /\ report_idx + 1 < found /\ report_idx' = report_idx + 1
                 /\ written' = written
              \/ /\ hid_state = 8
                 /\ \E i \in props :
                      /\ i >= report_idx /\ \A j \in props : j >= report_idx => i <= j
                      /\ report_idx' = i + 1 /\ written' = written \cup {i}
  <2>1. owed' \in Seq(Items \ {"mtu"}) /\ One(owed', Cmds) /\ owed' \in Seq(Items)
        /\ (late => owed' \in Seq(Pairs \cup Atts))
    <3>1. PICK x \in Waits(hid_state) \ {"mtu"} : owed' = Append(next, x)
      BY <1>7
    <3>2. x \in Items \ {"mtu"} /\ x \in Atts /\ x \notin Cmds
      BY <3>1, WaitsNext, Items3 DEF Items
    <3>3. owed' \in Seq(Items \ {"mtu"}) /\ One(owed', Cmds)
      BY <1>2, <3>1, <3>2, AppendType, OneAppend
    <3>4. ASSUME late PROVE owed' \in Seq(Pairs \cup Atts)
      BY <1>2, <3>1, <3>2, <3>4, AppendType
    <3> QED BY <3>3, <3>4, SeqWider
  <2>2. report_idx' \in 0..MaxReport /\ written' \subseteq 0..(MaxReport - 1)
    <3>1. CASE UNCHANGED <<report_idx, written>>
      BY <3>1 DEF LeIInv, LeBase, Le!TypeOK
    <3>2. CASE hid_state = 7 /\ report_idx + 1 < found /\ report_idx' = report_idx + 1 /\ written' = written
      BY <1>6, <3>2 DEF LeIInv, LeBase, Le!TypeOK
    <3>3. ASSUME NEW i \in props, report_idx' = i + 1, written' = written \cup {i}
          PROVE  report_idx' \in 0..MaxReport /\ written' \subseteq 0..(MaxReport - 1)
      <4>1. i \in 0..(MaxReport - 1) /\ i + 1 \in 0..MaxReport
        BY <1>6
      <4> QED BY <3>3, <4>1 DEF LeIInv, LeBase, Le!TypeOK
    <3> QED BY <1>7, <3>1, <3>2, <3>3
  <2>3. LeBase'
    BY <1>4, <1>7, <2>1, <2>2 DEF LeIInv, LeBase, Le!TypeOK, Frame
  <2> QED BY <1>1, <1>7, <2>1, <2>3 DEF LeIInv, LePlain, LeSwitch2, late
<1>8. CASE owed' = next /\ UNCHANGED <<flags, hid_state, type, found, props, report_idx, written>>
  <2>1. owed' \in Seq(Items)
    BY <1>2, <1>8, SeqWider
  <2>2. LeBase'
    BY <1>4, <1>8, <2>1 DEF LeIInv, LeBase, Le!TypeOK, Frame
  <2> QED BY <1>1, <1>2, <1>8, <2>2 DEF LeIInv, LePlain, LeSwitch2, late
<1>9. CASE /\ hid_state <= 10 /\ Le!NextState(next)
           /\ type' \in {type} \cup (IF hid_state = 0 THEN {peer} ELSE {})
           /\ found' = found \/ (hid_state = 4 /\ found' \in 0..MaxReport)
           /\ props' = props \/ (hid_state = 5 /\ props' \subseteq 0..(found - 1))
           /\ found' = found \/ props' = props
           /\ hid_state = 8 => \A j \in props : j < report_idx
  <2>1. found' \in 0..MaxReport /\ props' \subseteq 0..(found' - 1) /\ (hid_state <= 4 => props' = {})
    <3>1. found' \in 0..MaxReport
      BY <1>6, <1>9
    <3>2. hid_state <= 4 => props' = {}
      <4>1. hid_state # 5 => props' = props
        BY <1>9
      <4>2. hid_state <= 4 => hid_state # 5 /\ hid_state <= 5
        BY <1>1
      <4>3. hid_state <= 5 => props = {}
        BY <1>6
      <4> QED BY <4>1, <4>2, <4>3
    <3>3. ASSUME hid_state = 4 PROVE props' = {}
      BY <3>2, <3>3
    <3>4. hid_state # 4 => found' = found
      BY <1>9
    <3>5. props' = props \/ props' \subseteq 0..(found - 1)
      BY <1>9
    <3>6. props' \subseteq 0..(found - 1)
      BY <1>6, <3>5
    <3> QED BY <3>1, <3>2, <3>3, <3>4, <3>6
  <2>2. type' = "sw2" /\ hid_state \in 0..10
    BY <1>1, <1>9
  <2>3. late => ~derailed /\ hid_state >= 8 /\ props' = {} /\ next \in Seq(Pairs \cup Atts)
    BY <1>1, <1>2, <1>9 DEF late
  <2> QED BY <1>2, <1>4, <1>9, <2>1, <2>2, <2>3, LeNextSw2 DEF late
<1>10. LeBase
  BY DEF LeIInv
<1> QED BY <1>1, <1>7, <1>8, <1>9, <1>10, LeProcessCases DEF next

(* An answer or an error that is only printed.                             *)
LEMMA LeIgnored ==
  ASSUME LeIInv, up, Frame, owed # <<>>, Le!Stuck(Tail(owed)), UNCHANGED <<type, found, props>>,
         ~derailed' => ~derailed
  PROVE  LeIInv'
<1>1. Fits(owed', owed) /\ UNCHANGED <<flags, hid_state, report_idx, written>>
  BY LeTake DEF Le!Stuck
<1>2. KeyTypes'
  BY LeOwed DEF KeyTypes, Frame
<1> QED BY <1>1, <1>2, LePairStep DEF Frame

LEMMA LeMtuRsp ==
  ASSUME LeIInv, Le!MtuRsp
  PROVE  LeIInv'
<1>1. /\ up /\ owed # <<>> /\ Head(owed) = "mtu"
      /\ UNCHANGED <<up, flags, type, found, props, report_idx, written, ltk, bond, rdist, enc, peer, derailed>>
  BY DEF Le!MtuRsp, Le!Answers, Le!keyVars, Le!histVars
<1>2. type # "sw2"
  <2>1. ASSUME owed \in Seq(Items \ {"mtu"}) PROVE Head(owed) # "mtu"
    BY <1>1, <2>1, TailType
  <2> QED BY <1>1, <2>1 DEF LeIInv, LeSwitch2
<1>3. owed \in Seq(Pairs \cup Waits(hid_state)) /\ One(owed, Atts) /\ "mtu" \in Atts /\ "mtu" \notin Pairs
  BY <1>2 DEF LeIInv, LePlain, Atts, Pairs
<1>4. hid_state = 0 /\ Tail(owed) \in Seq((Pairs \cup Waits(hid_state)) \ Atts)
  <2>1. Head(owed) \in Pairs \cup Waits(hid_state)
    BY <1>1, <1>3, TailType
  <2>2. "mtu" \notin Reads
    BY DEF Reads
  <2>3. hid_state = 0
    BY <1>1, <1>3, <2>1, <2>2 DEF Waits
  <2> QED BY <1>1, <1>3, <2>3, OneTail
<1>5. "intr_ready" \notin flags
  BY <1>2, <1>4 DEF LeIInv, LePlain
<1>6. owed' = Tail(owed) \o <<"name">> /\ hid_state' = 0
  BY <1>5 DEF Le!MtuRsp, Le!Rest
<1>7. Tail(owed) \in Seq(Pairs) /\ Tail(owed) \in Seq(Pairs \cup Waits(0))
  <2>1. (Pairs \cup Waits(hid_state)) \ Atts \subseteq Pairs
    BY WaitsNext
  <2>2. Tail(owed) \in Seq(Pairs)
    BY <1>4, <2>1, SeqWider
  <2> QED BY <2>2, SeqWider
<1>8. "name" \in Waits(0)
  <2>1. 0 \in 0..10 /\ Le!Discovery[0 + 1] = "name"
    BY DEF Le!Discovery
  <2> QED BY <2>1, WaitsNext
<1>9. owed' = Append(Tail(owed), "name")
  BY <1>6, <1>7
<1>10. owed' \in Seq(Pairs \cup Waits(0)) /\ One(owed', Atts)
  BY <1>7, <1>8, <1>9, AppendType, OneMore, Items3
<1>11. owed' \in Seq(Items)
  BY <1>10, ItemSets, SeqWider
<1>12. "intr_pending" \in flags
  <2>1. ASSUME owed \in Seq(Pairs) PROVE Head(owed) \in Pairs
    BY <1>1, <2>1, TailType
  <2> QED BY <1>1, <1>3, <2>1 DEF LeIInv, LeBase
<1>13. LeBase'
  BY <1>1, <1>4, <1>6, <1>11, <1>12 DEF LeIInv, LeBase, Le!TypeOK
<1> QED BY <1>1, <1>2, <1>4, <1>6, <1>10, <1>13 DEF LeIInv, LePlain, LeSwitch2, Told, Waits

LEMMA LeAttRsp ==
  ASSUME LeIInv, NEW cont \in BOOLEAN, Le!AttRsp(cont)
  PROVE  LeIInv'
<1>1. up /\ owed # <<>> /\ Head(owed) \in Reads /\ Frame /\ derailed' = derailed
  BY Items3 DEF Le!AttRsp, Frame, Le!keyVars
<1>2. CASE "intr_ready" \notin flags /\ Le!Taken(Head(owed))
  <2>1. Le!Process(TRUE, cont, Tail(owed))
    BY <1>2 DEF Le!AttRsp
  <2>2. CASE type # "sw2"
    BY <1>1, <2>1, <2>2, LeProcessPlain DEF Atts
  <2>3. ASSUME type = "sw2", ~derailed, ~(hid_state >= 8) PROVE FALSE
    <3>1. hid_state \in 0..7 /\ owed \in Seq(Pairs \cup {"write", Le!Sw2Of(hid_state)})
      BY <2>3, States DEF LeIInv, LeBase, LeSwitch2, Le!TypeOK
    <3>2. Head(owed) = "write"
      <4>1. Head(owed) \in Pairs \cup {"write", Le!Sw2Of(hid_state)}
        BY <1>1, <3>1, TailType
      <4>2. Le!Sw2Of(hid_state) \in Cmds
        BY <3>1, Sw2Names
      <4> QED BY <1>1, <4>1, <4>2, Items3 DEF Atts
    <3>3. Le!Discovery[hid_state + 1] = "cfg"
      BY <1>2, <3>2 DEF Le!Taken, Le!Takers, Le!Op
    <3> QED BY <3>1, <3>3 DEF Le!Discovery
  <2>4. CASE type = "sw2"
    BY <1>1, <2>1, <2>3, <2>4, LeProcessSw2 DEF Atts
  <2> QED BY <2>2, <2>4
<1>3. CASE ~ ("intr_ready" \notin flags /\ Le!Taken(Head(owed)))
  <2>1. Le!Stuck(Tail(owed)) /\ UNCHANGED <<type, found, props>>
    BY <1>3 DEF Le!AttRsp
  <2> QED BY <1>1, <2>1, LeIgnored
<1> QED BY <1>2, <1>3

LEMMA LeAttError ==
  ASSUME LeIInv, Le!AttError
  PROVE  LeIInv'
<1>1. /\ up /\ owed # <<>> /\ Head(owed) \in Atts /\ Frame
      /\ derailed' = (derailed \/ Head(owed) = "write")
  BY Items3 DEF Le!AttError, Frame, Le!keyVars, Atts
<1>2. CASE "intr_ready" \notin flags
  <2>1. Le!Process(FALSE, FALSE, Tail(owed))
    BY <1>2 DEF Le!AttError
  <2>2. CASE type # "sw2"
    BY <1>1, <2>1, <2>2, LeProcessPlain
  <2>3. ASSUME type = "sw2", ~derailed, ~(hid_state >= 8) PROVE Head(owed) = "write"
    <3>1. hid_state \in 0..7 /\ owed \in Seq(Pairs \cup {"write", Le!Sw2Of(hid_state)})
      BY <2>3, States DEF LeIInv, LeBase, LeSwitch2, Le!TypeOK
    <3>2. Head(owed) \in Pairs \cup {"write", Le!Sw2Of(hid_state)}
      BY <1>1, <3>1, TailType
    <3>3. Le!Sw2Of(hid_state) \in Cmds
      BY <3>1, Sw2Names
    <3> QED BY <1>1, <3>2, <3>3, Items3
  <2>4. CASE type = "sw2"
    <3>1. ~derailed' => ~derailed /\ hid_state >= 8
      BY <1>1, <2>3, <2>4
    <3> QED BY <1>1, <2>1, <2>4, <3>1, LeProcessSw2
  <2> QED BY <2>2, <2>4
<1>3. CASE "intr_ready" \in flags
  <2>1. Le!Stuck(Tail(owed)) /\ UNCHANGED <<type, found, props>>
    BY <1>3 DEF Le!AttError
  <2>2. ~derailed' => ~derailed
    BY <1>1
  <2> QED BY <1>1, <2>1, <2>2, LeIgnored
<1> QED BY <1>2, <1>3

LEMMA OneConcat == ASSUME NEW S, NEW q \in Seq(S), NEW x PROVE q \o <<x>> = Append(q, x)
  OBVIOUS

LEMMA TwoConcat == ASSUME NEW S, NEW q \in Seq(S), NEW x PROVE q \o <<x, x>> = Append(Append(q, x), x)
  OBVIOUS

(* Commands of a Switch 2 controller, in step or not.                      *)
LEMMA LeSw2Ack ==
  ASSUME LeIInv, NEW same \in BOOLEAN, Le!Sw2Ack(same)
  PROVE  LeIInv'
<1> DEFINE h == hid_state
           s == hid_state'
           next == Tail(owed)
<1>1. /\ up /\ owed # <<>> /\ Head(owed) \in Cmds
      /\ s = h + (IF same THEN 3 ELSE 1) /\ (same => Le!Sw2Of(h) = "ltk")
      /\ owed' = next \o Le!Exec(s)
      /\ ltk' \in {ltk, "ltk"} /\ bond' \in {bond, ltk'}
      /\ flags' \in {flags, flags \cup {"calib_set"}}
      /\ Le!Sw2Of(h) = "user" /\ Head(owed) \notin {"led", "bdaddr"} => flags' = flags \cup {"calib_set"}
      /\ UNCHANGED <<up, type, found, props, report_idx, written, rdist, enc, peer, derailed>>
  BY Items3 DEF Le!Sw2Ack, Le!Rest, Le!histVars
<1>2. type = "sw2"
  <2>1. ASSUME owed \in Seq(Pairs \cup Waits(hid_state)) PROVE Head(owed) \in Pairs \cup Waits(hid_state)
    BY <1>1, <2>1, TailType
  <2>2. Head(owed) \notin Pairs \cup Waits(hid_state)
    BY <1>1, WaitsNext, Items3
  <2> QED BY <2>1, <2>2 DEF LeIInv, LePlain
<1>3. /\ owed \in Seq(Items \ {"mtu"}) /\ One(owed, Cmds) /\ h \in 0..12 /\ "init_done" \in flags
      /\ "intr_pending" \in flags
      /\ h = 12 => owed \in Seq(Items \ Cmds)
      /\ ~derailed =>
           /\ props = {} /\ ("intr_ready" \in flags => h >= 7)
           /\ h >= 7 => "calib_set" \in flags
           /\ owed \in Seq(Pairs \cup (IF h <= 7 THEN {"write", Le!Sw2Of(h)} ELSE Atts))
  BY <1>2, States DEF LeIInv, LeSwitch2, LeBase, Le!TypeOK
<1>4. h \in 0..11
  <2>1. ASSUME owed \in Seq(Items \ Cmds) PROVE Head(owed) \notin Cmds
    BY <1>1, <2>1, TailType
  <2>2. h # 12
    BY <1>1, <1>3, <2>1
  <2> QED BY <1>3, <2>2
<1>5. s \in 1..12 /\ (s = h + 1 \/ (h = 1 /\ s = 4))
  <2>1. Le!Sw2Of(h) = "ltk" <=> h = 1
    BY <1>3, Sw2Names
  <2> QED BY <1>1, <1>4, <2>1
<1>6. next \in Seq((Items \ {"mtu"}) \ Cmds)
  BY <1>1, <1>3, OneTail
<1>7. IF s <= 7 THEN Le!Exec(s) = <<Le!Sw2Of(s)>> /\ Le!Sw2Of(s) \in Cmds ELSE Le!Exec(s) = <<"write", "write">>
  <2>1. s \in 0..12 /\ s \in Nat
    BY <1>5
  <2> HIDE DEF s
  <2> QED BY <2>1, Sw2Names
<1>8. /\ s <= 7 => owed' = Append(next, Le!Sw2Of(s)) /\ Le!Sw2Of(s) \in Cmds
      /\ s > 7 => owed' = Append(Append(next, "write"), "write")
  <2>1. owed' = next \o Le!Exec(s) /\ s \in Int /\ next \in Seq((Items \ {"mtu"}) \ Cmds)
    BY <1>1, <1>5, <1>6
  <2> HIDE DEF s, next
  <2>2. ASSUME s <= 7 PROVE owed' = Append(next, Le!Sw2Of(s)) /\ Le!Sw2Of(s) \in Cmds
    <3>1. Le!Exec(s) = <<Le!Sw2Of(s)>> /\ Le!Sw2Of(s) \in Cmds
      BY <1>7, <2>2
    <3>2. next \o <<Le!Sw2Of(s)>> = Append(next, Le!Sw2Of(s))
      BY <2>1, OneConcat
    <3> QED BY <2>1, <3>1, <3>2
  <2>3. ASSUME s > 7 PROVE owed' = Append(Append(next, "write"), "write")
    <3>1. Le!Exec(s) = <<"write", "write">>
      BY <1>7, <2>1, <2>3
    <3>2. next \o <<"write", "write">> = Append(Append(next, "write"), "write")
      BY <2>1, TwoConcat
    <3> QED BY <2>1, <3>1, <3>2
  <2> QED BY <2>2, <2>3
<1>9. "write" \in Items \ {"mtu"} /\ "write" \notin Cmds /\ "write" \in Atts /\ Cmds \subseteq Items \ {"mtu"}
  BY DEF Items, Atts, Reads, Cmds
<1> HIDE DEF h, s, next
<1>10. s <= 7 => owed' \in Seq(Items \ {"mtu"}) /\ One(owed', Cmds)
  <2> SUFFICES ASSUME s <= 7 PROVE owed' \in Seq(Items \ {"mtu"}) /\ One(owed', Cmds)
    OBVIOUS
  <2>1. next \in Seq(Items \ {"mtu"})
    BY <1>6, SeqWider
  <2>2. ((Items \ {"mtu"}) \ Cmds) \cap Cmds = {}
    OBVIOUS
  <2>3. PICK x \in Cmds : owed' = Append(next, x)
    BY <1>8
  <2>4. Append(next, x) \in Seq(Items \ {"mtu"})
    BY <1>9, <2>1, AppendType
  <2>5. One(Append(next, x), Cmds)
    BY <1>6, <2>2, OneMore
  <2> QED BY <2>3, <2>4, <2>5
<1>11. s > 7 => owed' \in Seq((Items \ {"mtu"}) \ Cmds)
  <2> SUFFICES ASSUME s > 7 PROVE owed' \in Seq((Items \ {"mtu"}) \ Cmds)
    OBVIOUS
  <2>1. Append(next, "write") \in Seq((Items \ {"mtu"}) \ Cmds)
    BY <1>6, <1>9, AppendType
  <2> QED BY <1>8, <1>9, <2>1, AppendType
<1>12. /\ owed' \in Seq(Items) /\ owed' \in Seq(Items \ {"mtu"}) /\ One(owed', Cmds)
       /\ s = 12 => owed' \in Seq(Items \ Cmds)
  <2>1. CASE s <= 7
    BY <1>5, <1>10, <2>1, SeqWider
  <2>2. CASE s > 7
    <3>1. owed' \in Seq(Items \ {"mtu"}) /\ owed' \in Seq(Items \ Cmds) /\ owed' \in Seq(Items)
      BY <1>11, <2>2, SeqWider
    <3>2. owed' \in Seq(Items \ Cmds) => One(owed', Cmds)
      BY OneNone
    <3> QED BY <3>1, <3>2
  <2> QED BY <1>5, <2>1, <2>2
<1>13. ASSUME ~derailed
       PROVE  /\ props = {} /\ ("intr_ready" \in flags' => s >= 7)
              /\ s >= 7 => "calib_set" \in flags'
              /\ owed' \in Seq(Pairs \cup (IF s <= 7 THEN {"write", Le!Sw2Of(s)} ELSE Atts))
  <2>1. Head(owed) \in Pairs \cup (IF h <= 7 THEN {"write", Le!Sw2Of(h)} ELSE Atts)
    BY <1>1, <1>3, <1>13, TailType
  <2>2. h <= 7 /\ Head(owed) = Le!Sw2Of(h)
    BY <1>1, <1>9, <2>1, Items3
  <2>3. s \in 1..8
    BY <1>4, <1>5, <2>2
  <2>4. next \in Seq(Pairs \cup {"write"})
    <3>1. next \in Seq((Pairs \cup {"write", Le!Sw2Of(h)}) \ Cmds)
      <4>1. owed \in Seq(Pairs \cup {"write", Le!Sw2Of(h)})
        BY <1>3, <1>13, <2>2
      <4> QED BY <1>1, <1>3, <4>1, OneTail DEF next
    <3>2. (Pairs \cup {"write", Le!Sw2Of(h)}) \ Cmds \subseteq Pairs \cup {"write"}
      BY <1>1, <2>2
    <3> QED BY <3>1, <3>2, SeqWider
  <2>5. s <= 7 => owed' \in Seq(Pairs \cup {"write", Le!Sw2Of(s)})
    <3> SUFFICES ASSUME s <= 7 PROVE owed' \in Seq(Pairs \cup {"write", Le!Sw2Of(s)})
      OBVIOUS
    <3>1. next \in Seq(Pairs \cup {"write", Le!Sw2Of(s)})
      BY <2>4, SeqWider
    <3> QED BY <1>8, <3>1, AppendType
  <2>6. s > 7 => owed' \in Seq(Pairs \cup Atts)
    <3> SUFFICES ASSUME s > 7 PROVE owed' \in Seq(Pairs \cup Atts)
      OBVIOUS
    <3>1. next \in Seq(Pairs \cup Atts)
      BY <1>9, <2>4, SeqWider
    <3>2. Append(next, "write") \in Seq(Pairs \cup Atts)
      BY <1>9, <3>1, AppendType
    <3> QED BY <1>8, <1>9, <3>2, AppendType
  <2>7. s >= 7 => "calib_set" \in flags'
    <3>1. s >= 7 => h = 6 \/ h = 7
      BY <1>4, <1>5, <2>2
    <3>2. h = 7 => "calib_set" \in flags'
      BY <1>1, <1>3, <1>13
    <3>3. h = 6 => "calib_set" \in flags'
      BY <1>1, <2>2, Sw2Names DEF h
    <3> QED BY <3>1, <3>2, <3>3
  <2>8. "intr_ready" \in flags' => s >= 7
    <3>1. "intr_ready" \in flags' => "intr_ready" \in flags
      BY <1>1
    <3> QED BY <1>3, <1>4, <1>5, <1>13, <3>1
  <2> QED BY <1>3, <1>5, <1>13, <2>5, <2>6, <2>7, <2>8
<1>14. LeBase'
  <2>1. s \in 0..(Le!Final + 4) /\ (s <= 5 => h <= 5)
    BY <1>4, <1>5, States
  <2>2. flags' \subseteq Le!Flags /\ "intr_pending" \in flags'
    BY <1>1, <1>3 DEF LeIInv, LeBase, Le!TypeOK, Le!Flags
  <2>3. Le!TypeOK'
    BY <1>1, <2>1, <2>2 DEF LeIInv, LeBase, Le!TypeOK, s
  <2> QED BY <1>1, <1>2, <1>3, <1>12, <2>1, <2>2, <2>3 DEF LeIInv, LeBase, s, h
<1>15. LeSwitch2'
  <2>1. s <= 12 /\ "init_done" \in flags'
    BY <1>1, <1>3, <1>5
  <2>2. UNCHANGED <<derailed, props>>
    BY <1>1
  <2> QED BY <1>12, <1>13, <2>1, <2>2 DEF LeSwitch2, s
<1> QED BY <1>1, <1>2, <1>14, <1>15 DEF LeIInv, LePlain

LEMMA LeStep ==
  ASSUME LeIInv, Le!Next
  PROVE  LeIInv'
<1>1. CASE Le!Arrives
  BY <1>1, LeEncryptChange, LeCallback, LePairing, LePairingRandom, LeMasterIdent, LeSw2Ack, LeMtuRsp,
     LeAttRsp, LeAttError DEF Le!Arrives
<1> QED BY <1>1, LeConnect, LeDisconnect, LePeerForgets DEF Le!Next

LEMMA LeSound == LeIInv => Le!Inv /\ Le!ReadySound
<1> SUFFICES ASSUME LeIInv PROVE Le!Inv /\ Le!ReadySound
  OBVIOUS
<1>1. Le!InStep
  <2> SUFFICES ASSUME type # "sw2" PROVE
        LET att == {i \in DOMAIN owed : owed[i] \in DOMAIN Le!Op \cup {"mtu"}}
        IN /\ \A i, j \in att : i = j
           /\ \A i \in att : owed[i] = "mtu" \/ Le!Taken(owed[i])
    BY DEF Le!InStep, LeIInv, LeBase
  <2>1. One(owed, Atts) /\ owed \in Seq(Pairs \cup Waits(hid_state)) /\ DOMAIN Le!Op \cup {"mtu"} = Atts
    BY Items3 DEF LeIInv, LePlain, Atts
  <2>2. ASSUME NEW i \in DOMAIN owed, owed[i] \in Atts, owed[i] # "mtu" PROVE Le!Taken(owed[i])
    <3>1. owed[i] \in Waits(hid_state)
      BY <2>1, <2>2, Items3
    <3> QED BY <2>2, <3>1 DEF Waits, Le!Taken
  <2> QED BY <2>1, <2>2 DEF One
<1>2. Le!ReadySound
  <2> SUFFICES ASSUME "intr_ready" \in flags, ~derailed
               PROVE  up /\ props \subseteq written /\ (type = "sw2" => {"init_done", "calib_set"} \subseteq flags)
    BY DEF Le!ReadySound
  <2>1. up /\ "intr_pending" \in flags
    BY DEF LeIInv, LeBase
  <2>2. CASE type = "sw2"
    BY <2>1, <2>2 DEF LeIInv, LeSwitch2
  <2>3. CASE type # "sw2"
    <3>1. hid_state = 11 /\ Told
      BY <2>1, <2>3 DEF LeIInv, LePlain
    <3> QED BY <2>1, <2>3, <3>1 DEF Told
  <2> QED BY <2>2, <2>3
<1> QED BY <1>1, <1>2 DEF LeIInv, LeBase, Le!Inv
-----------------------------------------------------------------------------
(***************************************************************************)
(* The Wii Remote.                                                         *)
(***************************************************************************)
(* One x in q, what comes before it in Y and what comes after it in Z.     *)
Split(q, x, Y, Z) ==
  \E k \in 1..Len(q) : /\ q[k] = x
                       /\ \A i \in 1..Len(q) : (i < k => q[i] \in Y) /\ (i > k => q[i] \in Z)

(* Some entry of q is in S.                                                *)
Has(q, S) == \E i \in 1..Len(q) : q[i] \in S

LEMMA SeqOf == ASSUME NEW T, NEW q \in Seq(T), NEW S, \A i \in 1..Len(q) : q[i] \in S PROVE q \in Seq(S)
  OBVIOUS

LEMMA SplitTail ==
  ASSUME NEW S, NEW q \in Seq(S), NEW x, NEW Y, NEW Z, Split(q, x, Y, Z), q # <<>>
  PROVE  \/ Head(q) = x /\ Tail(q) \in Seq(Z)
         \/ Head(q) \in Y /\ Split(Tail(q), x, Y, Z)
<1>1. PICK k \in 1..Len(q) : /\ q[k] = x
                             /\ \A i \in 1..Len(q) : (i < k => q[i] \in Y) /\ (i > k => q[i] \in Z)
  BY DEF Split
<1>2. /\ Len(q) \in Nat /\ Len(Tail(q)) = Len(q) - 1 /\ Head(q) = q[1] /\ Tail(q) \in Seq(S)
      /\ \A i \in 1..Len(Tail(q)) : Tail(q)[i] = q[i + 1] /\ i + 1 \in 1..Len(q)
  OBVIOUS
<1>3. CASE k = 1
  <2>1. \A i \in 1..Len(Tail(q)) : Tail(q)[i] \in Z
    BY <1>1, <1>2, <1>3
  <2> QED BY <1>1, <1>2, <1>3, <2>1, SeqOf
<1>4. CASE k # 1
  <2>1. k - 1 \in 1..Len(Tail(q)) /\ 1 \in 1..Len(q) /\ 1 < k
    BY <1>1, <1>2, <1>4
  <2>2. Tail(q)[k - 1] = x
    BY <1>1, <1>2, <2>1
  <2>3. \A i \in 1..Len(Tail(q)) : (i < k - 1 => Tail(q)[i] \in Y) /\ (i > k - 1 => Tail(q)[i] \in Z)
    BY <1>1, <1>2
  <2>4. Split(Tail(q), x, Y, Z)
    BY <2>1, <2>2, <2>3 DEF Split
  <2> QED BY <1>1, <1>2, <2>1, <2>4
<1> QED BY <1>3, <1>4

LEMMA SplitAppend ==
  ASSUME NEW S, NEW q \in Seq(S), NEW x, NEW Y, NEW Z, Split(q, x, Y, Z), NEW z \in Z
  PROVE  Split(Append(q, z), x, Y, Z)
<1>1. PICK k \in 1..Len(q) : /\ q[k] = x
                             /\ \A i \in 1..Len(q) : (i < k => q[i] \in Y) /\ (i > k => q[i] \in Z)
  BY DEF Split
<1> DEFINE p == Append(q, z)
<1>2. /\ Len(q) \in Nat /\ Len(p) = Len(q) + 1 /\ p[Len(q) + 1] = z
      /\ \A i \in 1..Len(q) : p[i] = q[i]
  OBVIOUS
<1> HIDE DEF p
<1>3. \A i \in 1..Len(p) : i \in 1..Len(q) \/ (i = Len(q) + 1 /\ i > k)
  BY <1>2
<1>4. k \in 1..Len(p) /\ p[k] = x
  BY <1>1, <1>2
<1>5. \A i \in 1..Len(p) : (i < k => p[i] \in Y) /\ (i > k => p[i] \in Z)
  BY <1>1, <1>2, <1>3
<1>6. Split(p, x, Y, Z)
  BY <1>4, <1>5 DEF Split
<1> QED BY <1>6 DEF p

LEMMA SplitNew ==
  ASSUME NEW Y, NEW q \in Seq(Y), NEW x, NEW Z
  PROVE  Split(Append(q, x), x, Y, Z)
<1> DEFINE p == Append(q, x)
           n == Len(q) + 1
<1>1. n \in 1..Len(p) /\ p[n] = x /\ Len(p) = n
  OBVIOUS
<1>2. \A i \in 1..Len(p) : (i < n => p[i] \in Y) /\ ~ (i > n)
  OBVIOUS
<1> HIDE DEF p, n
<1>3. Split(p, x, Y, Z)
  BY <1>1, <1>2 DEF Split
<1> QED BY <1>3 DEF p

LEMMA HasTail ==
  ASSUME NEW T, NEW q \in Seq(T), NEW S, Has(q, S), q # <<>>
  PROVE  Head(q) \in S \/ Has(Tail(q), S)
<1>1. PICK i \in 1..Len(q) : q[i] \in S
  BY DEF Has
<1>2. CASE i = 1
  BY <1>1, <1>2
<1>3. CASE i # 1
  <2>1. i - 1 \in 1..Len(Tail(q)) /\ Tail(q)[i - 1] = q[i]
    BY <1>1, <1>3
  <2> QED BY <1>1, <2>1 DEF Has
<1> QED BY <1>2, <1>3

LEMMA HasAppend ==
  ASSUME NEW T, NEW q \in Seq(T), NEW S, NEW x, Has(q, S) \/ x \in S
  PROVE  Has(Append(q, x), S)
<1> DEFINE p == Append(q, x)
<1>1. /\ Len(q) \in Nat /\ Len(p) = Len(q) + 1 /\ p[Len(q) + 1] = x
      /\ \A i \in 1..Len(q) : p[i] = q[i] /\ i \in 1..Len(p)
  OBVIOUS
<1> HIDE DEF p
<1>2. CASE x \in S
  <2>1. Len(q) + 1 \in 1..Len(p)
    BY <1>1
  <2>2. Has(p, S)
    BY <1>1, <1>2, <2>1 DEF Has
  <2> QED BY <2>2 DEF p
<1>3. CASE Has(q, S)
  <2>1. Has(p, S)
    BY <1>1, <1>3 DEF Has
  <2> QED BY <2>1 DEF p
<1> QED BY <1>2, <1>3

(***************************************************************************)
(* What is under way, and its invariant.                                   *)
(***************************************************************************)
Exts == {"nunchuk", "classic", "classic 8bit"}
Wakes == {"init0", "init1", "8bit"}
Answers == {<<"ack", "done">>, <<"ack", "error">>}
Silence == <<"data", "unknown">>
Data == {"data"} \X (Exts \cup {"unknown"})
Reports == {"report"} \X Exts
Statuses == {<<"status", "plugged">>, <<"status", "empty">>}
Rsps == Answers \cup Data \cup Reports \cup Statuses
Noise == Reports \cup {Silence}

(* A remote that does not report has something under way that ends in the  *)
(* report mode.                                                            *)
ToReport ==
  \/ Has(reqs, {"rep", "type"}) \/ Has(rsps, Data \cup Statuses)
  \/ hid_state < 4 /\ (Has(reqs, Wakes) \/ Has(rsps, Answers))

(* Nothing plugged: its status is the last of those under way, or was      *)
(* handled; nothing that comes after it tells a type.                      *)
Empty ==
  LET Mute == Answers \cup {Silence} IN
  \/ rsps \in Seq(Mute) /\ subtype = "default"
  \/ Split(rsps, <<"status", "empty">>, Rsps, Mute)

(* A status that something was plugged is the last one, and an             *)
(* acknowledgement follows it.                                             *)
Late(q) ==
  \E k, j \in 1..Len(q) :
    /\ k < j /\ q[k] = <<"status", "plugged">> /\ q[j] \in Answers
    /\ \A i \in 1..Len(q) : i > k => q[i] \in Rsps \ Statuses

(* Something plugged, its status under way: it was not written to, or an   *)
(* acknowledgement follows the status.                                     *)
Waking ==
  \/ woken = 0 /\ ~eight /\ Split(rsps, <<"status", "plugged">>, Rsps, {Silence})
  \/ Late(rsps)

(* One request, or one answer, of the chain is under way, besides requests *)
(* to report and what is decoded without effect.                           *)
Asks(req) == Split(reqs, req, {"rep"}, {"rep"}) /\ rsps \in Seq(Noise)
Gets(rsp, after) == reqs \in Seq({"rep"}) /\ Split(rsps, rsp, Noise, after)
Acked(done) == Gets(<<"ack", IF done THEN "done" ELSE "error">>, Noise)

(* The chain of requests and answers, one at a time, until it is over.     *)
TypeTold == Gets(<<"data", plugged>>, {<<"report", plugged>>})
EightTold == Gets(<<"data", "classic 8bit">>, {<<"report", "classic 8bit">>})
Over ==
  /\ woken = 2 /\ reqs \in Seq({"rep"}) /\ rsps \in Seq({<<"report", subtype>>})
  /\ (plugged = "classic") = eight
  /\ subtype = (IF eight THEN "classic 8bit" ELSE plugged)

Chain ==
  \/ hid_state = 0 /\ ~eight /\ \/ woken = 0 /\ (Asks("init0") \/ Acked(FALSE))
                                \/ woken = 1 /\ Acked(TRUE)
  \/ hid_state = 1 /\ ~eight /\ \/ woken = 1 /\ (Asks("init1") \/ Acked(FALSE))
                                \/ woken = 2 /\ Acked(TRUE)
  \/ hid_state = 2 /\ ~eight /\ woken = 2 /\ (Asks("type") \/ TypeTold)
  \/ /\ hid_state = 3 /\ woken = 2 /\ plugged = "classic"
     /\ \/ ~eight /\ (Asks("8bit") \/ Acked(FALSE))
        \/ eight /\ Acked(TRUE)
  \/ /\ hid_state = 4 /\ woken = 2 /\ plugged = "classic" /\ eight
     /\ Asks("type") \/ EightTold
  \/ Over

(* A slot that is free.                                                    *)
Off == /\ hid_state = 0 /\ subtype = "default" /\ plugged = "none"
       /\ reqs = <<>> /\ rsps = <<>>

WiiIInv ==
  /\ Wii!TypeOK
  /\ reqs \in Seq(Wakes \cup {"type", "rep"}) /\ rsps \in Seq(Rsps)
  /\ type = "none" => Off
  /\ type = "wii" /\ ~reporting => ToReport
  /\ plugged = "none" => woken = 0 /\ ~eight /\ Empty
  /\ plugged # "none" => Waking \/ (rsps \in Seq(Rsps \ Statuses) /\ (crossed \/ Chain))

LEMMA SecondOf == ASSUME NEW r, NEW a, NEW b, r = <<a, b>> PROVE r[1] = a /\ r[2] = b
  OBVIOUS

LEMMA RspKinds ==
  ASSUME NEW r \in Rsps
  PROVE  /\ r[1] = "ack" <=> r \in Answers
         /\ r[1] = "data" <=> r \in Data
         /\ r[1] = "report" <=> r \in Reports
         /\ r[1] = "status" <=> r \in Statuses
<1>1. CASE r \in Answers
  BY <1>1 DEF Answers, Data, Reports, Statuses
<1>2. CASE r \in Data
  BY <1>2 DEF Answers, Data, Reports, Statuses
<1>3. CASE r \in Reports
  BY <1>3 DEF Answers, Data, Reports, Statuses
<1>4. CASE r \in Statuses
  BY <1>4 DEF Answers, Data, Reports, Statuses
<1> QED BY <1>1, <1>2, <1>3, <1>4 DEF Rsps

LEMMA RspSets ==
  /\ Answers \cap Data = {} /\ Answers \cap Reports = {} /\ Answers \cap Statuses = {}
  /\ Data \cap Reports = {} /\ Data \cap Statuses = {} /\ Reports \cap Statuses = {}
  /\ Silence \in Data /\ Noise \subseteq Rsps \ Statuses
  /\ Answers \subseteq Rsps /\ Data \subseteq Rsps /\ Reports \subseteq Rsps /\ Statuses \subseteq Rsps
<1>1. /\ \A r \in Answers : r[1] = "ack"
      /\ \A r \in Data : r[1] = "data"
      /\ \A r \in Reports : r[1] = "report"
      /\ \A r \in Statuses : r[1] = "status"
  BY DEF Answers, Data, Reports, Statuses
<1>2. Silence \in Data
  BY DEF Silence, Data
<1> QED BY <1>1, <1>2 DEF Rsps, Noise

LEMMA ExtTypes ==
  plugged \in {"none", "nunchuk", "classic"} => Wii!ExtType \in Exts \cup {"unknown"}
  BY DEF Wii!ExtType, Exts

LEMMA LateTail ==
  ASSUME NEW q \in Seq(Rsps), Late(q), q # <<>>
  PROVE  \/ /\ Head(q) = <<"status", "plugged">> /\ Tail(q) \in Seq(Rsps \ Statuses)
            /\ Has(Tail(q), Answers)
         \/ Late(Tail(q))
<1>1. PICK k, j \in 1..Len(q) :
        /\ k < j /\ q[k] = <<"status", "plugged">> /\ q[j] \in Answers
        /\ \A i \in 1..Len(q) : i > k => q[i] \in Rsps \ Statuses
  BY DEF Late
<1>2. /\ Len(q) \in Nat /\ Len(Tail(q)) = Len(q) - 1 /\ Head(q) = q[1] /\ Tail(q) \in Seq(Rsps)
      /\ \A i \in 1..Len(Tail(q)) : Tail(q)[i] = q[i + 1] /\ i + 1 \in 1..Len(q)
      /\ \A i \in 1..Len(q) : i > 1 => i - 1 \in 1..Len(Tail(q)) /\ Tail(q)[i - 1] = q[i]
  OBVIOUS
<1>3. CASE k = 1
  <2>1. \A i \in 1..Len(Tail(q)) : Tail(q)[i] \in Rsps \ Statuses
    BY <1>1, <1>2, <1>3
  <2>2. Tail(q) \in Seq(Rsps \ Statuses)
    BY <1>2, <2>1, SeqOf
  <2>3. j - 1 \in 1..Len(Tail(q)) /\ Tail(q)[j - 1] \in Answers
    BY <1>1, <1>2
  <2>4. Has(Tail(q), Answers)
    BY <2>3 DEF Has
  <2> QED BY <1>1, <1>2, <1>3, <2>2, <2>4
<1>4. CASE k # 1
  <2>1. /\ k - 1 \in 1..Len(Tail(q)) /\ j - 1 \in 1..Len(Tail(q)) /\ k - 1 < j - 1
        /\ Tail(q)[k - 1] = <<"status", "plugged">> /\ Tail(q)[j - 1] \in Answers
    BY <1>1, <1>2, <1>4
  <2>2. \A i \in 1..Len(Tail(q)) : i > k - 1 => Tail(q)[i] \in Rsps \ Statuses
    BY <1>1, <1>2
  <2> QED BY <2>1, <2>2 DEF Late
<1> QED BY <1>3, <1>4

LEMMA LateAppend ==
  ASSUME NEW q \in Seq(Rsps), Late(q), NEW x \in Rsps \ Statuses
  PROVE  Late(Append(q, x))
<1>1. PICK k, j \in 1..Len(q) :
        /\ k < j /\ q[k] = <<"status", "plugged">> /\ q[j] \in Answers
        /\ \A i \in 1..Len(q) : i > k => q[i] \in Rsps \ Statuses
  BY DEF Late
<1> DEFINE p == Append(q, x)
<1>2. /\ Len(q) \in Nat /\ Len(p) = Len(q) + 1 /\ p[Len(q) + 1] = x
      /\ \A i \in 1..Len(q) : p[i] = q[i] /\ i \in 1..Len(p)
  OBVIOUS
<1> HIDE DEF p
<1>3. \A i \in 1..Len(p) : i \in 1..Len(q) \/ i = Len(q) + 1
  BY <1>2
<1>4. \A i \in 1..Len(p) : i > k => p[i] \in Rsps \ Statuses
  BY <1>1, <1>2, <1>3
<1>5. Late(p)
  BY <1>1, <1>2, <1>4 DEF Late
<1> QED BY <1>5 DEF p

LEMMA LateNew ==
  ASSUME NEW q \in Seq(Rsps), NEW Y, Split(q, <<"status", "plugged">>, Y, {Silence}), NEW x \in Answers
  PROVE  Late(Append(q, x))
<1>1. PICK k \in 1..Len(q) : /\ q[k] = <<"status", "plugged">>
                             /\ \A i \in 1..Len(q) : i > k => q[i] = Silence
  BY DEF Split
<1> DEFINE p == Append(q, x)
           n == Len(q) + 1
<1>2. /\ Len(q) \in Nat /\ n \in 1..Len(p) /\ p[n] = x /\ k < n
      /\ \A i \in 1..Len(q) : p[i] = q[i] /\ i \in 1..Len(p)
      /\ \A i \in 1..Len(p) : i \in 1..Len(q) \/ i = n
  OBVIOUS
<1> HIDE DEF p, n
<1>3. \A i \in 1..Len(p) : i > k => p[i] \in Rsps \ Statuses
  BY <1>1, <1>2, RspSets
<1>5. Late(p)
  BY <1>1, <1>2, <1>3 DEF Late
<1> QED BY <1>5 DEF p

LEMMA WakingTail ==
  ASSUME rsps \in Seq(Rsps), Waking, rsps # <<>>, Head(rsps) # <<"status", "plugged">>,
         rsps' = Tail(rsps), UNCHANGED <<woken, eight>>
  PROVE  Waking'
<1>1. ASSUME Split(rsps, <<"status", "plugged">>, Rsps, {Silence})
      PROVE  Split(rsps', <<"status", "plugged">>, Rsps, {Silence})
  BY <1>1, SplitTail
<1>2. ASSUME Late(rsps) PROVE Late(rsps')
  BY <1>2, LateTail
<1> QED BY <1>1, <1>2 DEF Waking

LEMMA EmptyTail ==
  ASSUME rsps \in Seq(Rsps), Empty, rsps # <<>>, Head(rsps) # <<"status", "empty">>,
         rsps' = Tail(rsps), Head(rsps) \in Answers \cup {Silence} => subtype' = subtype
  PROVE  Empty'
<1>1. ASSUME Split(rsps, <<"status", "empty">>, Rsps, Answers \cup {Silence})
      PROVE  Split(rsps', <<"status", "empty">>, Rsps, Answers \cup {Silence})
  BY <1>1, SplitTail
<1>2. ASSUME rsps \in Seq(Answers \cup {Silence})
      PROVE  rsps' \in Seq(Answers \cup {Silence}) /\ Head(rsps) \in Answers \cup {Silence}
  BY <1>2, TailType
<1> QED BY <1>1, <1>2 DEF Empty

LEMMA EmptyAppend ==
  ASSUME rsps \in Seq(Rsps), Empty, NEW x \in Answers \cup {Silence}, rsps' = Append(rsps, x),
         subtype' = subtype
  PROVE  Empty'
<1>1. ASSUME Split(rsps, <<"status", "empty">>, Rsps, Answers \cup {Silence})
      PROVE  Split(rsps', <<"status", "empty">>, Rsps, Answers \cup {Silence})
  BY <1>1, SplitAppend
<1>2. ASSUME rsps \in Seq(Answers \cup {Silence}) PROVE rsps' \in Seq(Answers \cup {Silence})
  BY <1>2, AppendType
<1> QED BY <1>1, <1>2 DEF Empty

LEMMA ExecTypes ==
  ASSUME reqs \in Seq(Wakes \cup {"type", "rep"}), NEW s \in 0..5
  PROVE  /\ s = 0 => Wii!Exec(s) = Append(reqs, "init0")
         /\ s = 1 => Wii!Exec(s) = Append(reqs, "init1")
         /\ s = 2 => Wii!Exec(s) = Append(reqs, "type")
         /\ s = 3 => Wii!Exec(s) = Append(reqs, "8bit")
         /\ s = 4 => Wii!Exec(s) = Append(reqs, "type")
         /\ s = 5 => Wii!Exec(s) = reqs
         /\ Wii!Exec(s) \in Seq(Wakes \cup {"type", "rep"})
<1>1. /\ s = 0 => Wii!Exec(s) = Append(reqs, "init0")
      /\ s = 1 => Wii!Exec(s) = Append(reqs, "init1")
      /\ s = 2 => Wii!Exec(s) = Append(reqs, "type")
      /\ s = 3 => Wii!Exec(s) = Append(reqs, "8bit")
      /\ s = 4 => Wii!Exec(s) = Append(reqs, "type")
      /\ s = 5 => Wii!Exec(s) = reqs
  BY DEF Wii!Exec, Wii!Beyond
<1>2. "init0" \in Wakes /\ "init1" \in Wakes /\ "8bit" \in Wakes
  BY DEF Wakes
<1>3. \A x \in Wakes \cup {"type", "rep"} : Append(reqs, x) \in Seq(Wakes \cup {"type", "rep"})
  BY AppendType
<1>4. s = 0 \/ s = 1 \/ s = 2 \/ s = 3 \/ s = 4 \/ s = 5
  OBVIOUS
<1>5. Wii!Exec(s) \in Seq(Wakes \cup {"type", "rep"})
  BY <1>1, <1>2, <1>3, <1>4
<1> QED BY <1>1, <1>5

(* A status report.                                                        *)
LEMMA WiiStatus ==
  ASSUME WiiIInv, Wii!Status
  PROVE  WiiIInv'
<1>1. /\ rsps # <<>> /\ Head(rsps) \in Statuses /\ rsps' = Tail(rsps) /\ rsps' \in Seq(Rsps)
      /\ rsps \in Seq(Rsps) /\ reqs \in Seq(Wakes \cup {"type", "rep"})
  <2>1. Head(rsps) \in Rsps /\ Tail(rsps) \in Seq(Rsps)
    BY TailType DEF WiiIInv, Wii!Status, Wii!Received
  <2> QED BY <2>1, RspKinds DEF WiiIInv, Wii!Status, Wii!Received
<1>2. /\ subtype' = "default" /\ init' = FALSE
      /\ UNCHANGED <<type, plugged, woken, eight, reporting, plugs, fails>>
  BY DEF Wii!Status, Wii!remote
<1>3. CASE Head(rsps) = <<"status", "plugged">>
  <2>1. /\ hid_state' = 0 /\ reqs' = Append(reqs, "init0")
        /\ crossed' = ((\E i \in DOMAIN reqs : reqs[i] # "rep")
                       \/ \E i \in DOMAIN rsps' : rsps'[i][1] = "ack")
    BY <1>3, ExecTypes DEF WiiIInv, Wii!Status, Wii!What, Wii!SET_INIT0
  <2>2. reqs' \in Seq(Wakes \cup {"type", "rep"}) /\ "init0" \in Wakes
    BY <1>1, <2>1, AppendType DEF Wakes
  <2>3. Wii!TypeOK'
    <3>1. crossed' \in BOOLEAN
      BY <2>1, Zenon
    <3>2. hid_state' \in 0..5
      BY <2>1
    <3> QED BY <1>2, <3>1, <3>2 DEF WiiIInv, Wii!TypeOK, Wii!Beyond
  <2>4. ToReport'
    BY <1>1, <2>1, <2>2, HasAppend DEF ToReport
  <2>5. type # "none"
    BY <1>1 DEF WiiIInv, Off
  <2>6. ASSUME plugged = "none" PROVE woken' = 0 /\ ~eight' /\ Empty'
    <3>1. Head(rsps) \notin Answers \cup {Silence} /\ Head(rsps) # <<"status", "empty">>
      BY <1>1, <1>3, RspSets
    <3> QED BY <1>1, <1>2, <2>6, <3>1, EmptyTail DEF WiiIInv
  <2>7. ASSUME plugged # "none"
        PROVE  Waking' \/ (rsps' \in Seq(Rsps \ Statuses) /\ (crossed' \/ Chain'))
    <3>1. rsps \notin Seq(Rsps \ Statuses)
      BY <1>1, TailType
    <3>2. Waking
      BY <2>7, <3>1 DEF WiiIInv
    <3>3. CASE woken = 0 /\ ~eight /\ Split(rsps, <<"status", "plugged">>, Rsps, {Silence})
      <4>1. CASE Split(rsps', <<"status", "plugged">>, Rsps, {Silence})
        BY <1>2, <3>3, <4>1 DEF Waking
      <4>2. CASE rsps' \in Seq({Silence})
        <5>1. rsps' \in Seq(Noise) /\ rsps' \in Seq(Rsps \ Statuses)
          BY <4>2, SeqWider, RspSets DEF Noise
        <5>2. ASSUME ~crossed' PROVE Asks("init0")'
          <6>0. \A i \in DOMAIN reqs : reqs[i] = "rep"
            BY <2>1, <5>2, Zenon
          <6>1. \A i \in 1..Len(reqs) : reqs[i] \in {"rep"}
            BY <1>1, <6>0
          <6>2. reqs \in Seq({"rep"})
            BY <1>1, <6>1, SeqOf
          <6> QED BY <2>1, <5>1, <6>2, SplitNew DEF Asks
        <5> QED BY <1>2, <2>1, <3>3, <5>1, <5>2 DEF Chain
      <4> QED BY <1>1, <3>3, <4>1, <4>2, SplitTail
    <3>4. CASE Late(rsps)
      <4>1. CASE Late(rsps')
        BY <4>1 DEF Waking
      <4>2. CASE rsps' \in Seq(Rsps \ Statuses) /\ Has(rsps', Answers)
        <5>1. PICK i \in 1..Len(rsps') : rsps'[i] \in Answers
          BY <4>2 DEF Has
        <5>2. i \in DOMAIN rsps' /\ rsps'[i][1] = "ack"
          BY <1>1, <5>1 DEF Answers
        <5> QED BY <2>1, <4>2, <5>2
      <4> QED BY <1>1, <3>4, <4>1, <4>2, LateTail
    <3> QED BY <3>2, <3>3, <3>4 DEF Waking
  <2> QED BY <1>1, <1>2, <2>2, <2>3, <2>4, <2>5, <2>6, <2>7 DEF WiiIInv
<1>4. CASE Head(rsps) = <<"status", "empty">>
  <2>1. reqs' = Append(reqs, "rep") /\ UNCHANGED <<hid_state, crossed>>
    BY <1>4 DEF Wii!Status, Wii!What, Wii!RepMode
  <2>2. reqs' \in Seq(Wakes \cup {"type", "rep"})
    BY <1>1, <2>1, AppendType
  <2>3. Wii!TypeOK'
    BY <1>2, <2>1 DEF WiiIInv, Wii!TypeOK
  <2>4. ToReport'
    BY <1>1, <2>1, HasAppend DEF ToReport
  <2>5. type # "none"
    BY <1>1 DEF WiiIInv, Off
  <2>6. ASSUME plugged = "none" PROVE woken' = 0 /\ ~eight' /\ Empty'
    <3>1. rsps \notin Seq(Answers \cup {Silence})
      BY <1>1, TailType, RspSets
    <3>2. \/ Split(rsps', <<"status", "empty">>, Rsps, Answers \cup {Silence})
          \/ rsps' \in Seq(Answers \cup {Silence})
      BY <1>1, <2>6, <3>1, SplitTail DEF WiiIInv, Empty
    <3> QED BY <1>2, <2>6, <3>2 DEF WiiIInv, Empty
  <2>7. ASSUME plugged # "none" PROVE Waking'
    <3>1. rsps \notin Seq(Rsps \ Statuses)
      BY <1>1, TailType
    <3>2. Waking
      BY <2>7, <3>1 DEF WiiIInv
    <3> QED BY <1>1, <1>2, <1>4, <3>2, WakingTail
  <2> QED BY <1>1, <1>2, <2>2, <2>3, <2>4, <2>5, <2>6, <2>7 DEF WiiIInv
<1> QED BY <1>1, <1>3, <1>4 DEF Statuses

(* The parts of a step that takes an answer which is no status.            *)
LEMMA WiiTaken ==
  ASSUME WiiIInv, rsps # <<>>, rsps' = Tail(rsps), Head(rsps) \notin Statuses,
         UNCHANGED <<type, plugged, woken, eight, crossed>>,
         plugged = "none" /\ Head(rsps) \in Answers \cup {Silence} => subtype' = subtype,
         plugged # "none" /\ rsps \in Seq(Rsps \ Statuses) /\ Chain => Chain'
  PROVE  /\ rsps' \in Seq(Rsps) /\ type' # "none"
         /\ plugged' = "none" => woken' = 0 /\ ~eight' /\ Empty'
         /\ plugged' # "none" => Waking' \/ (rsps' \in Seq(Rsps \ Statuses) /\ (crossed' \/ Chain'))
<1>1. rsps \in Seq(Rsps) /\ rsps' \in Seq(Rsps) /\ type' # "none"
  BY TailType DEF WiiIInv, Off
<1>2. Head(rsps) # <<"status", "plugged">> /\ Head(rsps) # <<"status", "empty">>
  BY DEF Statuses
<1>3. ASSUME plugged = "none" PROVE Empty'
  BY <1>1, <1>2, <1>3, EmptyTail DEF WiiIInv
<1>4. Waking => Waking'
  BY <1>1, <1>2, WakingTail
<1>5. rsps \in Seq(Rsps \ Statuses) => rsps' \in Seq(Rsps \ Statuses)
  BY TailType
<1> QED BY <1>1, <1>3, <1>4, <1>5 DEF WiiIInv

(* What keeps each link of the chain keeps the chain.                      *)
LEMMA ChainKept ==
  ASSUME Chain, UNCHANGED <<hid_state, plugged, woken, eight>>,
         \A x : x # "rep" /\ Asks(x) => Asks(x)',
         \A d \in BOOLEAN : Acked(d) => Acked(d)',
         TypeTold /\ ~eight /\ woken = 2 => TypeTold',
         EightTold /\ eight /\ woken = 2 /\ plugged = "classic" => EightTold',
         Over => Over'
  PROVE  Chain'
<1>1. /\ Asks("init0") => Asks("init0")'
      /\ Asks("init1") => Asks("init1")'
      /\ Asks("type") => Asks("type")'
      /\ Asks("8bit") => Asks("8bit")'
      /\ Acked(TRUE) => Acked(TRUE)'
      /\ Acked(FALSE) => Acked(FALSE)'
  OBVIOUS
<1> QED BY <1>1 DEF Chain

LEMMA OverHead ==
  ASSUME Over, rsps # <<>>
  PROVE  Head(rsps) = <<"report", subtype>> /\ Tail(rsps) \in Seq({<<"report", subtype>>})
<1>1. \A r : rsps \in Seq({r}) => Head(rsps) = r /\ Tail(rsps) \in Seq({r})
  BY TailType
<1> QED BY <1>1 DEF Over

(* A report of the extension is decoded.                                   *)
LEMMA WiiReport ==
  ASSUME WiiIInv, Wii!Report
  PROVE  WiiIInv'
<1>1. /\ rsps # <<>> /\ Head(rsps) \in Reports /\ rsps' = Tail(rsps) /\ rsps \in Seq(Rsps)
      /\ UNCHANGED <<type, plugged, woken, eight, reporting, plugs, fails, crossed, hid_state, reqs>>
  <2>1. Head(rsps) \in Rsps
    BY TailType DEF WiiIInv, Wii!Report, Wii!Received
  <2> QED BY <2>1, RspKinds DEF WiiIInv, Wii!Report, Wii!Received, Wii!remote
<1>2. /\ subtype' \in {subtype, Head(rsps)[2]} /\ init' \in BOOLEAN
      /\ Head(rsps)[2] = subtype => subtype' = subtype
      /\ subtype \notin {"classic", "classic 8bit"} => subtype' = subtype
  BY DEF Wii!Report, Wii!What, WiiIInv, Wii!TypeOK
<1>3. Head(rsps) = <<"report", Head(rsps)[2]>> /\ Head(rsps)[2] \in Exts
  BY <1>1 DEF Reports
<1>4. Wii!TypeOK'
  BY <1>1, <1>2, <1>3 DEF WiiIInv, Wii!TypeOK, Exts
<1>5. Head(rsps) \notin Statuses /\ Head(rsps) \notin Answers /\ Head(rsps) \notin Data
  BY <1>1, RspSets
<1>6. ToReport => ToReport'
  BY <1>1, <1>5, HasTail DEF ToReport
<1>7. ASSUME Chain PROVE Chain'
  <2>1. ASSUME rsps \in Seq(Noise) PROVE rsps' \in Seq(Noise)
    BY <1>1, <2>1, TailType
  <2>2. ASSUME NEW x, Asks(x) PROVE Asks(x)'
    BY <1>1, <2>1, <2>2 DEF Asks
  <2>3. ASSUME NEW x, x[1] # "report", NEW Z, Gets(x, Z) PROVE Gets(x, Z)'
    <3>1. Head(rsps) # x
      BY <1>3, <2>3
    <3> QED BY <1>1, <2>3, <3>1, SplitTail DEF Gets
  <2>4. ASSUME NEW d \in BOOLEAN, Acked(d) PROVE Acked(d)'
    BY <2>3, <2>4 DEF Acked
  <2>5. TypeTold => TypeTold'
    <3>1. ASSUME NEW v, NEW Z, Gets(<<"data", v>>, Z) PROVE Gets(<<"data", v>>, Z)'
      BY <2>3, <3>1
    <3>2. ASSUME NEW v, plugged = v, TypeTold PROVE TypeTold'
      BY <1>1, <3>1, <3>2 DEF TypeTold, Gets
    <3> QED BY <3>2
  <2>6. EightTold => EightTold'
    BY <2>3 DEF EightTold
  <2>7. ASSUME Over PROVE Over'
    <3>1. Head(rsps) = <<"report", subtype>> /\ rsps' \in Seq({<<"report", subtype>>})
      BY <1>1, <2>7, OverHead
    <3>2. Head(rsps)[2] = subtype
      BY <3>1
    <3>3. subtype' = subtype
      BY <1>2, <3>2
    <3> QED BY <1>1, <2>7, <3>1, <3>3 DEF Over
  <2> QED BY <1>1, <1>7, <2>2, <2>4, <2>5, <2>6, <2>7, ChainKept
<1>8. ASSUME plugged = "none", Head(rsps) \in Answers \cup {Silence} PROVE FALSE
  BY <1>5, <1>8, RspSets
<1> QED BY <1>1, <1>4, <1>5, <1>6, <1>7, <1>8, WiiTaken DEF WiiIInv

(* The type the extension tells.                                           *)
LEMMA WiiRdData ==
  ASSUME WiiIInv, Wii!RdData
  PROVE  WiiIInv'
<1>1. /\ rsps # <<>> /\ Head(rsps) \in Data /\ rsps' = Tail(rsps) /\ rsps \in Seq(Rsps)
      /\ UNCHANGED <<type, plugged, woken, eight, reporting, plugs, fails, crossed>>
  <2>1. Head(rsps) \in Rsps
    BY TailType DEF WiiIInv, Wii!RdData, Wii!Received
  <2> QED BY <2>1, RspKinds DEF WiiIInv, Wii!RdData, Wii!Received, Wii!remote
<1> DEFINE what == Head(rsps)[2]
<1>2. Head(rsps) = <<"data", what>> /\ what \in Exts \cup {"unknown"}
  BY <1>1 DEF Data
<1>3. /\ IF what = "unknown" THEN subtype' = subtype /\ init' = init ELSE subtype' = what /\ init' = FALSE
      /\ IF what = "classic" /\ hid_state < 3
         THEN hid_state' = 3 /\ reqs' = Append(reqs, "8bit")
         ELSE hid_state' = hid_state /\ reqs' = Append(reqs, "rep")
  BY ExecTypes DEF Wii!RdData, Wii!What, WiiIInv, Wii!SET_8BIT, Wii!RepMode
<1>4. what = "unknown" <=> Head(rsps) = Silence
  BY <1>2 DEF Silence
<1>5. reqs' \in Seq(Wakes \cup {"type", "rep"})
  BY <1>3, AppendType DEF WiiIInv, Wakes
<1>6. Wii!TypeOK'
  <2> HIDE DEF what
  <2>1. subtype' \in Exts \cup {"default"} /\ init' \in BOOLEAN
    BY <1>2, <1>3 DEF WiiIInv, Wii!TypeOK, Exts
  <2>2. hid_state' \in 0..5
    <3>1. hid_state \in 0..5
      BY DEF WiiIInv, Wii!TypeOK, Wii!Beyond
    <3>2. hid_state' = hid_state \/ hid_state' = 3
      BY <1>3
    <3> QED BY <3>1, <3>2
  <2> QED BY <1>1, <2>1, <2>2 DEF WiiIInv, Wii!TypeOK, Exts, Wii!Beyond
<1>7. ToReport'
  <2>1. CASE reqs' = Append(reqs, "rep")
    BY <2>1, HasAppend DEF ToReport, WiiIInv
  <2>2. CASE reqs' = Append(reqs, "8bit") /\ hid_state' = 3
    BY <2>2, HasAppend DEF ToReport, WiiIInv, Wakes
  <2> QED BY <1>3, <2>1, <2>2
<1>8. Head(rsps) \notin Statuses /\ Head(rsps) \notin Answers /\ Head(rsps) \notin Reports
  BY <1>1, RspSets
<1>9. Head(rsps) \in Answers \cup {Silence} => subtype' = subtype
  BY <1>3, <1>4, <1>8
<1> HIDE DEF what
<1>10. \A v : Head(rsps) # <<"report", v>>
  BY <1>2
<1>11. ASSUME Chain, plugged # "none" PROVE Chain'
  <2>1. ASSUME Head(rsps) = Silence PROVE Chain'
    <3>1. /\ reqs' = Append(reqs, "rep") /\ UNCHANGED <<subtype, hid_state>>
      BY <1>3, <1>4, <2>1
    <3>2. \A x : Split(reqs, x, {"rep"}, {"rep"}) => Split(reqs', x, {"rep"}, {"rep"})
      BY <3>1, SplitAppend DEF WiiIInv
    <3>3. reqs \in Seq({"rep"}) => reqs' \in Seq({"rep"})
      BY <3>1, AppendType
    <3>4. ASSUME NEW x, Asks(x) PROVE Asks(x)'
      BY <1>1, <3>2, <3>4, TailType DEF Asks
    <3>5. ASSUME NEW x, NEW Z, x # Silence, Gets(x, Z) PROVE Gets(x, Z)'
      BY <1>1, <2>1, <3>3, <3>5, SplitTail DEF Gets
    <3>6. ASSUME NEW d \in BOOLEAN, Acked(d) PROVE Acked(d)'
      BY <3>5, <3>6 DEF Acked, Silence
    <3>7. TypeTold => TypeTold'
      <4>1. ASSUME NEW v \in {"none", "nunchuk", "classic"}, NEW Z, Gets(<<"data", v>>, Z)
            PROVE  Gets(<<"data", v>>, Z)'
        BY <3>5, <4>1 DEF Silence
      <4>2. ASSUME NEW v \in {"none", "nunchuk", "classic"}, plugged = v, TypeTold PROVE TypeTold'
        BY <1>1, <4>1, <4>2 DEF TypeTold, Gets
      <4> QED BY <4>2 DEF WiiIInv, Wii!TypeOK
    <3>8. EightTold => EightTold'
      BY <3>5 DEF EightTold, Silence
    <3>9. ~ Over
      BY <1>1, <1>10, OverHead
    <3> QED BY <1>1, <1>11, <3>1, <3>4, <3>6, <3>7, <3>8, <3>9, ChainKept
  <2>2. ASSUME Head(rsps) # Silence PROVE Chain'
    <3>1. Head(rsps) \notin Noise
      BY <1>8, <2>2 DEF Noise
    <3>2. \A x : ~ Asks(x)
      BY <1>1, <3>1, TailType DEF Asks
    <3>3. \A x, Z : Gets(x, Z) => x = Head(rsps) /\ rsps' \in Seq(Z) /\ reqs \in Seq({"rep"})
      BY <1>1, <3>1, SplitTail DEF Gets
    <3>4. \A d \in BOOLEAN : ~ Acked(d)
      BY <1>2, <3>3 DEF Acked
    <3>5. ~ Over
      BY <1>1, <1>10, OverHead
    <3>7. CASE hid_state = 2 /\ ~eight /\ woken = 2 /\ TypeTold
      <4>1. /\ what = plugged /\ rsps' \in Seq({<<"report", plugged>>}) /\ reqs \in Seq({"rep"})
        <5>1. /\ <<"data", plugged>> = Head(rsps) /\ rsps' \in Seq({<<"report", plugged>>})
              /\ reqs \in Seq({"rep"})
          BY <3>3, <3>7 DEF TypeTold
        <5> QED BY <1>2, <5>1
      <4>2. CASE plugged = "classic"
        <5>1. hid_state' = 3 /\ reqs' = Append(reqs, "8bit")
          BY <1>3, <3>7, <4>1, <4>2
        <5>2. <<"report", plugged>> \in Noise
          BY <4>2 DEF Noise, Reports, Exts
        <5>3. Asks("8bit")'
          BY <4>1, <5>1, <5>2, SplitNew, SeqWider DEF Asks
        <5> QED BY <1>1, <3>7, <4>2, <5>1, <5>3 DEF Chain
      <4>3. CASE plugged = "nunchuk"
        <5>1. reqs' = Append(reqs, "rep") /\ subtype' = plugged
          BY <1>3, <4>1, <4>3
        <5>2. reqs' \in Seq({"rep"})
          BY <4>1, <5>1, AppendType
        <5> QED BY <1>1, <3>7, <4>1, <4>3, <5>1, <5>2 DEF Chain, Over, WiiIInv, Wii!TypeOK
      <4> QED BY <1>11, <4>2, <4>3 DEF WiiIInv, Wii!TypeOK
    <3>8. CASE hid_state = 4 /\ woken = 2 /\ plugged = "classic" /\ eight /\ EightTold
      <4>1. /\ what = "classic 8bit" /\ rsps' \in Seq({<<"report", "classic 8bit">>}) /\ reqs \in Seq({"rep"})
        <5>1. /\ <<"data", "classic 8bit">> = Head(rsps) /\ rsps' \in Seq({<<"report", "classic 8bit">>})
              /\ reqs \in Seq({"rep"})
          BY <3>3, <3>8 DEF EightTold
        <5>2. Head(rsps)[2] = "classic 8bit"
          BY <5>1, SecondOf
        <5> QED BY <5>1, <5>2 DEF what
      <4>2. reqs' = Append(reqs, "rep") /\ subtype' = "classic 8bit"
        BY <1>3, <4>1
      <4>3. reqs' \in Seq({"rep"})
        BY <4>1, <4>2, AppendType
      <4>4. eight = TRUE
        BY <3>8 DEF WiiIInv, Wii!TypeOK
      <4> QED BY <1>1, <3>8, <4>1, <4>2, <4>3, <4>4 DEF Chain, Over
    <3> QED BY <1>11, <3>2, <3>4, <3>5, <3>7, <3>8 DEF Chain
  <2> QED BY <2>1, <2>2
<1> QED BY <1>1, <1>5, <1>6, <1>7, <1>8, <1>9, <1>11, WiiTaken DEF WiiIInv

(* An acknowledgement, whatever request it is about.                       *)
LEMMA WiiAck ==
  ASSUME WiiIInv, Wii!Ack
  PROVE  WiiIInv'
<1>1. /\ rsps # <<>> /\ Head(rsps) \in Answers /\ rsps' = Tail(rsps) /\ rsps \in Seq(Rsps)
      /\ UNCHANGED <<type, plugged, woken, eight, reporting, plugs, fails, crossed, subtype, init>>
  <2>1. Head(rsps) \in Rsps
    BY TailType DEF WiiIInv, Wii!Ack, Wii!Received
  <2> QED BY <2>1, RspKinds DEF WiiIInv, Wii!Ack, Wii!Received, Wii!remote
<1>2. /\ hid_state \in 0..5 /\ reqs \in Seq(Wakes \cup {"type", "rep"})
      /\ hid_state' = (IF Head(rsps)[2] = "error" \/ hid_state = 5 THEN hid_state ELSE hid_state + 1)
      /\ reqs' = Wii!Exec(hid_state')
  BY DEF Wii!Ack, Wii!What, WiiIInv, Wii!TypeOK, Wii!Beyond
<1>3. hid_state' \in 0..5 /\ (hid_state' = hid_state \/ hid_state' = hid_state + 1)
  BY <1>2
<1>4. /\ hid_state' = 0 => reqs' = Append(reqs, "init0")
      /\ hid_state' = 1 => reqs' = Append(reqs, "init1")
      /\ hid_state' = 2 => reqs' = Append(reqs, "type")
      /\ hid_state' = 3 => reqs' = Append(reqs, "8bit")
      /\ hid_state' = 4 => reqs' = Append(reqs, "type")
      /\ hid_state' = 5 => reqs' = reqs
      /\ reqs' \in Seq(Wakes \cup {"type", "rep"})
  BY <1>2, <1>3, ExecTypes
<1>5. hid_state' = 0 \/ hid_state' = 1 \/ hid_state' = 2 \/ hid_state' = 3 \/ hid_state' = 4 \/ hid_state' = 5
  BY <1>3
<1>6. Wii!TypeOK'
  BY <1>1, <1>3 DEF WiiIInv, Wii!TypeOK, Wii!Beyond
<1>7. "init0" \in Wakes /\ "init1" \in Wakes /\ "8bit" \in Wakes
  BY DEF Wakes
<1>8. Head(rsps) \notin Statuses /\ Head(rsps) \notin Data /\ Head(rsps) \notin Noise
  BY <1>1, RspSets DEF Noise
<1>9. ASSUME ToReport PROVE ToReport'
  <2>1. \A S : Has(reqs, S) => Has(reqs', S)
    BY <1>2, <1>4, <1>5, HasAppend
  <2>2. CASE Has(reqs, {"rep", "type"})
    BY <2>1, <2>2 DEF ToReport
  <2>3. CASE Has(rsps, Data \cup Statuses)
    <3>1. Has(rsps', Data \cup Statuses)
      BY <1>1, <1>8, <2>3, HasTail
    <3> QED BY <3>1 DEF ToReport
  <2>4. CASE hid_state < 4
    <3>1. hid_state' \in 0..4
      BY <1>2, <1>3, <2>4
    <3>2. CASE hid_state' = 2 \/ hid_state' = 4
      <4>1. reqs' = Append(reqs, "type")
        BY <1>4, <3>2
      <4>2. Has(reqs', {"rep", "type"})
        BY <1>2, <4>1, HasAppend
      <4> QED BY <4>2 DEF ToReport
    <3>3. CASE hid_state' = 0 \/ hid_state' = 1 \/ hid_state' = 3
      <4>1. Has(reqs', Wakes)
        BY <1>2, <1>4, <1>7, <3>3, HasAppend
      <4>2. hid_state' < 4
        BY <3>3
      <4> QED BY <4>1, <4>2 DEF ToReport
    <3> QED BY <1>5, <3>1, <3>2, <3>3
  <2> QED BY <1>9, <2>2, <2>3, <2>4 DEF ToReport
<1>10. ASSUME Chain PROVE Chain'
  <2>1. \A x : ~ Asks(x)
    BY <1>1, <1>8, TailType DEF Asks
  <2>2. \A x, Z : Gets(x, Z) => x = Head(rsps) /\ rsps' \in Seq(Z) /\ reqs \in Seq({"rep"})
    BY <1>1, <1>8, SplitTail DEF Gets
  <2>3. /\ Acked(TRUE) => Head(rsps) = <<"ack", "done">>
        /\ Acked(FALSE) => Head(rsps) = <<"ack", "error">>
        /\ Acked(TRUE) \/ Acked(FALSE) => rsps' \in Seq(Noise) /\ reqs \in Seq({"rep"})
    BY <2>2 DEF Acked
  <2>4. ~ TypeTold /\ ~ EightTold
    <3>1. Head(rsps)[1] = "ack"
      BY <1>1 DEF Answers
    <3>2. \A v : Head(rsps) # <<"data", v>>
      BY <3>1
    <3>3. TypeTold => Head(rsps) = <<"data", plugged>>
      BY <2>2 DEF TypeTold
    <3>4. EightTold => Head(rsps) = <<"data", "classic 8bit">>
      BY <2>2 DEF EightTold
    <3> QED BY <3>2, <3>3, <3>4
  <2>5. ~ Over
    <3>1. \A v : Head(rsps) # <<"report", v>>
      BY <1>1 DEF Answers
    <3> QED BY <1>1, <3>1, OverHead
  <2>6. Acked(TRUE) => hid_state' = (IF hid_state = 5 THEN 5 ELSE hid_state + 1)
    BY <1>2, <2>3
  <2>7. Acked(FALSE) => hid_state' = hid_state
    BY <1>2, <2>3
  <2>8. ASSUME Acked(TRUE) \/ Acked(FALSE), NEW x, reqs' = Append(reqs, x) PROVE Asks(x)'
    BY <2>3, <2>8, SplitNew DEF Asks
  <2>9. CASE hid_state = 0 /\ ~eight /\ \/ woken = 0 /\ Acked(FALSE)
                                        \/ woken = 1 /\ Acked(TRUE)
    <3>1. CASE woken = 0 /\ Acked(FALSE)
      <4>1. hid_state' = 0
        BY <2>7, <2>9, <3>1
      <4>2. Asks("init0")'
        BY <1>4, <2>8, <3>1, <4>1
      <4> QED BY <1>1, <2>9, <3>1, <4>1, <4>2 DEF Chain
    <3>2. CASE woken = 1 /\ Acked(TRUE)
      <4>1. hid_state' = 1
        BY <2>6, <2>9, <3>2
      <4>2. Asks("init1")'
        BY <1>4, <2>8, <3>2, <4>1
      <4> QED BY <1>1, <2>9, <3>2, <4>1, <4>2 DEF Chain
    <3> QED BY <2>9, <3>1, <3>2
  <2>10. CASE hid_state = 1 /\ ~eight /\ \/ woken = 1 /\ Acked(FALSE)
                                         \/ woken = 2 /\ Acked(TRUE)
    <3>1. CASE woken = 1 /\ Acked(FALSE)
      <4>1. hid_state' = 1
        BY <2>7, <2>10, <3>1
      <4>2. Asks("init1")'
        BY <1>4, <2>8, <3>1, <4>1
      <4> QED BY <1>1, <2>10, <3>1, <4>1, <4>2 DEF Chain
    <3>2. CASE woken = 2 /\ Acked(TRUE)
      <4>1. hid_state' = 2
        BY <2>6, <2>10, <3>2
      <4>2. Asks("type")'
        BY <1>4, <2>8, <3>2, <4>1
      <4> QED BY <1>1, <2>10, <3>2, <4>1, <4>2 DEF Chain
    <3> QED BY <2>10, <3>1, <3>2
  <2>11. CASE /\ hid_state = 3 /\ woken = 2 /\ plugged = "classic"
              /\ \/ ~eight /\ Acked(FALSE)
                 \/ eight /\ Acked(TRUE)
    <3>1. CASE ~eight /\ Acked(FALSE)
      <4>1. hid_state' = 3
        BY <2>7, <2>11, <3>1
      <4>2. Asks("8bit")'
        BY <1>4, <2>8, <3>1, <4>1
      <4> QED BY <1>1, <2>11, <3>1, <4>1, <4>2 DEF Chain
    <3>2. CASE eight /\ Acked(TRUE)
      <4>1. hid_state' = 4
        BY <2>6, <2>11, <3>2
      <4>2. Asks("type")'
        BY <1>4, <2>8, <3>2, <4>1
      <4> QED BY <1>1, <2>11, <3>2, <4>1, <4>2 DEF Chain
    <3> QED BY <2>11, <3>1, <3>2
  <2> QED BY <1>10, <2>1, <2>4, <2>5, <2>9, <2>10, <2>11 DEF Chain
<1> QED BY <1>1, <1>4, <1>6, <1>8, <1>9, <1>10, WiiTaken DEF WiiIInv

(* A request served: the answer, if any, is none of the statuses.          *)
LEMMA WiiServe ==
  ASSUME WiiIInv, Wii!Serve
  PROVE  WiiIInv'
<1> DEFINE req == Head(reqs)
<1>1. /\ reqs # <<>> /\ reqs' = Tail(reqs) /\ reqs' \in Seq(Wakes \cup {"type", "rep"})
      /\ req \in Wakes \cup {"type", "rep"} /\ reqs \in Seq(Wakes \cup {"type", "rep"})
      /\ rsps \in Seq(Rsps) /\ type # "none"
      /\ UNCHANGED <<type, hid_state, subtype, init, plugged, plugs, crossed>>
  <2>1. reqs # <<>>
    BY DEF Wii!Serve
  <2> QED BY <2>1, TailType DEF WiiIInv, Wii!Serve, Off
<1>2. CASE req = "rep"
  <2>1. reporting' = TRUE /\ UNCHANGED <<woken, eight, fails, rsps>>
    BY <1>2 DEF Wii!Serve
  <2>2. Wii!TypeOK'
    BY <1>1, <2>1 DEF WiiIInv, Wii!TypeOK
  <2>3. Empty => Empty'
    BY <1>1, <2>1 DEF Empty
  <2>4. Waking => Waking'
    BY <2>1 DEF Waking
  <2>5. ASSUME Chain PROVE Chain'
    <3>1. \A x : x # "rep" /\ Split(reqs, x, {"rep"}, {"rep"}) => Split(reqs', x, {"rep"}, {"rep"})
      BY <1>1, <1>2, SplitTail
    <3>2. reqs \in Seq({"rep"}) => reqs' \in Seq({"rep"})
      BY <1>1, TailType
    <3>3. ASSUME NEW x, x # "rep", Asks(x) PROVE Asks(x)'
      BY <2>1, <3>1, <3>3 DEF Asks
    <3>4. ASSUME NEW d \in BOOLEAN, Acked(d) PROVE Acked(d)'
      BY <2>1, <3>2, <3>4 DEF Acked, Gets
    <3>5. (TypeTold => TypeTold') /\ (EightTold => EightTold')
      BY <1>1, <2>1, <3>2 DEF TypeTold, EightTold, Gets
    <3>6. Over => Over'
      BY <1>1, <2>1, <3>2 DEF Over
    <3> QED BY <1>1, <2>1, <2>5, <3>3, <3>4, <3>5, <3>6, ChainKept
  <2> QED BY <1>1, <2>1, <2>2, <2>3, <2>4, <2>5 DEF WiiIInv
<1>3. CASE req # "rep"
  <2>1. PICK r \in Answers \cup {<<"data", Wii!ExtType>>} :
          /\ rsps' = Append(rsps, r) /\ reporting' = reporting
          /\ req = "type" => r = <<"data", Wii!ExtType>> /\ UNCHANGED <<woken, eight, fails>>
          /\ req \in Wakes => r \in Answers
          /\ r = <<"ack", "error">> => UNCHANGED <<woken, eight>>
          /\ r = <<"ack", "done">> =>
               /\ woken' = (CASE req = "init0" -> 1
                              [] req = "init1" /\ woken = 1 -> 2
                              [] OTHER -> woken)
               /\ eight' = (eight \/ req = "8bit")
          /\ plugged = "none" => UNCHANGED <<woken, eight>>
          /\ woken' \in 0..2 /\ eight' \in BOOLEAN /\ fails' \in 0..MaxFail
    <3>0. /\ woken \in 0..2 /\ eight \in BOOLEAN /\ fails \in 0..MaxFail
          /\ <<"ack", "error">> \in Answers /\ <<"ack", "done">> \in Answers
          /\ <<"ack", "error">> # <<"ack", "done">>
          /\ "type" \notin Wakes
      BY DEF WiiIInv, Wii!TypeOK, Answers, Wakes
    <3>1. CASE req = "type"
      <4>1. rsps' = Append(rsps, <<"data", Wii!ExtType>>) /\ UNCHANGED <<reporting, woken, eight, fails>>
        BY <3>1 DEF Wii!Serve
      <4>2. \A v : <<"data", v>> # <<"ack", "error">> /\ <<"data", v>> # <<"ack", "done">>
        OBVIOUS
      <4> QED BY <3>0, <3>1, <4>1, <4>2
    <3>2. CASE /\ req \in {"init0", "init1", "8bit"} /\ (plugged = "none" \/ fails < MaxFail)
               /\ fails' = (IF plugged = "none" THEN fails ELSE fails + 1)
               /\ rsps' = Append(rsps, <<"ack", "error">>)
               /\ UNCHANGED <<reporting, woken, eight>>
      <4>1. fails' \in 0..MaxFail
        BY <3>0, <3>2, WiiAssumption
      <4> QED BY <3>0, <3>2, <4>1
    <3>3. CASE /\ req \in {"init0", "init1", "8bit"} /\ plugged # "none"
               /\ woken' = (CASE req = "init0" -> 1
                              [] req = "init1" /\ woken = 1 -> 2
                              [] OTHER -> woken)
               /\ eight' = (eight \/ req = "8bit")
               /\ rsps' = Append(rsps, <<"ack", "done">>)
               /\ UNCHANGED <<reporting, fails>>
      <4>1. woken' \in 0..2
        BY <3>0, <3>3
      <4>2. eight' \in BOOLEAN
        BY <3>3, Zenon
      <4> QED BY <3>0, <3>3, <4>1, <4>2
    <3> QED BY <1>3, <3>1, <3>2, <3>3 DEF Wii!Serve
  <2>2. Wii!TypeOK'
    BY <1>1, <2>1 DEF WiiIInv, Wii!TypeOK
  <2>3. r \in Rsps \ Statuses /\ rsps' \in Seq(Rsps)
    <3>1. <<"data", Wii!ExtType>> \in Data
      BY ExtTypes DEF Data, WiiIInv, Wii!TypeOK
    <3>2. r \in Rsps \ Statuses
      BY <2>1, <3>1, RspSets
    <3> QED BY <1>1, <2>1, <3>2, AppendType
  <2>4. ASSUME ToReport PROVE ToReport'
    <3>1. \A S : Has(rsps, S) \/ r \in S => Has(rsps', S)
      BY <1>1, <2>1, HasAppend
    <3>2. \A S : Has(reqs, S) => req \in S \/ Has(reqs', S)
      BY <1>1, HasTail
    <3>3. CASE req = "type"
      <4>1. Wii!ExtType \in Exts \cup {"unknown"}
        BY ExtTypes DEF WiiIInv, Wii!TypeOK
      <4>2. r \in Data \cup Statuses
        BY <2>1, <3>3, <4>1 DEF Data
      <4> QED BY <3>1, <4>2 DEF ToReport
    <3>4. CASE req \in Wakes
      <4>1. "type" \notin Wakes /\ r \in Answers
        BY <2>1, <3>4 DEF Wakes
      <4>2. Has(reqs, {"rep", "type"}) => Has(reqs', {"rep", "type"})
        BY <1>3, <3>2, <3>4, <4>1
      <4>3. Has(rsps', Answers)
        BY <3>1, <4>1
      <4> QED BY <1>1, <2>4, <3>1, <4>2, <4>3 DEF ToReport
    <3> QED BY <1>1, <1>3, <3>3, <3>4
  <2>5. ASSUME plugged = "none", Empty PROVE Empty'
    <3>1. Wii!ExtType = "unknown"
      BY <2>5 DEF Wii!ExtType
    <3>2. r \in Answers \cup {Silence}
      BY <2>1, <3>1 DEF Silence
    <3> QED BY <1>1, <2>1, <2>5, <3>2, EmptyAppend
  <2>6. ASSUME Waking PROVE Waking'
    <3>1. CASE Late(rsps)
      <4>1. Late(rsps')
        BY <1>1, <2>1, <2>3, <3>1, LateAppend
      <4> QED BY <4>1 DEF Waking
    <3>2. CASE woken = 0 /\ ~eight /\ Split(rsps, <<"status", "plugged">>, Rsps, {Silence})
      <4>1. CASE req = "type"
        <5>1. r = Silence
          BY <2>1, <3>2, <4>1 DEF Silence, Wii!ExtType
        <5>2. Split(rsps', <<"status", "plugged">>, Rsps, {Silence})
          BY <1>1, <2>1, <3>2, <5>1, SplitAppend
        <5> QED BY <2>1, <3>2, <4>1, <5>2 DEF Waking
      <4>2. CASE req \in Wakes
        <5>1. Late(rsps')
          BY <1>1, <2>1, <3>2, <4>2, LateNew
        <5> QED BY <5>1 DEF Waking
      <4> QED BY <1>1, <1>3, <4>1, <4>2
    <3> QED BY <2>6, <3>1, <3>2 DEF Waking
  <2>7. rsps \in Seq(Rsps \ Statuses) => rsps' \in Seq(Rsps \ Statuses)
    BY <2>1, <2>3, AppendType
  <2>8. ASSUME Chain, plugged # "none" PROVE Chain'
    <3>1. reqs \notin Seq({"rep"})
      BY <1>1, <1>3, TailType
    <3>2. \A x : Asks(x) => req = x /\ reqs' \in Seq({"rep"}) /\ rsps \in Seq(Noise)
      BY <1>1, <1>3, SplitTail DEF Asks
    <3>3. \A x, Z : ~ Gets(x, Z)
      BY <3>1 DEF Gets
    <3>4. ~ Acked(TRUE) /\ ~ Acked(FALSE) /\ ~ TypeTold /\ ~ EightTold /\ ~ Over
      BY <3>1, <3>3 DEF Acked, TypeTold, EightTold, Over
    <3>5. ASSUME NEW x, Asks(x), NEW Z PROVE Split(rsps', r, Noise, Z) /\ reqs' \in Seq({"rep"})
      BY <2>1, <3>2, <3>5, SplitNew
    <3>6. ASSUME NEW x, Asks(x)
          PROVE  /\ r = <<"ack", "done">> => Acked(TRUE)'
                 /\ r = <<"ack", "error">> => Acked(FALSE)'
      BY <3>5, <3>6 DEF Acked, Gets
    <3>7. "init0" \in Wakes /\ "init1" \in Wakes /\ "8bit" \in Wakes
      BY DEF Wakes
    <3>8. CASE hid_state = 0 /\ ~eight /\ woken = 0 /\ Asks("init0")
      <4>1. req = "init0" /\ (r = <<"ack", "done">> \/ r = <<"ack", "error">>)
        BY <2>1, <3>2, <3>7, <3>8 DEF Answers
      <4>2. CASE r = <<"ack", "done">>
        <5>1. woken' = 1 /\ ~eight' /\ Acked(TRUE)'
          BY <2>1, <3>6, <3>8, <4>1, <4>2
        <5> QED BY <1>1, <3>8, <5>1 DEF Chain
      <4>3. CASE r = <<"ack", "error">>
        <5>0. woken' = woken /\ eight' = eight /\ Acked(FALSE)'
          BY <2>1, <3>6, <3>8, <4>3
        <5>1. woken' = 0 /\ ~eight' /\ Acked(FALSE)'
          BY <3>8, <5>0
        <5> QED BY <1>1, <3>8, <5>1 DEF Chain
      <4> QED BY <4>1, <4>2, <4>3
    <3>9. CASE hid_state = 1 /\ ~eight /\ woken = 1 /\ Asks("init1")
      <4>1. req = "init1" /\ (r = <<"ack", "done">> \/ r = <<"ack", "error">>)
        BY <2>1, <3>2, <3>7, <3>9 DEF Answers
      <4>2. CASE r = <<"ack", "done">>
        <5>1. woken' = 2 /\ ~eight' /\ Acked(TRUE)'
          BY <2>1, <3>6, <3>9, <4>1, <4>2
        <5> QED BY <1>1, <3>9, <5>1 DEF Chain
      <4>3. CASE r = <<"ack", "error">>
        <5>0. woken' = woken /\ eight' = eight /\ Acked(FALSE)'
          BY <2>1, <3>6, <3>9, <4>3
        <5>1. woken' = 1 /\ ~eight' /\ Acked(FALSE)'
          BY <3>9, <5>0
        <5> QED BY <1>1, <3>9, <5>1 DEF Chain
      <4> QED BY <4>1, <4>2, <4>3
    <3>10. CASE hid_state = 2 /\ ~eight /\ woken = 2 /\ Asks("type")
      <4>1. req = "type"
        BY <3>2, <3>10
      <4>2. Wii!ExtType = plugged
        BY <2>8, <3>10 DEF Wii!ExtType
      <4>3. r = <<"data", plugged>> /\ woken' = 2 /\ ~eight' /\ plugged' = plugged
        BY <1>1, <2>1, <3>10, <4>1, <4>2
      <4>4. TypeTold'
        BY <3>5, <3>10, <4>3 DEF TypeTold, Gets
      <4> QED BY <1>1, <3>10, <4>3, <4>4 DEF Chain
    <3>11. CASE hid_state = 3 /\ woken = 2 /\ plugged = "classic" /\ ~eight /\ Asks("8bit")
      <4>1. req = "8bit" /\ (r = <<"ack", "done">> \/ r = <<"ack", "error">>)
        BY <2>1, <3>2, <3>7, <3>11 DEF Answers
      <4>2. CASE r = <<"ack", "done">>
        <5>1. woken' = 2 /\ eight' /\ Acked(TRUE)'
          BY <2>1, <3>6, <3>11, <4>1, <4>2
        <5> QED BY <1>1, <3>11, <5>1 DEF Chain
      <4>3. CASE r = <<"ack", "error">>
        <5>0. woken' = woken /\ eight' = eight /\ Acked(FALSE)'
          BY <2>1, <3>6, <3>11, <4>3
        <5>1. woken' = 2 /\ ~eight' /\ Acked(FALSE)'
          BY <3>11, <5>0
        <5> QED BY <1>1, <3>11, <5>1 DEF Chain
      <4> QED BY <4>1, <4>2, <4>3
    <3>12. CASE hid_state = 4 /\ woken = 2 /\ plugged = "classic" /\ eight /\ Asks("type")
      <4>1. req = "type"
        BY <3>2, <3>12
      <4>2. Wii!ExtType = "classic 8bit"
        <5>1. ~ (woken < 2) /\ plugged # "none"
          BY <3>12
        <5> QED BY <3>12, <5>1 DEF Wii!ExtType
      <4>3. r = <<"data", "classic 8bit">> /\ woken' = 2 /\ eight'
        BY <2>1, <3>12, <4>1, <4>2
      <4>4. EightTold'
        BY <3>5, <3>12, <4>3 DEF EightTold, Gets
      <4> QED BY <1>1, <3>12, <4>3, <4>4 DEF Chain
    <3> QED BY <2>8, <3>4, <3>8, <3>9, <3>10, <3>11, <3>12 DEF Chain
  <2> QED BY <1>1, <2>1, <2>2, <2>3, <2>4, <2>5, <2>6, <2>7, <2>8 DEF WiiIInv
<1> QED BY <1>2, <1>3

(* A report of the extension.                                              *)
LEMMA WiiSends ==
  ASSUME WiiIInv, Wii!Sends
  PROVE  WiiIInv'
<1> DEFINE x == <<"report", Wii!ExtType>>
<1>1. /\ reporting /\ Wii!ExtType # "unknown" /\ rsps' = Append(rsps, x)
      /\ UNCHANGED <<type, hid_state, subtype, init, plugged, woken, eight, reporting, plugs, fails,
                     reqs, crossed>>
  BY DEF Wii!Sends, Wii!remote
<1>2. x \in Reports /\ x \in Rsps \ Statuses /\ x \in Noise /\ rsps \in Seq(Rsps) /\ rsps' \in Seq(Rsps)
  <2>1. x \in Reports
    BY <1>1, ExtTypes DEF Reports, WiiIInv, Wii!TypeOK
  <2>2. x \in Rsps \ Statuses /\ x \in Noise
    BY <2>1, RspSets DEF Noise
  <2> QED BY <1>1, <2>1, <2>2, AppendType DEF WiiIInv
<1>3. /\ plugged # "none" /\ woken = 2 /\ type # "none"
      /\ Wii!ExtType = (IF plugged = "classic" /\ eight THEN "classic 8bit" ELSE plugged)
  <2>1. plugged # "none" /\ ~ (woken < 2) /\ woken \in 0..2
    BY <1>1 DEF Wii!ExtType, WiiIInv, Wii!TypeOK
  <2>2. woken = 2
    BY <2>1
  <2> QED BY <2>1, <2>2 DEF Wii!ExtType, WiiIInv, Off
<1>4. Wii!TypeOK'
  BY <1>1 DEF WiiIInv, Wii!TypeOK
<1>5. ~ reporting' => FALSE
  BY <1>1
<1>6. ASSUME Waking PROVE Waking'
  <2>1. Late(rsps)
    <3>1. woken = 2
      BY <1>3, Zenon
    <3>2. 2 # 0
      OBVIOUS
    <3>3. woken # 0
      BY <3>1, <3>2, Zenon
    <3> QED BY <1>6, <3>3, Zenon DEF Waking
  <2>2. Late(rsps')
    BY <1>1, <1>2, <2>1, LateAppend
  <2> QED BY <2>2 DEF Waking
<1>7. rsps \in Seq(Rsps \ Statuses) => rsps' \in Seq(Rsps \ Statuses)
  BY <1>1, <1>2, AppendType
<1> HIDE DEF x
<1>8. ASSUME Chain PROVE Chain'
  <2>1. ASSUME NEW r, Asks(r) PROVE Asks(r)'
    BY <1>1, <1>2, <2>1, AppendType DEF Asks
  <2>2. ASSUME NEW r, NEW Z, x \in Z, Gets(r, Z)
        PROVE  reqs' \in Seq({"rep"}) /\ Split(rsps', r, Noise, Z)
    BY <1>1, <1>2, <2>2, SplitAppend DEF Gets
  <2>3. ASSUME NEW d \in BOOLEAN, Acked(d) PROVE Acked(d)'
    BY <1>2, <2>2, <2>3 DEF Acked, Gets
  <2>4. ASSUME TypeTold, ~eight PROVE TypeTold'
    <3>1. x \in {<<"report", plugged>>}
      BY <1>3, <2>4 DEF x
    <3> QED BY <1>1, <2>2, <2>4, <3>1 DEF TypeTold, Gets
  <2>5. ASSUME EightTold, eight, plugged = "classic" PROVE EightTold'
    <3>1. x \in {<<"report", "classic 8bit">>}
      BY <1>3, <2>5 DEF x
    <3> QED BY <1>1, <2>2, <2>5, <3>1 DEF EightTold, Gets
  <2>6. ASSUME Over PROVE Over'
    <3>1. x \in {<<"report", subtype>>}
      BY <1>3, <2>6 DEF x, Over, WiiIInv, Wii!TypeOK
    <3>2. rsps' \in Seq({<<"report", subtype>>})
      BY <1>1, <2>6, <3>1, AppendType DEF Over
    <3> QED BY <1>1, <2>6, <3>2 DEF Over
  <2> QED BY <1>1, <1>8, <2>1, <2>3, <2>4, <2>5, <2>6, ChainKept
<1> QED BY <1>1, <1>2, <1>3, <1>4, <1>6, <1>7, <1>8 DEF WiiIInv

LEMMA ZeroRanges == 0 \in 0..5 /\ 0 \in 0..2 /\ 0 \in 0..MaxPlug /\ 0 \in 0..MaxFail
  BY WiiAssumption

(* Extensions plugged and unplugged.                                       *)
LEMMA WiiPlug ==
  ASSUME WiiIInv, NEW ext \in {"nunchuk", "classic"}, Wii!Plug(ext)
  PROVE  WiiIInv'
<1>1. /\ type = "wii" /\ plugged = "none" /\ plugs < MaxPlug /\ plugged' = ext /\ plugs' = plugs + 1
      /\ reporting' = FALSE /\ rsps' = Append(rsps, <<"status", "plugged">>)
      /\ UNCHANGED <<type, hid_state, subtype, init, woken, eight, reqs, fails, crossed>>
  BY DEF Wii!Plug
<1>2. /\ rsps \in Seq(Rsps) /\ <<"status", "plugged">> \in Rsps /\ <<"status", "plugged">> \in Statuses
      /\ woken = 0 /\ ~eight
  BY <1>1 DEF WiiIInv, Rsps, Statuses
<1>3. rsps' \in Seq(Rsps)
  BY <1>1, <1>2, AppendType
<1>4. Split(rsps', <<"status", "plugged">>, Rsps, {Silence})
  BY <1>1, <1>2, SplitNew
<1>5. Has(rsps', Data \cup Statuses)
  BY <1>1, <1>2, HasAppend
<1>6. Wii!TypeOK'
  <2>1. plugs' \in 0..MaxPlug
    <3>1. plugs \in 0..MaxPlug /\ MaxPlug \in Nat
      BY WiiAssumption DEF WiiIInv, Wii!TypeOK
    <3> QED BY <1>1, <3>1
  <2> QED BY <1>1, <2>1 DEF WiiIInv, Wii!TypeOK
<1>7. Waking' /\ ToReport'
  BY <1>1, <1>2, <1>4, <1>5 DEF Waking, ToReport
<1> QED BY <1>1, <1>2, <1>3, <1>6, <1>7 DEF WiiIInv

LEMMA WiiUnplug ==
  ASSUME WiiIInv, Wii!Unplug
  PROVE  WiiIInv'
<1>1. /\ plugged # "none" /\ plugged' = "none" /\ woken' = 0 /\ eight' = FALSE /\ reporting' = FALSE
      /\ rsps' = Append(rsps, <<"status", "empty">>)
      /\ UNCHANGED <<type, hid_state, subtype, init, reqs, plugs, fails, crossed>>
  BY DEF Wii!Unplug
<1>2. /\ rsps \in Seq(Rsps) /\ <<"status", "empty">> \in Rsps /\ <<"status", "empty">> \in Statuses
      /\ type # "none"
  BY <1>1 DEF WiiIInv, Rsps, Statuses, Off
<1>3. rsps' \in Seq(Rsps)
  BY <1>1, <1>2, AppendType
<1>4. Split(rsps', <<"status", "empty">>, Rsps, Answers \cup {Silence})
  BY <1>1, <1>2, SplitNew
<1>5. Has(rsps', Data \cup Statuses)
  BY <1>1, <1>2, HasAppend
<1>6. Wii!TypeOK'
  BY <1>1, ZeroRanges DEF WiiIInv, Wii!TypeOK
<1>7. Empty' /\ ToReport'
  BY <1>4, <1>5 DEF Empty, ToReport
<1> QED BY <1>1, <1>2, <1>3, <1>6, <1>7 DEF WiiIInv

(* The slot taken, left, and as it starts.                                 *)
LEMMA WiiEmpty ==
  ASSUME plugged = "none", woken = 0, ~eight, rsps = <<>>, subtype = "default", Wii!TypeOK,
         reqs \in Seq(Wakes \cup {"type", "rep"}), type = "none" => Off,
         type = "wii" /\ ~reporting => ToReport
  PROVE  WiiIInv
<1>1. \A S : rsps \in Seq(S)
  OBVIOUS
<1> QED BY <1>1 DEF WiiIInv, Empty

LEMMA WiiInitOK == Wii!Init => WiiIInv
<1> SUFFICES ASSUME Wii!Init PROVE WiiIInv
  OBVIOUS
<1>1. Wii!TypeOK
  BY ZeroRanges DEF Wii!Init, Wii!TypeOK, Wii!SET_INIT0, Wii!Beyond
<1>2. Off /\ reqs \in Seq(Wakes \cup {"type", "rep"})
  BY DEF Wii!Init, Off, Wii!SET_INIT0
<1> QED BY <1>1, <1>2, WiiEmpty DEF Wii!Init

LEMMA WiiHidWiiInit ==
  ASSUME WiiIInv, Wii!HidWiiInit
  PROVE  WiiIInv'
<1>1. /\ type = "none" /\ type' = "wii" /\ reqs' = Append(reqs, "rep")
      /\ UNCHANGED <<hid_state, subtype, init, plugged, woken, eight, reporting, plugs, fails, rsps, crossed>>
  BY DEF Wii!HidWiiInit, Wii!RepMode, Wii!remote
<1>2. /\ Off /\ reqs \in Seq(Wakes \cup {"type", "rep"}) /\ woken = 0 /\ ~eight
  BY <1>1 DEF WiiIInv, Off
<1>3. reqs' \in Seq(Wakes \cup {"type", "rep"}) /\ Has(reqs', {"rep", "type"})
  BY <1>1, <1>2, AppendType, HasAppend
<1>4. Wii!TypeOK' /\ ToReport'
  BY <1>1, <1>3 DEF WiiIInv, Wii!TypeOK, ToReport
<1>5. Empty'
  BY <1>1, <1>2 DEF WiiIInv, Empty, Off
<1> QED BY <1>1, <1>2, <1>3, <1>4, <1>5 DEF WiiIInv, Off

LEMMA WiiLeave ==
  ASSUME WiiIInv, Wii!Leave
  PROVE  WiiIInv'
<1>1. /\ type' = "none" /\ hid_state' = 0 /\ subtype' = "default" /\ init' = FALSE
      /\ plugged' = "none" /\ woken' = 0 /\ eight' = FALSE /\ reporting' = FALSE
      /\ reqs' = <<>> /\ rsps' = <<>> /\ plugs' = 0 /\ fails' = 0 /\ crossed' = FALSE
  BY DEF Wii!Leave, Wii!SET_INIT0
<1>2. Wii!TypeOK'
  BY <1>1, ZeroRanges DEF Wii!TypeOK, Wii!Beyond
<1>3. Off' /\ Empty' /\ reqs' \in Seq(Wakes \cup {"type", "rep"}) /\ rsps' \in Seq(Rsps)
  <2>1. \A S : <<>> \in Seq(S)
    OBVIOUS
  <2> QED BY <1>1, <2>1 DEF Off, Empty
<1> QED BY <1>1, <1>2, <1>3 DEF WiiIInv

LEMMA WiiStep ==
  ASSUME WiiIInv, Wii!Next
  PROVE  WiiIInv'
<1>1. CASE \E ext \in {"nunchuk", "classic"} : Wii!Plug(ext)
  BY <1>1, WiiPlug
<1> QED BY <1>1, WiiHidWiiInit, WiiLeave, WiiUnplug, WiiServe, WiiSends, WiiStatus, WiiRdData, WiiAck,
           WiiReport DEF Wii!Next, Wii!Handle

LEMMA WiiSound == WiiIInv => Wii!TypeOK /\ Wii!ExtKnown
<1> SUFFICES ASSUME WiiIInv, Wii!Quiet PROVE Wii!ExtKnown
  BY DEF WiiIInv, Wii!ExtKnown
<1>1. /\ reqs = <<>> /\ rsps = <<>> /\ \A q, S : q = <<>> => ~ Has(q, S)
      /\ \A q, x, Y, Z : q = <<>> => ~ Split(q, x, Y, Z)
      /\ \A q : q = <<>> => ~ Late(q)
  BY DEF Wii!Quiet, Has, Split, Late
<1>2. reporting
  BY <1>1 DEF WiiIInv, ToReport, Wii!Quiet, Wii!TypeOK
<1>3. ASSUME plugged = "none" PROVE Wii!ExtKnown
  <2>1. Empty /\ subtype = "default"
    BY <1>1, <1>3 DEF WiiIInv, Empty
  <2> QED BY <1>2, <1>3, <2>1 DEF Wii!ExtKnown, Wii!ExtType
<1>4. ASSUME plugged # "none" PROVE Wii!ExtKnown
  <2>1. crossed \/ Chain
    BY <1>1, <1>4 DEF WiiIInv, Waking
  <2>2. Chain => Over
    BY <1>1 DEF Chain, Asks, Acked, TypeTold, EightTold, Gets
  <2>3. CASE crossed
    BY <1>2, <2>3 DEF Wii!ExtKnown
  <2>4. CASE Over
    <3>1. plugged \in {"nunchuk", "classic"} /\ eight \in BOOLEAN
      BY <1>4 DEF WiiIInv, Wii!TypeOK
    <3>2. Wii!ExtType = subtype /\ subtype # "unknown"
      <4>1. /\ woken = 2 /\ ~ (2 < 2) /\ (plugged = "classic") = eight
            /\ subtype = (IF eight THEN "classic 8bit" ELSE plugged)
        <5>1. ~ (2 < 2)
          OBVIOUS
        <5> QED BY <2>4, <5>1, Zenon DEF Over
      <4>2. CASE plugged = "classic"
        BY <3>1, <4>1, <4>2 DEF Wii!ExtType
      <4>3. CASE plugged = "nunchuk"
        BY <3>1, <4>1, <4>3 DEF Wii!ExtType
      <4> QED BY <3>1, <4>2, <4>3
    <3>3. woken = 2 /\ (plugged = "classic" => eight)
      BY <2>4 DEF Over
    <3> QED BY <1>2, <3>2, <3>3 DEF Wii!ExtKnown
  <2> QED BY <2>1, <2>2, <2>3, <2>4
<1> QED BY <1>3, <1>4
-----------------------------------------------------------------------------
(***************************************************************************)
(* The slot: the invariant of the kind of controller it serves, and what   *)
(* the other kinds left as it was.                                         *)
(***************************************************************************)
IInv ==
  /\ radio \in {"BR/EDR", "LE", "Wii"}
  /\ radio = "BR/EDR" => SwIInv
  /\ radio = "LE" => LeIInv
  /\ radio = "Wii" => WiiIInv
  /\ radio # "BR/EDR" => ~calib_set
  /\ radio # "LE" => flags = {}

LEMMA IInvInit == Init => IInv
<1> SUFFICES ASSUME Init PROVE IInv
  OBVIOUS
<1>1. SwIInv /\ LeIInv /\ WiiIInv
  BY SwInitOK, LeInitOK, WiiInitOK DEF Init
<1>2. ~calib_set /\ flags = {}
  BY DEF Init, Sw!Init, Le!Init
<1> QED BY <1>1, <1>2 DEF IInv, Init

LEMMA IInvStep == IInv /\ [Next]_vars => IInv'
<1> SUFFICES ASSUME IInv, [Next]_vars PROVE IInv'
  OBVIOUS
<1>1. CASE Classic
  BY <1>1, SwStep DEF Classic, IInv, leVars
<1>2. CASE LowEnergy
  BY <1>2, LeStep DEF LowEnergy, IInv, swVars
<1>3. CASE WiiRemote
  BY <1>3, WiiStep DEF WiiRemote, IInv, swVars, leVars
<1>4. CASE UNCHANGED vars
  <2>1. SwIInv => SwIInv'
    BY <1>4 DEF vars, swVars, SwIInv, Sw!TypeOK, Sw!NeverStalls, Sw!CalibComplete, Due
  <2>2. LeIInv => LeIInv'
    BY <1>4 DEF vars, leVars, LeIInv, LeBase, LePlain, LeSwitch2, Le!TypeOK, Told, Waits, Le!Sw2Of, One
  <2>3. WiiIInv => WiiIInv'
    BY <1>4 DEF vars, wiiVars, WiiIInv, Wii!TypeOK, Off, ToReport, Empty, Waking, Chain, Asks, Acked,
                Gets, TypeTold, EightTold, Over
  <2> QED BY <1>4, <2>1, <2>2, <2>3 DEF IInv, vars, swVars, leVars
<1> QED BY <1>1, <1>2, <1>3, <1>4 DEF Next

LEMMA IInvSound == IInv => Inv /\ ReadySound
<1> SUFFICES ASSUME IInv PROVE Inv /\ ReadySound
  OBVIOUS
<1>1. CASE radio = "BR/EDR"
  <2>1. Sw!Inv /\ Sw!CalibComplete /\ Sw!TypeOK
    BY <1>1, SwSound DEF IInv, SwIInv
  <2>2. Le!ReadySound
    BY <1>1 DEF IInv, Le!ReadySound
  <2>3. Wii!ExtKnown
    BY <2>1 DEF Sw!TypeOK, Wii!ExtKnown, Wii!Quiet
  <2> QED BY <1>1, <2>1, <2>2, <2>3 DEF Inv, ReadySound
<1>2. CASE radio = "LE"
  <2>1. Le!Inv /\ Le!ReadySound /\ Le!TypeOK
    BY <1>2, LeSound DEF IInv, LeIInv, LeBase
  <2>2. Sw!CalibComplete
    BY <1>2 DEF IInv, Sw!CalibComplete
  <2>3. Wii!ExtKnown
    BY <2>1 DEF Le!TypeOK, Wii!ExtKnown, Wii!Quiet
  <2> QED BY <1>2, <2>1, <2>2, <2>3 DEF Inv, ReadySound
<1>3. CASE radio = "Wii"
  <2>1. Wii!TypeOK /\ Wii!ExtKnown
    BY <1>3, WiiSound DEF IInv
  <2>2. Sw!CalibComplete /\ Le!ReadySound
    BY <1>3 DEF IInv, Sw!CalibComplete, Le!ReadySound
  <2> QED BY <1>3, <2>1, <2>2 DEF Inv, ReadySound
<1> QED BY <1>1, <1>2, <1>3 DEF IInv

(* The Switch handshake always has a timer or an answer to go on with, an  *)
(* answer of an LE controller meets the state that asked for it, whatever  *)
(* the order of events: bt_hid_sw_hdlr and the time-out of its handshake,  *)
(* bt_att_hid_process_* (Inv).                                             *)
THEOREM HandshakesHold == Spec => []Inv
<1>1. IInv => Inv
  BY IInvSound
<1> QED BY <1>1, IInvInit, IInvStep, PTL DEF Spec

(* What counts as done is done: the calibration of a Switch controller,    *)
(* the notifications of an LE controller, and the decoding and wake-up of  *)
(* the extension of a Wii Remote at rest (ReadySound).                     *)
THEOREM ReadyMeansDone == Spec => []ReadySound
<1>1. IInv => ReadySound
  BY IInvSound
<1> QED BY <1>1, IInvInit, IInvStep, PTL DEF Spec
=============================================================================
