------------------------------ MODULE Transmit ------------------------------
(***************************************************************************)
(* The way of packets to the Bluetooth controller (bluetooth/host.c):      *)
(* every sender builds its packet in the one buffer bt_hci_pkt_tmp, which  *)
(* bt_host_txq_add copies to a ring, waiting for room without a limit;     *)
(* bt_tx_task gives the packets to the controller, one at a time.          *)
(*                                                                         *)
(* All run on core 0, where a task is preempted by those of higher         *)
(* priority only.  The callbacks of the controller, for received packets   *)
(* and for "ready", are calls of the controller's own task.                *)
(***************************************************************************)
EXTENDS Naturals, Sequences

CONSTANT Room   \* packets the ring holds (2 KiB)

\* Priorities: the controller's and the esp_timer task's are those of the platform
Senders == {"callback", "timer", "fb", "mgr"}
Prio == [callback |-> 23, timer |-> 22, tx |-> 11, fb |-> 10, mgr |-> 5]

\* A packet: its sender, whose content it has, and whether it had to wait for room
Packets == Senders \X Senders \X BOOLEAN
Wait == <<"wait", "wait", FALSE>>   \* bt_host_q_wait_pkt

VARIABLES
  tmp,      \* bt_hci_pkt_tmp: whose packet it holds
  pc,       \* each sender: idle, or the call of bt_host_txq_add it is about to make
  blocked,  \* senders that wait for room
  txq,      \* txq_hdl, with the packet that is being sent
  tx,       \* bt_tx_task: what it does next
  ready,    \* BT_CTRL_READY
  taken,    \* the controller has a packet it has not answered
  waited    \* history: senders that waited for room for the packet under way

sendVars == <<tmp, pc, blocked, waited>>
vars == <<sendVars, txq, tx, ready, taken>>

Init ==
  /\ tmp = "none" /\ pc = [s \in Senders |-> "idle"] /\ blocked = {} /\ waited = {}
  /\ txq = <<>> /\ tx = "test" /\ ready = TRUE /\ taken = FALSE

\* A task that does not block, sleep or wait for a packet keeps those below it from running
TxRuns == tx \notin {"sleep", "delay"} /\ (tx = "receive" => txq # <<>>)
Runs(t) == IF t = "tx" THEN TxRuns ELSE pc[t] # "idle" /\ t \notin blocked
Free(t) == \A o \in DOMAIN Prio : Prio[o] > Prio[t] => ~Runs(o)
-----------------------------------------------------------------------------
(* A sender *)

Fill(s) ==
  /\ pc[s] = "idle" /\ Free(s)
  /\ \/ pc' = [pc EXCEPT ![s] = "packet"] /\ tmp' = s
     \/ s = "callback" /\ pc' = [pc EXCEPT ![s] = "wait"] /\ UNCHANGED tmp
  /\ UNCHANGED <<blocked, waited, txq, tx, ready, taken>>

\* xRingbufferSend: the ring copies the buffer when it has room
Add(s) ==
  /\ pc[s] # "idle" /\ Free(s) /\ Len(txq) < Room
  /\ txq' = Append(txq, IF pc[s] = "wait" THEN Wait ELSE <<s, tmp, s \in waited>>)
  /\ pc' = [pc EXCEPT ![s] = "idle"] /\ blocked' = blocked \ {s}
  /\ waited' = waited \ {s}
  /\ UNCHANGED <<tmp, tx, ready, taken>>

Block(s) ==
  /\ pc[s] # "idle" /\ s \notin blocked /\ Free(s) /\ Len(txq) = Room
  /\ blocked' = blocked \cup {s} /\ waited' = waited \cup {s}
  /\ UNCHANGED <<tmp, pc, txq, tx, ready, taken>>
-----------------------------------------------------------------------------
(* bt_tx_task *)

Tx(from, to) == tx = from /\ tx' = to /\ Free("tx")

Test == tx = "test" /\ Tx("test", IF ready THEN "receive" ELSE "sleep")
        /\ UNCHANGED <<sendVars, txq, ready, taken>>
Wake == Tx("sleep", "test") /\ UNCHANGED <<sendVars, txq, ready, taken>>

Receive == txq # <<>> /\ Tx("receive", IF txq[1] = Wait THEN "delay" ELSE "clear")
           /\ UNCHANGED <<sendVars, txq, ready, taken>>
Delayed == Tx("delay", "return") /\ UNCHANGED <<sendVars, txq, ready, taken>>

\* BT_CTRL_READY is cleared before the controller can set it for this packet
Clear == Tx("clear", "send") /\ ready' = FALSE /\ UNCHANGED <<sendVars, txq, taken>>
Send == Tx("send", "return") /\ taken' = TRUE /\ UNCHANGED <<sendVars, txq, ready>>
SendFirst ==  \* mutant: the flag is cleared when the packet has been sent
  /\ UNCHANGED <<sendVars, txq>>
  /\ \/ Tx("clear", "send") /\ taken' = TRUE /\ UNCHANGED ready
     \/ Tx("send", "return") /\ ready' = FALSE /\ UNCHANGED taken

Return ==
  /\ Tx("return", "test") /\ txq' = Tail(txq)
  /\ blocked' = {}
  /\ UNCHANGED <<tmp, pc, waited, ready, taken>>

\* bt_host_tx_pkt_ready, which the controller calls when no other callback of its runs
Ready ==
  /\ taken /\ pc["callback"] = "idle"
  /\ taken' = FALSE /\ ready' = TRUE
  /\ UNCHANGED <<sendVars, txq, tx>>

Give == Clear \/ Send
Next ==
  \/ \E s \in Senders : Fill(s) \/ Add(s) \/ Block(s)
  \/ Test \/ Wake \/ Receive \/ Delayed \/ Give \/ Return
  \/ Ready
-----------------------------------------------------------------------------
TypeOK ==
  /\ tmp \in Senders \cup {"none"} /\ pc \in [Senders -> {"idle", "packet", "wait"}]
  /\ blocked \subseteq Senders /\ waited \subseteq Senders
  /\ txq \in Seq({Wait} \cup Packets) /\ Len(txq) <= Room
  /\ tx \in {"test", "sleep", "receive", "delay", "clear", "send", "return"}
  /\ {ready, taken} \subseteq BOOLEAN

\* The path never stops with packets in the ring, whoever preempts whom: the controller
\* is ready, or about to be given a packet, or owes an answer it can give.  The
\* exception is a callback that waits for room: nothing ends that wait but the answer
\* that its own task would have to deliver
Moves ==
  txq # <<>> =>
    \/ ready \/ tx = "send"
    \/ taken /\ "callback" \notin blocked
    \/ "callback" \in blocked /\ Len(txq) = Room

\* What is in the ring is what its sender built, unless one of a higher priority filled
\* the buffer in between, or the sender had to wait for room and anyone did
Intact ==
  \A i \in DOMAIN txq :
    LET by == txq[i][1]
        of == txq[i][2]
    IN of # by => txq[i][3] \/ Prio[of] > Prio[by]

TxInv == TypeOK /\ Moves /\ Intact
=============================================================================
