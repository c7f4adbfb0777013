----------------------------- MODULE LossyFifo -----------------------------
(***************************************************************************)
(* What adapter.c, memory_card.c, the wired protocols and bt_fb_task       *)
(* expect of the feedback queue: a bounded FIFO that refuses a message     *)
(* only when it is full, and whose consumer keeps the message it was given *)
(* until it returns it.  An enqueue during another one breaks the contract *)
(* of the single-producer rings, and nothing is promised from then on.     *)
(***************************************************************************)
EXTENDS Naturals, Sequences

CONSTANTS
  Msgs,   \* feedback messages
  NoMsg,
  Cap     \* messages in the queue or with the consumer

VARIABLES
  fifo,    \* messages queued
  given,   \* the message with the consumer, or NoMsg
  answer,  \* of the last enqueue that ended
  calm     \* no two enqueues were ever made at the same time

vars == <<fifo, given, answer, calm>>

Held == Len(fifo) + (IF given = NoMsg THEN 0 ELSE 1)

Init == fifo = <<>> /\ given = NoMsg /\ answer = "none" /\ calm = TRUE

Put(m) ==
  /\ calm /\ Held < Cap
  /\ fifo' = Append(fifo, m) /\ answer' = "ok"
  /\ UNCHANGED <<given, calm>>

Refuse ==
  /\ calm /\ Held = Cap
  /\ answer' = "full"
  /\ UNCHANGED <<fifo, given, calm>>

Get ==
  /\ calm /\ fifo # <<>> /\ given = NoMsg
  /\ given' = Head(fifo) /\ fifo' = Tail(fifo)
  /\ UNCHANGED <<answer, calm>>

Return ==
  /\ calm /\ given # NoMsg
  /\ given' = NoMsg
  /\ UNCHANGED <<fifo, answer, calm>>

Overlap == calm' = FALSE  \* anything may become of the rest

Next == (\E m \in Msgs : Put(m)) \/ Refuse \/ Get \/ Return \/ Overlap

Spec == Init /\ [][Next]_vars
=============================================================================
