------------------------------ MODULE FbQueue ------------------------------
(***************************************************************************)
(* The queue of components/queue_bss: N - 1 item buffers, whose addresses  *)
(* go round through two single-producer single-consumer rings, one of free *)
(* items and one of items that hold a message.  It carries the feedback of *)
(* the console to bt_fb_task, and key codes to the console (kb_monitor.c). *)
(*                                                                         *)
(* An enqueue is called by core 1, by the esp_timer task, and by tasks of  *)
(* core 0, and nothing keeps them apart; the consumer is one task.  Every  *)
(* access to memory that both sides use is a step of its own.              *)
(***************************************************************************)
EXTENDS Naturals

CONSTANTS
  Producers,  \* the contexts that call queue_bss_enqueue
  Msgs,       \* messages
  NoMsg,
  N,          \* item_num, the elements of a ring
  MaxLate     \* bound: enqueues from the first one that is made during another one

ASSUME FbQueueAssumption == N \in Nat /\ N > 1 /\ NoMsg \notin Msgs /\ MaxLate \in Nat

Items == 1..(N - 1)
NoItem == 0

VARIABLES
  free, queue,  \* item_free_state and item_queue_state with their elements
  data,         \* the contents of each item
  ppc,          \* where each producer is in queue_bss_enqueue
  pitem, pmsg,  \* its qitem and the message it was called with
  cpc,          \* where the consumer is between dequeue and return
  citem,        \* its qitem
  answer,       \* result of the last enqueue that ended
  late          \* history: enqueues from the first one called during another one

prodVars == <<ppc, pitem, pmsg>>
consVars == <<cpc, citem>>
vars == <<free, queue, data, prodVars, consVars, answer, late>>
-----------------------------------------------------------------------------
(* The rings of liblfds: one element stays unused to tell full from empty. *)

NextIndex(i) == IF i + 1 = N THEN 0 ELSE i + 1

IsEmpty(q) == q.r = q.w
IsFull(q)  == NextIndex(q.w) = q.r
First(q)   == q.elem[q.r]

Popped(q)    == [r |-> NextIndex(q.r), w |-> q.w, elem |-> q.elem]
Stored(q, x) == [r |-> q.r, w |-> q.w, elem |-> [q.elem EXCEPT ![q.w] = x]]
Pushed(q)    == [r |-> q.r, w |-> NextIndex(q.w), elem |-> q.elem]

InitItems == N - 1  \* queue_bss_init puts all items but the unused one in the free ring

Init ==
  /\ free  = [r |-> 0, w |-> InitItems,
              elem |-> [i \in 0..(N - 1) |-> IF i < InitItems THEN i + 1 ELSE NoItem]]
  /\ queue = [r |-> 0, w |-> 0, elem |-> [i \in 0..(N - 1) |-> NoItem]]
  /\ data = [i \in Items |-> NoMsg]
  /\ ppc = [p \in Producers |-> "idle"]
  /\ pitem = [p \in Producers |-> NoItem] /\ pmsg = [p \in Producers |-> NoMsg]
  /\ cpc = "idle" /\ citem = NoItem
  /\ answer = "none" /\ late = 0
-----------------------------------------------------------------------------
(* queue_bss_enqueue *)

Idle(p) == ppc[p] = "idle"
Alone(p) == \A o \in Producers \ {p} : Idle(o)

Called(p) ==
  IF late = 0 /\ Alone(p) THEN UNCHANGED late ELSE late < MaxLate /\ late' = late + 1

Goto(p, from, to) == ppc[p] = from /\ ppc' = [ppc EXCEPT ![p] = to]

Ends(p, from, result) ==
  /\ Goto(p, from, "idle")
  /\ pitem' = [pitem EXCEPT ![p] = NoItem] /\ pmsg' = [pmsg EXCEPT ![p] = NoMsg]
  /\ answer' = result

Refused(p) ==
  /\ Idle(p) /\ IsEmpty(free)
  /\ answer' = "full"
  /\ Called(p)
  /\ UNCHANGED <<free, queue, data, prodVars, consVars>>

TakeFree(p, m) ==
  /\ ~IsEmpty(free) /\ Goto(p, "idle", "taken")
  /\ pitem' = [pitem EXCEPT ![p] = First(free)]
  /\ pmsg' = [pmsg EXCEPT ![p] = m]
  /\ Called(p)
  /\ UNCHANGED <<free, queue, data, consVars, answer>>

PopFree(p) ==
  /\ Goto(p, "taken", "copy")
  /\ free' = Popped(free)
  /\ UNCHANGED <<queue, data, pitem, pmsg, consVars, answer, late>>

CopyNot(p) ==  \* mutant: the length is copied and not the message
  /\ Goto(p, "copy", "store")
  /\ UNCHANGED <<free, queue, data, pitem, pmsg, consVars, answer, late>>

Copy(p) ==
  /\ Goto(p, "copy", "store")
  /\ data' = [data EXCEPT ![pitem[p]] = pmsg[p]]
  /\ UNCHANGED <<free, queue, pitem, pmsg, consVars, answer, late>>

Store(p) ==
  /\ ~IsFull(queue) /\ Goto(p, "store", "push")
  /\ queue' = Stored(queue, pitem[p])
  /\ UNCHANGED <<free, data, pitem, pmsg, consVars, answer, late>>

Push(p) ==
  /\ Ends(p, "push", "ok")
  /\ queue' = Pushed(queue)
  /\ UNCHANGED <<free, data, consVars, late>>

(* "Queue full": the item goes back, which makes the producer a second one *)
(* of the free ring.  If that is full the item is lost.                    *)
GiveBack(p) ==
  /\ IsFull(queue)
  /\ \/ /\ ~IsFull(free) /\ Goto(p, "store", "back")
        /\ free' = Stored(free, pitem[p])
        /\ UNCHANGED <<pitem, pmsg, answer>>
     \/ /\ IsFull(free) /\ Ends(p, "store", "full")
        /\ UNCHANGED free
  /\ UNCHANGED <<queue, data, consVars, late>>

PushBack(p) ==
  /\ Ends(p, "back", "full")
  /\ free' = Pushed(free)
  /\ UNCHANGED <<queue, data, consVars, late>>
-----------------------------------------------------------------------------
(* The consumer: queue_bss_dequeue, the use of the item, queue_bss_return *)

Step(from, to) == cpc = from /\ cpc' = to
Release(from)  == Step(from, "idle") /\ citem' = NoItem

TakeItem ==
  /\ ~IsEmpty(queue) /\ Step("idle", "taken")
  /\ citem' = First(queue)
  /\ UNCHANGED <<free, queue, data, prodVars, answer, late>>

PopItem ==
  /\ Step("taken", "use")
  /\ queue' = Popped(queue)
  /\ UNCHANGED <<free, data, prodVars, citem, answer, late>>

ReturnItem ==
  /\ \/ /\ ~IsFull(free) /\ Step("use", "return")
        /\ free' = Stored(free, citem)
        /\ UNCHANGED citem
     \/ /\ IsFull(free) /\ Release("use")
        /\ UNCHANGED free
  /\ UNCHANGED <<queue, data, prodVars, answer, late>>

PushFreeNot ==  \* mutant: the item is not returned
  /\ Release("return")
  /\ UNCHANGED <<free, queue, data, prodVars, answer, late>>

PushFree ==
  /\ Release("return")
  /\ free' = Pushed(free)
  /\ UNCHANGED <<queue, data, prodVars, answer, late>>
-----------------------------------------------------------------------------
Enqueue(p) ==
  \/ Refused(p) \/ (\E m \in Msgs : TakeFree(p, m)) \/ PopFree(p) \/ Copy(p)
  \/ Store(p) \/ Push(p) \/ GiveBack(p) \/ PushBack(p)

Consumer == TakeItem \/ PopItem \/ ReturnItem \/ PushFree

Next == (\E p \in Producers : Enqueue(p)) \/ Consumer

Spec == Init /\ [][Next]_vars
-----------------------------------------------------------------------------
Ring == [r : 0..(N - 1), w : 0..(N - 1), elem : [0..(N - 1) -> Items \cup {NoItem}]]

(* Every variable stays in its domain, the indices in their rings, even    *)
(* when enqueues overlap.                                                  *)
TypeOK ==
  /\ free \in Ring /\ queue \in Ring
  /\ data \in [Items -> Msgs \cup {NoMsg}]
  /\ ppc \in [Producers -> {"idle", "taken", "copy", "store", "push", "back"}]
  /\ pitem \in [Producers -> Items \cup {NoItem}]
  /\ pmsg \in [Producers -> Msgs \cup {NoMsg}]
  /\ cpc \in {"idle", "taken", "use", "return"} /\ citem \in Items \cup {NoItem}
  /\ answer \in {"none", "ok", "full"} /\ late \in 0..MaxLate

calm == late = 0

Count(q) == IF q.r <= q.w THEN q.w - q.r ELSE q.w + N - q.r
Wrap(i)  == IF i < N THEN i ELSE i - N
At(q, k) == q.elem[Wrap(q.r + k)]

Owners(x) ==
  {<<"free", k>> : k \in {k \in 0..(Count(free) - 1) : At(free, k) = x}}
    \cup {<<"queue", k>> : k \in {k \in 0..(Count(queue) - 1) : At(queue, k) = x}}
    \cup {<<"producer", p>> : p \in {p \in Producers :
                         ppc[p] \in {"copy", "store", "push"} /\ pitem[p] = x}}
    \cup (IF cpc \in {"use", "return"} /\ citem = x THEN {<<"consumer", 0>>} ELSE {})

(* Every item is in one place: free, queued, with the producer or with the *)
(* consumer.  None is lost, and none is written by one side and read by    *)
(* the other, as long as no enqueue is called during another one.          *)
EachItemOnce == calm => \A x \in Items : \E o \in Owners(x) : Owners(x) = {o}

fifo  == [k \in 1..Count(queue) |-> data[At(queue, k - 1)]]
given == IF cpc \in {"use", "return"} THEN data[citem] ELSE NoMsg

Abstract == INSTANCE LossyFifo WITH Cap <- N - 1

(* The queue is a bounded FIFO that refuses a message only when it is full *)
(* and keeps what the consumer was given unchanged, LossyFifo.             *)
Refines == Abstract!Spec
=============================================================================
