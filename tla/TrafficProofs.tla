--------------------------- MODULE TrafficProofs ---------------------------
(***************************************************************************)
(* Traffic for any links, ports, controllers, keys and lengths of queues:  *)
(* what each path promises holds along every run.  A behaviour follows one *)
(* path, so each has an inductive invariant of its own.                    *)
(***************************************************************************)
EXTENDS Traffic, Sequences, SequenceTheorems, FiniteSetTheorems, TLAPS
-----------------------------------------------------------------------------
(***************************************************************************)
(* The feedback queue: its types, that every item has one owner, and that  *)
(* it implements LossyFifo, for any producers, messages and size.          *)
(***************************************************************************)
(***************************************************************************)
(* A ring seen as the run of items between its indices.                    *)
(***************************************************************************)
Offs(q) == 0..(Count(q) - 1)
Occ(q)  == {At(q, k) : k \in Offs(q)}
Inj(q)  == \A j, k \in Offs(q) : At(q, j) = At(q, k) => j = k

LEMMA SizeIsNat == N \in Nat /\ N > 1 /\ N - 1 \in Nat
  BY FbQueueAssumption

LEMMA NextIndexType ==
  ASSUME NEW i \in 0..(N - 1)
  PROVE  NextIndex(i) \in 0..(N - 1)
  BY SizeIsNat DEF NextIndex

LEMMA CountType ==
  ASSUME NEW q \in Ring
  PROVE  /\ Count(q) \in 0..(N - 1)
         /\ Count(q) = 0 <=> IsEmpty(q)
         /\ Count(q) = N - 1 <=> IsFull(q)
<1>1. q.r \in 0..(N - 1) /\ q.w \in 0..(N - 1)
  BY DEF Ring
<1> QED BY <1>1, SizeIsNat DEF Count, IsEmpty, IsFull, NextIndex

LEMMA RingStepTypes ==
  ASSUME NEW q \in Ring, NEW x \in Items \cup {NoItem}
  PROVE  Popped(q) \in Ring /\ Pushed(q) \in Ring /\ Stored(q, x) \in Ring
  BY NextIndexType DEF Ring, Popped, Pushed, Stored

LEMMA FirstAt ==
  ASSUME NEW q \in Ring, ~IsEmpty(q)
  PROVE  0 \in Offs(q) /\ First(q) = At(q, 0)
<1>1. q.r \in 0..(N - 1)
  BY DEF Ring
<1>2. Wrap(q.r + 0) = q.r
  BY <1>1, SizeIsNat DEF Wrap
<1>3. Count(q) \in 0..(N - 1) /\ Count(q) # 0
  BY CountType
<1> QED BY <1>2, <1>3, SizeIsNat DEF Offs, First, At

LEMMA PoppedRing ==
  ASSUME NEW q \in Ring, ~IsEmpty(q)
  PROVE  /\ Count(Popped(q)) = Count(q) - 1
         /\ \A k \in Offs(Popped(q)) : k + 1 \in Offs(q) /\ At(Popped(q), k) = At(q, k + 1)
<1>1. q.r \in 0..(N - 1) /\ q.w \in 0..(N - 1) /\ q.r # q.w
  BY DEF Ring, IsEmpty
<1>2. Popped(q).r = NextIndex(q.r) /\ Popped(q).w = q.w /\ Popped(q).elem = q.elem
  BY DEF Popped
<1>3. Count(Popped(q)) = Count(q) - 1
  BY <1>1, <1>2, SizeIsNat DEF Count, NextIndex
<1>4. Count(q) \in 0..(N - 1)
  BY CountType
<1>5. ASSUME NEW k \in Offs(Popped(q))
      PROVE  k + 1 \in Offs(q) /\ At(Popped(q), k) = At(q, k + 1)
  <2>1. k \in Nat /\ k + 1 \in 0..(Count(q) - 1)
    BY <1>3, <1>4, <1>5, SizeIsNat DEF Offs
  <2>2. Wrap(NextIndex(q.r) + k) = Wrap(q.r + (k + 1))
    BY <1>1, <2>1, SizeIsNat DEF Wrap, NextIndex, Count
  <2> QED BY <1>2, <2>1, <2>2 DEF Offs, At
<1> QED BY <1>3, <1>5

LEMMA PushedRing ==
  ASSUME NEW q \in Ring, ~IsFull(q)
  PROVE  /\ Count(Pushed(q)) = Count(q) + 1
         /\ \A k \in Offs(q) : k \in Offs(Pushed(q)) /\ At(Pushed(q), k) = At(q, k)
         /\ Count(q) \in Offs(Pushed(q)) /\ At(Pushed(q), Count(q)) = q.elem[q.w]
<1>1. q.r \in 0..(N - 1) /\ q.w \in 0..(N - 1) /\ NextIndex(q.w) # q.r
  BY DEF Ring, IsFull
<1>2. Pushed(q).r = q.r /\ Pushed(q).w = NextIndex(q.w) /\ Pushed(q).elem = q.elem
  BY DEF Pushed
<1>3. Count(Pushed(q)) = Count(q) + 1
  BY <1>1, <1>2, SizeIsNat DEF Count, NextIndex
<1>4. Count(q) \in 0..(N - 1)
  BY CountType
<1>5. \A k \in Offs(q) : k \in Offs(Pushed(q)) /\ At(Pushed(q), k) = At(q, k)
  BY <1>2, <1>3, <1>4, SizeIsNat DEF Offs, At
<1>6. Wrap(q.r + Count(q)) = q.w
  BY <1>1, SizeIsNat DEF Wrap, Count
<1> QED BY <1>2, <1>3, <1>4, <1>5, <1>6, SizeIsNat DEF Offs, At

LEMMA StoredRing ==
  ASSUME NEW q \in Ring, NEW x \in Items \cup {NoItem}
  PROVE  /\ Count(Stored(q, x)) = Count(q)
         /\ \A k \in Offs(q) : At(Stored(q, x), k) = At(q, k)
         /\ Stored(q, x).elem[q.w] = x
         /\ Stored(q, x).w = q.w
         /\ IsEmpty(Stored(q, x)) <=> IsEmpty(q)
         /\ First(Stored(q, x)) = First(q) \/ IsEmpty(q)
<1>1. q.r \in 0..(N - 1) /\ q.w \in 0..(N - 1)
  BY DEF Ring
<1>2. /\ Stored(q, x).r = q.r /\ Stored(q, x).w = q.w
      /\ Stored(q, x).elem = [q.elem EXCEPT ![q.w] = x]
      /\ q.elem \in [0..(N - 1) -> Items \cup {NoItem}]
  BY DEF Stored, Ring
<1>3. Count(Stored(q, x)) = Count(q)
  BY <1>2 DEF Count
<1>4. ASSUME NEW k \in Offs(q) PROVE At(Stored(q, x), k) = At(q, k)
  <2>1. Count(q) \in 0..(N - 1) /\ k \in 0..(Count(q) - 1)
    BY <1>4, CountType DEF Offs
  <2>2. Wrap(q.r + k) \in 0..(N - 1) /\ Wrap(q.r + k) # q.w
    BY <1>1, <2>1, SizeIsNat DEF Wrap, Count
  <2> QED BY <1>2, <2>2 DEF At
<1> QED BY <1>1, <1>2, <1>3, <1>4 DEF IsEmpty, First
-----------------------------------------------------------------------------
(* The same three steps on the set of items of a ring. *)

LEMMA PoppedItems ==
  ASSUME NEW q \in Ring, ~IsEmpty(q), Inj(q)
  PROVE  /\ Inj(Popped(q))
         /\ First(q) \in Occ(q) /\ Occ(Popped(q)) = Occ(q) \ {First(q)}
<1>1. \A k \in Offs(Popped(q)) : k + 1 \in Offs(q) /\ At(Popped(q), k) = At(q, k + 1)
  BY PoppedRing
<1>2. 0 \in Offs(q) /\ First(q) = At(q, 0)
  BY FirstAt
<1>3. Count(Popped(q)) = Count(q) - 1 /\ Count(q) \in Nat
  BY PoppedRing, CountType, SizeIsNat
<1>4. Inj(Popped(q))
  BY <1>1, <1>3 DEF Inj, Offs
<1>5. Occ(Popped(q)) \subseteq Occ(q) \ {First(q)}
  <2> SUFFICES ASSUME NEW k \in Offs(Popped(q))
               PROVE  At(Popped(q), k) \in Occ(q) /\ At(Popped(q), k) # First(q)
    BY DEF Occ
  <2>1. k + 1 \in Offs(q) /\ At(Popped(q), k) = At(q, k + 1) /\ k + 1 # 0
    BY <1>1, <1>3 DEF Offs
  <2> QED BY <2>1, <1>2 DEF Occ, Inj
<1>6. ASSUME NEW k \in Offs(q), At(q, k) # First(q)
      PROVE  At(q, k) \in Occ(Popped(q))
  <2>1. k # 0 /\ k - 1 \in Offs(Popped(q)) /\ (k - 1) + 1 = k
    BY <1>2, <1>3, <1>6 DEF Offs
  <2> QED BY <1>1, <2>1 DEF Occ
<1>7. Occ(q) \ {First(q)} \subseteq Occ(Popped(q))
  BY <1>6 DEF Occ
<1> QED BY <1>2, <1>4, <1>5, <1>7 DEF Occ

LEMMA PushedItems ==
  ASSUME NEW q \in Ring, ~IsFull(q), Inj(q), q.elem[q.w] \notin Occ(q)
  PROVE  Inj(Pushed(q)) /\ Occ(Pushed(q)) = Occ(q) \cup {q.elem[q.w]}
<1>1. Offs(Pushed(q)) = Offs(q) \cup {Count(q)}
  BY PushedRing, CountType, SizeIsNat DEF Offs
<1>2. /\ \A k \in Offs(q) : At(Pushed(q), k) = At(q, k)
      /\ At(Pushed(q), Count(q)) = q.elem[q.w]
  BY PushedRing
<1>3. \A k \in Offs(q) : At(q, k) # q.elem[q.w]
  BY DEF Occ
<1>4. Inj(Pushed(q))
  BY <1>1, <1>2, <1>3 DEF Inj
<1> QED BY <1>1, <1>2, <1>4 DEF Occ

LEMMA StoredItems ==
  ASSUME NEW q \in Ring, NEW x \in Items \cup {NoItem}, Inj(q)
  PROVE  Inj(Stored(q, x)) /\ Occ(Stored(q, x)) = Occ(q)
<1>1. Offs(Stored(q, x)) = Offs(q) /\ \A k \in Offs(q) : At(Stored(q, x), k) = At(q, k)
  BY StoredRing DEF Offs
<1> QED BY <1>1 DEF Inj, Occ
-----------------------------------------------------------------------------
(***************************************************************************)
(* The invariant.  As long as no enqueue is called during another one, the *)
(* items of the two rings, of the producer at work and of the consumer are *)
(* different ones, there are N - 1 of them, and no item is elsewhere.      *)
(***************************************************************************)
ProducerHas(p) == ppc[p] \in {"copy", "store", "push"}
ConsumerHas    == cpc \in {"use", "return"}

OneProducer == \A p, o \in Producers : p # o => Idle(p) \/ Idle(o)

Total ==
  Count(free) + Count(queue) + (IF \E p \in Producers : ProducerHas(p) THEN 1 ELSE 0)
    + (IF ConsumerHas THEN 1 ELSE 0) = N - 1

Separate ==
  /\ Inj(free) /\ Inj(queue)
  /\ Occ(free) \cup Occ(queue) \subseteq Items /\ Occ(free) \cap Occ(queue) = {}
  /\ ConsumerHas => citem \in Items \ (Occ(free) \cup Occ(queue))
  /\ \A p \in Producers : ProducerHas(p) =>
       /\ pitem[p] \in Items \ (Occ(free) \cup Occ(queue))
       /\ ConsumerHas => pitem[p] # citem

Covered ==
  \A x \in Items :
    \/ x \in Occ(free) \cup Occ(queue)
    \/ \E p \in Producers : ProducerHas(p) /\ pitem[p] = x
    \/ ConsumerHas /\ citem = x

ProducerOK(p) ==
  /\ ppc[p] # "back"
  /\ ppc[p] = "taken" => ~IsEmpty(free) /\ pitem[p] = First(free)
  /\ ~Idle(p) => pmsg[p] \in Msgs
  /\ ppc[p] \in {"store", "push"} => data[pitem[p]] = pmsg[p]
  /\ ppc[p] = "push" => queue.elem[queue.w] = pitem[p]

ConsumerOK ==
  /\ cpc = "taken" => ~IsEmpty(queue) /\ citem = First(queue)
  /\ cpc = "return" => free.elem[free.w] = citem
  /\ ConsumerHas => data[citem] \in Msgs

Core ==
  /\ OneProducer /\ Total /\ Separate /\ Covered
  /\ \A p \in Producers : ProducerOK(p)
  /\ ConsumerOK
  /\ \A x \in Occ(queue) : data[x] \in Msgs

Inv == TypeOK /\ (calm => Core)

LEMMA PlusOneInj ==
  ASSUME NEW j \in Nat, NEW k \in Nat, j + 1 = k + 1
  PROVE  j = k
  OBVIOUS

LEMMA InitRing ==
  Init => /\ free \in Ring /\ queue \in Ring
          /\ Count(free) = N - 1 /\ Count(queue) = 0
          /\ Inj(free) /\ Inj(queue) /\ Occ(free) = Items /\ Occ(queue) = {}
<1> SUFFICES ASSUME Init
             PROVE  /\ free \in Ring /\ queue \in Ring
                    /\ Count(free) = N - 1 /\ Count(queue) = 0
                    /\ Inj(free) /\ Inj(queue) /\ Occ(free) = Items /\ Occ(queue) = {}
  OBVIOUS
<1> USE SizeIsNat DEF Init, InitItems
<1>1. free \in Ring /\ queue \in Ring
  BY DEF Ring, Items, NoItem
<1>2. Count(free) = N - 1 /\ Count(queue) = 0
  BY DEF Count
<1>3. ASSUME NEW k \in Offs(free) PROVE At(free, k) = k + 1 /\ k + 1 \in Items
  <2>1. k \in 0..(N - 2) /\ Wrap(free.r + k) = k
    BY <1>2, <1>3 DEF Offs, Wrap
  <2> QED BY <2>1 DEF At, Items
<1>4. Inj(free) /\ Occ(free) = Items
  <2> HIDE DEF Init, InitItems
  <2>1. ASSUME NEW j \in Offs(free), NEW k \in Offs(free), At(free, j) = At(free, k)
        PROVE  j = k
    <3>1. j \in Nat /\ k \in Nat
      BY <1>2 DEF Offs
    <3>2. At(free, j) = j + 1 /\ At(free, k) = k + 1
      BY <1>3
    <3>3. j + 1 = k + 1
      BY <2>1, <3>2, Zenon
    <3> QED BY <3>1, <3>3, PlusOneInj
  <2>2. \A x \in Items : x - 1 \in Offs(free) /\ At(free, x - 1) = x
    <3>1. \A x \in Items : x - 1 \in Offs(free) /\ (x - 1) + 1 = x
      BY <1>2 DEF Offs, Items
    <3> QED BY <3>1, <1>3
  <2>3. Occ(free) \subseteq Items /\ Items \subseteq Occ(free)
    BY <2>2, <1>3 DEF Occ
  <2> QED BY <2>1, <2>3 DEF Inj
<1>5. Offs(queue) = {}
  BY <1>2 DEF Offs
<1> QED BY <1>1, <1>2, <1>4, <1>5 DEF Inj, Occ

LEMMA InitInv == Init => Inv
<1> SUFFICES ASSUME Init PROVE Inv
  OBVIOUS
<1>1. TypeOK
  BY InitRing, FbQueueAssumption DEF Init, TypeOK, Items, NoItem
<1>2. Total
  <2>1. ~(\E p \in Producers : ProducerHas(p)) /\ ~ConsumerHas
    BY DEF Init, ProducerHas, ConsumerHas
  <2> QED BY <2>1, InitRing, SizeIsNat DEF Total
<1>3. Separate
  BY InitRing DEF Init, Separate, ProducerHas, ConsumerHas
<1>4. OneProducer /\ ConsumerOK /\ \A p \in Producers : ProducerOK(p)
  BY DEF Init, OneProducer, Idle, ConsumerOK, ConsumerHas, ProducerOK
<1>5. Covered
  BY InitRing DEF Covered
<1> QED BY <1>1, <1>2, <1>3, <1>4, <1>5, InitRing DEF Inv, Core

(***************************************************************************)
(* Types.                                                                  *)
(***************************************************************************)
LEMMA RingTypes ==
  ASSUME TypeOK
  PROVE  /\ Popped(free) \in Ring /\ Popped(queue) \in Ring
         /\ Pushed(free) \in Ring /\ Pushed(queue) \in Ring
         /\ First(free) \in Items \cup {NoItem} /\ First(queue) \in Items \cup {NoItem}
         /\ \A x \in Items \cup {NoItem} : Stored(free, x) \in Ring /\ Stored(queue, x) \in Ring
<1>1. free \in Ring /\ queue \in Ring
  BY DEF TypeOK
<1>2. First(free) \in Items \cup {NoItem} /\ First(queue) \in Items \cup {NoItem}
  BY <1>1 DEF Ring, First
<1>3. NoItem \in Items \cup {NoItem}
  OBVIOUS
<1> QED BY <1>1, <1>2, <1>3, RingStepTypes

LEMMA ProducerTypes ==
  ASSUME TypeOK, NEW p \in Producers, Enqueue(p)
  PROVE  TypeOK'
<1> USE DEF TypeOK
<1>1. CASE Refused(p)
  BY <1>1, FbQueueAssumption DEF Refused, Called, prodVars, consVars
<1>2. ASSUME NEW m \in Msgs, TakeFree(p, m) PROVE TypeOK'
  <2>1. late' \in 0..MaxLate
    BY <1>2, FbQueueAssumption DEF TakeFree, Called
  <2> QED BY <1>2, <2>1, RingTypes DEF TakeFree, Goto, consVars
<1>3. CASE PopFree(p)
  BY <1>3, RingTypes DEF PopFree, Goto, consVars
<1>4. CASE Copy(p)
  BY <1>4 DEF Copy, Goto, consVars
<1>5. CASE Store(p)
  BY <1>5, RingTypes DEF Store, Goto, consVars
<1>6. CASE Push(p)
  BY <1>6, RingTypes DEF Push, Ends, Goto, consVars
<1>7. CASE GiveBack(p)
  BY <1>7, RingTypes DEF GiveBack, Ends, Goto, consVars
<1>8. CASE PushBack(p)
  BY <1>8, RingTypes DEF PushBack, Ends, Goto, consVars
<1> QED BY <1>1, <1>2, <1>3, <1>4, <1>5, <1>6, <1>7, <1>8 DEF Enqueue

LEMMA ConsumerTypes ==
  ASSUME TypeOK, Consumer
  PROVE  TypeOK'
<1> USE DEF TypeOK, prodVars
<1>1. CASE TakeItem
  BY <1>1, RingTypes DEF TakeItem, Step
<1>2. CASE PopItem
  BY <1>2, RingTypes DEF PopItem, Step
<1>3. CASE ReturnItem
  BY <1>3, RingTypes DEF ReturnItem, Step, Release
<1>4. CASE PushFree
  BY <1>4, RingTypes DEF PushFree, Step, Release
<1> QED BY <1>1, <1>2, <1>3, <1>4 DEF Consumer

LEMMA NextTypes == TypeOK /\ [Next]_vars => TypeOK'
<1> SUFFICES ASSUME TypeOK, [Next]_vars PROVE TypeOK'
  OBVIOUS
<1>1. CASE UNCHANGED vars
  BY <1>1 DEF TypeOK, vars, prodVars, consVars
<1> QED BY <1>1, ProducerTypes, ConsumerTypes DEF Next

(***************************************************************************)
(* The steps of a producer.                                                *)
(***************************************************************************)
LEMMA Calm ==
  ASSUME TypeOK, [Next]_vars, calm'
  PROVE  calm
<1> USE DEF calm, TypeOK
<1>1. ASSUME NEW p \in Producers, Enqueue(p) PROVE calm
  BY <1>1 DEF Enqueue, Refused, TakeFree, PopFree, Copy, Store, Push, GiveBack, PushBack, Called
<1>2. CASE Consumer
  BY <1>2 DEF Consumer, TakeItem, PopItem, ReturnItem, PushFree
<1>3. CASE UNCHANGED vars
  BY <1>3 DEF vars
<1> QED BY <1>1, <1>2, <1>3 DEF Next

LEMMA CalledAlone ==
  ASSUME TypeOK, NEW p \in Producers, Called(p), calm'
  PROVE  Alone(p)
  BY DEF TypeOK, Called, calm

LEMMA CoreFacts ==
  ASSUME TypeOK, Core
  PROVE  /\ free \in Ring /\ queue \in Ring
         /\ Count(free) \in 0..(N - 1) /\ Count(queue) \in 0..(N - 1)
         /\ (\E p \in Producers : ProducerHas(p)) =>
               ~IsFull(queue) /\ Count(free) + Count(queue) + (IF ConsumerHas THEN 1 ELSE 0) = N - 2
         /\ ~(\E p \in Producers : ProducerHas(p)) =>
               Count(free) + Count(queue) + (IF ConsumerHas THEN 1 ELSE 0) = N - 1
         /\ ConsumerHas => ~IsFull(free)
<1>1. free \in Ring /\ queue \in Ring
  BY DEF TypeOK
<1>2. /\ Count(free) \in 0..(N - 1) /\ Count(queue) \in 0..(N - 1)
      /\ IsFull(free) => Count(free) = N - 1
      /\ IsFull(queue) => Count(queue) = N - 1
  BY <1>1, CountType
<1> QED BY <1>1, <1>2, SizeIsNat DEF Core, Total

(* A producer that is at work is the only one. *)
LEMMA OnlyOne ==
  ASSUME Core, NEW p \in Producers, ~Idle(p)
  PROVE  \A o \in Producers : o # p => Idle(o) /\ ~ProducerHas(o)
  BY DEF Core, OneProducer, Idle, ProducerHas

LEMMA TakeFreeCore ==
  ASSUME TypeOK, Core, NEW p \in Producers, NEW m \in Msgs, TakeFree(p, m), Alone(p)
  PROVE  Core'
<1> USE DEF TypeOK
<1>1. /\ ppc' = [ppc EXCEPT ![p] = "taken"] /\ pitem' = [pitem EXCEPT ![p] = First(free)]
      /\ pmsg' = [pmsg EXCEPT ![p] = m] /\ Idle(p) /\ ~IsEmpty(free)
      /\ UNCHANGED <<free, queue, data, cpc, citem>>
  BY DEF TakeFree, Goto, Idle, consVars
<1>2. \A o \in Producers : ProducerHas(o)' <=> ProducerHas(o)
  BY <1>1 DEF ProducerHas, Idle
<1>3. OneProducer'
  BY <1>1 DEF OneProducer, Alone, Idle
<1>4. Total'
  BY <1>1, <1>2 DEF Core, Total, ConsumerHas
<1>5. Separate'
  <2>1. \A o \in Producers : ProducerHas(o) => pitem'[o] = pitem[o]
    BY <1>1 DEF ProducerHas, Idle
  <2> QED BY <1>1, <1>2, <2>1 DEF Core, Separate, ConsumerHas
<1>6. \A o \in Producers : ProducerOK(o)'
  BY <1>1 DEF Core, ProducerOK, Idle
<1>7. Covered'
  <2>1. \A o \in Producers : ProducerHas(o) => pitem'[o] = pitem[o]
    BY <1>1 DEF ProducerHas, Idle
  <2> QED BY <2>1, <1>1, <1>2 DEF Core, Covered, ConsumerHas
<1> QED BY <1>7, <1>1, <1>3, <1>4, <1>5, <1>6 DEF Core, ConsumerOK, ConsumerHas

LEMMA PopFreeCore ==
  ASSUME TypeOK, Core, NEW p \in Producers, PopFree(p)
  PROVE  Core'
<1> USE DEF TypeOK
<1>1. /\ ppc[p] = "taken" /\ ppc' = [ppc EXCEPT ![p] = "copy"] /\ free' = Popped(free)
      /\ UNCHANGED <<queue, data, pitem, pmsg, cpc, citem>>
  BY DEF PopFree, Goto, consVars
<1>2. ~IsEmpty(free) /\ pitem[p] = First(free)
  BY <1>1 DEF Core, ProducerOK
<1>3. \A o \in Producers : o # p => Idle(o) /\ ~ProducerHas(o)
  BY <1>1, OnlyOne DEF Idle
<1>4. ProducerHas(p)' /\ \A o \in Producers : o # p => ~ProducerHas(o)'
  BY <1>1, <1>3 DEF ProducerHas
<1>5. /\ Inj(free') /\ First(free) \in Occ(free) /\ Occ(free') = Occ(free) \ {First(free)}
      /\ Count(free') = Count(free) - 1
  BY <1>1, <1>2, CoreFacts, PoppedItems, PoppedRing DEF Core, Separate
<1>6. OneProducer'
  BY <1>1, <1>3 DEF OneProducer, Idle
<1>7. Total'
  <2>1. ~(\E o \in Producers : ProducerHas(o))
    BY <1>1, <1>3 DEF ProducerHas
  <2> QED BY <1>1, <1>4, <1>5, <2>1, CoreFacts, SizeIsNat DEF Total, ConsumerHas
<1>8. Separate'
  BY <1>1, <1>2, <1>4, <1>5 DEF Core, Separate, ConsumerHas
<1>9. \A o \in Producers : ProducerOK(o)'
  BY <1>1, <1>3 DEF Core, ProducerOK, Idle
<1>10. ConsumerOK'
  BY <1>1 DEF Core, ConsumerOK, ConsumerHas, Popped
<1>11. Covered'
  <2>1. pitem'[p] = First(free) /\ \A o \in Producers : ~ProducerHas(o)
    BY <1>1, <1>2, <1>3 DEF ProducerHas
  <2> QED BY <2>1, <1>1, <1>4, <1>5 DEF Core, Covered, ConsumerHas
<1> QED BY <1>11, <1>1, <1>6, <1>7, <1>8, <1>9, <1>10 DEF Core

LEMMA CopyCore ==
  ASSUME TypeOK, Core, NEW p \in Producers, Copy(p)
  PROVE  Core'
<1> USE DEF TypeOK
<1>1. /\ ppc[p] = "copy" /\ ppc' = [ppc EXCEPT ![p] = "store"]
      /\ data' = [data EXCEPT ![pitem[p]] = pmsg[p]]
      /\ UNCHANGED <<free, queue, pitem, pmsg, cpc, citem>>
  BY DEF Copy, Goto, consVars
<1>2. \A o \in Producers : o # p => Idle(o) /\ ~ProducerHas(o)
  BY <1>1, OnlyOne DEF Idle
<1>3. \A o \in Producers : ProducerHas(o)' <=> ProducerHas(o)
  BY <1>1 DEF ProducerHas
<1>4. /\ pitem[p] \in Items \ (Occ(free) \cup Occ(queue))
      /\ ConsumerHas => citem # pitem[p]
      /\ pmsg[p] \in Msgs
  BY <1>1 DEF Core, Separate, ProducerOK, ProducerHas, Idle
<1>5. OneProducer'
  BY <1>1, <1>2 DEF OneProducer, Idle
<1>6. Total' /\ Separate'
  BY <1>1, <1>3 DEF Core, Total, Separate, ConsumerHas
<1>7. \A o \in Producers : ProducerOK(o)'
  BY <1>1, <1>2, <1>4 DEF Core, ProducerOK, Idle
<1>8. ConsumerOK'
  <2>1. ConsumerHas => data'[citem] = data[citem]
    BY <1>1, <1>4 DEF Core, Separate
  <2> QED BY <1>1, <2>1 DEF Core, ConsumerOK, ConsumerHas
<1>9. \A x \in Occ(queue) : data'[x] \in Msgs
  BY <1>1, <1>4 DEF Core, Separate
<1>10. Covered'
  BY <1>1, <1>3 DEF Core, Covered, ConsumerHas
<1> QED BY <1>10, <1>1, <1>5, <1>6, <1>7, <1>8, <1>9 DEF Core

LEMMA StoreCore ==
  ASSUME TypeOK, Core, NEW p \in Producers, Store(p)
  PROVE  Core'
<1> USE DEF TypeOK
<1>1. /\ ppc[p] = "store" /\ ppc' = [ppc EXCEPT ![p] = "push"]
      /\ queue' = Stored(queue, pitem[p])
      /\ UNCHANGED <<free, data, pitem, pmsg, cpc, citem>>
  BY DEF Store, Goto, consVars
<1>2. \A o \in Producers : o # p => Idle(o) /\ ~ProducerHas(o)
  BY <1>1, OnlyOne DEF Idle
<1>3. \A o \in Producers : ProducerHas(o)' <=> ProducerHas(o)
  BY <1>1 DEF ProducerHas
<1>4. queue \in Ring /\ pitem[p] \in Items \cup {NoItem}
  OBVIOUS
<1>5. /\ Inj(queue') /\ Occ(queue') = Occ(queue) /\ Count(queue') = Count(queue)
      /\ queue'.elem[queue'.w] = pitem[p]
      /\ IsEmpty(queue') <=> IsEmpty(queue)
      /\ First(queue') = First(queue) \/ IsEmpty(queue)
  <2>1. Inj(queue)
    BY DEF Core, Separate
  <2> QED BY <1>1, <1>4, <2>1, StoredItems, StoredRing
<1>6. OneProducer'
  BY <1>1, <1>2 DEF OneProducer, Idle
<1>7. Total'
  BY <1>1, <1>3, <1>5 DEF Core, Total, ConsumerHas
<1>8. Separate'
  BY <1>1, <1>3, <1>5 DEF Core, Separate, ConsumerHas
<1>9. \A o \in Producers : ProducerOK(o)'
  BY <1>1, <1>2, <1>5 DEF Core, ProducerOK, Idle
<1>10. ConsumerOK'
  BY <1>1, <1>5 DEF Core, ConsumerOK, ConsumerHas
<1>11. Covered'
  BY <1>1, <1>3, <1>5 DEF Core, Covered, ConsumerHas
<1> QED BY <1>11, <1>1, <1>5, <1>6, <1>7, <1>8, <1>9, <1>10 DEF Core

LEMMA PushCore ==
  ASSUME TypeOK, Core, NEW p \in Producers, Push(p)
  PROVE  Core'
<1> USE DEF TypeOK
<1>1. /\ ppc[p] = "push" /\ ppc' = [ppc EXCEPT ![p] = "idle"]
      /\ queue' = Pushed(queue)
      /\ pitem' = [pitem EXCEPT ![p] = NoItem] /\ pmsg' = [pmsg EXCEPT ![p] = NoMsg]
      /\ UNCHANGED <<free, data, cpc, citem>>
  BY DEF Push, Ends, Goto, consVars
<1>2. \A o \in Producers : o # p => Idle(o) /\ ~ProducerHas(o)
  BY <1>1, OnlyOne DEF Idle
<1>3. \A o \in Producers : ~ProducerHas(o)' /\ Idle(o)'
  BY <1>1, <1>2 DEF ProducerHas, Idle
<1>4. /\ ProducerHas(p) /\ queue.elem[queue.w] = pitem[p] /\ data[pitem[p]] \in Msgs
      /\ pitem[p] \in Items \ (Occ(free) \cup Occ(queue))
      /\ ConsumerHas => pitem[p] # citem
  BY <1>1 DEF Core, Separate, ProducerOK, ProducerHas, Idle
<1>5. ~IsFull(queue)
  BY <1>4, CoreFacts
<1>6. /\ Inj(queue') /\ Occ(queue') = Occ(queue) \cup {pitem[p]}
      /\ Count(queue') = Count(queue) + 1
  BY <1>1, <1>4, <1>5, CoreFacts, PushedItems, PushedRing DEF Core, Separate
<1>7. OneProducer'
  BY <1>3 DEF OneProducer
<1>8. Total'
  BY <1>1, <1>3, <1>4, <1>6, CoreFacts, SizeIsNat DEF Total, ConsumerHas
<1>9. Separate'
  BY <1>1, <1>3, <1>4, <1>6 DEF Core, Separate, ConsumerHas
<1>10. \A o \in Producers : ProducerOK(o)'
  BY <1>3 DEF ProducerOK, Idle
<1>11. ConsumerOK'
  <2>1. cpc = "taken" => ~IsEmpty(queue') /\ First(queue') = First(queue)
    <3>1. Count(queue') # 0 /\ queue' \in Ring
      BY <1>1, <1>6, CoreFacts, RingStepTypes, SizeIsNat
    <3> QED BY <1>1, <3>1, CountType DEF First, Pushed
  <2> QED BY <1>1, <2>1 DEF Core, ConsumerOK, ConsumerHas
<1>12. Covered'
  BY <1>1, <1>2, <1>6 DEF Core, Covered, ConsumerHas
<1> QED BY <1>12, <1>1, <1>4, <1>6, <1>7, <1>8, <1>9, <1>10, <1>11 DEF Core

(* In calm the queue is never full for a producer that has an item. *)
LEMMA NeverGivesBack ==
  ASSUME TypeOK, Core, NEW p \in Producers
  PROVE  ~GiveBack(p) /\ ~PushBack(p)
<1>1. ASSUME GiveBack(p) PROVE FALSE
  BY <1>1, CoreFacts DEF GiveBack, Goto, Ends, ProducerHas
<1>2. ~PushBack(p)
  BY DEF Core, ProducerOK, PushBack, Ends, Goto
<1> QED BY <1>1, <1>2

LEMMA EnqueueCore ==
  ASSUME TypeOK, Core, NEW p \in Producers, Enqueue(p), calm'
  PROVE  Core'
<1>1. CASE Refused(p)
  BY <1>1 DEF Refused, prodVars, consVars, Core, OneProducer, Idle, Total, Separate, Covered, ProducerOK,
       ConsumerOK, ProducerHas, ConsumerHas
<1>2. ASSUME NEW m \in Msgs, TakeFree(p, m) PROVE Core'
  BY <1>2, CalledAlone, TakeFreeCore DEF TakeFree
<1> QED BY <1>1, <1>2, PopFreeCore, CopyCore, StoreCore, PushCore, NeverGivesBack DEF Enqueue

(***************************************************************************)
(* The steps of the consumer.                                              *)
(***************************************************************************)
LEMMA ConsumerStep ==
  ASSUME TypeOK, Core, UNCHANGED <<ppc, pitem, pmsg>>
  PROVE  /\ OneProducer'
         /\ \A o \in Producers : ProducerHas(o)' <=> ProducerHas(o)
  BY DEF Core, OneProducer, Idle, ProducerHas

LEMMA TakeItemCore == ASSUME TypeOK, Core, TakeItem PROVE Core'
<1>1. /\ cpc = "idle" /\ cpc' = "taken" /\ ~IsEmpty(queue) /\ citem' = First(queue)
      /\ UNCHANGED <<free, queue, data, ppc, pitem, pmsg>>
  BY DEF TakeItem, Step, prodVars
<1> QED BY <1>1 DEF Core, OneProducer, Idle, Total, Separate, Covered, ProducerOK, ConsumerOK,
          ProducerHas, ConsumerHas

LEMMA PopItemCore == ASSUME TypeOK, Core, PopItem PROVE Core'
<1>1. /\ cpc = "taken" /\ cpc' = "use" /\ queue' = Popped(queue)
      /\ UNCHANGED <<free, data, ppc, pitem, pmsg, citem>>
  BY DEF PopItem, Step, prodVars
<1>2. ~IsEmpty(queue) /\ citem = First(queue)
  BY <1>1 DEF Core, ConsumerOK
<1>3. ~ConsumerHas /\ ConsumerHas'
  BY <1>1 DEF ConsumerHas
<1>4. /\ Inj(queue') /\ citem \in Occ(queue) /\ Occ(queue') = Occ(queue) \ {citem}
      /\ Count(queue') = Count(queue) - 1
  BY <1>1, <1>2, CoreFacts, PoppedItems, PoppedRing DEF Core, Separate
<1>5. OneProducer' /\ \A o \in Producers : ProducerHas(o)' <=> ProducerHas(o)
  BY <1>1, ConsumerStep
<1>6. Total'
  BY <1>1, <1>3, <1>4, <1>5, CoreFacts, SizeIsNat DEF Core, Total
<1>7. Separate'
  BY <1>1, <1>3, <1>4, <1>5 DEF Core, Separate
<1>8. \A o \in Producers : ProducerOK(o)'
  BY <1>1 DEF Core, ProducerOK, Idle, Popped
<1>9. ConsumerOK'
  BY <1>1, <1>4 DEF Core, ConsumerOK, ConsumerHas
<1>10. Covered'
  BY <1>1, <1>3, <1>4, <1>5 DEF Core, Covered
<1> QED BY <1>10, <1>1, <1>4, <1>5, <1>6, <1>7, <1>8, <1>9 DEF Core

LEMMA ReturnItemCore == ASSUME TypeOK, Core, ReturnItem PROVE Core'
<1> USE DEF TypeOK
<1>1. ~IsFull(free) /\ cpc = "use"
  BY CoreFacts DEF ReturnItem, Step, Release, ConsumerHas
<1>2. /\ cpc' = "return" /\ free' = Stored(free, citem)
      /\ UNCHANGED <<queue, data, ppc, pitem, pmsg, citem>>
  BY <1>1 DEF ReturnItem, Step, Release, prodVars
<1>3. ConsumerHas /\ ConsumerHas'
  BY <1>1, <1>2 DEF ConsumerHas
<1>4. free \in Ring /\ citem \in Items \cup {NoItem}
  OBVIOUS
<1>5. /\ Inj(free') /\ Occ(free') = Occ(free) /\ Count(free') = Count(free)
      /\ free'.elem[free'.w] = citem
      /\ IsEmpty(free') <=> IsEmpty(free)
      /\ First(free') = First(free) \/ IsEmpty(free)
  <2>1. Inj(free)
    BY DEF Core, Separate
  <2> QED BY <1>2, <1>4, <2>1, StoredItems, StoredRing
<1>6. OneProducer' /\ \A o \in Producers : ProducerHas(o)' <=> ProducerHas(o)
  BY <1>2, ConsumerStep
<1>7. Total'
  BY <1>2, <1>3, <1>5, <1>6 DEF Core, Total
<1>8. Separate'
  BY <1>2, <1>3, <1>5, <1>6 DEF Core, Separate
<1>9. \A o \in Producers : ProducerOK(o)'
  BY <1>2, <1>5 DEF Core, ProducerOK, Idle
<1>10. ConsumerOK'
  BY <1>2, <1>3, <1>5 DEF Core, ConsumerOK
<1>11. Covered'
  BY <1>2, <1>3, <1>5, <1>6 DEF Core, Covered
<1> QED BY <1>11, <1>2, <1>5, <1>6, <1>7, <1>8, <1>9, <1>10 DEF Core

LEMMA PushFreeCore == ASSUME TypeOK, Core, PushFree PROVE Core'
<1>1. /\ cpc = "return" /\ cpc' = "idle" /\ free' = Pushed(free)
      /\ UNCHANGED <<queue, data, ppc, pitem, pmsg>>
  BY DEF PushFree, Step, Release, prodVars
<1>2. /\ ConsumerHas /\ ~ConsumerHas' /\ free.elem[free.w] = citem
      /\ citem \in Items \ (Occ(free) \cup Occ(queue))
  BY <1>1 DEF Core, ConsumerOK, Separate, ConsumerHas
<1>3. ~IsFull(free)
  BY <1>2, CoreFacts
<1>4. /\ Inj(free') /\ Occ(free') = Occ(free) \cup {citem}
      /\ Count(free') = Count(free) + 1
  BY <1>1, <1>2, <1>3, CoreFacts, PushedItems, PushedRing DEF Core, Separate
<1>5. OneProducer' /\ \A o \in Producers : ProducerHas(o)' <=> ProducerHas(o)
  BY <1>1, ConsumerStep
<1>6. Total'
  BY <1>1, <1>2, <1>4, <1>5, CoreFacts, SizeIsNat DEF Core, Total
<1>7. Separate'
  BY <1>1, <1>2, <1>4, <1>5 DEF Core, Separate
<1>8. \A o \in Producers : ProducerOK(o)'
  <2>1. ~IsEmpty(free) => ~IsEmpty(free') /\ First(free') = First(free)
    <3>1. Count(free) \in 0..(N - 1)
      BY CoreFacts
    <3>2. Count(free') # 0
      BY <1>4, <3>1, SizeIsNat
    <3>3. free' \in Ring
      BY <1>1, RingTypes
    <3> QED BY <1>1, <3>2, <3>3, CountType DEF First, Pushed
  <2> QED BY <1>1, <2>1 DEF Core, ProducerOK, Idle
<1>9. ConsumerOK'
  BY <1>1 DEF ConsumerOK, ConsumerHas
<1>10. Covered'
  BY <1>1, <1>2, <1>4, <1>5 DEF Core, Covered
<1> QED BY <1>10, <1>1, <1>5, <1>6, <1>7, <1>8, <1>9 DEF Core

LEMMA NextInv == Inv /\ [Next]_vars => Inv'
<1> SUFFICES ASSUME Inv, [Next]_vars PROVE Inv'
  OBVIOUS
<1>1. TypeOK'
  BY NextTypes DEF Inv
<1>2. ASSUME calm' PROVE Core'
  <2>1. TypeOK /\ Core
    BY <1>2, Calm DEF Inv
  <2>2. ASSUME NEW p \in Producers, Enqueue(p) PROVE Core'
    BY <1>2, <2>1, <2>2, EnqueueCore
  <2>3. CASE Consumer
    BY <2>1, <2>3, TakeItemCore, PopItemCore, ReturnItemCore, PushFreeCore DEF Consumer
  <2>4. CASE UNCHANGED vars
    BY <2>1, <2>4 DEF vars, prodVars, consVars, Core, OneProducer, Idle, Total, Separate, Covered,
         ProducerOK, ConsumerOK, ProducerHas, ConsumerHas
  <2> QED BY <2>2, <2>3, <2>4 DEF Next
<1> QED BY <1>1, <1>2 DEF Inv

(* The separation of the items is inductive, with what each side knows of   *)
(* the item it is at work on.                                              *)
THEOREM InvAlways == Spec => []Inv
  BY InitInv, NextInv, PTL DEF Spec

(* Whatever the producers do, the indices of both rings stay in their      *)
(* rings and the consumer's and producers' state in its domain: this part  *)
(* needs no caller to wait for another.                                    *)
THEOREM QueueTypeCorrect == Spec => []TypeOK
<1>1. Inv => TypeOK
  BY DEF Inv
<1> QED BY <1>1, InvAlways, PTL
(* In calm every item has one owner: it is in one place of one ring, or    *)
(* with the one producer at work, or with the consumer.                    *)
LEMMA OwnersAre ==
  ASSUME NEW x, NEW o
  PROVE  o \in Owners(x) <=>
           \/ \E k \in Offs(free) : At(free, k) = x /\ o = <<"free", k>>
           \/ \E k \in Offs(queue) : At(queue, k) = x /\ o = <<"queue", k>>
           \/ \E p \in Producers : ProducerHas(p) /\ pitem[p] = x /\ o = <<"producer", p>>
           \/ ConsumerHas /\ citem = x /\ o = <<"consumer", 0>>
  BY DEF Owners, Offs, ProducerHas, ConsumerHas

LEMMA SomeOwner ==
  ASSUME Core, NEW x \in Items
  PROVE  \E o : o \in Owners(x)
<1>1. CASE x \in Occ(free)
  <2>1. PICK k \in Offs(free) : At(free, k) = x
    BY <1>1 DEF Occ
  <2> QED BY <2>1, OwnersAre
<1>2. CASE x \in Occ(queue)
  <2>1. PICK k \in Offs(queue) : At(queue, k) = x
    BY <1>2 DEF Occ
  <2> QED BY <2>1, OwnersAre
<1>3. ASSUME NEW p \in Producers, ProducerHas(p), pitem[p] = x PROVE \E o : o \in Owners(x)
  BY <1>3, OwnersAre
<1>4. CASE ConsumerHas /\ citem = x
  BY <1>4, OwnersAre
<1> QED BY <1>1, <1>2, <1>3, <1>4 DEF Core, Covered

LEMMA OneOwner ==
  ASSUME Core, NEW x \in Items, NEW o \in Owners(x), NEW u \in Owners(x)
  PROVE  o = u
<1>1. \A k \in Offs(free) : At(free, k) \in Occ(free)
  BY DEF Occ
<1>2. \A k \in Offs(queue) : At(queue, k) \in Occ(queue)
  BY DEF Occ
<1>3. /\ Inj(free) /\ Inj(queue) /\ Occ(free) \cap Occ(queue) = {}
      /\ ConsumerHas => citem \notin Occ(free) \cup Occ(queue)
      /\ \A p \in Producers : ProducerHas(p) =>
           pitem[p] \notin Occ(free) \cup Occ(queue) /\ (ConsumerHas => pitem[p] # citem)
  BY DEF Core, Separate
<1>4. \A p, q \in Producers : ProducerHas(p) /\ ProducerHas(q) => p = q
  BY DEF Core, OneProducer, Idle, ProducerHas
<1>5. CASE x \in Occ(free)
  <2>1. ASSUME NEW v \in Owners(x)
        PROVE  \E k \in Offs(free) : At(free, k) = x /\ v = <<"free", k>>
    BY <1>2, <1>3, <1>5, OwnersAre
  <2>2. PICK j \in Offs(free) : At(free, j) = x /\ o = <<"free", j>>
    BY <2>1
  <2>3. PICK k \in Offs(free) : At(free, k) = x /\ u = <<"free", k>>
    BY <2>1
  <2>4. j = k
    BY <2>2, <2>3, <1>3 DEF Inj
  <2> QED BY <2>2, <2>3, <2>4
<1>6. CASE x \in Occ(queue)
  <2>1. ASSUME NEW v \in Owners(x)
        PROVE  \E k \in Offs(queue) : At(queue, k) = x /\ v = <<"queue", k>>
    BY <1>1, <1>3, <1>6, OwnersAre
  <2>2. PICK j \in Offs(queue) : At(queue, j) = x /\ o = <<"queue", j>>
    BY <2>1
  <2>3. PICK k \in Offs(queue) : At(queue, k) = x /\ u = <<"queue", k>>
    BY <2>1
  <2>4. j = k
    BY <2>2, <2>3, <1>3 DEF Inj
  <2> QED BY <2>2, <2>3, <2>4
<1>7. CASE x \notin Occ(free) \cup Occ(queue)
  <2>1. ASSUME NEW v \in Owners(x)
        PROVE  \/ \E p \in Producers : ProducerHas(p) /\ pitem[p] = x /\ v = <<"producer", p>>
               \/ ConsumerHas /\ citem = x /\ v = <<"consumer", 0>>
    BY <1>1, <1>2, <1>7, OwnersAre
  <2>2. CASE ConsumerHas /\ citem = x
    BY <2>1, <2>2, <1>3
  <2>3. CASE ~(ConsumerHas /\ citem = x)
    <3>1. PICK p \in Producers : ProducerHas(p) /\ o = <<"producer", p>>
      BY <2>1, <2>3
    <3>2. PICK q \in Producers : ProducerHas(q) /\ u = <<"producer", q>>
      BY <2>1, <2>3
    <3>3. p = q
      BY <3>1, <3>2, <1>4
    <3> QED BY <3>1, <3>2, <3>3
  <2> QED BY <2>2, <2>3
<1> QED BY <1>5, <1>6, <1>7

(* Every item has exactly one owner, for any producers, messages and size, *)
(* until an enqueue is called during another one: none is lost, and none   *)
(* is written by one side while the other reads it.                        *)
THEOREM ItemsOwnedOnce == Spec => []EachItemOnce
<1>1. Inv => EachItemOnce
  <2> SUFFICES ASSUME Inv, calm, NEW x \in Items
               PROVE  \E o \in Owners(x) : Owners(x) = {o}
    BY DEF EachItemOnce
  <2>1. Core
    BY DEF Inv
  <2>2. PICK o : o \in Owners(x)
    BY <2>1, SomeOwner
  <2>3. \A u \in Owners(x) : u = o
    BY <2>1, <2>2, OneOwner
  <2> QED BY <2>2, <2>3
<1> QED BY <1>1, InvAlways, PTL
-----------------------------------------------------------------------------
(***************************************************************************)
(* The refinement.  The messages of the items in the queue, in their order *)
(* from the read index, are the abstract FIFO.                             *)
(***************************************************************************)
Contents(q, d) == [k \in 1..Count(q) |-> d[At(q, k - 1)]]

LEMMA ContentsSeq ==
  ASSUME NEW q, NEW d, Count(q) \in Nat, \A x \in Occ(q) : d[x] \in Msgs
  PROVE  /\ Contents(q, d) \in Seq(Msgs) /\ Len(Contents(q, d)) = Count(q)
         /\ \A k \in 1..Count(q) :
              Contents(q, d)[k] = d[At(q, k - 1)] /\ At(q, k - 1) \in Occ(q)
<1>1. \A k \in 1..Count(q) : At(q, k - 1) \in Occ(q)
  BY DEF Occ, Offs
<1> QED BY <1>1 DEF Contents

(* Two rings that hold the same items, with the same messages. *)
LEMMA SameContents ==
  ASSUME NEW q, NEW d, NEW r, NEW e,
         Count(q) \in Nat, Count(r) = Count(q),
         \A k \in Offs(q) : e[At(r, k)] = d[At(q, k)]
  PROVE  Contents(r, e) = Contents(q, d)
<1>1. \A k \in 1..Count(q) : k - 1 \in Offs(q)
  BY DEF Offs
<1> QED BY <1>1 DEF Contents

LEMMA AbstractState ==
  ASSUME TypeOK, Core
  PROVE  /\ fifo = Contents(queue, data) /\ Count(queue) \in Nat
         /\ fifo \in Seq(Msgs) /\ Len(fifo) = Count(queue)
         /\ given = NoMsg <=> ~ConsumerHas
         /\ Abstract!Held = Count(queue) + (IF ConsumerHas THEN 1 ELSE 0)
<1>1. fifo = Contents(queue, data)
  BY DEF fifo, Contents
<1>2. Count(queue) \in Nat
  BY CoreFacts, SizeIsNat
<1>3. fifo \in Seq(Msgs) /\ Len(fifo) = Count(queue)
  BY <1>1, <1>2, ContentsSeq DEF Core
<1>4. given = NoMsg <=> ~ConsumerHas
  BY FbQueueAssumption DEF given, Core, ConsumerOK, ConsumerHas
<1> QED BY <1>1, <1>2, <1>3, <1>4 DEF Abstract!Held

LEMMA RefusedMaps ==
  ASSUME TypeOK, Core, calm, calm', NEW p \in Producers, Refused(p)
  PROVE  Abstract!Refuse
<1>1. Idle(p) /\ Alone(p) /\ IsEmpty(free)
  BY CalledAlone DEF Refused
<1>2. ~(\E o \in Producers : ProducerHas(o))
  BY <1>1 DEF Alone, Idle, ProducerHas
<1>3. Count(free) = 0
  BY <1>1, CoreFacts, CountType
<1>4. Abstract!Held = N - 1
  BY <1>2, <1>3, CoreFacts, AbstractState, SizeIsNat
<1>5. answer' = "full" /\ UNCHANGED <<fifo, given>>
  BY DEF Refused, consVars, fifo, given
<1> QED BY <1>4, <1>5 DEF Abstract!Refuse, calm

LEMMA CopyMaps ==
  ASSUME TypeOK, Core, NEW p \in Producers, Copy(p)
  PROVE  UNCHANGED <<fifo, given, answer>>
<1>1. /\ ppc[p] = "copy" /\ data' = [data EXCEPT ![pitem[p]] = pmsg[p]]
      /\ UNCHANGED <<queue, cpc, citem, answer>>
  BY DEF Copy, Goto, consVars
<1>2. pitem[p] \notin Occ(queue) /\ (ConsumerHas => citem # pitem[p])
  BY <1>1 DEF Core, Separate, ProducerHas
<1>3. \A x : x # pitem[p] => data'[x] = data[x]
  BY <1>1 DEF TypeOK
<1>4. fifo' = fifo
  <2>1. \A k \in Offs(queue) : data'[At(queue, k)] = data[At(queue, k)]
    BY <1>2, <1>3 DEF Occ
  <2>2. Contents(queue, data') = Contents(queue, data)
    BY <2>1, AbstractState, SameContents
  <2> QED BY <1>1, <2>2 DEF fifo, Contents
<1> QED BY <1>1, <1>2, <1>3, <1>4 DEF given, ConsumerHas

LEMMA StoreMaps ==
  ASSUME TypeOK, Core, NEW p \in Producers, Store(p)
  PROVE  UNCHANGED <<fifo, given, answer>>
<1>1. /\ queue' = Stored(queue, pitem[p])
      /\ UNCHANGED <<data, cpc, citem, answer>>
  BY DEF Store, consVars
<1>2. pitem[p] \in Items \cup {NoItem} /\ queue \in Ring
  BY DEF TypeOK
<1>3. Count(queue') = Count(queue) /\ \A k \in Offs(queue) : At(queue', k) = At(queue, k)
  BY <1>1, <1>2, StoredRing
<1>4. Contents(queue', data) = Contents(queue, data)
  BY <1>3, AbstractState, SameContents
<1> QED BY <1>1, <1>4 DEF fifo, Contents, given

LEMMA PushMaps ==
  ASSUME TypeOK, Core, TypeOK', Core', calm, calm', NEW p \in Producers, Push(p)
  PROVE  Abstract!Put(pmsg[p]) /\ pmsg[p] \in Msgs
<1>1. /\ ppc[p] = "push" /\ queue' = Pushed(queue) /\ answer' = "ok"
      /\ UNCHANGED <<data, cpc, citem>>
  BY DEF Push, Ends, Goto, consVars
<1>2. /\ ProducerHas(p) /\ pmsg[p] \in Msgs
      /\ queue.elem[queue.w] = pitem[p] /\ data[pitem[p]] = pmsg[p]
  BY <1>1 DEF Core, ProducerOK, ProducerHas, Idle
<1>3. ~IsFull(queue) /\ queue \in Ring /\ Abstract!Held < N - 1
  BY <1>2, CoreFacts, AbstractState, SizeIsNat
<1>4. /\ Count(queue') = Count(queue) + 1
      /\ \A k \in Offs(queue) : At(queue', k) = At(queue, k)
      /\ At(queue', Count(queue)) = pitem[p]
  BY <1>1, <1>2, <1>3, PushedRing
<1>5. fifo' = Append(fifo, pmsg[p])
  <2> DEFINE n == Count(queue)
  <2>1. n \in Nat /\ fifo = Contents(queue, data) /\ fifo \in Seq(Msgs) /\ Len(fifo) = n
    BY AbstractState
  <2>2. fifo' = Contents(queue', data)
    BY <1>1 DEF fifo, Contents
  <2>3. \A k \in 1..n : Contents(queue', data)[k] = fifo[k]
    BY <1>4, <2>1 DEF Contents, Offs
  <2>4. Contents(queue', data)[n + 1] = pmsg[p]
    BY <1>2, <1>4, <2>1 DEF Contents
  <2>5. \A x \in Occ(queue') : data[x] \in Msgs
    BY <1>1 DEF Core
  <2>6. Contents(queue', data) \in Seq(Msgs) /\ Len(Contents(queue', data)) = n + 1
    BY <1>4, <2>1, <2>5, ContentsSeq
  <2>7. /\ Append(fifo, pmsg[p]) \in Seq(Msgs) /\ Len(Append(fifo, pmsg[p])) = n + 1
        /\ \A k \in 1..n : Append(fifo, pmsg[p])[k] = fifo[k]
        /\ Append(fifo, pmsg[p])[n + 1] = pmsg[p]
    BY <1>2, <2>1
  <2>8. \A k \in 1..(n + 1) : Contents(queue', data)[k] = Append(fifo, pmsg[p])[k]
    BY <2>1, <2>3, <2>4, <2>7
  <2> QED BY <2>2, <2>6, <2>7, <2>8, SeqEqual
<1> QED BY <1>1, <1>2, <1>3, <1>5 DEF Abstract!Put, given

LEMMA PopItemMaps ==
  ASSUME TypeOK, Core, TypeOK', Core', calm, calm', PopItem
  PROVE  Abstract!Get
<1>1. /\ cpc = "taken" /\ cpc' = "use" /\ queue' = Popped(queue)
      /\ UNCHANGED <<data, citem, answer>>
  BY DEF PopItem, Step
<1>2. ~IsEmpty(queue) /\ citem = First(queue) /\ queue \in Ring
  BY <1>1 DEF Core, ConsumerOK, TypeOK
<1>3. /\ Count(queue') = Count(queue) - 1 /\ citem = At(queue, 0)
      /\ \A k \in Offs(queue') : k + 1 \in Offs(queue) /\ At(queue', k) = At(queue, k + 1)
  BY <1>1, <1>2, PoppedRing, FirstAt
<1> DEFINE n == Count(queue)
<1>4. n \in Nat /\ n # 0 /\ fifo = Contents(queue, data) /\ fifo \in Seq(Msgs) /\ Len(fifo) = n
  BY <1>2, AbstractState, CountType
<1>5. \A x \in Occ(queue') : data[x] \in Msgs
  BY <1>1 DEF Core
<1>6. /\ Contents(queue', data) \in Seq(Msgs)
      /\ Len(Contents(queue', data)) = n - 1
  BY <1>3, <1>4, <1>5, ContentsSeq
<1>7. \A k \in 1..(n - 1) : Contents(queue', data)[k] = fifo[k + 1]
  BY <1>3, <1>4 DEF Contents, Offs
<1>8. /\ Tail(fifo) \in Seq(Msgs) /\ Len(Tail(fifo)) = n - 1
      /\ \A k \in 1..(n - 1) : Tail(fifo)[k] = fifo[k + 1]
  BY <1>4
<1>9. fifo' = Tail(fifo)
  <2>1. Contents(queue', data) = Tail(fifo)
    BY <1>6, <1>7, <1>8, SeqEqual
  <2> QED BY <1>1, <2>1 DEF fifo, Contents
<1>10. Head(fifo) = data[citem]
  BY <1>3, <1>4 DEF Contents
<1>11. given = NoMsg /\ given' = data[citem]
  BY <1>1 DEF given
<1> QED BY <1>1, <1>4, <1>9, <1>10, <1>11 DEF Abstract!Get

LEMMA ReturnMaps ==
  ASSUME TypeOK, Core, calm, calm', PushFree
  PROVE  Abstract!Return
<1>1. cpc = "return" /\ cpc' = "idle" /\ UNCHANGED <<queue, data, answer>>
  BY DEF PushFree, Step, Release
<1>2. given # NoMsg /\ given' = NoMsg
  BY <1>1, AbstractState DEF given, ConsumerHas
<1> QED BY <1>1, <1>2 DEF Abstract!Return, fifo, calm

(* The consumer's release of the item, when the free ring has no room, is  *)
(* out of reach in calm; its store of the address changes nothing yet.     *)
LEMMA ReturnItemMaps ==
  ASSUME TypeOK, Core, ReturnItem
  PROVE  UNCHANGED <<fifo, given, answer>>
<1>1. cpc = "use" /\ ~IsFull(free)
  BY CoreFacts DEF ReturnItem, Step, Release, ConsumerHas
<1> QED BY <1>1 DEF ReturnItem, Step, fifo, given

LEMMA StepMaps ==
  ASSUME Inv, Inv', [Next]_vars
  PROVE  [Abstract!Next]_(Abstract!vars)
<1>1. CASE ~calm'
  BY <1>1 DEF Abstract!Next, Abstract!Overlap, calm
<1>2. CASE calm'
  <2>1. TypeOK /\ Core /\ TypeOK' /\ Core' /\ calm
    BY <1>2, Calm DEF Inv
  <2>2. ASSUME UNCHANGED <<fifo, given, answer>> PROVE UNCHANGED Abstract!vars
    BY <1>2, <2>1, <2>2 DEF Abstract!vars, calm
  <2>3. ASSUME NEW p \in Producers, Enqueue(p) PROVE [Abstract!Next]_(Abstract!vars)
    <3>1. CASE Refused(p)
      BY <1>2, <2>1, <3>1, RefusedMaps DEF Abstract!Next
    <3>2. ASSUME NEW m \in Msgs, TakeFree(p, m) PROVE UNCHANGED <<fifo, given, answer>>
      BY <3>2 DEF TakeFree, consVars, fifo, given
    <3>3. CASE PopFree(p)
      BY <2>2, <3>3 DEF PopFree, consVars, fifo, given
    <3>4. CASE Copy(p)
      BY <2>1, <2>2, <3>4, CopyMaps
    <3>5. CASE Store(p)
      BY <2>1, <2>2, <3>5, StoreMaps
    <3>6. CASE Push(p)
      BY <1>2, <2>1, <3>6, PushMaps DEF Abstract!Next
    <3> QED BY <2>1, <2>2, <2>3, <3>1, <3>2, <3>3, <3>4, <3>5, <3>6, NeverGivesBack DEF Enqueue
  <2>4. CASE Consumer
    <3>1. CASE TakeItem
      BY <2>2, <3>1 DEF TakeItem, Step, fifo, given
    <3>2. CASE PopItem
      BY <1>2, <2>1, <3>2, PopItemMaps DEF Abstract!Next
    <3>3. CASE ReturnItem
      BY <2>1, <2>2, <3>3, ReturnItemMaps
    <3>4. CASE PushFree
      BY <1>2, <2>1, <3>4, ReturnMaps DEF Abstract!Next
    <3> QED BY <2>4, <3>1, <3>2, <3>3, <3>4 DEF Consumer
  <2>5. CASE UNCHANGED vars
    BY <2>2, <2>5 DEF vars, consVars, fifo, given
  <2> QED BY <2>3, <2>4, <2>5 DEF Next
<1> QED BY <1>1, <1>2

LEMMA InitMaps == Init => Abstract!Init
<1> SUFFICES ASSUME Init PROVE Abstract!Init
  OBVIOUS
<1>1. Count(queue) = 0
  BY InitRing
<1>2. fifo = <<>>
  BY <1>1 DEF fifo
<1> QED BY <1>2 DEF Init, Abstract!Init, given, calm

(* The queue is a bounded lossy FIFO for any producers, messages and size: *)
(* until an enqueue is called during another one, messages come out once,  *)
(* in order and unchanged, the consumer's stays what it was given, and a   *)
(* refusal means that all N - 1 items are in use.                          *)
THEOREM QueueRefinesFifo == Spec => Refines
<1>1. Init => Abstract!Init
  BY InitMaps
<1>2. Inv /\ Inv' /\ [Next]_vars => [Abstract!Next]_(Abstract!vars)
  BY StepMaps
<1> QED BY <1>1, <1>2, InvAlways, PTL DEF Spec, Refines, Abstract!Spec
-----------------------------------------------------------------------------

(* Packets in.  Of two links that are under way at once both are marked;   *)
(* one that is alone has its fragments, and nothing else, in the buffer.   *)
Counts == [of : 0..MaxFrags, got : 0..MaxFrags, bit : {0, 1}]
Fragments == Links \X {0, 1} \X Nat
Received(l) == [k \in 1..now[l].got |-> <<l, now[l].bit, k>>]

ReassemblyIInv ==
  /\ Reassembly!ReassemblyInv /\ now \in [Links -> Counts] /\ buf \in Seq(Fragments)
  /\ \A l, m \in Links : l # m /\ Reassembly!UnderWay(l) /\ Reassembly!UnderWay(m) => l \in crossed
  /\ \A l \in Links \ crossed :
       Reassembly!UnderWay(l) => now[l].got > 0 /\ size = now[l].of /\ buf = Received(l)

LEMMA ReassemblyInit == Reassembly!Init => ReassemblyIInv
  BY TrafficAssumption DEF Reassembly!Init, ReassemblyIInv, Reassembly!ReassemblyInv, Reassembly!TypeOK,
     Reassembly!WholePackets, Reassembly!UnderWay, Counts

LEMMA CountTypes ==
  ASSUME ReassemblyIInv, NEW l \in Links
  PROVE  /\ now[l].of \in 0..MaxFrags /\ now[l].got \in 0..MaxFrags /\ now[l].bit \in {0, 1}
         /\ now[l].got <= now[l].of
         /\ l \notin crossed =>
              fate[l] = IF Reassembly!UnderWay(l) \/ now[l].of = 0 THEN "nothing" ELSE "whole"
  BY DEF ReassemblyIInv, Counts, Reassembly!ReassemblyInv, Reassembly!TypeOK, Reassembly!WholePackets

(* A packet begins on a link that has none under way.                      *)
LEMMA ReassemblyBegins ==
  ASSUME ReassemblyIInv, NEW l \in Links, NEW n \in 1..MaxFrags, Reassembly!Begins(l, n)
  PROVE  /\ now' \in [Links -> Counts]
         /\ now'[l].of = n /\ now'[l].got = 1 /\ now'[l].bit = 1 - now[l].bit
         /\ now'[l].bit \in {0, 1}
         /\ \A m \in Links \ {l} : now'[m] = now[m]
<1> DEFINE c == [of |-> n, got |-> 1, bit |-> 1 - now[l].bit]
<1>1. c \in Counts /\ 1 - now[l].bit \in {0, 1}
  BY CountTypes, TrafficAssumption DEF Counts
<1>2. now \in [Links -> Counts] /\ now' = [now EXCEPT ![l] = c]
  BY DEF ReassemblyIInv, Reassembly!Begins
<1> QED BY <1>1, <1>2

LEMMA ReassemblySingle ==
  ASSUME ReassemblyIInv, NEW l \in Links, Reassembly!Single(l)
  PROVE  ReassemblyIInv'
<1>1. /\ Reassembly!Begins(l, 1) /\ ~Reassembly!UnderWay(l)
      /\ fate' = [fate EXCEPT ![l] = "whole"] /\ crossed' = crossed \ {l} /\ UNCHANGED <<buf, size>>
  BY DEF Reassembly!Single
<1>2. /\ now' \in [Links -> Counts] /\ now'[l].of = 1 /\ now'[l].got = 1 /\ now'[l].bit \in {0, 1}
      /\ \A m \in Links \ {l} : now'[m] = now[m]
  BY <1>1, ReassemblyBegins, TrafficAssumption
<1>3. ~Reassembly!UnderWay(l)' /\ \A m \in Links \ {l} : Reassembly!UnderWay(m)' = Reassembly!UnderWay(m)
  BY <1>2 DEF Reassembly!UnderWay
<1>4. fate' \in [Links -> {"nothing", "whole", "wrong"}] /\ fate'[l] = "whole"
      /\ \A m \in Links \ {l} : fate'[m] = fate[m]
  BY <1>1 DEF ReassemblyIInv, Reassembly!ReassemblyInv, Reassembly!TypeOK
<1>5. Reassembly!TypeOK'
  BY <1>1, <1>2, <1>4, CountTypes, TrafficAssumption DEF ReassemblyIInv, Reassembly!ReassemblyInv, Reassembly!TypeOK
<1>6. Reassembly!WholePackets'
  BY <1>1, <1>2, <1>3, <1>4 DEF ReassemblyIInv, Reassembly!ReassemblyInv, Reassembly!WholePackets
<1> QED BY <1>1, <1>2, <1>3, <1>5, <1>6 DEF ReassemblyIInv, Reassembly!ReassemblyInv, Received

LEMMA ReassemblyFirst ==
  ASSUME ReassemblyIInv, NEW l \in Links, Reassembly!First(l)
  PROVE  ReassemblyIInv'
<1>1. PICK n \in 2..MaxFrags :
        /\ ~Reassembly!UnderWay(l) /\ Reassembly!Begins(l, n)
        /\ buf' = <<Reassembly!Fragment(l, 1)>> /\ size' = n
        /\ fate' = [fate EXCEPT ![l] = "nothing"]
        /\ crossed' = IF Reassembly!Others(l) = {} THEN crossed \ {l}
                      ELSE crossed \cup Reassembly!Others(l) \cup {l}
  BY DEF Reassembly!First
<1>2. /\ now' \in [Links -> Counts] /\ now'[l].of = n /\ now'[l].got = 1 /\ now'[l].bit \in {0, 1}
      /\ \A m \in Links \ {l} : now'[m] = now[m]
  BY <1>1, ReassemblyBegins, TrafficAssumption
<1>3. Reassembly!UnderWay(l)' /\ \A m \in Links \ {l} : Reassembly!UnderWay(m)' = Reassembly!UnderWay(m)
  BY <1>1, <1>2, TrafficAssumption DEF Reassembly!UnderWay
<1>4. fate' \in [Links -> {"nothing", "whole", "wrong"}] /\ fate'[l] = "nothing"
      /\ \A m \in Links \ {l} : fate'[m] = fate[m]
  BY <1>1 DEF ReassemblyIInv, Reassembly!ReassemblyInv, Reassembly!TypeOK
<1>5. crossed' \subseteq Links /\ size' \in 0..MaxFrags
  BY <1>1, TrafficAssumption DEF ReassemblyIInv, Reassembly!ReassemblyInv, Reassembly!TypeOK, Reassembly!Others
<1>6. Reassembly!TypeOK'
  BY <1>1, <1>2, <1>4, <1>5, CountTypes, TrafficAssumption DEF Reassembly!TypeOK
<1>7. Reassembly!WholePackets'
  <2> SUFFICES ASSUME NEW m \in Links \ crossed'
               PROVE  fate'[m] = IF Reassembly!UnderWay(m)' \/ now'[m].of = 0 THEN "nothing" ELSE "whole"
    BY DEF Reassembly!WholePackets
  <2>1. CASE m = l
    BY <1>3, <1>4, <2>1
  <2>2. CASE m # l
    <3>1. m \notin crossed
      BY <1>1, <2>2
    <3> QED BY <1>2, <1>3, <1>4, <2>2, <3>1, CountTypes
  <2> QED BY <2>1, <2>2
<1>8. ASSUME NEW k \in Links, NEW m \in Links, k # m, Reassembly!UnderWay(k)', Reassembly!UnderWay(m)'
      PROVE  k \in crossed'
  <2>1. CASE k = l
    BY <1>1, <1>3, <1>8, <2>1 DEF Reassembly!Others
  <2>2. CASE m = l
    BY <1>1, <1>3, <1>8, <2>2 DEF Reassembly!Others
  <2>3. CASE k # l /\ m # l
    BY <1>1, <1>3, <1>8, <2>3 DEF ReassemblyIInv
  <2> QED BY <2>1, <2>2, <2>3
<1>9. ASSUME NEW m \in Links \ crossed', Reassembly!UnderWay(m)'
      PROVE  now'[m].got > 0 /\ size' = now'[m].of /\ buf' = Received(m)'
  <2>1. m = l
    BY <1>3, <1>8, <1>9
  <2>2. buf' = Received(l)'
    BY <1>1, <1>2 DEF Received, Reassembly!Fragment
  <2> QED BY <1>1, <1>2, <2>1, <2>2
<1>10. buf' \in Seq(Fragments)
  BY <1>1, <1>2 DEF Reassembly!Fragment, Fragments
<1> QED BY <1>2, <1>6, <1>7, <1>8, <1>9, <1>10 DEF ReassemblyIInv, Reassembly!ReassemblyInv

LEMMA ReassemblyContinue ==
  ASSUME ReassemblyIInv, NEW l \in Links, Reassembly!Continue(l)
  PROVE  ReassemblyIInv'
<1> DEFINE n == now[l].got + 1
<1>0. Reassembly!UnderWay(l) /\ now' = [now EXCEPT ![l].got = n]
  BY DEF Reassembly!Continue
<1>1. /\ Reassembly!UnderWay(l)
      /\ buf' = Append(buf, Reassembly!Fragment(l, now'[l].got))
      /\ IF Len(buf') >= size THEN Reassembly!Deliver(l, SubSeq(buf', 1, size)) ELSE UNCHANGED fate
  BY DEF Reassembly!Continue
<1>a. UNCHANGED <<size, crossed>>
  BY DEF Reassembly!Continue
<1>2. /\ now' \in [Links -> Counts] /\ n \in 1..now[l].of
      /\ now'[l].of = now[l].of /\ now'[l].got = n /\ now'[l].bit = now[l].bit
      /\ \A m \in Links \ {l} : now'[m] = now[m]
  <2>1. n \in 0..MaxFrags /\ n \in 1..now[l].of
    BY <1>1, CountTypes, TrafficAssumption DEF Reassembly!UnderWay
  <2>2. [now[l] EXCEPT !.got = n] \in Counts
    BY <2>1, CountTypes DEF ReassemblyIInv, Counts
  <2> QED BY <1>0, <2>1, <2>2 DEF ReassemblyIInv, Counts
<1>3. \A m \in Links \ {l} : Reassembly!UnderWay(m)' = Reassembly!UnderWay(m)
  BY <1>2 DEF Reassembly!UnderWay
<1>4. buf' = Append(buf, <<l, now[l].bit, n>>) /\ buf' \in Seq(Fragments)
  <2>1. Reassembly!Fragment(l, now'[l].got) = <<l, now[l].bit, n>>
    BY <1>2 DEF Reassembly!Fragment
  <2>2. <<l, now[l].bit, n>> \in Fragments
    BY <1>2, CountTypes DEF Fragments
  <2> QED BY <1>1, <2>1, <2>2 DEF ReassemblyIInv
<1>5. fate' \in [Links -> {"nothing", "whole", "wrong"}] /\ \A m \in Links \ {l} : fate'[m] = fate[m]
  BY <1>1 DEF ReassemblyIInv, Reassembly!ReassemblyInv, Reassembly!TypeOK, Reassembly!Deliver
<1>6. Reassembly!TypeOK'
  <2>1. crossed' \subseteq Links /\ size' \in 0..MaxFrags
    BY <1>a DEF ReassemblyIInv, Reassembly!ReassemblyInv, Reassembly!TypeOK
  <2>2. \A m \in Links : /\ now'[m].of \in 0..MaxFrags /\ now'[m].got \in 0..now'[m].of
                         /\ now'[m].bit \in {0, 1}
    <3>1. ASSUME NEW m \in Links
          PROVE  /\ now'[m].of \in 0..MaxFrags /\ now'[m].got \in 0..now'[m].of
                 /\ now'[m].bit \in {0, 1}
      BY <1>2, CountTypes DEF Counts
    <3> QED BY <3>1
  <2> QED BY <1>5, <2>1, <2>2 DEF Reassembly!TypeOK
<1>7. ASSUME l \notin crossed
      PROVE  /\ buf' = [k \in 1..n |-> <<l, now[l].bit, k>>] /\ size = now[l].of /\ fate[l] = "nothing"
  <2>1. buf = Received(l) /\ size = now[l].of /\ fate[l] = "nothing"
    BY <1>1, <1>7, CountTypes DEF ReassemblyIInv
  <2>2. Len(buf) = now[l].got /\ \A k \in 1..now[l].got : buf[k] = <<l, now[l].bit, k>>
    BY <2>1, CountTypes, TrafficAssumption DEF Received
  <2>3. Len(buf') = n /\ \A k \in 1..n : buf'[k] = <<l, now[l].bit, k>>
    <3>1. <<l, now[l].bit, n>> \in Fragments /\ buf \in Seq(Fragments)
      BY <1>2, CountTypes DEF Fragments, ReassemblyIInv
    <3>2. Append(buf, <<l, now[l].bit, n>>)[Len(buf) + 1] = <<l, now[l].bit, n>>
          /\ Len(Append(buf, <<l, now[l].bit, n>>)) = Len(buf) + 1
          /\ \A k \in 1..Len(buf) : Append(buf, <<l, now[l].bit, n>>)[k] = buf[k]
      BY <3>1, AppendProperties
    <3> QED BY <1>4, <2>2, <3>2, CountTypes
  <2>4. buf' = [k \in 1..n |-> <<l, now[l].bit, k>>]
    BY <1>4, <2>3, LenProperties
  <2> QED BY <2>1, <2>4
<1>8. ASSUME l \notin crossed
      PROVE  /\ fate'[l] = IF Reassembly!UnderWay(l)' \/ now'[l].of = 0 THEN "nothing" ELSE "whole"
             /\ now'[l].got > 0 /\ size' = now'[l].of /\ buf' = Received(l)'
  <2>1. buf' = Received(l)' /\ size' = now'[l].of /\ now'[l].got > 0
    BY <1>a, <1>2, <1>7, <1>8 DEF Received
  <2>2. Len(buf') = n
    BY <1>2, <1>7, <1>8
  <2>3. CASE n < now[l].of
    BY <1>1, <1>2, <1>7, <1>8, <2>1, <2>2, <2>3, CountTypes DEF Reassembly!UnderWay
  <2>4. CASE n = now[l].of
    <3>1. SubSeq(buf', 1, size) = buf'
      BY <1>4, <1>7, <1>8, <2>2, <2>4, SubSeqFull
    <3>2. buf' = [k \in 1..now'[l].of |-> Reassembly!Fragment(l, k)]
      BY <1>2, <1>7, <1>8, <2>4 DEF Reassembly!Fragment
    <3>a. Len(buf') >= size
      BY <1>2, <1>7, <1>8, <2>2, <2>4, CountTypes
    <3>b. Reassembly!Deliver(l, SubSeq(buf', 1, size))
      BY <1>1, <3>a, Zenon
    <3>3. Reassembly!Deliver(l, buf')
      BY <3>1, <3>b, Zenon
    <3>4. fate'[l] = "whole"
      BY <1>7, <1>8, <3>2, <3>3 DEF Reassembly!Deliver, ReassemblyIInv, Reassembly!ReassemblyInv, Reassembly!TypeOK
    <3> QED BY <1>2, <2>1, <2>4, <3>4, CountTypes DEF Reassembly!UnderWay
  <2> QED BY <1>2, <2>3, <2>4, CountTypes
<1>9. Reassembly!WholePackets'
  BY <1>a, <1>2, <1>3, <1>5, <1>8, CountTypes DEF Reassembly!WholePackets
<1>10. \A k, m \in Links : k # m /\ Reassembly!UnderWay(k)' /\ Reassembly!UnderWay(m)' => k \in crossed'
  BY <1>a, <1>3, <1>1 DEF ReassemblyIInv
<1>11. ASSUME NEW m \in Links \ crossed', Reassembly!UnderWay(m)'
       PROVE  now'[m].got > 0 /\ size' = now'[m].of /\ buf' = Received(m)'
  <2>1. m = l
    BY <1>1, <1>a, <1>3, <1>11 DEF ReassemblyIInv
  <2> QED BY <1>a, <1>8, <1>11, <2>1
<1> QED BY <1>2, <1>4, <1>6, <1>9, <1>10, <1>11 DEF ReassemblyIInv, Reassembly!ReassemblyInv

LEMMA ReassemblyLost ==
  ASSUME ReassemblyIInv, NEW l \in Links, Reassembly!Lost(l)
  PROVE  ReassemblyIInv'
<1>1. /\ now' = [now EXCEPT ![l] = [of |-> 0, got |-> 0, bit |-> now[l].bit]]
      /\ fate' = [fate EXCEPT ![l] = "nothing"] /\ crossed' = crossed \ {l} /\ UNCHANGED <<buf, size>>
  BY DEF Reassembly!Lost
<1>2. /\ now' \in [Links -> Counts] /\ now'[l].of = 0 /\ now'[l].got = 0
      /\ \A m \in Links \ {l} : now'[m] = now[m]
  <2>1. [of |-> 0, got |-> 0, bit |-> now[l].bit] \in Counts
    BY CountTypes, TrafficAssumption DEF Counts
  <2> QED BY <1>1, <2>1 DEF ReassemblyIInv
<1>3. ~Reassembly!UnderWay(l)' /\ \A m \in Links \ {l} : Reassembly!UnderWay(m)' = Reassembly!UnderWay(m)
  BY <1>2 DEF Reassembly!UnderWay
<1>4. fate' \in [Links -> {"nothing", "whole", "wrong"}] /\ fate'[l] = "nothing"
      /\ \A m \in Links \ {l} : fate'[m] = fate[m]
  BY <1>1 DEF ReassemblyIInv, Reassembly!ReassemblyInv, Reassembly!TypeOK
<1>5. Reassembly!TypeOK'
  <2>1. now'[l].bit \in {0, 1}
    BY <1>2 DEF Counts
  <2> QED BY <1>1, <1>2, <1>4, <2>1, CountTypes, TrafficAssumption
          DEF ReassemblyIInv, Reassembly!ReassemblyInv, Reassembly!TypeOK
<1>6. Reassembly!WholePackets'
  BY <1>1, <1>2, <1>3, <1>4 DEF ReassemblyIInv, Reassembly!ReassemblyInv, Reassembly!WholePackets
<1> QED BY <1>1, <1>2, <1>3, <1>5, <1>6 DEF ReassemblyIInv, Reassembly!ReassemblyInv, Received

LEMMA ReassemblyStep == ReassemblyIInv /\ [Reassembly!Next]_rxVars => ReassemblyIInv'
<1> SUFFICES ASSUME ReassemblyIInv, [Reassembly!Next]_rxVars PROVE ReassemblyIInv'
  OBVIOUS
<1>1. CASE UNCHANGED rxVars
  BY <1>1 DEF rxVars, ReassemblyIInv, Reassembly!ReassemblyInv, Reassembly!TypeOK,
              Reassembly!WholePackets, Reassembly!UnderWay, Received
<1> QED BY <1>1, ReassemblySingle, ReassemblyFirst, ReassemblyContinue, ReassemblyLost
        DEF Reassembly!Next
-----------------------------------------------------------------------------
(* Packets out.  A ring with somebody waiting is full, the controller      *)
(* always has a packet, an answer to give or is ready for one, and whoever *)
(* finds another's packet in the buffer is below it or has waited.         *)
Busy == {"delay", "clear", "send", "return"}

Excusable(by, of, w) == of # by => w \/ Transmit!Prio[of] > Transmit!Prio[by]

BufferOf(s) == tmp \in Transmit!Senders /\ Excusable(s, tmp, s \in waited)

TxIInv ==
  /\ Transmit!TypeOK
  /\ blocked # {} => Len(txq) = Room
  /\ blocked \subseteq waited
  /\ ready \/ taken \/ tx = "send"
  /\ tx \in Busy => txq # <<>>
  /\ \A s \in Transmit!Senders : pc[s] = "packet" => BufferOf(s)
  /\ \A i \in DOMAIN txq : Excusable(txq[i][1], txq[i][2], txq[i][3])

\* What the run checks is part of it
LEMMA TxSound == TxIInv => Transmit!TxInv
<1> SUFFICES ASSUME TxIInv PROVE Transmit!TxInv
  OBVIOUS
<1>1. Transmit!Moves
  BY DEF TxIInv, Transmit!Moves
<1>2. Transmit!Intact
  BY Zenon DEF TxIInv, Transmit!Intact, Excusable
<1> QED BY <1>1, <1>2 DEF TxIInv, Transmit!TxInv

LEMMA TxInit == Transmit!Init => TxIInv
<1> SUFFICES ASSUME Transmit!Init PROVE TxIInv
  OBVIOUS
<1>1. Transmit!TypeOK
  <2>1. txq = <<>> /\ Len(txq) <= Room /\ txq \in Seq({Transmit!Wait} \cup Transmit!Packets)
    BY TrafficAssumption DEF Transmit!Init
  <2> QED BY <2>1 DEF Transmit!Init, Transmit!TypeOK
<1> QED BY <1>1 DEF Transmit!Init, TxIInv, Busy

(* A sender fills the buffer: one whose packet was there has a lower       *)
(* priority, or would be running if it were not waiting for room.          *)
LEMMA TxFill ==
  ASSUME TxIInv, NEW s \in Transmit!Senders, Transmit!Fill(s)
  PROVE  TxIInv'
<1>1. /\ pc[s] = "idle" /\ Transmit!Free(s)
      /\ \/ pc' = [pc EXCEPT ![s] = "packet"] /\ tmp' = s
         \/ s = "callback" /\ pc' = [pc EXCEPT ![s] = "wait"] /\ tmp' = tmp
      /\ UNCHANGED <<blocked, waited, txq, tx, ready, taken>>
  BY DEF Transmit!Fill
<1>2. Transmit!TypeOK'
  BY <1>1 DEF TxIInv, Transmit!TypeOK
<1>3. ASSUME NEW o \in Transmit!Senders, pc'[o] = "packet"
      PROVE  BufferOf(o)'
  <2>1. CASE o = s
    BY <1>1, <1>3, <2>1 DEF BufferOf, Excusable, TxIInv, Transmit!TypeOK
  <2>2. CASE o # s
    <3>1. pc[o] = "packet" /\ BufferOf(o)
      BY <1>1, <1>3, <2>2 DEF TxIInv, Transmit!TypeOK
    <3>2. CASE tmp' = tmp
      BY <1>1, <3>1, <3>2 DEF BufferOf, Excusable
    <3>3. CASE tmp' = s
      <4>1. Transmit!Prio[o] > Transmit!Prio[s] => o \in blocked
        BY <1>1, <3>1 DEF Transmit!Free, Transmit!Runs, Transmit!Prio, Transmit!Senders
      <4>2. Transmit!Prio[o] > Transmit!Prio[s] \/ Transmit!Prio[s] > Transmit!Prio[o]
        BY <2>2 DEF Transmit!Prio, Transmit!Senders
      <4>3. o \in waited' \/ Transmit!Prio[s] > Transmit!Prio[o]
        BY <1>1, <4>1, <4>2 DEF TxIInv
      <4> QED BY <3>3, <4>3 DEF BufferOf, Excusable
    <3> QED BY <1>1, <3>2, <3>3
  <2> QED BY <2>1, <2>2
<1> QED BY <1>1, <1>2, <1>3 DEF TxIInv

LEMMA TxAdd ==
  ASSUME TxIInv, NEW s \in Transmit!Senders, Transmit!Add(s)
  PROVE  TxIInv'
<1> DEFINE p == IF pc[s] = "wait" THEN Transmit!Wait ELSE <<s, tmp, s \in waited>>
<1>1. /\ pc[s] # "idle" /\ Len(txq) < Room /\ txq' = Append(txq, p)
      /\ pc' = [pc EXCEPT ![s] = "idle"]
      /\ blocked' = blocked \ {s} /\ waited' = waited \ {s}
      /\ UNCHANGED <<tmp, tx, ready, taken>>
  BY DEF Transmit!Add
<1>2. p \in {Transmit!Wait} \cup Transmit!Packets /\ Excusable(p[1], p[2], p[3])
  <2>1. CASE pc[s] = "wait"
    BY <2>1 DEF Transmit!Wait, Excusable
  <2>2. CASE pc[s] # "wait"
    <3>1. BufferOf(s)
      BY <1>1, <2>2 DEF TxIInv, Transmit!TypeOK
    <3>2. (s \in waited) \in BOOLEAN
      OBVIOUS
    <3>3. ASSUME NEW w \in BOOLEAN
          PROVE  <<s, tmp, w>> \in Transmit!Packets
                 /\ (Excusable(s, tmp, w) => Excusable(<<s, tmp, w>>[1], <<s, tmp, w>>[2], <<s, tmp, w>>[3]))
      <4>1. <<s, tmp, w>>[1] = s /\ <<s, tmp, w>>[2] = tmp /\ <<s, tmp, w>>[3] = w
        OBVIOUS
      <4>2. Excusable(s, tmp, w) => Excusable(<<s, tmp, w>>[1], <<s, tmp, w>>[2], <<s, tmp, w>>[3])
        BY <4>1
      <4> QED BY <3>1, <4>2 DEF BufferOf, Transmit!Packets
    <3>4. <<s, tmp, s \in waited>> \in Transmit!Packets
      BY <3>2, <3>3, Zenon
    <3>5. Excusable(<<s, tmp, s \in waited>>[1], <<s, tmp, s \in waited>>[2], <<s, tmp, s \in waited>>[3])
      BY <3>1, <3>2, <3>3, Zenon DEF BufferOf
    <3>6. p = <<s, tmp, s \in waited>>
      BY <2>2, Zenon
    <3> HIDE DEF p
    <3>7. p \in Transmit!Packets
      BY <3>4, <3>6, Zenon
    <3>8. Excusable(p[1], p[2], p[3])
      BY <3>5, <3>6, Zenon
    <3> QED BY <3>7, <3>8
  <2> QED BY <2>1, <2>2
<1> HIDE DEF p
<1>3. txq \in Seq({Transmit!Wait} \cup Transmit!Packets)
  BY DEF TxIInv, Transmit!TypeOK
<1>4. /\ txq' \in Seq({Transmit!Wait} \cup Transmit!Packets) /\ Len(txq') = Len(txq) + 1
      /\ DOMAIN txq' = 1..Len(txq) + 1 /\ DOMAIN txq = 1..Len(txq) /\ txq'[Len(txq) + 1] = p
      /\ \A i \in 1..Len(txq) : txq'[i] = txq[i]
  BY <1>1, <1>2, <1>3, AppendProperties
<1>5. Transmit!TypeOK'
  <2>1. Len(txq') <= Room
    BY <1>1, <1>3, <1>4, LenProperties, TrafficAssumption
  <2> QED BY <1>1, <1>4, <2>1 DEF TxIInv, Transmit!TypeOK
<1>6. \A i \in DOMAIN txq' : Excusable(txq'[i][1], txq'[i][2], txq'[i][3])
  <2> SUFFICES ASSUME NEW i \in DOMAIN txq' PROVE Excusable(txq'[i][1], txq'[i][2], txq'[i][3])
    OBVIOUS
  <2>1. CASE i = Len(txq) + 1
    BY <1>2, <1>4, <2>1, Zenon
  <2>2. CASE i \in DOMAIN txq
    <3>1. txq'[i] = txq[i]
      BY <1>4, <2>2
    <3> QED BY <2>2, <3>1, Zenon DEF TxIInv
  <2>3. i = Len(txq) + 1 \/ i \in DOMAIN txq
    BY <1>3, <1>4, LenProperties
  <2> QED BY <2>1, <2>2, <2>3
<1>7. ASSUME NEW o \in Transmit!Senders, pc'[o] = "packet"
      PROVE  BufferOf(o)'
  <2>1. o # s /\ pc[o] = "packet"
    BY <1>1, <1>7 DEF TxIInv, Transmit!TypeOK
  <2> QED BY <1>1, <2>1 DEF TxIInv, BufferOf, Excusable
<1>8. txq' # <<>>
  BY <1>3, <1>4, LenProperties
<1> QED BY <1>1, <1>4, <1>5, <1>6, <1>7, <1>8 DEF TxIInv, Transmit!TypeOK

LEMMA TxBlock ==
  ASSUME TxIInv, NEW s \in Transmit!Senders, Transmit!Block(s)
  PROVE  TxIInv'
<1>1. /\ Len(txq) = Room /\ blocked' = blocked \cup {s} /\ waited' = waited \cup {s}
      /\ UNCHANGED <<tmp, pc, txq, tx, ready, taken>>
  BY DEF Transmit!Block
<1>2. Transmit!TypeOK'
  BY <1>1 DEF TxIInv, Transmit!TypeOK
<1>3. \A o \in Transmit!Senders : pc'[o] = "packet" => BufferOf(o)'
  BY <1>1 DEF TxIInv, BufferOf, Excusable
<1> QED BY <1>1, <1>2, <1>3 DEF TxIInv

(* bt_tx_task changes what it does next, and who waits when it returns a   *)
(* packet.                                                                 *)
LEMMA TxTask ==
  ASSUME TxIInv,
         \/ Transmit!Test \/ Transmit!Wake \/ Transmit!Receive \/ Transmit!Delayed
         \/ Transmit!Give \/ Transmit!Ready
  PROVE  TxIInv'
<1>1. UNCHANGED <<tmp, pc, blocked, waited, txq>>
  BY DEF Transmit!Test, Transmit!Wake, Transmit!Receive, Transmit!Delayed, Transmit!Give,
         Transmit!Clear, Transmit!Send, Transmit!Ready, Transmit!sendVars
<1>2. /\ tx' \in {"test", "sleep", "receive", "delay", "clear", "send", "return"}
      /\ ready' \in BOOLEAN /\ taken' \in BOOLEAN
      /\ ready' \/ taken' \/ tx' = "send"
      /\ tx' \in Busy => txq # <<>>
  BY DEF TxIInv, Transmit!TypeOK, Transmit!Test, Transmit!Wake, Transmit!Receive, Transmit!Delayed,
         Transmit!Give, Transmit!Clear, Transmit!Send, Transmit!Ready, Transmit!Tx, Busy,
         Transmit!sendVars
<1>3. Transmit!TypeOK'
  BY <1>1, <1>2 DEF TxIInv, Transmit!TypeOK
<1>4. \A o \in Transmit!Senders : pc'[o] = "packet" => BufferOf(o)'
  BY <1>1 DEF TxIInv, BufferOf
<1> QED BY <1>1, <1>2, <1>3, <1>4 DEF TxIInv

LEMMA TxReturn ==
  ASSUME TxIInv, Transmit!Return
  PROVE  TxIInv'
<1>1. /\ tx = "return" /\ tx' = "test" /\ txq' = Tail(txq) /\ blocked' = {}
      /\ UNCHANGED <<tmp, pc, waited, ready, taken>>
  BY DEF Transmit!Return, Transmit!Tx
<1>2. txq \in Seq({Transmit!Wait} \cup Transmit!Packets) /\ txq # <<>>
  BY <1>1 DEF TxIInv, Transmit!TypeOK, Busy
<1>3. /\ txq' \in Seq({Transmit!Wait} \cup Transmit!Packets) /\ Len(txq') = Len(txq) - 1
      /\ \A i \in DOMAIN txq' : i + 1 \in DOMAIN txq /\ txq'[i] = txq[i + 1]
  BY <1>1, <1>2
<1>4. Transmit!TypeOK'
  <2>1. Len(txq') <= Room
    BY <1>2, <1>3, LenProperties, TrafficAssumption DEF TxIInv, Transmit!TypeOK
  <2> QED BY <1>1, <1>3, <2>1 DEF TxIInv, Transmit!TypeOK
<1>5. \A i \in DOMAIN txq' : Excusable(txq'[i][1], txq'[i][2], txq'[i][3])
  BY <1>3, Zenon DEF TxIInv
<1>6. \A o \in Transmit!Senders : pc'[o] = "packet" => BufferOf(o)'
  BY <1>1 DEF TxIInv, BufferOf
<1> QED BY <1>1, <1>4, <1>5, <1>6 DEF TxIInv, Busy

LEMMA TxStep == TxIInv /\ [Transmit!Next]_txVars => TxIInv'
<1> SUFFICES ASSUME TxIInv, [Transmit!Next]_txVars PROVE TxIInv'
  OBVIOUS
<1>1. CASE UNCHANGED txVars
  BY <1>1 DEF txVars, TxIInv, Transmit!TypeOK, BufferOf, Excusable
<1> QED BY <1>1, TxFill, TxAdd, TxBlock, TxTask, TxReturn DEF Transmit!Next
-----------------------------------------------------------------------------
(* Rumble.  A port that may run a motor has somebody to stop it: the       *)
(* console, a timer or its callback, bt_fb_task, or an item of the queue;  *)
(* the toggle that muted the console has its own timer; and for a pak no   *)
(* "on" is the last item of a port that nobody else is going to stop.      *)
CbStates == {Rumble!Idle} \cup Ports \X {"stop", "unmute", "queue"}
FbStates == {Rumble!Idle} \cup Ports \X {"create", "start"}

Held(p) == want[p] \/ excused[p] \/ hdl[p] = "armed" \/ old[p] > 0 \/ cb[1] = p \/ fb[1] = p
Item(p) == \E i \in DOMAIN fbq : fbq[i][1] = p /\ (drv = "dc" \/ ~fbq[i][2])

RumbleTypes == Rumble!TypeOK /\ cb \in CbStates /\ fb \in FbStates

OldBounded ==
  \A p \in Ports : old[p] <= MaxOld /\ (cb = <<p, "stop">> => hdl[p] = "expired" \/ old[p] < MaxOld)

PakTimers ==
  drv = "pak" =>
    /\ fb = Rumble!Idle
    /\ \A p \in Ports : old[p] = 0 /\ hdl[p] # "created" /\ (hdl[p] = "expired" <=> cb = <<p, "stop">>)

Unmuting(p) == hdl[p] = "armed" \/ cb \in {<<p, "stop">>, <<p, "unmute">>}
MuteHeld == mute => drv = "pak" /\ muter \in Ports /\ Unmuting(muter)

PortRumbles(p) ==
  /\ motor[p] \/ out[p] => pad[p]
  /\ out[p] => Held(p) \/ Item(p)
  /\ motor[p] => Held(p) \/ Item(p) \/ (due /\ ~out[p])
  /\ fb = <<p, "start">> => hdl[p] = "created" \/ cb[1] = p \/ excused[p] \/ Item(p)

OffAfter(p, i) == \E j \in DOMAIN fbq : j > i /\ fbq[j] = <<p, FALSE>>
OnsFollowed ==
  drv = "pak" => \A i \in DOMAIN fbq : fbq[i][2] => Held(fbq[i][1]) \/ OffAfter(fbq[i][1], i)

RumbleIInv ==
  /\ RumbleTypes /\ OldBounded /\ PakTimers /\ MuteHeld
  /\ \A p \in Ports : PortRumbles(p)
  /\ OnsFollowed

LEMMA RumbleTyped ==
  ASSUME RumbleIInv
  PROVE  /\ drv \in {"pak", "dc"} /\ want \in [Ports -> BOOLEAN] /\ mute \in BOOLEAN
         /\ fbq \in Seq(Ports \X BOOLEAN) /\ Len(fbq) <= Queued
         /\ hdl \in [Ports -> {"none", "created", "armed", "expired"}]
         /\ old \in [Ports -> 0..MaxOld + 1]
         /\ pad \in [Ports -> BOOLEAN] /\ out \in [Ports -> BOOLEAN]
         /\ motor \in [Ports -> BOOLEAN] /\ excused \in [Ports -> BOOLEAN]
         /\ cb \in CbStates /\ fb \in FbStates
  BY DEF RumbleIInv, RumbleTypes, Rumble!TypeOK

\* What the run checks is part of it
LEMMA RumbleSound == RumbleIInv => Rumble!RumbleInv
<1> SUFFICES ASSUME RumbleIInv PROVE Rumble!RumbleInv
  OBVIOUS
<1>1. Rumble!MuteEnds
  BY DEF RumbleIInv, MuteHeld, Unmuting, Rumble!MuteEnds
<1>2. ASSUME NEW p \in Ports, motor[p]
      PROVE  want[p] \/ Rumble!Stopping(p) \/ excused[p]
  <2>1. Held(p) \/ Item(p) \/ (due /\ ~out[p])
    BY <1>2 DEF RumbleIInv, PortRumbles
  <2> QED BY <2>1 DEF Held, Item, Rumble!Stopping
<1> QED BY <1>1, <1>2 DEF RumbleIInv, RumbleTypes, Rumble!RumbleInv, Rumble!StopsComing

LEMMA RumbleInit == Rumble!Init => RumbleIInv
<1> SUFFICES ASSUME Rumble!Init PROVE RumbleIInv
  OBVIOUS
<1>1. RumbleTypes
  <2>1. fbq \in Seq(Ports \X BOOLEAN) /\ Len(fbq) <= Queued
    BY TrafficAssumption DEF Rumble!Init
  <2>2. old \in [Ports -> 0..MaxOld + 1]
    BY TrafficAssumption DEF Rumble!Init
  <2> QED BY <2>1, <2>2 DEF Rumble!Init, RumbleTypes, Rumble!TypeOK, CbStates, FbStates
<1>2. OldBounded /\ PakTimers /\ MuteHeld
  BY TrafficAssumption
     DEF Rumble!Init, Rumble!Idle, Rumble!NoPort, OldBounded, PakTimers, MuteHeld
<1>3. (\A p \in Ports : PortRumbles(p)) /\ OnsFollowed
  BY DEF Rumble!Init, Rumble!Idle, PortRumbles, OnsFollowed
<1> QED BY <1>1, <1>2, <1>3 DEF RumbleIInv

(* An action that leaves the queue alone, and lets go of no port           *)
LEMMA RumbleKept ==
  ASSUME RumbleIInv, UNCHANGED <<drv, fbq>>, \A p \in Ports : Held(p) => Held(p)'
  PROVE  OnsFollowed' /\ \A p \in Ports : Item(p)' <=> Item(p)
<1>1. \A i \in DOMAIN fbq : fbq[i][1] \in Ports
  BY RumbleTyped
<1>2. OnsFollowed'
  BY <1>1 DEF RumbleIInv, OnsFollowed, OffAfter
<1>3. \A p \in Ports : Item(p)' <=> Item(p)
  BY DEF Item
<1> QED BY <1>2, <1>3

(* adapter_q_fb: an "off" is the last item, or nothing can be promised for *)
(* the port, unless the toggle of the port itself has muted the console.   *)
LEMMA Enqueued ==
  ASSUME RumbleIInv, NEW p \in Ports, NEW on \in BOOLEAN, Rumble!Enqueue(p, on)
  PROVE  /\ fbq' \in Seq(Ports \X BOOLEAN) /\ Len(fbq') <= Queued
         /\ excused' \in [Ports -> BOOLEAN]
         /\ \A q \in Ports \ {p} : excused'[q] = excused[q]
         /\ \A i \in DOMAIN fbq : i \in DOMAIN fbq' /\ fbq'[i] = fbq[i]
         /\ \/ fbq' = fbq /\ (excused[p] => excused'[p]) /\ (~on => excused'[p] \/ (mute /\ muter = p))
            \/ \E n \in DOMAIN fbq' : /\ fbq'[n] = <<p, on>>
                                      /\ DOMAIN fbq' = DOMAIN fbq \cup {n}
                                      /\ \A i \in DOMAIN fbq : i < n
<1>1. CASE ~mute /\ Len(fbq) < Queued
  <2>1. fbq' = Append(fbq, <<p, on>>) /\ excused' = [excused EXCEPT ![p] = FALSE]
    BY <1>1 DEF Rumble!Enqueue
  <2>2. fbq \in Seq(Ports \X BOOLEAN) /\ <<p, on>> \in Ports \X BOOLEAN
    BY RumbleTyped
  <2>3. /\ fbq' \in Seq(Ports \X BOOLEAN) /\ Len(fbq') = Len(fbq) + 1
        /\ DOMAIN fbq' = 1..Len(fbq) + 1 /\ DOMAIN fbq = 1..Len(fbq)
        /\ fbq'[Len(fbq) + 1] = <<p, on>> /\ \A i \in 1..Len(fbq) : fbq'[i] = fbq[i]
    BY <2>1, <2>2, AppendProperties, LenProperties
  <2>4. Len(fbq) \in Nat
    BY <2>2, LenProperties
  <2>5. Len(fbq') <= Queued
    BY <1>1, <2>3, <2>4, TrafficAssumption
  <2>6. excused' \in [Ports -> BOOLEAN] /\ \A q \in Ports \ {p} : excused'[q] = excused[q]
    BY <2>1, RumbleTyped
  <2>7. \E n \in DOMAIN fbq' : /\ fbq'[n] = <<p, on>>
                               /\ DOMAIN fbq' = DOMAIN fbq \cup {n}
                               /\ \A i \in DOMAIN fbq : i < n
    <3>1. Len(fbq) + 1 \in DOMAIN fbq' /\ DOMAIN fbq' = DOMAIN fbq \cup {Len(fbq) + 1}
          /\ \A i \in DOMAIN fbq : i < Len(fbq) + 1
      BY <2>3, <2>4
    <3> QED BY <2>3, <3>1
  <2>8. \A i \in DOMAIN fbq : i \in DOMAIN fbq' /\ fbq'[i] = fbq[i]
    BY <2>3, <2>4
  <2> QED BY <2>3, <2>5, <2>6, <2>7, <2>8
<1>2. CASE ~(~mute /\ Len(fbq) < Queued)
  <2>1. fbq' = fbq /\ excused' = [excused EXCEPT ![p] = @ \/ (~on /\ (mute => muter # p))]
    BY <1>2 DEF Rumble!Enqueue
  <2>2. excused' \in [Ports -> BOOLEAN] /\ \A q \in Ports \ {p} : excused'[q] = excused[q]
    BY <2>1, RumbleTyped
  <2>3. excused'[p] <=> excused[p] \/ (~on /\ (mute => muter # p))
    BY <2>1, RumbleTyped
  <2> QED BY <2>1, <2>2, <2>3, RumbleTyped
<1> QED BY <1>1, <1>2

LEMMA EnqueuedHolds ==
  ASSUME RumbleIInv, NEW p \in Ports, NEW on \in BOOLEAN, Rumble!Enqueue(p, on), drv' = drv,
         \A q \in Ports \ {p} : Held(q) => Held(q)',
         on /\ drv = "pak" => Held(p)',
         on /\ Held(p) => Held(p)' \/ excused[p],
         ~on /\ mute /\ muter = p => Held(p)'
  PROVE  /\ \A q \in Ports : (Item(q) => Item(q)') /\ (Held(q) \/ Item(q) => Held(q)' \/ Item(q)')
         /\ drv = "dc" => \A q \in Ports : excused[q] => excused'[q] \/ Item(q)'
         /\ ~on => excused'[p] \/ Item(p)' \/ (mute /\ muter = p)
         /\ OnsFollowed'
<1>1. /\ \A q \in Ports \ {p} : excused'[q] = excused[q]
      /\ \A i \in DOMAIN fbq : i \in DOMAIN fbq' /\ fbq'[i] = fbq[i]
      /\ \/ fbq' = fbq /\ (excused[p] => excused'[p]) /\ (~on => excused'[p] \/ (mute /\ muter = p))
         \/ \E n \in DOMAIN fbq' : /\ fbq'[n] = <<p, on>>
                                   /\ DOMAIN fbq' = DOMAIN fbq \cup {n}
                                   /\ \A i \in DOMAIN fbq : i < n
  BY Enqueued
<1>2. \A q \in Ports : Item(q) => Item(q)'
  BY <1>1 DEF Item
<1>3. drv \in {"pak", "dc"} /\ \A i \in DOMAIN fbq : fbq[i][1] \in Ports
  BY RumbleTyped
<1>4. /\ excused'[p] => Held(p)'
      /\ \A q \in Ports : excused[q] => Held(q)
  BY DEF Held
<1>5. CASE fbq' = fbq /\ (excused[p] => excused'[p]) /\ (~on => excused'[p] \/ (mute /\ muter = p))
  <2>1. ~on => Held(p)'
    BY <1>4, <1>5
  <2>2. Held(p) => Held(p)'
    BY <1>4, <1>5, <2>1
  <2>3. OnsFollowed'
    <3> SUFFICES ASSUME drv = "pak", NEW i \in DOMAIN fbq, fbq[i][2]
                 PROVE  (Held(fbq[i][1]) \/ OffAfter(fbq[i][1], i))'
      BY <1>5 DEF OnsFollowed
    <3>0. PICK q \in Ports : q = fbq[i][1]
      BY <1>3
    <3>1. q \in Ports /\ (Held(q) \/ OffAfter(q, i))
      BY <1>3, <3>0 DEF RumbleIInv, OnsFollowed
    <3>2. Held(q) => Held(q)'
      BY <2>2, <3>1
    <3>3. OffAfter(q, i) => OffAfter(q, i)'
      BY <1>5 DEF OffAfter
    <3>a. fbq'[i] = fbq[i]
      BY <1>5
    <3> QED BY <3>0, <3>1, <3>2, <3>3, <3>a
  <2> QED BY <1>1, <1>2, <1>4, <1>5, <2>1, <2>2, <2>3
<1>6. ASSUME NEW n \in DOMAIN fbq', fbq'[n] = <<p, on>>, DOMAIN fbq' = DOMAIN fbq \cup {n},
             \A i \in DOMAIN fbq : i < n
      PROVE  /\ \A q \in Ports : Held(q) => Held(q)' \/ Item(q)'
             /\ drv = "dc" => \A q \in Ports : excused[q] => excused'[q] \/ Item(q)'
             /\ ~on => Item(p)'
             /\ OnsFollowed'
  <2>1. drv = "dc" \/ ~on => Item(p)'
    BY <1>6 DEF Item
  <2>2. Held(p) => Held(p)' \/ Item(p)'
    BY <1>3, <2>1
  <2>3. ASSUME NEW q \in Ports, excused[q], drv = "dc"
        PROVE  excused'[q] \/ Item(q)'
    BY <1>1, <2>1, <2>3
  <2>4. OnsFollowed'
    <3> SUFFICES ASSUME drv = "pak", NEW i \in DOMAIN fbq', fbq'[i][2]
                 PROVE  (Held(fbq[i][1]) \/ OffAfter(fbq[i][1], i))'
      BY <1>3 DEF OnsFollowed
    <3>1. CASE i = n
      BY <1>6, <3>1
    <3>2. CASE i \in DOMAIN fbq
      <4>0. PICK q \in Ports : q = fbq[i][1]
        BY <1>3, <3>2
      <4>1. fbq'[i] = fbq[i] /\ i < n
        BY <1>1, <1>6, <3>2
      <4>2. q \in Ports /\ (Held(q) \/ OffAfter(q, i))
        BY <1>3, <3>2, <4>0, <4>1 DEF RumbleIInv, OnsFollowed
      <4>3. OffAfter(q, i) => OffAfter(q, i)'
        BY <1>1 DEF OffAfter
      <4>4. q = p /\ ~on => OffAfter(q, i)'
        BY <1>6, <4>1 DEF OffAfter
      <4>5. Held(q) => Held(q)' \/ OffAfter(q, i)'
        BY <4>2, <4>4
      <4> QED BY <4>0, <4>1, <4>2, <4>3, <4>5
    <3> QED BY <1>6, <3>1, <3>2
  <2> QED BY <2>1, <2>2, <2>3, <2>4
<1> QED BY <1>1, <1>2, <1>5, <1>6

LEMMA RumbleAsk ==
  ASSUME RumbleIInv, NEW p \in Ports, NEW on \in BOOLEAN, Rumble!Ask(p, on)
  PROVE  RumbleIInv'
<1>1. /\ want' = IF drv = "pak" THEN [want EXCEPT ![p] = on] ELSE want
      /\ Rumble!Enqueue(p, on)
      /\ UNCHANGED <<drv, mute, muter, hdl, old, cb, pad, out, motor, fb, due>>
  BY DEF Rumble!Ask, Rumble!timerVars, Rumble!padVars, Rumble!taskVars
<1>2. /\ fbq' \in Seq(Ports \X BOOLEAN) /\ Len(fbq') <= Queued
      /\ excused' \in [Ports -> BOOLEAN] /\ \A q \in Ports \ {p} : excused'[q] = excused[q]
  BY <1>1, Enqueued
<1>3. /\ want' \in [Ports -> BOOLEAN] /\ \A q \in Ports \ {p} : want'[q] = want[q]
      /\ drv = "pak" => want'[p] = on
      /\ drv # "pak" => want' = want
  BY <1>1, RumbleTyped
<1>4. \A q \in Ports \ {p} : Held(q) => Held(q)'
  BY <1>1, <1>2, <1>3 DEF Held
<1>5. on /\ drv = "pak" => Held(p)'
  BY <1>3 DEF Held
<1>6. on /\ Held(p) => Held(p)' \/ excused[p]
  BY <1>1, <1>3, <1>5 DEF Held
<1>7. ~on /\ mute /\ muter = p => Held(p)'
  BY <1>1 DEF RumbleIInv, MuteHeld, Unmuting, Held
<1>8. /\ \A q \in Ports : (Item(q) => Item(q)') /\ (Held(q) \/ Item(q) => Held(q)' \/ Item(q)')
      /\ drv = "dc" => \A q \in Ports : excused[q] => excused'[q] \/ Item(q)'
      /\ OnsFollowed'
  BY <1>1, <1>4, <1>5, <1>6, <1>7, EnqueuedHolds
<1>9. RumbleTypes'
  BY <1>1, <1>2, <1>3, RumbleTyped DEF RumbleTypes, Rumble!TypeOK
<1>10. ASSUME NEW q \in Ports PROVE PortRumbles(q)'
  <2>1. PortRumbles(q)
    BY DEF RumbleIInv
  <2>2. fb = <<q, "start">> => drv = "dc"
    BY RumbleTyped DEF RumbleIInv, PakTimers, Rumble!Idle
  <2> QED BY <1>1, <1>8, <2>1, <2>2 DEF PortRumbles
<1> QED BY <1>1, <1>8, <1>9, <1>10 DEF RumbleIInv, OldBounded, PakTimers, MuteHeld, Unmuting

LEMMA RumbleToggle ==
  ASSUME RumbleIInv, NEW p \in Ports, Rumble!Toggle(p)
  PROVE  RumbleIInv'
<1>1. /\ drv = "pak" /\ pad[p] /\ mute' = TRUE /\ muter' = p
      /\ hdl' = IF hdl[p] = "none" THEN [hdl EXCEPT ![p] = "armed"] ELSE hdl
      /\ out' = [out EXCEPT ![p] = TRUE] /\ motor' = [motor EXCEPT ![p] = TRUE]
      /\ UNCHANGED <<drv, want, fbq, excused, old, cb, pad, fb, due>>
  BY DEF Rumble!Toggle, Rumble!taskVars
<1>2. /\ hdl' \in [Ports -> {"none", "created", "armed", "expired"}]
      /\ out' \in [Ports -> BOOLEAN] /\ motor' \in [Ports -> BOOLEAN]
      /\ \A q \in Ports \ {p} : hdl'[q] = hdl[q] /\ out'[q] = out[q] /\ motor'[q] = motor[q]
      /\ hdl'[p] = IF hdl[p] = "none" THEN "armed" ELSE hdl[p]
  BY <1>1, RumbleTyped
<1>3. hdl'[p] = "armed" \/ cb = <<p, "stop">>
  BY <1>1, <1>2, RumbleTyped DEF RumbleIInv, PakTimers
<1>4. Held(p)'
  BY <1>1, <1>3 DEF Held
<1>5. \A q \in Ports : Held(q) => Held(q)'
  BY <1>1, <1>2, <1>4 DEF Held
<1>6. OnsFollowed' /\ \A q \in Ports : Item(q)' <=> Item(q)
  BY <1>1, <1>5, RumbleKept
<1>7. RumbleTypes'
  BY <1>1, <1>2, RumbleTyped DEF RumbleTypes, Rumble!TypeOK
<1>8. PakTimers' /\ MuteHeld'
  BY <1>1, <1>2, <1>3 DEF RumbleIInv, PakTimers, MuteHeld, Unmuting
<1>9. ASSUME NEW q \in Ports PROVE PortRumbles(q)'
  <2>1. PortRumbles(q) /\ fb # <<q, "start">>
    BY <1>1 DEF RumbleIInv, PakTimers, Rumble!Idle
  <2> QED BY <1>1, <1>2, <1>4, <1>5, <1>6, <2>1 DEF PortRumbles
<1>10. OldBounded'
  BY <1>1, <1>2 DEF RumbleIInv, OldBounded
<1> QED BY <1>6, <1>7, <1>8, <1>9, <1>10 DEF RumbleIInv

LEMMA RumbleFire ==
  ASSUME RumbleIInv, NEW p \in Ports, Rumble!Fire(p)
  PROVE  RumbleIInv'
<1>1. /\ cb = Rumble!Idle /\ cb' = <<p, "stop">>
      /\ \/ hdl[p] = "armed" /\ hdl' = [hdl EXCEPT ![p] = "expired"] /\ old' = old
         \/ old[p] > 0 /\ old' = [old EXCEPT ![p] = @ - 1] /\ hdl' = hdl
      /\ UNCHANGED <<drv, want, fbq, mute, muter, excused, pad, out, motor, fb, due>>
  BY DEF Rumble!Fire, Rumble!pathVars, Rumble!padVars, Rumble!taskVars
<1>2. /\ hdl' \in [Ports -> {"none", "created", "armed", "expired"}]
      /\ old' \in [Ports -> 0..MaxOld + 1] /\ cb' \in CbStates
      /\ \A q \in Ports \ {p} : hdl'[q] = hdl[q] /\ old'[q] = old[q]
      /\ \/ hdl[p] = "armed" /\ hdl'[p] = "expired" /\ old'[p] = old[p]
         \/ old[p] > 0 /\ old'[p] = old[p] - 1 /\ hdl'[p] = hdl[p]
  BY <1>1, RumbleTyped, TrafficAssumption DEF CbStates
<1>3. \A q \in Ports : cb[1] # q /\ (q # p => cb' # <<q, "stop">>)
  BY <1>1, TrafficAssumption DEF Rumble!Idle, Rumble!NoPort
<1>4. ASSUME NEW q \in Ports, Held(q) PROVE Held(q)'
  <2>1. CASE q = p
    BY <1>1, <2>1 DEF Held
  <2>2. CASE q # p
    <3>1. hdl'[q] = hdl[q] /\ old'[q] = old[q] /\ cb[1] # q
      BY <1>2, <1>3, <2>2
    <3> QED BY <1>1, <1>4, <3>1 DEF Held
  <2> QED BY <2>1, <2>2
<1>5. OnsFollowed' /\ \A q \in Ports : Item(q)' <=> Item(q)
  BY <1>1, <1>4, RumbleKept
<1>6. RumbleTypes'
  BY <1>1, <1>2, RumbleTyped DEF RumbleTypes, Rumble!TypeOK
<1>7. OldBounded'
  BY <1>1, <1>2, <1>3, RumbleTyped, TrafficAssumption DEF RumbleIInv, OldBounded
<1>8. PakTimers'
  BY <1>1, <1>2, <1>3 DEF RumbleIInv, PakTimers, Rumble!Idle
<1>9. MuteHeld'
  BY <1>1, <1>2 DEF RumbleIInv, MuteHeld, Unmuting, Rumble!Idle
<1>10. ASSUME NEW q \in Ports PROVE PortRumbles(q)'
  <2>1. PortRumbles(q)
    BY DEF RumbleIInv
  <2>2. q = p => cb'[1] = q
    BY <1>1
  <2> QED BY <1>1, <1>2, <1>3, <1>4, <1>5, <2>1, <2>2 DEF PortRumbles
<1> QED BY <1>5, <1>6, <1>7, <1>8, <1>9, <1>10 DEF RumbleIInv

LEMMA RumbleCbStop ==
  ASSUME RumbleIInv, NEW p \in Ports, Rumble!CbStop(p)
  PROVE  RumbleIInv'
<1>1. /\ cb = <<p, "stop">> /\ cb' = <<p, "unmute">>
      /\ hdl' = [hdl EXCEPT ![p] = "none"]
      /\ old' = IF hdl[p] = "armed" THEN [old EXCEPT ![p] = @ + 1] ELSE old
      /\ UNCHANGED <<drv, want, fbq, mute, muter, excused, pad, out, motor, fb, due>>
  BY DEF Rumble!CbStop, Rumble!StopTimer, Rumble!pathVars, Rumble!padVars, Rumble!taskVars
<1>2. /\ hdl' \in [Ports -> {"none", "created", "armed", "expired"}]
      /\ old' \in [Ports -> 0..MaxOld + 1] /\ old'[p] <= MaxOld /\ cb' \in CbStates
      /\ \A q \in Ports \ {p} : hdl'[q] = hdl[q] /\ old'[q] = old[q]
      /\ hdl'[p] = "none" /\ (hdl[p] # "armed" => old'[p] = old[p])
  <2>1. /\ hdl' \in [Ports -> {"none", "created", "armed", "expired"}] /\ hdl'[p] = "none"
        /\ \A q \in Ports \ {p} : hdl'[q] = hdl[q]
    BY <1>1, RumbleTyped
  <2>2. old[p] <= MaxOld /\ (hdl[p] = "armed" => old[p] < MaxOld)
    BY <1>1 DEF RumbleIInv, OldBounded
  <2>3. /\ old' \in [Ports -> 0..MaxOld + 1] /\ old'[p] <= MaxOld
        /\ (\A q \in Ports \ {p} : old'[q] = old[q]) /\ (hdl[p] # "armed" => old'[p] = old[p])
    BY <1>1, <2>2, RumbleTyped, TrafficAssumption
  <2>4. cb' \in CbStates
    BY <1>1 DEF CbStates
  <2> QED BY <2>1, <2>3, <2>4
<1>3. \A q \in Ports : cb'[1] = q <=> cb[1] = q
  BY <1>1
<1>4. ASSUME NEW q \in Ports, Held(q) PROVE Held(q)'
  <2>1. CASE q = p
    BY <1>1, <2>1 DEF Held
  <2>2. CASE q # p
    <3>1. hdl'[q] = hdl[q] /\ old'[q] = old[q] /\ (cb'[1] = q <=> cb[1] = q)
      BY <1>2, <1>3, <2>2
    <3> QED BY <1>1, <1>4, <3>1 DEF Held
  <2> QED BY <2>1, <2>2
<1>5. OnsFollowed' /\ \A q \in Ports : Item(q)' <=> Item(q)
  BY <1>1, <1>4, RumbleKept
<1>6. RumbleTypes'
  BY <1>1, <1>2, RumbleTyped DEF RumbleTypes, Rumble!TypeOK
<1>7. OldBounded'
  BY <1>1, <1>2, RumbleTyped, TrafficAssumption DEF RumbleIInv, OldBounded
<1>8. PakTimers'
  BY <1>1, <1>2 DEF RumbleIInv, PakTimers
<1>9. MuteHeld'
  BY <1>1, <1>2 DEF RumbleIInv, MuteHeld, Unmuting
<1>10. ASSUME NEW q \in Ports PROVE PortRumbles(q)'
  <2>1. PortRumbles(q)
    BY DEF RumbleIInv
  <2>2. q = p => cb'[1] = q
    BY <1>1
  <2> QED BY <1>1, <1>2, <1>3, <1>4, <1>5, <2>1, <2>2 DEF PortRumbles
<1> QED BY <1>5, <1>6, <1>7, <1>8, <1>9, <1>10 DEF RumbleIInv

LEMMA RumbleCbUnmute ==
  ASSUME RumbleIInv, NEW p \in Ports, Rumble!CbUnmute(p)
  PROVE  RumbleIInv'
<1>1. /\ cb = <<p, "unmute">> /\ cb' = <<p, "queue">> /\ mute' = FALSE
      /\ UNCHANGED <<drv, want, fbq, muter, excused, hdl, old, pad, out, motor, fb, due>>
  BY DEF Rumble!CbUnmute, Rumble!padVars, Rumble!taskVars
<1>2. cb' \in CbStates /\ \A q \in Ports : (cb'[1] = q <=> cb[1] = q)
                                         /\ cb # <<q, "stop">> /\ cb' # <<q, "stop">>
  BY <1>1 DEF CbStates
<1>3. \A q \in Ports : Held(q) => Held(q)'
  BY <1>1, <1>2 DEF Held
<1>4. OnsFollowed' /\ \A q \in Ports : Item(q)' <=> Item(q)
  BY <1>1, <1>3, RumbleKept
<1>5. RumbleTypes'
  BY <1>1, <1>2, RumbleTyped DEF RumbleTypes, Rumble!TypeOK
<1>6. OldBounded' /\ PakTimers' /\ MuteHeld'
  BY <1>1, <1>2 DEF RumbleIInv, OldBounded, PakTimers, MuteHeld
<1>7. ASSUME NEW q \in Ports PROVE PortRumbles(q)'
  BY <1>1, <1>2, <1>3, <1>4 DEF RumbleIInv, PortRumbles
<1> QED BY <1>4, <1>5, <1>6, <1>7 DEF RumbleIInv

LEMMA RumbleCbQueue ==
  ASSUME RumbleIInv, NEW p \in Ports, Rumble!CbQueue(p)
  PROVE  RumbleIInv'
<1>1. /\ cb = <<p, "queue">> /\ cb' = Rumble!Idle /\ Rumble!Enqueue(p, FALSE)
      /\ UNCHANGED <<drv, want, mute, muter, hdl, old, pad, out, motor, fb, due>>
  BY DEF Rumble!CbQueue, Rumble!padVars, Rumble!taskVars
<1>2. /\ fbq' \in Seq(Ports \X BOOLEAN) /\ Len(fbq') <= Queued
      /\ excused' \in [Ports -> BOOLEAN] /\ \A q \in Ports \ {p} : excused'[q] = excused[q]
  BY <1>1, Enqueued
<1>3. cb' \in CbStates /\ \A q \in Ports : /\ cb[1] = q => q = p
                                           /\ cb # <<q, "stop">> /\ cb' # <<q, "stop">>
                                           /\ cb # <<q, "unmute">>
  BY <1>1 DEF CbStates, Rumble!Idle
<1>4. \A q \in Ports \ {p} : Held(q) => Held(q)'
  BY <1>1, <1>2, <1>3 DEF Held
<1>5. mute /\ muter = p => Held(p)' /\ drv = "pak"
  BY <1>1, <1>3 DEF RumbleIInv, MuteHeld, Unmuting, Held
<1>6. /\ \A q \in Ports : (Item(q) => Item(q)') /\ (Held(q) \/ Item(q) => Held(q)' \/ Item(q)')
      /\ drv = "dc" => \A q \in Ports : excused[q] => excused'[q] \/ Item(q)'
      /\ excused'[p] \/ Item(p)' \/ (mute /\ muter = p)
      /\ OnsFollowed'
  <2>1. FALSE \in BOOLEAN
    OBVIOUS
  <2> QED BY <1>1, <1>4, <1>5, <2>1, EnqueuedHolds
<1>7. RumbleTypes'
  BY <1>1, <1>2, <1>3, RumbleTyped DEF RumbleTypes, Rumble!TypeOK
<1>8. OldBounded' /\ PakTimers' /\ MuteHeld'
  BY <1>1, <1>3 DEF RumbleIInv, OldBounded, PakTimers, MuteHeld, Unmuting
<1>9. ASSUME NEW q \in Ports PROVE PortRumbles(q)'
  <2>1. PortRumbles(q)
    BY DEF RumbleIInv
  <2>2. fb = <<q, "start">> => drv = "dc" /\ drv # "pak"
    BY RumbleTyped DEF RumbleIInv, PakTimers, Rumble!Idle
  <2> QED BY <1>1, <1>3, <1>5, <1>6, <2>1, <2>2 DEF PortRumbles
<1> QED BY <1>6, <1>7, <1>8, <1>9 DEF RumbleIInv

(* bt_fb_task takes the first item.  An "off" sets the output off, and an  *)
(* "on" is followed by an "off" or starts a timer; without a controller on *)
(* the port nothing rumbles.                                               *)
LEMMA RumbleHandle ==
  ASSUME RumbleIInv, Rumble!Handle
  PROVE  RumbleIInv'
<1>0. PICK p \in Ports, on \in BOOLEAN : p = fbq[1][1] /\ on = fbq[1][2] /\ fbq[1] = <<p, on>>
  BY RumbleTyped DEF Rumble!Handle
<1> DEFINE timed == drv = "dc" /\ pad[p]
<1>1. /\ cb = Rumble!Idle /\ fb = Rumble!Idle /\ fbq # <<>> /\ fbq' = Tail(fbq)
      /\ timed => old[p] < MaxOld
      /\ IF timed THEN Rumble!StopTimer(p) ELSE UNCHANGED <<hdl, old>>
      /\ fb' = IF timed /\ on THEN <<p, "create">> ELSE Rumble!Idle
      /\ IF pad[p] /\ ~(timed /\ on)
         THEN out' = [out EXCEPT ![p] = on] /\ due' = TRUE
         ELSE UNCHANGED <<out, due>>
      /\ UNCHANGED <<drv, want, mute, muter, excused, cb, pad, motor>>
  BY <1>0 DEF Rumble!Handle, Rumble!Runs
<1>2. /\ fbq' \in Seq(Ports \X BOOLEAN) /\ Len(fbq') = Len(fbq) - 1 /\ Len(fbq) \in Nat
      /\ DOMAIN fbq = 1..Len(fbq) /\ DOMAIN fbq' = 1..Len(fbq) - 1
      /\ \A i \in DOMAIN fbq' : i + 1 \in DOMAIN fbq /\ fbq'[i] = fbq[i + 1]
      /\ 1 \in DOMAIN fbq
  BY <1>1, RumbleTyped
<1>3. /\ \A i \in DOMAIN fbq : i # 1 => i - 1 \in DOMAIN fbq' /\ fbq'[i - 1] = fbq[i]
      /\ \A i \in DOMAIN fbq : i \in Nat \ {0}
  BY <1>2
<1>4. /\ hdl' \in [Ports -> {"none", "created", "armed", "expired"}]
      /\ old' \in [Ports -> 0..MaxOld + 1] /\ (\A q \in Ports : old'[q] <= MaxOld)
      /\ \A q \in Ports \ {p} : hdl'[q] = hdl[q] /\ old'[q] = old[q]
      /\ ~timed => hdl' = hdl /\ old' = old
  <2>1. CASE timed
    <3>1. /\ hdl' = [hdl EXCEPT ![p] = "none"] /\ old[p] < MaxOld
          /\ old' = IF hdl[p] = "armed" THEN [old EXCEPT ![p] = @ + 1] ELSE old
      BY <1>1, <2>1 DEF Rumble!StopTimer
    <3>2. /\ hdl' \in [Ports -> {"none", "created", "armed", "expired"}]
          /\ old' \in [Ports -> 0..MaxOld + 1] /\ old'[p] <= MaxOld
          /\ \A q \in Ports \ {p} : hdl'[q] = hdl[q] /\ old'[q] = old[q]
      BY <3>1, RumbleTyped, TrafficAssumption
    <3>3. \A q \in Ports : old'[q] <= MaxOld
      BY <3>2 DEF RumbleIInv, OldBounded
    <3> QED BY <2>1, <3>2, <3>3
  <2>2. CASE ~timed
    BY <1>1, <2>2, RumbleTyped DEF RumbleIInv, OldBounded
  <2> QED BY <2>1, <2>2
<1>5. out' \in [Ports -> BOOLEAN] /\ \A q \in Ports \ {p} : out'[q] = out[q]
  BY <1>1, <1>2, RumbleTyped
<1>6. fb' \in FbStates /\ \A q \in Ports : fb[1] # q /\ cb[1] # q /\ fb' # <<q, "start">>
  BY <1>1, <1>2, TrafficAssumption DEF FbStates, Rumble!Idle, Rumble!NoPort
<1>7. \A q \in Ports \ {p} : (Held(q) => Held(q)') /\ (Item(q) => Item(q)')
  <2> SUFFICES ASSUME NEW q \in Ports \ {p} PROVE (Held(q) => Held(q)') /\ (Item(q) => Item(q)')
    OBVIOUS
  <2>1. Held(q) => Held(q)'
    <3>1. hdl'[q] = hdl[q] /\ old'[q] = old[q] /\ fb[1] # q
      BY <1>4, <1>6
    <3> QED BY <1>1, <3>1 DEF Held
  <2>2. Item(q) => Item(q)'
    <3> SUFFICES ASSUME NEW i \in DOMAIN fbq, fbq[i][1] = q, drv = "dc" \/ ~fbq[i][2]
                 PROVE  Item(q)'
      BY DEF Item
    <3>1. i # 1
      BY <1>0
    <3>2. i - 1 \in DOMAIN fbq' /\ fbq'[i - 1] = fbq[i]
      BY <1>3, <3>1
    <3> QED BY <1>1, <3>2 DEF Item
  <2> QED BY <2>1, <2>2
<1>8. RumbleTypes'
  <2>2. Len(fbq') <= Queued
    BY <1>2, RumbleTyped, TrafficAssumption
  <2> QED BY <1>1, <1>2, <1>4, <1>5, <1>6, <2>2, RumbleTyped DEF RumbleTypes, Rumble!TypeOK
<1>9. OldBounded'
  BY <1>1, <1>4 DEF RumbleIInv, OldBounded, Rumble!Idle
<1>10. PakTimers' /\ MuteHeld'
  BY <1>1, <1>4 DEF RumbleIInv, PakTimers, MuteHeld, Unmuting
<1>11. ASSUME drv = "pak" PROVE OnsFollowed' /\ (on => Held(p) \/ Item(p)') /\ (\A q \in Ports : Held(q) => Held(q)')
  <2>1. ASSUME NEW q \in Ports, Held(q) PROVE Held(q)'
    BY <1>1, <1>4, <1>6, <1>11, <2>1 DEF Held
  <2>2. OnsFollowed'
    <3> SUFFICES ASSUME NEW i \in DOMAIN fbq', fbq'[i][2]
                 PROVE  (Held(fbq[i][1]) \/ OffAfter(fbq[i][1], i))'
      BY DEF OnsFollowed
    <3>1. PICK q \in Ports : q = fbq'[i][1]
      BY <1>2
    <3>2. q = fbq[i + 1][1] /\ (Held(q) \/ OffAfter(q, i + 1))
      BY <1>2, <1>11, <3>1 DEF RumbleIInv, OnsFollowed
    <3>3. ASSUME OffAfter(q, i + 1) PROVE OffAfter(q, i)'
      <4>1. PICK j \in DOMAIN fbq : j > i + 1 /\ fbq[j] = <<q, FALSE>>
        BY <3>3 DEF OffAfter
      <4>a. i \in Nat /\ j \in Nat /\ j # 1 /\ j - 1 > i
        BY <1>2, <1>3, <4>1
      <4>2. j - 1 \in DOMAIN fbq' /\ fbq'[j - 1] = <<q, FALSE>> /\ j - 1 > i
        BY <1>3, <4>1, <4>a, Zenon
      <4> QED BY <4>2 DEF OffAfter
    <3> QED BY <2>1, <3>1, <3>2, <3>3
  <2>3. ASSUME on PROVE Held(p) \/ Item(p)'
    <3>1. Held(p) \/ OffAfter(p, 1)
      BY <1>0, <1>2, <1>11, <2>3 DEF RumbleIInv, OnsFollowed
    <3>2. ASSUME OffAfter(p, 1) PROVE Item(p)'
      <4>1. PICK j \in DOMAIN fbq : j > 1 /\ fbq[j] = <<p, FALSE>>
        BY <3>2 DEF OffAfter
      <4>a. j # 1
        BY <1>3, <4>1
      <4>2. j - 1 \in DOMAIN fbq' /\ fbq'[j - 1] = <<p, FALSE>>
        BY <1>3, <4>1, <4>a, Zenon
      <4>3. fbq'[j - 1][1] = p /\ ~fbq'[j - 1][2]
        BY <4>2
      <4> QED BY <4>2, <4>3, Zenon DEF Item
    <3> QED BY <3>1, <3>2
  <2> QED BY <2>1, <2>2, <2>3
<1>12. ASSUME NEW q \in Ports \ {p} PROVE PortRumbles(q)'
  <2>1. PortRumbles(q)
    BY DEF RumbleIInv
  <2>2. out'[q] = out[q] /\ fb' # <<q, "start">> /\ (due => due')
    BY <1>1, <1>5, <1>6
  <2> QED BY <1>1, <1>7, <2>1, <2>2 DEF PortRumbles
<1>13. PortRumbles(p)'
  <2>1. PortRumbles(p) /\ fb' # <<p, "start">>
    BY <1>2, <1>6 DEF RumbleIInv
  <2>2. CASE ~pad[p]
    BY <1>1, <1>2, <2>1, <2>2 DEF PortRumbles
  <2>3. CASE timed /\ on
    <3>1. Held(p)' /\ pad'[p]
      BY <1>1, <1>2, <2>3 DEF Held
    <3> QED BY <2>1, <3>1 DEF PortRumbles
  <2>4. CASE pad[p] /\ ~on
    <3>1. ~out'[p] /\ due' /\ pad'[p]
      BY <1>1, <1>2, <2>4, RumbleTyped
    <3> QED BY <2>1, <3>1 DEF PortRumbles
  <2>5. CASE pad[p] /\ on /\ drv = "pak"
    <3>1. Held(p)' \/ Item(p)'
      BY <1>2, <1>11, <2>5
    <3> QED BY <1>1, <2>1, <2>5, <3>1 DEF PortRumbles
  <2> QED BY <2>2, <2>3, <2>4, <2>5, RumbleTyped
<1>14. OnsFollowed'
  BY <1>1, <1>11 DEF OnsFollowed
<1> QED BY <1>8, <1>9, <1>10, <1>12, <1>13, <1>14 DEF RumbleIInv

LEMMA RumbleCreate ==
  ASSUME RumbleIInv, NEW p \in Ports, Rumble!Create(p)
  PROVE  RumbleIInv'
<1>1. /\ cb = Rumble!Idle /\ fb = <<p, "create">> /\ fb' = <<p, "start">>
      /\ hdl' = [hdl EXCEPT ![p] = "created"]
      /\ UNCHANGED <<drv, want, fbq, mute, muter, excused, old, cb, pad, out, motor, due>>
  BY DEF Rumble!Create, Rumble!Runs, Rumble!pathVars, Rumble!padVars
<1>2. /\ hdl' \in [Ports -> {"none", "created", "armed", "expired"}] /\ fb' \in FbStates
      /\ hdl'[p] = "created" /\ \A q \in Ports \ {p} : hdl'[q] = hdl[q] /\ fb' # <<q, "start">>
      /\ \A q \in Ports : cb # <<q, "stop">>
  BY <1>1, RumbleTyped DEF FbStates, Rumble!Idle
<1>3. drv = "dc" /\ drv # "pak" /\ ~mute
  BY <1>1, RumbleTyped DEF RumbleIInv, PakTimers, MuteHeld, Rumble!Idle
<1>4. Held(p)'
  BY <1>1 DEF Held
<1>5. ASSUME NEW q \in Ports, Held(q) PROVE Held(q)'
  <2>1. CASE q = p
    BY <1>4, <2>1
  <2>2. CASE q # p
    BY <1>1, <1>2, <1>5, <2>2 DEF Held
  <2> QED BY <2>1, <2>2
<1>6. OnsFollowed' /\ \A q \in Ports : Item(q)' <=> Item(q)
  BY <1>1, <1>5, RumbleKept
<1>7. RumbleTypes'
  BY <1>1, <1>2, RumbleTyped DEF RumbleTypes, Rumble!TypeOK
<1>8. OldBounded' /\ PakTimers' /\ MuteHeld'
  BY <1>1, <1>2, <1>3 DEF RumbleIInv, OldBounded, PakTimers, MuteHeld
<1>9. ASSUME NEW q \in Ports PROVE PortRumbles(q)'
  <2>1. PortRumbles(q)
    BY DEF RumbleIInv
  <2>2. fb' = <<q, "start">> => hdl'[q] = "created"
    BY <1>2
  <2> QED BY <1>1, <1>5, <1>6, <2>1, <2>2 DEF PortRumbles
<1> QED BY <1>6, <1>7, <1>8, <1>9 DEF RumbleIInv

LEMMA RumbleStart ==
  ASSUME RumbleIInv, NEW p \in Ports, Rumble!Start(p)
  PROVE  RumbleIInv'
<1>1. /\ cb = Rumble!Idle /\ fb = <<p, "start">> /\ fb' = Rumble!Idle
      /\ hdl' = IF hdl[p] = "created" THEN [hdl EXCEPT ![p] = "armed"] ELSE hdl
      /\ out' = [out EXCEPT ![p] = pad[p]] /\ due' = TRUE
      /\ UNCHANGED <<drv, want, fbq, mute, muter, excused, old, cb, pad, motor>>
  BY DEF Rumble!Start, Rumble!Runs, Rumble!pathVars
<1>2. /\ hdl' \in [Ports -> {"none", "created", "armed", "expired"}] /\ fb' \in FbStates
      /\ hdl'[p] = (IF hdl[p] = "created" THEN "armed" ELSE hdl[p])
      /\ \A q \in Ports \ {p} : hdl'[q] = hdl[q] /\ fb[1] # q
      /\ \A q \in Ports : cb # <<q, "stop">> /\ cb[1] # q /\ fb' # <<q, "start">>
  BY <1>1, RumbleTyped, TrafficAssumption DEF FbStates, Rumble!Idle, Rumble!NoPort
<1>3. /\ out' \in [Ports -> BOOLEAN] /\ (out'[p] <=> pad[p])
      /\ \A q \in Ports \ {p} : out'[q] = out[q]
  BY <1>1, RumbleTyped
<1>4. drv = "dc" /\ drv # "pak" /\ ~mute
  BY <1>1, RumbleTyped DEF RumbleIInv, PakTimers, MuteHeld, Rumble!Idle
<1>5. Held(p)' \/ Item(p)'
  <2>1. hdl[p] = "created" \/ excused[p] \/ Item(p)
    BY <1>1, <1>2 DEF RumbleIInv, PortRumbles
  <2>2. Item(p) => Item(p)'
    BY <1>1 DEF Item
  <2> QED BY <1>1, <1>2, <2>1, <2>2 DEF Held
<1>6. ASSUME NEW q \in Ports, Held(q) \/ Item(q) PROVE Held(q)' \/ Item(q)'
  <2>1. CASE q = p
    BY <1>5, <2>1
  <2>2. CASE q # p /\ Held(q)
    BY <1>1, <1>2, <2>2 DEF Held
  <2>3. CASE Item(q)
    BY <1>1, <2>3 DEF Item
  <2> QED BY <1>6, <2>1, <2>2, <2>3
<1>7. RumbleTypes'
  BY <1>1, <1>2, <1>3, RumbleTyped DEF RumbleTypes, Rumble!TypeOK
<1>8. OldBounded' /\ PakTimers' /\ MuteHeld' /\ OnsFollowed'
  BY <1>1, <1>2, <1>4 DEF RumbleIInv, OldBounded, PakTimers, MuteHeld, OnsFollowed
<1>9. ASSUME NEW q \in Ports PROVE PortRumbles(q)'
  <2>1. PortRumbles(q)
    BY DEF RumbleIInv
  <2>2. CASE q = p
    BY <1>1, <1>2, <1>3, <1>5, <2>1, <2>2 DEF PortRumbles
  <2>3. CASE q # p
    BY <1>1, <1>2, <1>3, <1>6, <2>1, <2>3 DEF PortRumbles
  <2> QED BY <2>2, <2>3
<1> QED BY <1>7, <1>8, <1>9 DEF RumbleIInv

LEMMA RumbleSend ==
  ASSUME RumbleIInv, Rumble!Send
  PROVE  RumbleIInv'
<1>1. /\ fb = Rumble!Idle /\ due' = FALSE
      /\ motor' = [p \in Ports |-> IF pad[p] THEN out[p] ELSE motor[p]]
      /\ UNCHANGED <<drv, want, fbq, mute, muter, excused, hdl, old, cb, pad, out, fb>>
  BY DEF Rumble!Send, Rumble!pathVars, Rumble!timerVars
<1>2. motor' \in [Ports -> BOOLEAN] /\ \A q \in Ports : motor'[q] => out[q] /\ pad[q]
  BY <1>1, RumbleTyped DEF RumbleIInv, PortRumbles
<1>3. \A q \in Ports : Held(q) => Held(q)'
  BY <1>1 DEF Held
<1>4. OnsFollowed' /\ \A q \in Ports : Item(q)' <=> Item(q)
  BY <1>1, <1>3, RumbleKept
<1>5. RumbleTypes'
  BY <1>1, <1>2, RumbleTyped DEF RumbleTypes, Rumble!TypeOK
<1>6. OldBounded' /\ PakTimers' /\ MuteHeld'
  BY <1>1 DEF RumbleIInv, OldBounded, PakTimers, MuteHeld, Unmuting
<1>7. ASSUME NEW q \in Ports PROVE PortRumbles(q)'
  BY <1>1, <1>2, <1>3, <1>4 DEF RumbleIInv, PortRumbles
<1> QED BY <1>4, <1>5, <1>6, <1>7 DEF RumbleIInv

(* A controller comes, or goes and its motor with it                       *)
LEMMA RumbleArriveLeave ==
  ASSUME RumbleIInv, NEW p \in Ports, Rumble!Arrive(p) \/ Rumble!Leave(p)
  PROVE  RumbleIInv'
<1>1. /\ pad' \in [Ports -> BOOLEAN] /\ out' \in [Ports -> BOOLEAN] /\ motor' \in [Ports -> BOOLEAN]
      /\ \A q \in Ports \ {p} : pad'[q] = pad[q] /\ out'[q] = out[q] /\ motor'[q] = motor[q]
      /\ \/ pad'[p] /\ out' = out /\ motor' = motor
         \/ ~out'[p] /\ ~motor'[p]
  BY RumbleTyped DEF Rumble!Arrive, Rumble!Leave
<1>2. UNCHANGED <<drv, want, fbq, mute, muter, excused, hdl, old, cb, fb, due>>
  BY DEF Rumble!Arrive, Rumble!Leave, Rumble!pathVars, Rumble!timerVars, Rumble!taskVars
<1>3. \A q \in Ports : Held(q) => Held(q)'
  BY <1>2 DEF Held
<1>4. OnsFollowed' /\ \A q \in Ports : Item(q)' <=> Item(q)
  BY <1>2, <1>3, RumbleKept
<1>5. RumbleTypes'
  BY <1>1, <1>2, RumbleTyped DEF RumbleTypes, Rumble!TypeOK
<1>6. OldBounded' /\ PakTimers' /\ MuteHeld'
  BY <1>2 DEF RumbleIInv, OldBounded, PakTimers, MuteHeld, Unmuting
<1>7. ASSUME NEW q \in Ports PROVE PortRumbles(q)'
  <2>1. PortRumbles(q)
    BY DEF RumbleIInv
  <2>2. CASE q = p
    BY <1>1, <1>2, <1>3, <1>4, <2>1, <2>2 DEF PortRumbles
  <2>3. CASE q # p
    BY <1>1, <1>2, <1>3, <1>4, <2>1, <2>3 DEF PortRumbles
  <2> QED BY <2>2, <2>3
<1> QED BY <1>4, <1>5, <1>6, <1>7 DEF RumbleIInv

LEMMA RumbleStep == RumbleIInv /\ [Rumble!Next]_rumbleVars => RumbleIInv'
<1> SUFFICES ASSUME RumbleIInv, [Rumble!Next]_rumbleVars PROVE RumbleIInv'
  OBVIOUS
<1>1. CASE UNCHANGED rumbleVars
  <2>1. UNCHANGED <<drv, want, fbq, mute, hdl, old, cb, fb, pad, out, motor, due, muter, excused>>
    BY <1>1 DEF rumbleVars
  <2>2. OnsFollowed'
    BY <2>1 DEF RumbleIInv, OnsFollowed, OffAfter, Held
  <2>3. \A p \in Ports : PortRumbles(p)'
    BY <2>1 DEF RumbleIInv, PortRumbles, Held, Item
  <2>4. RumbleTypes'
    BY <2>1, RumbleTyped DEF RumbleTypes, Rumble!TypeOK
  <2> QED BY <2>1, <2>2, <2>3, <2>4
          DEF RumbleIInv, OldBounded, PakTimers, MuteHeld, Unmuting
<1> QED BY <1>1, RumbleAsk, RumbleToggle, RumbleFire, RumbleCbStop, RumbleCbUnmute, RumbleCbQueue,
           RumbleHandle, RumbleCreate, RumbleStart, RumbleSend, RumbleArriveLeave
        DEF Rumble!Next
-----------------------------------------------------------------------------
(* Reports.  Besides the buttons nothing will release, what is pressed on  *)
(* a port is what a controller there pressed with its last report and      *)
(* still drives: a report of it, and no other's, releases it.              *)
KeptDown(x) == (\E d \in paired : x \in meant[d] /\ x \in Bridge!Driven(d)) \/ x \in left

BridgeIInv ==
  /\ Bridge!TypeOK
  /\ meant = [d \in Slots |-> meant[d]] /\ combo = [d \in Slots |-> combo[d]]
  /\ shown = [p \in Slots |-> shown[p]]
  /\ \A p \in Slots : shown[p] \cap Bridge!Special = {}
  /\ \A p \in Cleared : \A b \in shown[p] : KeptDown(<<p, b>>)
  /\ \A p \in flags \cap Cleared : KeptDown(<<p, Bridge!Toggle>>)
  /\ Bridge!MacroPressed

\* What the run checks is part of it
LEMMA BridgeHolds == BridgeIInv => Bridge!BridgeInv
  BY DEF BridgeIInv, KeptDown, Bridge!BridgeInv, Bridge!NoGhosts, Bridge!TogglePressed, Bridge!Means

LEMMA BridgeInit == Bridge!Init => BridgeIInv
<1> SUFFICES ASSUME Bridge!Init PROVE BridgeIInv
  OBVIOUS
<1>1. Bridge!TypeOK
  BY DEF Bridge!Init, Bridge!TypeOK
<1> QED BY <1>1, TrafficAssumption DEF Bridge!Init, BridgeIInv, Bridge!MacroPressed

LEMMA BridgeReport ==
  ASSUME BridgeIInv, NEW d \in Slots, Bridge!Report(d)
  PROVE  BridgeIInv'
<1>1. PICK srcs \in SUBSET Srcs :
        /\ d \in paired
        /\ meant' = [meant EXCEPT ![d] = Bridge!Presses(d, srcs)]
        /\ combo' = [combo EXCEPT ![d] = <<out_idx[d], Bridge!Of(Bridge!Presses(d, srcs), out_idx[d])
                                                         \cap Bridge!ComboBtns>>]
        /\ left' = left \ Bridge!Driven(d)
        /\ shown' = [p \in Slots |->
             (shown[p] \ (Bridge!Of(Bridge!Driven(d), p) \ Bridge!Special))
               \cup (Bridge!Values(d, srcs, p) \cap (Bridge!Of(Bridge!Driven(d), p) \ Bridge!Special))]
        /\ mflags' = [mflags EXCEPT ![d] = Bridge!Complete(d, srcs)]
        /\ flags' = (flags \cup Bridge!Pressing(d, srcs)) \ Bridge!Releasing(d, srcs)
        /\ UNCHANGED <<cfg, paired, out_idx>>
  BY DEF Bridge!Report, Bridge!mapVars
<1>2. /\ meant'[d] = Bridge!Presses(d, srcs) /\ \A e \in Slots \ {d} : meant'[e] = meant[e]
      /\ meant' = [e \in Slots |-> meant'[e]]
      /\ combo'[d] = <<out_idx[d], Bridge!Of(Bridge!Presses(d, srcs), out_idx[d]) \cap Bridge!ComboBtns>>
      /\ (\A e \in Slots \ {d} : combo'[e] = combo[e]) /\ combo' = [e \in Slots |-> combo'[e]]
      /\ mflags'[d] = Bridge!Complete(d, srcs) /\ \A e \in Slots \ {d} : mflags'[e] = mflags[e]
      /\ mflags' \in [Slots -> SUBSET {{"base", "pair"}}]
  BY <1>1 DEF BridgeIInv, Bridge!TypeOK, Bridge!Complete
<1>3. \A e \in Slots : Bridge!Driven(e)' = Bridge!Driven(e)
  BY <1>1 DEF Bridge!Driven, Bridge!Map
<1>4. Bridge!Presses(d, srcs) \subseteq Bridge!Driven(d)
  BY DEF Bridge!Presses, Bridge!Driven
<1>5. ASSUME NEW p \in Slots, NEW b
      PROVE  /\ <<p, b>> \in Bridge!Presses(d, srcs) => KeptDown(<<p, b>>)'
             /\ KeptDown(<<p, b>>) /\ <<p, b>> \notin Bridge!Driven(d) => KeptDown(<<p, b>>)'
  <2>1. paired \subseteq Slots
    BY DEF BridgeIInv, Bridge!TypeOK
  <2> QED BY <1>1, <1>2, <1>3, <1>4, <2>1 DEF KeptDown
<1>6. \A p \in Cleared : \A b : b \in Bridge!Values(d, srcs, p) => <<p, b>> \in Bridge!Presses(d, srcs)
  BY DEF Bridge!Values, Bridge!Of, Bridge!Presses
<1>7. \A p, b : <<p, b>> \in Bridge!Driven(d) => b \in Bridge!Of(Bridge!Driven(d), p)
  BY DEF Bridge!Of
<1>8. \A p \in Slots : shown'[p] \cap Bridge!Special = {}
  BY <1>1 DEF BridgeIInv
<1>9. ASSUME NEW p \in Cleared, NEW b \in shown'[p] PROVE KeptDown(<<p, b>>)'
  <2>1. CASE b \in Bridge!Values(d, srcs, p) /\ b \in Bridge!Of(Bridge!Driven(d), p) \ Bridge!Special
    BY <1>5, <1>6, <2>1, TrafficAssumption
  <2>2. CASE b \in shown[p] /\ b \notin Bridge!Of(Bridge!Driven(d), p) \ Bridge!Special
    <3>1. b \notin Bridge!Special /\ KeptDown(<<p, b>>)
      BY <2>2, TrafficAssumption DEF BridgeIInv
    <3>2. <<p, b>> \notin Bridge!Driven(d)
      BY <1>7, <2>2, <3>1
    <3> QED BY <1>5, <3>1, <3>2, TrafficAssumption
  <2> QED BY <1>1, <1>9, <2>1, <2>2, TrafficAssumption
<1>10. ASSUME NEW p \in Cleared, p \in flags' PROVE KeptDown(<<p, Bridge!Toggle>>)'
  <2>1. CASE p \in Bridge!Pressing(d, srcs)
    BY <1>5, <1>6, <2>1, TrafficAssumption DEF Bridge!Pressing
  <2>2. CASE p \in flags /\ <<p, Bridge!Toggle>> \notin Bridge!Driven(d)
    BY <1>5, <2>2, TrafficAssumption DEF BridgeIInv
  <2> QED BY <1>1, <1>10, <2>1, <2>2 DEF Bridge!Releasing
<1>11. Bridge!MacroPressed'
  <2> SUFFICES ASSUME NEW e \in Slots, NEW m \in mflags'[e], combo'[e][1] \in Cleared
               PROVE  e \in paired' /\ combo'[e][2] = m
    BY DEF Bridge!MacroPressed
  <2>1. CASE e = d
    BY <1>1, <1>2, <2>1 DEF Bridge!Complete, Bridge!Values
  <2>2. CASE e # d
    BY <1>1, <1>2, <2>2 DEF BridgeIInv, Bridge!MacroPressed
  <2> QED BY <2>1, <2>2
<1>12. Bridge!TypeOK'
  BY <1>1, <1>2 DEF BridgeIInv, Bridge!TypeOK, Bridge!Pressing
<1>13. shown' = [p \in Slots |-> shown'[p]]
  BY <1>1
<1> QED BY <1>2, <1>8, <1>9, <1>10, <1>11, <1>12, <1>13 DEF BridgeIInv

(* The mappings or the number of a controller change: what it held and     *)
(* does not drive any more is among what nothing will release.             *)
LEMMA BridgeRemap ==
  ASSUME BridgeIInv, (\E c \in {OwnPorts, Crossed} : Bridge!Configure(c))
                       \/ (\E d, i \in Slots : Bridge!Renumber(d, i))
  PROVE  BridgeIInv'
<1>1. /\ UNCHANGED <<paired, shown, flags, mflags, meant, combo>>
      /\ cfg' \in {OwnPorts, Crossed} /\ out_idx' \in [Slots -> Slots]
      /\ left \subseteq left'
  BY DEF Bridge!Configure, Bridge!Renumber, Bridge!outVars, BridgeIInv, Bridge!TypeOK
<1>2. \A e \in paired : \A x : x \in meant[e] => x \in Bridge!Driven(e)' \/ x \in left'
                                             \/ (x \in Bridge!Driven(e) <=> x \in Bridge!Driven(e)')
  <2>1. CASE \E c \in {OwnPorts, Crossed} : Bridge!Configure(c)
    BY <2>1 DEF Bridge!Configure, Bridge!Forsaken, Bridge!Driven, Bridge!Map
  <2>2. CASE \E d, i \in Slots : Bridge!Renumber(d, i)
    <3>1. PICK d \in Slots, i \in Slots : Bridge!Renumber(d, i)
      BY <2>2
    <3>2. /\ cfg' = cfg /\ \A e \in Slots \ {d} : out_idx'[e] = out_idx[e]
          /\ d \in paired => left' = left \cup Bridge!Forsaken(d, cfg, out_idx')
      BY <3>1 DEF Bridge!Renumber, BridgeIInv, Bridge!TypeOK
    <3>3. paired \subseteq Slots
      BY DEF BridgeIInv, Bridge!TypeOK
    <3> QED BY <3>2, <3>3 DEF Bridge!Forsaken, Bridge!Driven, Bridge!Map
  <2> QED BY <2>1, <2>2
<1>3. \A x : KeptDown(x) => KeptDown(x)'
  BY <1>1, <1>2 DEF KeptDown
<1>4. Bridge!TypeOK'
  BY <1>1 DEF BridgeIInv, Bridge!TypeOK
<1> QED BY <1>1, <1>3, <1>4 DEF BridgeIInv, Bridge!MacroPressed

LEMMA BridgePair ==
  ASSUME BridgeIInv, NEW d \in Slots, Bridge!Pair(d)
  PROVE  BridgeIInv'
<1>1. paired' = paired \cup {d}
      /\ UNCHANGED <<cfg, out_idx, shown, flags, mflags, meant, combo, left>>
  BY DEF Bridge!Pair, Bridge!outVars, Bridge!histVars
<1>2. \A x : KeptDown(x) => KeptDown(x)'
  BY <1>1 DEF KeptDown, Bridge!Driven, Bridge!Map
<1>3. Bridge!TypeOK'
  BY <1>1 DEF BridgeIInv, Bridge!TypeOK
<1> QED BY <1>1, <1>2, <1>3 DEF BridgeIInv, Bridge!MacroPressed

LEMMA BridgeLeave ==
  ASSUME BridgeIInv, NEW d \in Slots, Bridge!Leave(d)
  PROVE  BridgeIInv'
<1>1. /\ paired' = paired \ {d} /\ shown' = [shown EXCEPT ![d] = {}]
      /\ out_idx' = [out_idx EXCEPT ![d] = d] /\ mflags' = [mflags EXCEPT ![d] = {}]
      /\ meant' = [meant EXCEPT ![d] = {}] /\ combo' = [combo EXCEPT ![d] = <<d, {}>>]
      /\ left' = {x \in left \cup meant[d] : x[1] # d \/ x[2] = Bridge!Toggle}
      /\ cfg' = cfg /\ flags' = flags
  BY DEF Bridge!Leave, Bridge!InitBuffer
<1>2. /\ shown'[d] = {} /\ mflags'[d] = {} /\ meant' = [e \in Slots |-> meant'[e]]
      /\ shown' = [p \in Slots |-> shown'[p]] /\ combo' = [e \in Slots |-> combo'[e]]
      /\ \A e \in Slots \ {d} : /\ shown'[e] = shown[e] /\ mflags'[e] = mflags[e]
                                /\ meant'[e] = meant[e] /\ combo'[e] = combo[e]
                                /\ out_idx'[e] = out_idx[e]
      /\ out_idx' \in [Slots -> Slots] /\ mflags' \in [Slots -> SUBSET {{"base", "pair"}}]
  BY <1>1 DEF BridgeIInv, Bridge!TypeOK
<1>3. \A e \in paired' : e \in paired /\ e \in Slots \ {d} /\ Bridge!Driven(e)' = Bridge!Driven(e)
  BY <1>1, <1>2 DEF BridgeIInv, Bridge!TypeOK, Bridge!Driven, Bridge!Map
<1>4. \A p \in Slots : \A b : KeptDown(<<p, b>>) /\ (p # d \/ b = Bridge!Toggle) => KeptDown(<<p, b>>)'
  <2> SUFFICES ASSUME NEW p \in Slots, NEW b, p # d \/ b = Bridge!Toggle, KeptDown(<<p, b>>)
               PROVE  KeptDown(<<p, b>>)'
    OBVIOUS
  <2>1. CASE <<p, b>> \in left \cup meant[d]
    BY <1>1, <2>1 DEF KeptDown
  <2>2. CASE \E e \in paired \ {d} : <<p, b>> \in meant[e] /\ <<p, b>> \in Bridge!Driven(e)
    BY <1>1, <1>2, <1>3, <2>2 DEF KeptDown
  <2> QED BY <2>1, <2>2 DEF KeptDown
<1>5. Bridge!TypeOK'
  BY <1>1, <1>2 DEF BridgeIInv, Bridge!TypeOK
<1>6. Bridge!MacroPressed'
  BY <1>1, <1>2 DEF BridgeIInv, Bridge!MacroPressed
<1>7. ASSUME NEW p \in Cleared, NEW b \in shown'[p] PROVE KeptDown(<<p, b>>)'
  BY <1>2, <1>4, <1>7, TrafficAssumption DEF BridgeIInv
<1>8. \A p \in flags' \cap Cleared : KeptDown(<<p, Bridge!Toggle>>)'
  BY <1>1, <1>4, TrafficAssumption DEF BridgeIInv
<1>9. \A p \in Slots : shown'[p] \cap Bridge!Special = {}
  BY <1>2 DEF BridgeIInv
<1> QED BY <1>2, <1>5, <1>6, <1>7, <1>8, <1>9 DEF BridgeIInv

LEMMA BridgeRestart ==
  ASSUME BridgeIInv, Bridge!Restart
  PROVE  BridgeIInv'
<1>1. /\ shown' = [p \in Slots |-> {}] /\ left' = {x \in left : x[2] = Bridge!Toggle}
      /\ UNCHANGED <<cfg, paired, out_idx, flags, mflags, meant, combo>>
  BY DEF Bridge!Restart, Bridge!mapVars
<1>2. \A p : KeptDown(<<p, Bridge!Toggle>>) => KeptDown(<<p, Bridge!Toggle>>)'
  BY <1>1 DEF KeptDown, Bridge!Driven, Bridge!Map
<1>3. Bridge!TypeOK'
  BY <1>1 DEF BridgeIInv, Bridge!TypeOK
<1> QED BY <1>1, <1>2, <1>3, TrafficAssumption DEF BridgeIInv, Bridge!MacroPressed

LEMMA BridgeStep == BridgeIInv /\ [Bridge!Next]_bridgeVars => BridgeIInv'
<1> SUFFICES ASSUME BridgeIInv, [Bridge!Next]_bridgeVars PROVE BridgeIInv'
  OBVIOUS
<1>1. CASE UNCHANGED bridgeVars
  <2>1. UNCHANGED <<cfg, paired, out_idx, word, shown, flags, mflags, meant, combo, left>>
    BY <1>1 DEF bridgeVars
  <2>2. \A x : KeptDown(x) => KeptDown(x)'
    BY <2>1 DEF KeptDown, Bridge!Driven, Bridge!Map
  <2> QED BY <2>1, <2>2 DEF BridgeIInv, Bridge!TypeOK, Bridge!MacroPressed
<1> QED BY <1>1, BridgeReport, BridgeRemap, BridgePair, BridgeLeave, BridgeRestart DEF Bridge!Next
-----------------------------------------------------------------------------
(* Keys in the order of their numbers: a finite set of numbers has one     *)
(* enumeration that increases, the inverse of the rank of its members.     *)
LEMMA KbCardinality == ASSUME NEW S PROVE Keyboard!Cardinality(S) = Cardinality(S)
  BY DEF Keyboard!Cardinality, Cardinality

LEMMA Ranks ==
  ASSUME NEW S \in SUBSET Nat, IsFiniteSet(S)
  PROVE  \E s \in [1..Cardinality(S) -> S] : \A i, j \in DOMAIN s : i < j => s[i] < s[j]
<1> DEFINE Upto(x) == {y \in S : y <= x}
           n == Cardinality(S)
           f == [x \in S |-> Cardinality(Upto(x))]
<1>1. n \in Nat /\ IsFiniteSet(1..n) /\ Cardinality(1..n) = n
  BY FS_CardinalityType, FS_Interval
<1>2. ASSUME NEW x \in S
      PROVE  Upto(x) \subseteq S /\ IsFiniteSet(Upto(x)) /\ Cardinality(Upto(x)) \in 1..n
  <2>1. Upto(x) \subseteq S /\ x \in Upto(x)
    OBVIOUS
  <2>2. IsFiniteSet(Upto(x)) /\ Cardinality(Upto(x)) <= n
    BY <2>1, FS_Subset
  <2>3. Cardinality(Upto(x)) \in Nat /\ Cardinality(Upto(x)) # 0
    BY <2>1, <2>2, FS_CardinalityType, FS_EmptySet
  <2> QED BY <1>1, <2>1, <2>2, <2>3
<1>3. ASSUME NEW x \in S, NEW z \in S, x < z
      PROVE  f[x] < f[z]
  <2>1. Upto(x) \in SUBSET Upto(z) /\ z \in Upto(z) /\ z \notin Upto(x)
    <3>1. x \in Nat /\ z \in Nat /\ ~(z <= x) /\ z <= z
      BY <1>3
    <3>2. \A y \in S : y \in Nat /\ (y <= x => y <= z)
      BY <1>3
    <3> QED BY <3>1, <3>2
  <2>2. Cardinality(Upto(x)) <= Cardinality(Upto(z)) /\ Cardinality(Upto(z)) # Cardinality(Upto(x))
    BY <1>2, <2>1, FS_Subset
  <2>3. Cardinality(Upto(x)) \in 1..n /\ Cardinality(Upto(z)) \in 1..n
    BY <1>2
  <2> HIDE DEF Upto
  <2> QED BY <1>1, <2>2, <2>3
<1>4. f \in [S -> 1..n]
  BY <1>2
<1> HIDE DEF f, n
<1>5. f \in Injection(S, 1..n)
  <2>1. ASSUME NEW x \in S, NEW z \in S, f[x] = f[z] PROVE x = z
    <3>1. f[x] \in Int /\ ~(f[x] < f[z]) /\ ~(f[z] < f[x])
      BY <1>4, <2>1
    <3> QED BY <1>3, <3>1
  <2> QED BY <1>4, <2>1 DEF Injection, IsInjective
<1>6. f \in Surjection(S, 1..n)
  BY <1>1, <1>5, FS_Injection DEF n
<1>7. \A i \in 1..n : \E x \in S : f[x] = i
  BY <1>6 DEF Surjection
<1> DEFINE s == [i \in 1..n |-> CHOOSE x \in S : f[x] = i]
<1>8. s \in [1..n -> S] /\ \A i \in 1..n : s[i] \in S /\ f[s[i]] = i
  BY <1>7
<1> HIDE DEF s
<1>9. ASSUME NEW i \in 1..n, NEW j \in 1..n, i < j
      PROVE  s[i] < s[j]
  <2>1. s[i] \in Nat /\ s[j] \in Nat /\ f[s[i]] < f[s[j]] /\ s[i] # s[j]
    <3>1. f[s[i]] = i /\ f[s[j]] = j /\ s[i] \in S /\ s[j] \in S
      BY <1>8
    <3>2. i # j /\ f[s[i]] < f[s[j]]
      BY <1>1, <1>9, <3>1
    <3> QED BY <3>1, <3>2
  <2>2. ~(s[j] < s[i])
    <3> SUFFICES ASSUME s[j] < s[i] PROVE FALSE
      OBVIOUS
    <3>1. f[s[j]] < f[s[i]]
      BY <1>3, <1>8
    <3> QED BY <1>8, <1>9, <3>1
  <2> QED BY <2>1, <2>2
<1>10. DOMAIN s = 1..n
  BY <1>8
<1> QED BY <1>8, <1>9, <1>10 DEF n

LEMMA SortedKeys ==
  ASSUME NEW S \in SUBSET Keys
  PROVE  /\ IsFiniteSet(S) /\ Cardinality(S) \in Nat
         /\ Keyboard!Sorted(S) \in [1..Cardinality(S) -> S]
         /\ \A i, j \in 1..Cardinality(S) : i < j => Keyboard!Sorted(S)[i] < Keyboard!Sorted(S)[j]
         /\ \A k \in S : \E i \in 1..Cardinality(S) : Keyboard!Sorted(S)[i] = k
<1> DEFINE n == Cardinality(S)
           s == Keyboard!Sorted(S)
<1>1. S \subseteq Nat /\ IsFiniteSet(S)
  BY FS_Subset, TrafficAssumption
<1>2. n \in Nat /\ IsFiniteSet(1..n) /\ Cardinality(1..n) = n
  BY <1>1, FS_CardinalityType, FS_Interval
<1>3. s = CHOOSE t \in [1..n -> S] : \A i, j \in DOMAIN t : i < j => t[i] < t[j]
  BY KbCardinality DEF Keyboard!Sorted
<1>4. s \in [1..n -> S] /\ \A i, j \in DOMAIN s : i < j => s[i] < s[j]
  <2> HIDE DEF s, n
  <2>1. \E t \in [1..n -> S] : \A i, j \in DOMAIN t : i < j => t[i] < t[j]
    BY <1>1, Ranks DEF n
  <2> QED BY <1>3, <2>1, Zenon
<1> HIDE DEF s
<1>5. \A i, j \in 1..n : i < j => s[i] < s[j]
  BY <1>4
<1>6. s \in Injection(1..n, S)
  <2>1. ASSUME NEW i \in 1..n, NEW j \in 1..n, s[i] = s[j] PROVE i = j
    <3>1. s[i] \in Nat /\ s[j] \in Nat
      BY <1>1, <1>4
    <3> QED BY <1>2, <1>5, <2>1, <3>1
  <2> QED BY <1>4, <2>1 DEF Injection, IsInjective
<1>7. s \in Surjection(1..n, S)
  BY <1>1, <1>2, <1>6, FS_Injection
<1>8. \A k \in S : \E i \in 1..n : s[i] = k
  BY <1>7 DEF Surjection
<1> QED BY <1>1, <1>2, <1>4, <1>5, <1>8 DEF s

\* The one with the highest number is among them
LEMMA MaxKey ==
  ASSUME NEW S \in SUBSET Keys, S # {}
  PROVE  Keyboard!Max(S) \in S
<1> DEFINE n == Cardinality(S)
           s == Keyboard!Sorted(S)
<1>1. /\ n \in Nat /\ s \in [1..n -> S]
      /\ \A i, j \in 1..n : i < j => s[i] < s[j]
      /\ \A k \in S : \E i \in 1..n : s[i] = k
  BY SortedKeys
<1>2. n \in 1..n /\ s[n] \in S
  BY <1>1
<1>3. ASSUME NEW k \in S PROVE s[n] >= k
  <2> HIDE DEF s, n
  <2>1. PICK i \in 1..n : s[i] = k
    BY <1>1
  <2>2. i = n \/ i < n
    BY <1>1
  <2>3. k \in Nat /\ s[n] \in Nat
    BY <1>2, TrafficAssumption
  <2> QED BY <1>1, <1>2, <2>1, <2>2, <2>3
<1> HIDE DEF s, n
<1> QED BY <1>2, <1>3, Zenon DEF Keyboard!Max

(* Keys.  What the console will believe of a key is what its last code in  *)
(* the queue says: only codes of the key change it.                        *)
KeyCodes == {"make", "break"} \X Keys

Agrees(k) == (Keyboard!Believed(k) <=> k \in keys_state) \/ k \in unsure

KeyboardIInv ==
  /\ Keyboard!TypeOK /\ scq \in Seq(KeyCodes)
  /\ \A c \in Slots : last[c] \subseteq KeysOf[c]
  /\ armed \/ tm_cb # "idle" => tm_key_id \in keys_state \cup unsure
  /\ Keyboard!RepeatHeld
  /\ \A k \in Keys : Agrees(k)

LEMMA KeyTypes ==
  ASSUME KeyboardIInv
  PROVE  /\ last \in [Slots -> SUBSET Keys] /\ keys_state \subseteq Keys
         /\ armed \in BOOLEAN /\ tm_key_id \in Keys /\ tm_cb \in {"idle", "code", "start"}
         /\ Len(scq) <= MaxCodes /\ typed \subseteq Keys /\ unsure \subseteq Keys /\ runaway \subseteq Keys
         /\ scq \in Seq(KeyCodes) /\ Len(scq) \in Nat /\ DOMAIN scq = 1..Len(scq)
  BY LenProperties DEF KeyboardIInv, Keyboard!TypeOK

LEMMA KeysDriven ==
  ASSUME NEW c \in Slots
  PROVE  KeysOf[c] \subseteq Keys
  BY TrafficAssumption DEF KeysOf

\* What the run checks is part of it
LEMMA KeyboardHolds == KeyboardIInv => Keyboard!KeyboardInv
<1> SUFFICES ASSUME KeyboardIInv PROVE Keyboard!KeyboardInv
  OBVIOUS
<1>1. Keyboard!CodesAgree
  BY DEF KeyboardIInv, Agrees, Keyboard!CodesAgree
<1> QED BY <1>1 DEF KeyboardIInv, Keyboard!KeyboardInv

LEMMA KeyboardInit == Keyboard!Init => KeyboardIInv
<1> SUFFICES ASSUME Keyboard!Init PROVE KeyboardIInv
  OBVIOUS
<1>1. scq = <<>> /\ typed = {} /\ keys_state = {}
  BY DEF Keyboard!Init
<1>2. \A k \in Keys : Agrees(k)
  BY <1>1 DEF Agrees, Keyboard!Believed
<1>3. Keyboard!TypeOK
  <2>1. Len(scq) <= MaxCodes /\ last \in [Slots -> SUBSET Keys]
    BY <1>1, TrafficAssumption DEF Keyboard!Init
  <2> QED BY <2>1 DEF Keyboard!Init, Keyboard!TypeOK
<1> QED BY <1>1, <1>2, <1>3 DEF Keyboard!Init, KeyboardIInv, Keyboard!RepeatHeld

(* kbmon_set_code: what was in the queue stays, then come the codes that   *)
(* find room.                                                              *)
LEMMA KeptCodes ==
  ASSUME KeyboardIInv, NEW codes \in Seq(KeyCodes)
  PROVE  LET kept == Keyboard!Kept(codes)
         IN  /\ kept \in Seq(KeyCodes) /\ Len(kept) <= MaxCodes
             /\ \A i \in DOMAIN scq : i \in DOMAIN kept /\ kept[i] = scq[i]
             /\ \A i \in DOMAIN kept : i \in DOMAIN scq \/ \E j \in DOMAIN codes :
                                         i = Len(scq) + j /\ Len(scq) + j <= MaxCodes
             /\ \A j \in DOMAIN codes : Len(scq) + j <= MaxCodes =>
                  Len(scq) + j \in DOMAIN kept /\ kept[Len(scq) + j] = codes[j]
<1> DEFINE all == scq \o codes
           n == Keyboard!Min({MaxCodes, Len(all)})
<1>1. scq \in Seq(KeyCodes) /\ Len(scq) \in Nat /\ Len(codes) \in Nat /\ Len(scq) <= MaxCodes
      /\ DOMAIN scq = 1..Len(scq) /\ DOMAIN codes = 1..Len(codes) /\ MaxCodes \in Nat
  BY KeyTypes, LenProperties, TrafficAssumption
<1>2. /\ all \in Seq(KeyCodes) /\ Len(all) = Len(scq) + Len(codes)
      /\ \A i \in 1..Len(all) : all[i] = IF i <= Len(scq) THEN scq[i] ELSE codes[i - Len(scq)]
  BY <1>1, ConcatProperties
<1>3. n = IF Len(all) < MaxCodes THEN Len(all) ELSE MaxCodes
  <2> DEFINE m == IF Len(all) < MaxCodes THEN Len(all) ELSE MaxCodes
  <2>1. m \in {MaxCodes, Len(all)} /\ \A y \in {MaxCodes, Len(all)} : m <= y
    BY <1>1, <1>2
  <2>2. \A x \in {MaxCodes, Len(all)} : (\A y \in {MaxCodes, Len(all)} : x <= y) => x = m
    BY <1>1, <1>2
  <2> HIDE DEF m, all
  <2> QED BY <2>1, <2>2, Zenon DEF Keyboard!Min, m
<1> HIDE DEF n, all
<1>4. n \in Nat /\ n <= Len(all) /\ n <= MaxCodes /\ Len(scq) <= n /\ Len(all) \in Nat
  BY <1>1, <1>2, <1>3
<1> DEFINE kept == SubSeq(all, 1, n)
<1>5. /\ kept \in Seq(KeyCodes) /\ Len(kept) = n /\ DOMAIN kept = 1..n
      /\ \A i \in 1..n : kept[i] = all[i]
  BY <1>2, <1>4, SubSeqProperties
<1>6. Keyboard!Kept(codes) = kept
  BY DEF Keyboard!Kept, n, all
<1> HIDE DEF kept
<1>7. \A i \in DOMAIN scq : i \in DOMAIN kept /\ kept[i] = scq[i]
  BY <1>1, <1>2, <1>4, <1>5
<1>8. ASSUME NEW i \in DOMAIN kept, i \notin DOMAIN scq
      PROVE  \E j \in DOMAIN codes : i = Len(scq) + j /\ Len(scq) + j <= MaxCodes
  <2>1. i - Len(scq) \in DOMAIN codes /\ i = Len(scq) + (i - Len(scq)) /\ i <= MaxCodes
    BY <1>1, <1>2, <1>4, <1>5, <1>8
  <2> QED BY <2>1
<1>9. ASSUME NEW j \in DOMAIN codes, Len(scq) + j <= MaxCodes
      PROVE  Len(scq) + j \in DOMAIN kept /\ kept[Len(scq) + j] = codes[j]
  <2>1. Len(scq) + j \in 1..n /\ ~(Len(scq) + j <= Len(scq)) /\ (Len(scq) + j) - Len(scq) = j
        /\ Len(scq) + j \in 1..Len(all)
    BY <1>1, <1>2, <1>3, <1>4, <1>9
  <2> QED BY <1>2, <1>5, <2>1
<1> QED BY <1>4, <1>5, <1>6, <1>7, <1>8, <1>9

\* The codes of a key all find no room: nothing changes for it
LEMMA BelievedSame ==
  ASSUME KeyboardIInv, NEW codes \in Seq(KeyCodes), scq' = Keyboard!Kept(codes), NEW k \in Keys,
         k \in typed' <=> k \in typed,
         \A j \in DOMAIN codes : codes[j][2] = k => ~(Len(scq) + j <= MaxCodes)
  PROVE  Keyboard!Believed(k)' <=> Keyboard!Believed(k)
<1>1. /\ \A i \in DOMAIN scq : i \in DOMAIN scq' /\ scq'[i] = scq[i]
      /\ \A i \in DOMAIN scq' : i \in DOMAIN scq \/ \E j \in DOMAIN codes :
                                  i = Len(scq) + j /\ Len(scq) + j <= MaxCodes
      /\ \A j \in DOMAIN codes : Len(scq) + j <= MaxCodes =>
           Len(scq) + j \in DOMAIN scq' /\ scq'[Len(scq) + j] = codes[j]
  BY KeptCodes
<1>2. \A i \in DOMAIN scq' : scq'[i][2] = k => i \in DOMAIN scq /\ scq'[i] = scq[i]
  BY <1>1
<1>3. \A i \in DOMAIN scq : scq'[i] = <<"make", k>> <=> scq[i] = <<"make", k>>
  BY <1>1
<1>4. \A i \in DOMAIN scq' : scq'[i] = <<"make", k>> => i \in DOMAIN scq
  BY <1>2
<1> QED BY <1>1, <1>2, <1>3, <1>4 DEF Keyboard!Believed

\* One code of a key finds room: it tells
LEMMA BelievedNew ==
  ASSUME KeyboardIInv, NEW codes \in Seq(KeyCodes), scq' = Keyboard!Kept(codes), NEW k \in Keys,
         NEW j \in DOMAIN codes, codes[j][2] = k, Len(scq) + j <= MaxCodes,
         \A i \in DOMAIN codes : i # j => codes[i][2] # k
  PROVE  Keyboard!Believed(k)' <=> codes[j][1] = "make"
<1>0. Len(scq) \in Nat /\ DOMAIN scq = 1..Len(scq) /\ DOMAIN codes = 1..Len(codes) /\ Len(codes) \in Nat
  BY KeyTypes, LenProperties
<1> DEFINE n == Len(scq) + j
<1>1. /\ \A i \in DOMAIN scq : i \in DOMAIN scq' /\ scq'[i] = scq[i]
      /\ \A i \in DOMAIN scq' : i \in DOMAIN scq \/ \E h \in DOMAIN codes :
                                  i = Len(scq) + h /\ Len(scq) + h <= MaxCodes
      /\ \A h \in DOMAIN codes : Len(scq) + h <= MaxCodes =>
           Len(scq) + h \in DOMAIN scq' /\ scq'[Len(scq) + h] = codes[h]
  BY KeptCodes
<1>2. PICK m : m = n /\ m \in DOMAIN scq' /\ scq'[m] = codes[j] /\ scq'[m][2] = k /\ m \in Nat
  BY <1>0, <1>1
<1>3. ASSUME NEW i \in DOMAIN scq', i > m PROVE scq'[i][2] # k
  <2>1. i \notin DOMAIN scq
    BY <1>0, <1>2, <1>3
  <2>2. PICK h \in DOMAIN codes : i = Len(scq) + h /\ Len(scq) + h <= MaxCodes
    BY <1>1, <2>1
  <2>3. h # j
    BY <1>2, <1>3, <2>2, <1>0
  <2> QED BY <1>1, <2>2, <2>3
<1>4. \A i \in DOMAIN scq' : i \in Nat
  BY <1>0, <1>1
<1>5. codes[j] \in KeyCodes /\ codes[j] = <<codes[j][1], k>>
  BY <1>0 DEF KeyCodes
<1>6. ASSUME NEW i \in DOMAIN scq', scq'[i] = <<"make", k>>, \A h \in DOMAIN scq' : h > i => scq'[h][2] # k
      PROVE  i = m
  <2>1. scq'[i][2] = k
    BY <1>6
  <2> QED BY <1>2, <1>3, <1>4, <1>6, <2>1
<1>7. Keyboard!Believed(k)' => codes[j][1] = "make"
  <2> SUFFICES ASSUME Keyboard!Believed(k)' PROVE codes[j][1] = "make"
    OBVIOUS
  <2>1. \E i \in DOMAIN scq' : scq'[i] = <<"make", k>> /\ \A h \in DOMAIN scq' : h > i => scq'[h][2] # k
    BY <1>2 DEF Keyboard!Believed
  <2>2. scq'[m] = <<"make", k>>
    BY <1>6, <2>1
  <2> QED BY <1>2, <2>2
<1>8. codes[j][1] = "make" => Keyboard!Believed(k)'
  BY <1>2, <1>3, <1>5 DEF Keyboard!Believed
<1> QED BY <1>7, <1>8

(* A report.  The changes of the keys the mapping drives become codes, one *)
(* for each; a key whose change another controller's report hid is named.  *)
LEMMA KeysReport ==
  ASSUME KeyboardIInv, NEW c \in Slots, Keyboard!Report(c)
  PROVE  KeyboardIInv'
<1>0. PICK keys \in SUBSET KeysOf[c] :
        LET changed == Keyboard!Sorted(Keyboard!Changes(keys) \cap KeysOf[c])
            codes == Keyboard!Codes(keys, changed)
            mine == {changed[i] : i \in DOMAIN changed}
            key == IF mine \cap keys = {} THEN tm_key_id ELSE Keyboard!Max(mine \cap keys)
            preempted == IF tm_cb # "idle" /\ mine # {} /\ ~Keyboard!Restarted(keys, changed) /\ key \notin keys
                         THEN {key} ELSE {}
        IN /\ last' = [last EXCEPT ![c] = keys] /\ keys_state' = keys
           /\ scq' = Keyboard!Kept(codes)
           /\ tm_key_id' = key /\ armed' = Keyboard!Restarted(keys, changed)
           /\ unsure' = (unsure \ mine) \cup Keyboard!Dropped(codes) \cup preempted
                          \cup (Keyboard!Changes(keys) \ KeysOf[c])
           /\ runaway' = (IF mine = {} THEN runaway ELSE {}) \cup preempted
                          \cup (last[c] \ (keys \cup keys_state))
           /\ UNCHANGED <<tm_cb, typed>>
  BY DEF Keyboard!Report
<1> DEFINE S == Keyboard!Changes(keys) \cap KeysOf[c]
           n == Cardinality(S)
           changed == Keyboard!Sorted(S)
           codes == Keyboard!Codes(keys, changed)
           mine == {changed[i] : i \in DOMAIN changed}
           key == IF mine \cap keys = {} THEN tm_key_id ELSE Keyboard!Max(mine \cap keys)
           restarted == Keyboard!Restarted(keys, changed)
           preempted == IF tm_cb # "idle" /\ mine # {} /\ ~restarted /\ key \notin keys THEN {key} ELSE {}
<1>1. /\ last' = [last EXCEPT ![c] = keys] /\ keys_state' = keys
      /\ scq' = Keyboard!Kept(codes) /\ tm_key_id' = key /\ armed' = restarted
      /\ unsure' = (unsure \ mine) \cup Keyboard!Dropped(codes) \cup preempted
                     \cup (Keyboard!Changes(keys) \ KeysOf[c])
      /\ runaway' = (IF mine = {} THEN runaway ELSE {}) \cup preempted
                     \cup (last[c] \ (keys \cup keys_state))
      /\ tm_cb' = tm_cb /\ typed' = typed
  BY <1>0
<1>2. /\ KeysOf[c] \subseteq Keys /\ keys \subseteq Keys /\ S \subseteq Keys
      /\ Keyboard!Changes(keys) \subseteq Keys
  BY KeysDriven, KeyTypes DEF Keyboard!Changes
<1>3. /\ n \in Nat /\ changed \in [1..n -> S]
      /\ \A i, j \in 1..n : i < j => changed[i] < changed[j]
      /\ \A k \in S : \E i \in 1..n : changed[i] = k
  BY <1>2, SortedKeys
<1> HIDE DEF n, changed
<1>4. mine = S /\ DOMAIN changed = 1..n
  BY <1>3
<1>5. /\ codes \in Seq(KeyCodes) /\ DOMAIN codes = 1..n
      /\ \A i \in 1..n : codes[i] = <<IF changed[i] \in keys THEN "make" ELSE "break", changed[i]>>
                         /\ codes[i][2] = changed[i] /\ (codes[i][1] = "make" <=> changed[i] \in keys)
  <2>1. codes = [i \in 1..n |-> <<IF changed[i] \in keys THEN "make" ELSE "break", changed[i]>>]
    BY <1>4 DEF Keyboard!Codes
  <2>2. \A i \in 1..n : <<IF changed[i] \in keys THEN "make" ELSE "break", changed[i]>> \in KeyCodes
    BY <1>2, <1>3 DEF KeyCodes
  <2>3. codes \in [1..n -> KeyCodes]
    BY <2>1, <2>2
  <2>4. codes \in Seq(KeyCodes)
    BY <1>3, <2>3
  <2> QED BY <2>1, <2>4
<1>6. S = {} => (restarted <=> armed)
  <2>1. ASSUME S = {} PROVE changed = <<>>
    BY <1>3, <2>1
  <2> QED BY <2>1 DEF Keyboard!Restarted
<1>7. restarted /\ S # {} => S \cap keys # {}
  <2> SUFFICES ASSUME restarted, S # {} PROVE S \cap keys # {}
    OBVIOUS
  <2>1. n \in 1..n
    BY <1>3
  <2>2. changed # <<>> /\ Len(changed) = n
    BY <1>3, <2>1
  <2>3. changed[n] \in keys
    BY <2>2 DEF Keyboard!Restarted, Keyboard!Last
  <2> QED BY <1>3, <2>1, <2>3
<1>8. key \in Keys /\ (S \cap keys # {} => key \in keys)
  <2>1. CASE S \cap keys = {}
    BY <1>4, <2>1, KeyTypes
  <2>2. CASE S \cap keys # {}
    <3>1. S \cap keys \in SUBSET Keys
      BY <1>2
    <3>2. Keyboard!Max(S \cap keys) \in S \cap keys
      BY <2>2, <3>1, MaxKey
    <3> QED BY <1>2, <1>4, <2>2, <3>2
  <2> QED BY <2>1, <2>2
<1> HIDE DEF codes, key, mine, restarted
<1>9. /\ \A i \in 1..n : ~(Len(scq) + i <= MaxCodes) => changed[i] \in Keyboard!Dropped(codes)
      /\ Keyboard!Dropped(codes) \subseteq S
  <2>1. Keyboard!Dropped(codes) = {codes[i][2] : i \in {j \in 1..n : Len(scq) + j > MaxCodes}}
    BY <1>5 DEF Keyboard!Dropped
  <2>2. ASSUME NEW i \in 1..n, ~(Len(scq) + i <= MaxCodes) PROVE Len(scq) + i > MaxCodes
    BY <2>2, <1>3, KeyTypes, TrafficAssumption
  <2>3. ASSUME NEW i \in 1..n, ~(Len(scq) + i <= MaxCodes) PROVE changed[i] \in Keyboard!Dropped(codes)
    <3>1. i \in {j \in 1..n : Len(scq) + j > MaxCodes} /\ codes[i][2] = changed[i]
      BY <1>5, <2>2, <2>3
    <3> QED BY <2>1, <3>1
  <2>4. Keyboard!Dropped(codes) \subseteq S
    <3>1. \A i \in 1..n : codes[i][2] \in S
      BY <1>3, <1>5
    <3> QED BY <2>1, <3>1
  <2> QED BY <2>3, <2>4
<1>10. ASSUME NEW k \in Keys PROVE Agrees(k)'
  <2>1. CASE k \in S
    <3>1. PICK i \in 1..n : changed[i] = k
      BY <1>3, <2>1
    <3>2. ASSUME NEW j \in 1..n, i # j PROVE codes[j][2] # k
      <4>1. changed[j] # changed[i]
        <5>1. changed[i] \in Nat /\ changed[j] \in Nat
          BY <1>2, <1>3, TrafficAssumption
        <5>2. i < j \/ j < i
          BY <1>3, <3>2
        <5> QED BY <1>3, <5>1, <5>2
      <4> QED BY <1>5, <3>1, <4>1
    <3>3. CASE Len(scq) + i <= MaxCodes
      <4>1. Keyboard!Believed(k)' <=> codes[i][1] = "make"
        <5>1. /\ i \in DOMAIN codes /\ codes[i][2] = k
              /\ \A j \in DOMAIN codes : j # i => codes[j][2] # k
          BY <1>5, <3>1, <3>2
        <5> QED BY <1>1, <1>5, <3>3, <5>1, BelievedNew
      <4> QED BY <1>1, <1>5, <3>1, <4>1 DEF Agrees
    <3>4. CASE ~(Len(scq) + i <= MaxCodes)
      BY <1>1, <1>9, <3>1, <3>4 DEF Agrees
    <3> QED BY <3>3, <3>4
  <2>2. CASE k \notin S
    <3>1. \A j \in DOMAIN codes : codes[j][2] # k
      BY <1>3, <1>5, <2>2
    <3>2. Keyboard!Believed(k)' <=> Keyboard!Believed(k)
      BY <1>1, <1>5, <3>1, BelievedSame
    <3>3. k \in unsure => k \in unsure'
      BY <1>1, <1>4, <2>2
    <3>4. k \in Keyboard!Changes(keys) => k \in unsure'
      BY <1>1, <2>2
    <3>5. k \notin Keyboard!Changes(keys) => (k \in keys <=> k \in keys_state)
      BY DEF Keyboard!Changes
    <3> QED BY <1>1, <3>2, <3>3, <3>4, <3>5 DEF KeyboardIInv, Agrees
  <2> QED BY <2>1, <2>2
<1>11. preempted \subseteq Keys /\ (tm_cb # "idle" /\ S # {} /\ ~restarted => key \in keys \/ key \in preempted)
  BY <1>4, <1>8
<1> HIDE DEF preempted
<1>12. last' \in [Slots -> SUBSET Keys] /\ last'[c] = keys /\ \A e \in Slots \ {c} : last'[e] = last[e]
  BY <1>1, <1>2, KeyTypes
<1>13. restarted \in BOOLEAN
  <2>1. S = {} => restarted \in BOOLEAN
    <3>1. ASSUME S = {} PROVE changed = <<>>
      BY <1>3, <3>1
    <3> QED BY <3>1, KeyTypes DEF Keyboard!Restarted, restarted
  <2>2. S # {} => restarted \in BOOLEAN
    <3> SUFFICES ASSUME S # {} PROVE restarted \in BOOLEAN
      OBVIOUS
    <3>1. changed # <<>>
      BY <1>3
    <3>2. restarted = (Keyboard!Last(changed) \in keys)
      BY <3>1, Zenon DEF Keyboard!Restarted, restarted
    <3>3. (Keyboard!Last(changed) \in keys) \in BOOLEAN
      OBVIOUS
    <3> QED BY <3>2, <3>3, Zenon
  <2> QED BY <2>1, <2>2
<1>14. scq' \in Seq(KeyCodes) /\ Len(scq') <= MaxCodes
  BY <1>1, <1>5, KeptCodes
<1>15. Keyboard!TypeOK'
  BY <1>1, <1>2, <1>4, <1>8, <1>9, <1>11, <1>12, <1>13, <1>14, KeyTypes DEF Keyboard!TypeOK
<1>16. \A e \in Slots : last'[e] \subseteq KeysOf[e]
  BY <1>12 DEF KeyboardIInv
<1>17. ASSUME armed' \/ tm_cb' # "idle"
       PROVE  /\ tm_key_id' \in keys_state' \cup unsure'
              /\ tm_key_id' \in runaway' \/ \E e \in Slots : tm_key_id' \in last'[e]
  <2>1. CASE S # {}
    <3>1. key \in keys \/ key \in preempted
      BY <1>1, <1>7, <1>8, <1>11, <1>17, <2>1
    <3> QED BY <1>1, <1>12, <3>1
  <2>2. CASE S = {}
    <3>1. armed \/ tm_cb # "idle"
      BY <1>1, <1>6, <1>17, <2>2
    <3>2. key = tm_key_id
      BY <1>4, <2>2 DEF key
    <3>3. tm_key_id \in keys_state \cup unsure
          /\ (tm_key_id \in runaway \/ \E e \in Slots : tm_key_id \in last[e])
      BY <3>1 DEF KeyboardIInv, Keyboard!RepeatHeld
    <3>4. tm_key_id \in keys_state' \cup unsure'
      <4>1. CASE tm_key_id \in unsure
        BY <1>1, <1>4, <2>2, <4>1
      <4>2. CASE tm_key_id \in keys_state /\ tm_key_id \notin keys
        <5>1. tm_key_id \in Keyboard!Changes(keys) \ KeysOf[c]
          BY <2>2, <4>2 DEF Keyboard!Changes
        <5> QED BY <1>1, <5>1
      <4> QED BY <1>1, <3>3, <4>1, <4>2
    <3>5. tm_key_id \in runaway' \/ \E e \in Slots : tm_key_id \in last'[e]
      <4>1. CASE tm_key_id \in runaway
        BY <1>1, <1>4, <2>2, <4>1
      <4>2. CASE \E e \in Slots \ {c} : tm_key_id \in last[e]
        BY <1>12, <4>2
      <4>3. CASE tm_key_id \in last[c] /\ tm_key_id \notin keys
        <5>1. tm_key_id \in KeysOf[c]
          BY <4>3 DEF KeyboardIInv
        <5>2. tm_key_id \notin keys_state
          BY <2>2, <4>3, <5>1 DEF Keyboard!Changes
        <5> QED BY <1>1, <4>3, <5>2
      <4>4. CASE tm_key_id \in keys
        BY <1>12, <4>4
      <4> QED BY <3>3, <4>1, <4>2, <4>3, <4>4
    <3> QED BY <1>1, <3>2, <3>4, <3>5
  <2> QED BY <2>1, <2>2
<1>18. Keyboard!RepeatHeld'
  BY <1>17 DEF Keyboard!RepeatHeld
<1> QED BY <1>10, <1>14, <1>15, <1>16, <1>17, <1>18 DEF KeyboardIInv

LEMMA KeysLeave ==
  ASSUME KeyboardIInv, NEW c \in Slots, Keyboard!Leave(c)
  PROVE  KeyboardIInv'
<1>1. /\ last' = [last EXCEPT ![c] = {}] /\ runaway' = runaway \cup last[c]
      /\ UNCHANGED <<keys_state, armed, tm_key_id, tm_cb, scq, typed, unsure>>
  BY DEF Keyboard!Leave
<1>2. last' \in [Slots -> SUBSET Keys] /\ last'[c] = {} /\ \A e \in Slots \ {c} : last'[e] = last[e]
  BY <1>1, KeyTypes
<1>3. Keyboard!TypeOK'
  BY <1>1, <1>2, KeyTypes DEF Keyboard!TypeOK
<1>4. Keyboard!RepeatHeld'
  BY <1>1, <1>2 DEF KeyboardIInv, Keyboard!RepeatHeld
<1>5. \A e \in Slots : last'[e] \subseteq KeysOf[e]
  BY <1>2 DEF KeyboardIInv
<1>6. \A k \in Keys : Agrees(k)'
  BY <1>1 DEF KeyboardIInv, Agrees, Keyboard!Believed
<1> QED BY <1>1, <1>3, <1>4, <1>5, <1>6 DEF KeyboardIInv

(* The timer: it goes on for as long as it may, and types a key the last   *)
(* report has, or one that is named.                                       *)
LEMMA KeysTimer ==
  ASSUME KeyboardIInv, Keyboard!Expire \/ Keyboard!Restart
  PROVE  KeyboardIInv'
<1>1. /\ UNCHANGED <<last, keys_state, tm_key_id, scq, typed, unsure, runaway>>
      /\ armed' \in BOOLEAN /\ tm_cb' \in {"idle", "code", "start"}
      /\ armed \/ tm_cb # "idle"
  BY DEF Keyboard!Expire, Keyboard!Restart
<1>2. Keyboard!TypeOK'
  BY <1>1, KeyTypes DEF Keyboard!TypeOK
<1>3. \A k \in Keys : Agrees(k)'
  BY <1>1 DEF KeyboardIInv, Agrees, Keyboard!Believed
<1> QED BY <1>1, <1>2, <1>3 DEF KeyboardIInv, Keyboard!RepeatHeld

LEMMA KeysRepeat ==
  ASSUME KeyboardIInv, Keyboard!Repeat
  PROVE  KeyboardIInv'
<1> DEFINE codes == <<<<"make", tm_key_id>>>>
<1>1. /\ tm_cb = "code" /\ tm_cb' = "start" /\ scq' = Keyboard!Kept(codes)
      /\ UNCHANGED <<last, keys_state, armed, tm_key_id, typed, unsure, runaway>>
  BY DEF Keyboard!Repeat
<1>2. codes \in Seq(KeyCodes) /\ DOMAIN codes = {1} /\ codes[1] = <<"make", tm_key_id>>
      /\ codes[1][1] = "make" /\ codes[1][2] = tm_key_id
  BY KeyTypes DEF KeyCodes
<1> HIDE DEF codes
<1>3. scq' \in Seq(KeyCodes) /\ Len(scq') <= MaxCodes
  BY <1>1, <1>2, KeptCodes
<1>4. Keyboard!TypeOK'
  BY <1>1, <1>3, KeyTypes DEF Keyboard!TypeOK
<1>5. tm_key_id \in keys_state \cup unsure
  BY <1>1 DEF KeyboardIInv
<1>6. ASSUME NEW k \in Keys PROVE Agrees(k)'
  <2>1. CASE k = tm_key_id /\ Len(scq) + 1 <= MaxCodes
    <3>1. 1 \in DOMAIN codes /\ \A i \in DOMAIN codes : i # 1 => codes[i][2] # k
      BY <1>2
    <3>2. Keyboard!Believed(k)' <=> codes[1][1] = "make"
      BY <1>1, <1>2, <2>1, <3>1, BelievedNew
    <3> QED BY <1>1, <1>2, <1>5, <2>1, <3>2 DEF Agrees
  <2>2. CASE ~(k = tm_key_id /\ Len(scq) + 1 <= MaxCodes)
    <3>1. \A j \in DOMAIN codes : codes[j][2] = k => ~(Len(scq) + j <= MaxCodes)
      BY <1>2, <2>2
    <3>2. Keyboard!Believed(k)' <=> Keyboard!Believed(k)
      BY <1>1, <1>2, <3>1, BelievedSame
    <3> QED BY <1>1, <3>2 DEF KeyboardIInv, Agrees
  <2> QED BY <2>1, <2>2
<1> QED BY <1>1, <1>3, <1>4, <1>6 DEF KeyboardIInv, Keyboard!RepeatHeld

(* The console takes a code.                                               *)
LEMMA KeysTake ==
  ASSUME KeyboardIInv, Keyboard!Take
  PROVE  KeyboardIInv'
<1> DEFINE code == scq[1]
<1>1. /\ scq # <<>> /\ scq' = Tail(scq)
      /\ \/ /\ typed' = IF code[1] = "make" THEN typed \cup {code[2]} ELSE typed \ {code[2]}
            /\ unsure' = unsure
         \/ unsure' = unsure \cup {code[2]} /\ typed' = typed
      /\ UNCHANGED <<last, keys_state, armed, tm_key_id, tm_cb, runaway>>
  BY DEF Keyboard!Take
<1>2. /\ scq' \in Seq(KeyCodes) /\ Len(scq') = Len(scq) - 1 /\ Len(scq) \in Nat /\ Len(scq) # 0
      /\ DOMAIN scq = 1..Len(scq) /\ DOMAIN scq' = 1..Len(scq) - 1
      /\ \A i \in DOMAIN scq' : scq'[i] = scq[i + 1]
      /\ code \in KeyCodes /\ Len(scq') <= MaxCodes
  BY <1>1, KeyTypes, TrafficAssumption
<1>3. PICK t \in {"make", "break"}, q \in Keys : code = <<t, q>> /\ t = code[1] /\ q = code[2]
  BY <1>2 DEF KeyCodes
<1>4. Keyboard!TypeOK'
  BY <1>1, <1>2, <1>3, KeyTypes DEF Keyboard!TypeOK
<1>5. /\ \A i \in DOMAIN scq' : i + 1 \in DOMAIN scq /\ i + 1 # 1 /\ i \in Nat
      /\ \A i \in DOMAIN scq : i \in Nat /\ 1 \in DOMAIN scq /\ (i # 1 => i - 1 \in DOMAIN scq' /\ scq'[i - 1] = scq[i] /\ i > 1)
  BY <1>2
<1> DEFINE Told == /\ typed' = IF code[1] = "make" THEN typed \cup {code[2]} ELSE typed \ {code[2]}
                   /\ unsure' = unsure
<1>6. ASSUME NEW k \in Keys, Told \/ k # q
      PROVE  Keyboard!Believed(k)' <=> Keyboard!Believed(k)
  <2>1. (\A i \in DOMAIN scq' : scq'[i][2] # k) <=> (\A i \in DOMAIN scq : i # 1 => scq[i][2] # k)
    BY <1>2, <1>5
  <2> DEFINE Made == \E i \in DOMAIN scq : /\ i # 1 /\ scq[i] = <<"make", k>>
                                           /\ \A j \in DOMAIN scq : j > i => scq[j][2] # k
  <2>2. ASSUME NEW i \in DOMAIN scq'
        PROVE  (\A j \in DOMAIN scq' : j > i => scq'[j][2] # k)
                 <=> (\A j \in DOMAIN scq : j > i + 1 => scq[j][2] # k)
    <3>1. ASSUME \A j \in DOMAIN scq' : j > i => scq'[j][2] # k, NEW j \in DOMAIN scq, j > i + 1
          PROVE  scq[j][2] # k
      <4>1. j # 1 /\ j - 1 > i
        BY <1>5, <3>1
      <4>2. j - 1 \in DOMAIN scq' /\ scq'[j - 1] = scq[j]
        BY <1>5, <4>1
      <4> QED BY <3>1, <4>1, <4>2
    <3>2. ASSUME \A j \in DOMAIN scq : j > i + 1 => scq[j][2] # k, NEW j \in DOMAIN scq', j > i
          PROVE  scq'[j][2] # k
      BY <1>2, <1>5, <3>2
    <3> QED BY <3>1, <3>2
  <2>3. (\E i \in DOMAIN scq' : scq'[i] = <<"make", k>> /\ \A j \in DOMAIN scq' : j > i => scq'[j][2] # k)
          <=> Made
    <3>1. ASSUME NEW i \in DOMAIN scq', scq'[i] = <<"make", k>>, \A j \in DOMAIN scq' : j > i => scq'[j][2] # k
          PROVE  Made
      <4>1. i + 1 \in DOMAIN scq /\ i + 1 # 1 /\ scq[i + 1] = <<"make", k>>
            /\ \A j \in DOMAIN scq : j > i + 1 => scq[j][2] # k
        BY <1>2, <1>5, <2>2, <3>1
      <4> QED BY <4>1
    <3>2. ASSUME NEW i \in DOMAIN scq, i # 1, scq[i] = <<"make", k>>,
                 \A j \in DOMAIN scq : j > i => scq[j][2] # k
          PROVE  \E h \in DOMAIN scq' : scq'[h] = <<"make", k>> /\ \A j \in DOMAIN scq' : j > h => scq'[j][2] # k
      <4>1. i - 1 \in DOMAIN scq' /\ scq'[i - 1] = <<"make", k>> /\ i \in Nat
        BY <1>5, <3>2
      <4>2. (i - 1) + 1 = i
        BY <4>1
      <4>3. \A j \in DOMAIN scq' : j > i - 1 => scq'[j][2] # k
        BY <2>2, <3>2, <4>1, <4>2
      <4> QED BY <4>1, <4>3
    <3> QED BY <3>1, <3>2
  <2>4. (\E i \in DOMAIN scq : scq[i] = <<"make", k>> /\ \A j \in DOMAIN scq : j > i => scq[j][2] # k)
          <=> Made \/ (scq[1] = <<"make", k>> /\ \A j \in DOMAIN scq : j # 1 => scq[j][2] # k)
    <3>1. 1 \in DOMAIN scq /\ \A j \in DOMAIN scq : j > 1 <=> j # 1
      BY <1>2, <1>5
    <3>2. (\A j \in DOMAIN scq : j > 1 => scq[j][2] # k) <=> (\A j \in DOMAIN scq : j # 1 => scq[j][2] # k)
      BY <3>1
    <3> QED BY <3>1, <3>2
  <2> HIDE DEF Made
  <2>5. CASE k # q
    <3>1. scq[1][2] # k /\ scq[1] # <<"make", k>> /\ (k \in typed' <=> k \in typed)
      BY <1>1, <1>3, <2>5
    <3>2. (\A i \in DOMAIN scq : scq[i][2] # k) <=> (\A i \in DOMAIN scq : i # 1 => scq[i][2] # k)
      BY <3>1
    <3> QED BY <2>1, <2>3, <2>4, <3>1, <3>2 DEF Keyboard!Believed
  <2>6. CASE k = q /\ Told
    <3>1. (k \in typed' <=> t = "make") /\ (scq[1] = <<"make", k>> <=> t = "make")
      BY <1>3, <2>6
    <3>2. 1 \in DOMAIN scq /\ scq[1][2] = k
      BY <1>2, <1>3, <2>6
    <3>3. Keyboard!Believed(k)' <=> (t = "make" /\ \A i \in DOMAIN scq : i # 1 => scq[i][2] # k) \/ Made
      BY <2>1, <2>3, <3>1 DEF Keyboard!Believed
    <3>4. Keyboard!Believed(k) <=> (t = "make" /\ \A i \in DOMAIN scq : i # 1 => scq[i][2] # k) \/ Made
      BY <2>4, <3>1, <3>2 DEF Keyboard!Believed
    <3> QED BY <3>3, <3>4
  <2> QED BY <1>6, <2>5, <2>6
<1>7. ASSUME NEW k \in Keys PROVE Agrees(k)'
  <2>1. CASE Told \/ k # q
    <3>1. unsure \subseteq unsure' /\ keys_state' = keys_state
      BY <1>1
    <3> QED BY <1>6, <2>1, <3>1 DEF KeyboardIInv, Agrees
  <2>2. CASE ~(Told \/ k # q)
    BY <1>1, <1>3, <2>2 DEF Agrees
  <2> QED BY <2>1, <2>2
<1>8. unsure \subseteq unsure'
  BY <1>1
<1> QED BY <1>1, <1>2, <1>4, <1>7, <1>8 DEF KeyboardIInv, Keyboard!RepeatHeld

LEMMA KeyboardStep == KeyboardIInv /\ [Keyboard!Next]_kbVars => KeyboardIInv'
<1> SUFFICES ASSUME KeyboardIInv, [Keyboard!Next]_kbVars PROVE KeyboardIInv'
  OBVIOUS
<1>1. CASE UNCHANGED kbVars
  <2>1. UNCHANGED <<last, keys_state, armed, tm_key_id, tm_cb, scq, typed, unsure, runaway>>
    BY <1>1 DEF kbVars
  <2>2. \A k \in Keys : Agrees(k)'
    BY <2>1 DEF KeyboardIInv, Agrees, Keyboard!Believed
  <2> QED BY <2>1, <2>2 DEF KeyboardIInv, Keyboard!TypeOK, Keyboard!RepeatHeld
<1> QED BY <1>1, KeysReport, KeysLeave, KeysTimer, KeysRepeat, KeysTake DEF Keyboard!Next
-----------------------------------------------------------------------------
(* A step of Traffic is a step of one path, which leaves the others alone  *)
LEMMA PathSteps ==
  [TrafficNext]_allVars =>
    /\ [Reassembly!Next]_rxVars /\ [Transmit!Next]_txVars /\ [Rumble!Next]_rumbleVars
    /\ [Bridge!Next]_bridgeVars /\ [Keyboard!Next]_kbVars
  BY DEF TrafficNext, allVars

\* A received packet is handled whole and once, unless fragments of two links mix, and
\* the way out never stops with packets in it, nor carries another's packet, but for what
\* Transmit names: for any links, lengths of packets and room of the ring
\* (bt_hci_acl_packet, bt_host_acl_hdlr, bt_host_txq_add, bt_tx_task)
THEOREM Packets == TrafficSpec => []AclSound
<1>1. TrafficInit => ReassemblyIInv /\ TxIInv
  BY ReassemblyInit, TxInit DEF TrafficInit
<1>2. ReassemblyIInv /\ TxIInv /\ [TrafficNext]_allVars => (ReassemblyIInv /\ TxIInv)'
  BY ReassemblyStep, TxStep, PathSteps
<1>3. ReassemblyIInv /\ TxIInv => AclSound
  BY TxSound DEF AclSound, ReassemblyIInv
<1> QED BY <1>1, <1>2, <1>3, PTL DEF TrafficSpec

\* A mute ends, and a motor runs only while the console wants it or a stop is coming, but
\* for the stops Rumble names: for any ports and lengths of the queue
\* (adapter_toggle_fb, adapter_fb_stop_cb, adapter_q_fb, bt_fb_task)
THEOREM Motors == TrafficSpec => []MotorSound
<1>1. TrafficInit => RumbleIInv
  BY RumbleInit DEF TrafficInit
<1>2. RumbleIInv /\ [TrafficNext]_allVars => RumbleIInv'
  BY RumbleStep, PathSteps
<1>3. RumbleIInv => MotorSound
  BY RumbleSound DEF MotorSound
<1> QED BY <1>1, <1>2, <1>3, PTL DEF TrafficSpec

\* No button stays pressed, no macro or toggle happens and no key repeats, that no
\* controller pressed, and the codes of keys agree with the reports, but for those Bridge
\* and Keyboard name: for any controllers, keys and lengths of the queue
\* (adapter_bridge, sys_macro_hdl, n64_ctrl_special_action, bt_host_reset_dev, kbmon_update,
\* kbmon_typematic_cb)
THEOREM Buttons == TrafficSpec => []BridgeSound
<1>1. TrafficInit => BridgeIInv /\ KeyboardIInv
  BY BridgeInit, KeyboardInit DEF TrafficInit
<1>2. BridgeIInv /\ KeyboardIInv /\ [TrafficNext]_allVars => (BridgeIInv /\ KeyboardIInv)'
  BY BridgeStep, KeyboardStep, PathSteps
<1>3. BridgeIInv /\ KeyboardIInv => BridgeSound
  BY BridgeHolds, KeyboardHolds DEF BridgeSound
<1> QED BY <1>1, <1>2, <1>3, PTL DEF TrafficSpec

\* The queue within the traffic: every item keeps one owner, and what the console sends
\* goes through a bounded FIFO, for any producers, messages and size, on every path
\* (queue_bss_enqueue, queue_bss_dequeue, queue_bss_return)
THEOREM QueueInTraffic == TrafficSpec => []EachItemOnce /\ Refines
<1>1. TrafficInit => Init
  BY DEF TrafficInit
<1>2. [TrafficNext]_allVars => [Next]_vars
  BY DEF TrafficNext, allVars
<1>3. TrafficSpec => Spec
  BY <1>1, <1>2, PTL DEF TrafficSpec, Spec
<1> QED BY <1>3, ItemsOwnedOnce, QueueRefinesFifo
=============================================================================
