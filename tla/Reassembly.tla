----------------------------- MODULE Reassembly -----------------------------
(***************************************************************************)
(* Reassembly of received L2CAP packets (bt_host_acl_hdlr): one buffer,    *)
(* one offset and one size serve the fragments of every link.              *)
(***************************************************************************)
EXTENDS Naturals, Sequences

CONSTANTS
  Links,
  MaxFrags   \* bound: fragments of a packet

VARIABLES
  now,     \* each link: fragments of its packet, those received, and a bit that tells
           \* the packet from the one before
  buf,     \* frag_buf up to frag_offset: the fragments it holds
  size,    \* frag_size, in fragments
  fate,    \* history: what became of the packet of each link
  crossed  \* history: links whose packet was under way while another's was

vars == <<now, buf, size, fate, crossed>>

Init ==
  /\ now = [l \in Links |-> [of |-> 0, got |-> 0, bit |-> 0]]
  /\ buf = <<>> /\ size = 0
  /\ fate = [l \in Links |-> "nothing"] /\ crossed = {}

Fragment(l, k) == <<l, now'[l].bit, k>>
Whole(l) == [k \in 1..now[l].of |-> <<l, now[l].bit, k>>]
UnderWay(l) == now[l].got < now[l].of
Others(l) == {m \in Links \ {l} : UnderWay(m)}

\* The packet goes to the channel its first fragment names, of the link of the last one
Deliver(l, packet) ==
  fate' = [fate EXCEPT ![l] =
              IF packet = [k \in 1..now'[l].of |-> Fragment(l, k)] /\ @ = "nothing"
              THEN "whole" ELSE "wrong"]

Begins(l, n) == now' = [now EXCEPT ![l] = [of |-> n, got |-> 1, bit |-> 1 - @.bit]]

\* BT_ACL_START of a packet that is complete: the buffer is left alone
Single(l) ==
  /\ ~UnderWay(l) /\ Begins(l, 1)
  /\ fate' = [fate EXCEPT ![l] = "whole"] /\ crossed' = crossed \ {l}
  /\ UNCHANGED <<buf, size>>

\* BT_ACL_START, shorter than the length in its L2CAP header
First(l) ==
  \E n \in 2..MaxFrags :
    /\ ~UnderWay(l) /\ Begins(l, n)
    /\ buf' = <<Fragment(l, 1)>> /\ size' = n
    /\ fate' = [fate EXCEPT ![l] = "nothing"]
    /\ crossed' = IF Others(l) = {} THEN crossed \ {l} ELSE crossed \cup Others(l) \cup {l}

\* BT_ACL_CONT; the offset and the size stay as they are when the packet is complete
Continue(l) ==
  /\ UnderWay(l) /\ now' = [now EXCEPT ![l].got = @ + 1]
  /\ buf' = Append(buf, Fragment(l, now'[l].got))
  /\ IF Len(buf') >= size THEN Deliver(l, SubSeq(buf', 1, size)) ELSE UNCHANGED fate
  /\ UNCHANGED <<size, crossed>>

\* The link is lost in the middle of a packet
Lost(l) ==
  /\ UnderWay(l) /\ now' = [now EXCEPT ![l] = [of |-> 0, got |-> 0, bit |-> @.bit]]
  /\ fate' = [fate EXCEPT ![l] = "nothing"] /\ crossed' = crossed \ {l}
  /\ UNCHANGED <<buf, size>>

Next == \E l \in Links : Single(l) \/ First(l) \/ Continue(l) \/ Lost(l)
-----------------------------------------------------------------------------
TypeOK ==
  /\ \A l \in Links : now[l].got <= now[l].of /\ now[l].of \in 0..MaxFrags /\ now[l].bit \in {0, 1}
  /\ size \in 0..MaxFrags /\ fate \in [Links -> {"nothing", "whole", "wrong"}]
  /\ crossed \subseteq Links

\* A packet reaches its link whole, once and when it is complete, and nothing else does,
\* whatever came before it and whatever single packets of other links, or links lost,
\* come in between: only fragments of two links that are under way at once mix
WholePackets ==
  \A l \in Links \ crossed :
    fate[l] = IF UnderWay(l) \/ now[l].of = 0 THEN "nothing" ELSE "whole"

ReassemblyInv == TypeOK /\ WholePackets
=============================================================================
