----------------------------- MODULE MCLinkKeys -----------------------------
(* An instance of LinkKeys for TLC: three controllers of each transport.    *)
(* The two rings have files of their own and share only the order of the    *)
(* loads and the one write at a time, so a behaviour pairs peers of one     *)
(* transport; and as both are saved by the same steps, the file operations  *)
(* fail, and the power is cut twice, only where BR/EDR peers pair.          *)
EXTENDS LinkKeys, TLC

CONSTANTS a, b, c, d, e, f

ThreeBr == {a, b, c}
ThreeLe == {d, e, f}
JustF   == {f}

PeerSymmetry == Permutations(ThreeBr) \cup Permutations({d, e})

OneTransport ==
  \/ \A p \in LePeers : bond[p] = 0
  \/ /\ \A p \in BrPeers : bond[p] = 0
     /\ \A k \in Kinds : ~behind[k]
     /\ cuts < 2

MCSpec == Init /\ [][Next /\ OneTransport']_vars
=============================================================================
