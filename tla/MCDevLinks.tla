---------------------------- MODULE MCDevLinks ----------------------------
(* Values for the TLC runs of DevLinks. *)
EXTENDS DevLinks, TLC

CONSTANTS c1, l1, p1

Empty == {}
JustC1 == {c1}
JustL1 == {l1}
JustP1 == {p1}
=============================================================================
