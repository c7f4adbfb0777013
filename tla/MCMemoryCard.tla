--------------------------- MODULE MCMemoryCard ---------------------------
(* Values and symmetry for the TLC runs of MemoryCard. *)
EXTENDS MemoryCard, TLC

CONSTANTS console, config

OneWriter  == {console}
TwoWriters == {console, config}

WriterSymmetry == Permutations(Writers)
=============================================================================
