\* Three controllers of either transport, the third LE one a Switch 2 one, on rings of two;
\* failing files and up to two restarts.
CONSTANTS
  a = a  b = b  c = c  d = d  e = e  f = f
  NoPeer = NoPeer
  BrPeers <- ThreeBr
  LePeers <- ThreeLe
  Sw2Peers <- JustF
  N = 2
  Faults = TRUE
  MaxPair = 2
  MaxCut = 2
SYMMETRY PeerSymmetry
SPECIFICATION MCSpec
INVARIANTS
  UniqueEntry
  KeyAgreement
  FileCurrent
  ResetForgets
PROPERTIES
  LastKept
CHECK_DEADLOCK FALSE
