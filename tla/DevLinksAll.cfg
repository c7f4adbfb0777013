\* A BR/EDR controller, an LE one and a client of the config interface, who share the slots,
\* the handles, inquiry, scanning and advertising.
CONSTANTS
  c1 = c1  l1 = l1  p1 = p1
  NoAddr = NoAddr
  ClassicPeers <- JustC1
  LePeers <- JustL1
  Clients <- JustP1
  NDev = 2
  MaxRetry = 1
  InquiryMax = 0
  Handles = {1, 2}
  InqAuto = TRUE
  Button = FALSE
  MaxEvt = 2
SPECIFICATION Spec
INVARIANTS
  UniqueBdaddr
  HandleMatchesLink
  RadioDuties
PROPERTIES
  SlotStable
