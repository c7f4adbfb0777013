\* One BR/EDR controller and the button, with fairness: every retry, time-out and crossing of one link.
CONSTANTS
  c1 = c1  l1 = l1   p1 = p1
  NoAddr = NoAddr
  ClassicPeers <- JustC1
  LePeers <- Empty
  Clients <- Empty
  NDev = 2
  MaxRetry = 2
  InquiryMax = 1
  Handles = {1, 2}
  InqAuto = TRUE
  Button = TRUE
  MaxEvt = 1
SPECIFICATION FairSpec
INVARIANTS
  SlotBacked
  AutoInquiryWhenIdle
PROPERTIES
  PendingResolved
  KickedIsFreed
