SPECIFICATION FairSpec
CONSTANTS
  d1 = d1
  d2 = d2
  Driver <- OneProcess
  Peers = {"none", "quoted", "short"}
  SendFundings = {"funded", "unsafe"}
  Expiries = {4, 5}
  InvoiceBy = 2
  RefundAt = 3
  Window = 3
  Margin = 2
  EmptyGrace = 1
  CensorGrace = 3
  ClaimPacket = "stamp"
  CanCancel = TRUE
  Attended = TRUE
  MaxTime = 7
  MaxFaults = 2
INVARIANTS
  ReceiveIsSafe
PROPERTIES
  ReceiveEnds
  ImplementsAtomicSwap
CHECK_DEADLOCK FALSE
