SPECIFICATION TreasurySpec
CONSTANTS
  d1 = d1
  d2 = d2
  Driver <- TwoProcesses
  Peers = {"none", "quoted", "short"}
  SendFundings = {"funded", "split", "unsafe"}
  Expiries = {5}
  InvoiceBy = 2
  RefundAt = 3
  Window = 3
  Margin = 2
  EmptyGrace = 1
  CensorGrace = 3
  ClaimPacket = "stamp"
  CanCancel = TRUE
  Attended = TRUE
  MaxTime = 7
  MaxFaults = 1
SYMMETRY Symmetric
INVARIANTS
  NeverFundedTwice
  BooksBalance
PROPERTIES
  LegalEdges
CHECK_DEADLOCK FALSE
