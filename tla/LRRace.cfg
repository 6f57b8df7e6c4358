SPECIFICATION Spec
CONSTANTS
  d1 = d1
  d2 = d2
  Driver <- TwoProcesses
  Peers = {"none"}
  SendFundings = {}
  Expiries = {4, 5}
  InvoiceBy = 2
  RefundAt = 3
  Window = 3
  Margin = 2
  EmptyGrace = 1
  CensorGrace = 3
  ClaimPacket = "none"
  CanCancel = TRUE
  Attended = TRUE
  MaxTime = 7
  MaxFaults = 0
INVARIANTS
  PayoutNeverForgotten
CHECK_DEADLOCK FALSE
