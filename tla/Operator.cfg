SPECIFICATION OperatorSpec
CONSTANTS
  d1 = d1
  d2 = d2
  Driver <- TwoProcesses
  Probes = {FALSE}
  FundBy = 1
  PayBy = 2
  HtlcBy = 3
  RefundAt = 4
  Grace = 2
  Orphan = 3
  PreflightAt = 2
  MaxTime = 5
  Reconfigs = {"key"}
  LagFromStamp = TRUE
  MaxFaults = 0
SYMMETRY Symmetric
INVARIANTS
  StaleTicksAreSafe
  
PROPERTIES
  LegalEdges
CHECK_DEADLOCK FALSE
