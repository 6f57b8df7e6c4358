SPECIFICATION DeskSpec
CONSTANTS
  d1 = d1
  d2 = d2
  Driver <- TwoProcesses
  Legacies = {TRUE, FALSE}
  LockBy = 1
  FundStop = 2
  RefundTxAt = 2
  RefundAt = 3
  LeaseTtl = 1
  ReleaseDelay = 1
  RecheckAfter = 2
  MaxTime = 3
  MaxSigned = 2
  Version = {1}
  MaxReclaims = 1
  MaxFaults = 0
SYMMETRY Symmetric
INVARIANTS
  SingleFunding
  
  StrangersAreRationed
  ConfigurationIsKept
CHECK_DEADLOCK FALSE
