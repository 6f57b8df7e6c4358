SPECIFICATION FairSpec
CONSTANTS
  d1 = d1
  d2 = d2
  Driver <- OneProcess
  Probes = {TRUE, FALSE}
  FundBy = 1
  PayBy = 3
  HtlcBy = 4
  RefundAt = 5
  Grace = 2
  Orphan = 3
  PreflightAt = 9
  MaxTime = 8
  Reconfigs = {"key", "wallet"}
  LagFromStamp = TRUE
  MaxFaults = 1
INVARIANTS
  SwapIsSafe
PROPERTIES
  SwapEnds
  
  AtomicUntilReconfigured
CHECK_DEADLOCK FALSE
