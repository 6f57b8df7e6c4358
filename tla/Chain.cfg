SPECIFICATION ChainSpec
CONSTANTS
  d1 = d1
  d2 = d2
  Driver <- OneProcess
  Legacies = {FALSE}
  LockBy = 1
  FundStop = 2
  RefundTxAt = 2
  RefundAt = 4
  LeaseTtl = 1
  ReleaseDelay = 2
  RecheckAfter = 2
  MaxTime = 6
  MaxSigned = 2
  Version = {1, 2}
  MaxReclaims = 0
  MaxFaults = 2
  EvmDriver <- Pair
  Fleets <- Crews
  ValidUntil = 1
  EvmRefundAt = 2
  EvmFundStop = 3
  EvmTimeout = 4
  EvmMaxTime = 5
  MaxClaims = 2
  EvmMaxFaults = 1
INVARIANTS
  
  EvmReceiveIsSafe
PROPERTIES
  ChainSwapsEnd
  
CHECK_DEADLOCK FALSE
