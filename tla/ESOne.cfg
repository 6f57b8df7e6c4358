SPECIFICATION FairSpec
CONSTANTS
  Driver = {d1, d2}
  Fleets = {{d1}, {d1, d2}}
  ValidUntil = 1
  EvmTimeout = 2
  RefundAt = 3
  MaxTime = 4
  MaxRefunds = 3
  MaxFaults = 1
INVARIANTS
  EvmSendIsSafe
PROPERTIES
  ImplementsAtomicSwap
  EvmSendEnds
CHECK_DEADLOCK FALSE
