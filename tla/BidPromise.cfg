SPECIFICATION BidderSpec
CONSTANTS
  Keys = {}
  Limit = 1
  Window = 2
  MaxKeys = 2
  PerMinute = 2
  Minute = 2
  Validity = 2
  MaxAge = 1
  Opens <- MCOpens
  Fees <- MCFees
  Limits <- MCLimits
  MaxTime = 3
  MaxTakes = 3
INVARIANTS
  QuotesKeepBids
CHECK_DEADLOCK FALSE
