SPECIFICATION HouseSpec
CONSTANTS
  Coins <- MCCoins
  Ops <- MCOps
  Kind <- MCKind
  Ids = {1, 2}
  Lightning = {1}
  FloatCoins = {1, 2}
  Policies = {2}
  Reserve = 0
  Day = 1
  QuoteLife = 1
  Horizon = 1
  MaxFaults = 1
  Id = {"a", "b"}
  Process = {"p", "q"}
  MaxFee = 1
  MaxUpsets = 1
  MaxReorgs = 0
  Worker = {"a", "b"}
  Crews <- MCCrews
  FillIds = {1, 2}
  Out = {1, 2}
  Asks <- MCAsks
  PriceCases <- MCPriceCases
  Offers <- MCOffers
  Slips <- MCSlips
  Feeds = {20, 25}
  Market <- MCMarket
  Inventory = 40
  MaxDeferrals = 1
  MaxEvents = 1
  MaxMishaps = 1
  Confirmations = 2
  Amount = 1
  Cutoff = 5
  Timelock = 7
  Scenes <- MCScenes
  MaxDelivered = 2
  MaxBlocks = 5
  MaxForks = 1
INVARIANTS
  LedgerIsKept
  RefillIsSafe
  SendsExactlyOnce
  ReceiverIsSafe
  FillsTellTheTruth
  PlansAndPricesAreSound
CHECK_DEADLOCK FALSE
