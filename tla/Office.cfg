SPECIFICATION OfficeSpec
CONSTANTS
  Loads <- MCLoads
  MaxHandlers = 1
  MaxQueued = 1
  MaxPending = 1
  Overlap = 1
  MaxReplay = 1
  Heartbeat = 2
  LastSecond = 3
  MaxDrops = 1
  Script = {"a", "b"}
  Plans <- MCPlans
  Worker = {"a", "b"}
  Settings <- MCSettings
  SlowRate = 1
  RefundAt = 1
  ExpiresAt = 2
  ExitDelay = 2
  Margin = 1
  Retry = 1
  BumpAfter = 1
  MaxTime = 3
  Scenes <- MCScenes
  OpensAt = 1
  MtpMargin = 1
  Retention = 1
  MaxBackoff = 2
  MaxDay = 2
INVARIANTS
  SpendsAreKept
  IngressIsSound
  WatchIsSound
  

  
CHECK_DEADLOCK FALSE
