SPECIFICATION Spec
CONSTANTS
  \* WatcherDown
  Watchers = {w1, cew}
  Consumer = cew
  EventThreshold = 1
  InjectThreshold = 2
  EventGrace = 1
  InjectCooldown = 2
  MaxDown = 2
  MaxSuppressions = 2
  SuppressionWindow = 2
  DownDwell = 2
  GateCooldown = 1
  Exempt = FALSE
  \* ContextClear
  GracePeriod = 2
  ResetCooldown = 2
  FallbackMax = 1
  ContextDwell = 1
  MaxArmed = 2
  WedgedThreshold = 2
  WedgedCooldown = 1
  \* SessionRecovery
  ChecksRequired = 1
  FreshChecks = 2
  RestartCooldown = 2
  InjectExpiry = 4
  CarryMax = 1
  RecoveryWindow = 2
  RecoverySuppressions = 1
  \* Thinking
  ThinkThreshold = 2
  Multiplier = 2
  MaxBackoff = 3
  MinDelta = 2
  AckFresh = 2
  ThinkDwell = 1
  ThinkCooldown = 1
  RetryThreshold = 1
  RetryMax = 1
  \* StuckAlert
  FastDetections = 2
  FastCooldown = 2
  Tiers <- Tiers12
  StuckDwell = 2
  MaxHeld = 2
  HeldWindow = 3
  \* DaemonLoop
  KeepaliveEvery = 2
  MemoryEvery = {2, 3}
  MemoryIdle = 4
  AfterKeepalives = 2
  IdleCooldown = 5
  \* WatcherStatus
  Pids = {q1, q2}
  NoPid = noPid
  Grace = 2
  \* TokenTally
  Files = {f1, f2}
  Months = 2
  Messages = 3
  Retire = 1
  \* DeskStreak
  Horizon = 5
  WeekEnd = 3
  MaxGap = 2
  Lookback = 4
  Step = 1
INVARIANTS
  DownWatchersTold
  ContextKeptInBounds
  StallsInterrupted
  
  TimersKept
  
  
CHECK_DEADLOCK FALSE
