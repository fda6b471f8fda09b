SPECIFICATION Spec
CONSTANTS
  \* Login
  LoginSpacing = 2
  MaxLogins = 2
  AbandonAfter = 2
  LoginAlert = 2
  AutoBanner = TRUE
  FromStore = FALSE
  MaxStarting = 1
  \* Credits
  MinFailures = 2
  RecentWindow = 3
  DemoteSpacing = 2
  SettleTime = 1
  MaxDemotes = 2
  CreditAlert = 2
  ConfirmMax = 1
  \* AutoUpdate
  CleanRelaunch = FALSE
  UpdateCooldown = 1
  StaleAfter = 1
  ClearWindow = 3
  IdleChecks = 2
  \* AutoRespawn
  NonPane = {"heartbeat", "thinking"}
  SignalsRequired = 2
  SignalWindow = 1
  RespawnCooldown = 3
  UnchangedFor = 2
  \* Prompts
  Prompts = {"p1", "p2"}
  AlertAfter = 1
  DenyAfter = 2
  MaxDenies = 2
  AskStale = 1
  FreshContext = TRUE
  \* Malformed
  Blocks = {"b1", "b2", "b3"}
  NudgeAfter = 2
  NudgeCooldown = 2
  HardAfter = 2
  \* InjectPath
  Cli = {"c1"}
  Daemon = "daemon"
  MaxLine = 4
  \* InjectIntent
  Options = 3
  Target = 1
  MaxAttempts = 2
  IntentTtl = 5
  \* Autoresolve
  Allowed = {a1, a2}
  Refused = {d1}
  Settle = 1
  NoAfter = 2
  MaxAnswers = 1
  Minute = 2
  TripCooldown = 2
  \* ScreenReading
  Bottom = 3
  Above = 7
  Scroll = 3
  MaxAgents = 2
  \* PaneChoice
  Panes = {m, a}
  Main = m
  Pids = {q1, q2, q3}
  Versions = 2
  Layouts = {"native", "npm"}
  NoPane = noPane
  NoPid = noPid
INVARIANTS
  RestartsSafe
  PromptsHandled
  
  IntentServes
  
  SightTrue

  
CHECK_DEADLOCK FALSE
