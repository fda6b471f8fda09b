SPECIFICATION Spec
CONSTANTS
  \* WatcherRun
  Runs = {r1, r2, r3}
  NoRun = NoRun
  \* AlertGate
  Sources = {s1, s2}
  \* Orphans
  Bindings = {1, 2}
  Tracked = FALSE
  QuietMax = 0
  CallMax = 1
  SoftCap = 2
  BindGrace = 1
  BeatStale = 1
  HardGrace = 1
  EscalateEvery = 2
  AbandonAfter = 2
  \* TaskPanes
  Tasks = {"t1", "a1"}
  Agents = {"a1"}
  Panes = {1, 2, 3, 4}
  MaxPanes = 3
  DoneAfter = 1
  Gaps = FALSE
  \* StaleReady
  Items = {i1, i2}
  Threshold = 2
  \* EventSpool
  Alarms = {a1, a2}
  Bypass = {b1, b2}
  \* AgentKill
  Subagents = {g1}
  Procs = {p1, p2, p3}
  Window = 1
  \* Babysit
  PatEvery = 3
  ProbeEvery = 2
  MaxAge = 2
  BeatEvery = 2
  MaxBlock = 4
  PollEvery = 2
INVARIANTS
  OnePollerOnRecord
  AlertsKept
  OrphansTold
  
  LedgerTrue
  
  
  
CHECK_DEADLOCK FALSE
