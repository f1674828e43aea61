\* A pane that is busy three times within the longest deferral.
SPECIFICATION Spec
CONSTANTS
  j1 = j1  j2 = j2  t1 = t1  a1 = a1  w1 = w1  s1 = s1  s2 = s2  none = none
  Jobs = {j1}  Threads = {t1}  Agents = {a1}  Workers = {w1}  Ticks = {s1}
  ThreadOf <- OneThread  AgentOf <- OneAgent  WorkerOf <- OneWorker
  NoJob = none  NoTick = none
  MaxRetries = 2  ClaimLimit = 1
  BackoffBase = 1  BackoffMax = 2  DeferRecheck = 1  MaxDefer = 12
  RateLimit = 10  RateWindow = 12
  LoopMaxTurns = 20  LoopMaxRepeatedFindings = 3
  TransientCodes = {}  PermanentCodes = {}
  MaxTime = 3  SubmitHorizon = 0  MaxFaults = 0  OperatorActs = FALSE
INVARIANTS CollisionKeepsIntent
