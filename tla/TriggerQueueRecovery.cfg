\* One worker, fair ticks, an operator, one fault: what the fault did not touch settles.
SPECIFICATION PromptSpec
CONSTANTS
  j1 = j1  j2 = j2  t1 = t1  a1 = a1  w1 = w1  s1 = s1  s2 = s2  none = none
  Jobs = {j1, j2}  Threads = {t1}  Agents = {a1}  Workers = {w1}  Ticks = {s1}
  ThreadOf <- OneThread  AgentOf <- OneAgent  WorkerOf <- OneWorker
  NoJob = none  NoTick = none
  MaxRetries = 2  ClaimLimit = 2
  BackoffBase = 1  BackoffMax = 2  DeferRecheck = 1  MaxDefer = 2
  RateLimit = 2  RateWindow = 2
  LoopMaxTurns = 4  LoopMaxRepeatedFindings = 3
  TransientCodes = {"RUNTIME_OFFLINE"}  PermanentCodes = {}
  MaxTime = 8  SubmitHorizon = 0  MaxFaults = 1  OperatorActs = TRUE
INVARIANTS AdmittedWithinLimit
PROPERTIES OthersSettle
