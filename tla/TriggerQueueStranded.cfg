\* A worker stops after it claimed a job.
SPECIFICATION PromptSpec
CONSTANTS
  j1 = j1  j2 = j2  t1 = t1  a1 = a1  w1 = w1  s1 = s1  s2 = s2  none = none
  Jobs = {j1}  Threads = {t1}  Agents = {a1}  Workers = {w1}  Ticks = {s1}
  ThreadOf <- OneThread  AgentOf <- OneAgent  WorkerOf <- OneWorker
  NoJob = none  NoTick = none
  MaxRetries = 1  ClaimLimit = 1
  BackoffBase = 1  BackoffMax = 2  DeferRecheck = 1  MaxDefer = 2
  RateLimit = 2  RateWindow = 2
  LoopMaxTurns = 4  LoopMaxRepeatedFindings = 3
  TransientCodes = {"RUNTIME_OFFLINE"}  PermanentCodes = {}
  MaxTime = 4  SubmitHorizon = 0  MaxFaults = 1  OperatorActs = FALSE
PROPERTIES AttemptedAtLeastOnce
