\* Two overlapping ticks of one worker, two jobs of one thread, no faults.
SPECIFICATION Spec
CONSTANTS
  j1 = j1  j2 = j2  t1 = t1  a1 = a1  w1 = w1  s1 = s1  s2 = s2  none = none
  Jobs = {j1, j2}  Threads = {t1}  Agents = {a1}  Workers = {w1}  Ticks = {s1, s2}
  ThreadOf <- OneThread  AgentOf <- OneAgent  WorkerOf <- OneWorker
  NoJob = none  NoTick = none
  MaxRetries = 1  ClaimLimit = 1
  BackoffBase = 1  BackoffMax = 2  DeferRecheck = 1  MaxDefer = 2
  RateLimit = 2  RateWindow = 2
  LoopMaxTurns = 4  LoopMaxRepeatedFindings = 3
  TransientCodes = {"RUNTIME_OFFLINE"}  PermanentCodes = {"RUNTIME_NOT_FOUND"}
  MaxTime = 2  SubmitHorizon = 1  MaxFaults = 0  OperatorActs = FALSE
SYMMETRY Alike
INVARIANTS TypeOK ExclusiveClaim AttemptsContiguous LastAttemptExplainsStatus
  RetryBudget AutoBlockEarned
PROPERTIES NoEarlyClaim SettledIsFinal Lifecycle
