\* Two overlapping ticks of one worker wake one agent for two jobs.
SPECIFICATION Spec
CONSTANTS
  j1 = j1  j2 = j2  s1 = s1  s2 = s2  x1 = x1  none = none
  Jobs = {j1, j2}  Ticks = {s1, s2}  Forced = {j1}
  Sessions = {x1}  NoSession = none  NoJob = none  TargetOf <- OneSession
  Lines = 2  MaxRetries = 1  QuietWindow = 1  MaxDefer = 1
  ResumeMaxAttempts = 1  CrashLoopThreshold = 1  CrashLoopWindow = 0  StaleAfter = 0
  MaxTime = 1  MaxChanges = 1  MaxFaults = 1
SYMMETRY Alike
INVARIANTS TypeOK ReportsAreTrue TypedWithinBudget
PROPERTIES ShortcutTaken
