\* Two requests of one id at one time, beside heartbeats, one after the other, and
\* a tick of the worker.
\* Requests, heartbeats and time are bounded.
SPECIFICATION IntakeSpec
CONSTANTS
  a1 = a1  k1 = k1  s1 = s1  c1 = c1  c2 = c2  i1 = i1  p1 = p1  p2 = p2
  none = none
  Agents = {a1}  Registered = {a1}  Beats = {k1}  Ticks = {s1}  Reported <- Online
  Calls = {c1, c2}  Ids = {i1}  Payloads = {p1, p2}  NoSession = none
  Recorded = {"timeout", "fallback_spawn"}
  StaleAfter = 1  MaxTime = 3  MaxBeats = 2  MaxFaults = 0  MaxCalls = 2  MaxRequests = 3
INVARIANTS IntakeTypeOK AnswersTrue OneInstruction
PROPERTIES JobsAreKept QueuedWasReachable FallbackEarned
SYMMETRY Alike
CHECK_DEADLOCK FALSE
