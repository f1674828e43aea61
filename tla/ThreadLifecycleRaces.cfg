\* Two API requests, one command and the loop guard race on one thread.
\* No request is under way and none is left: the requests are bounded.
SPECIFICATION Spec
CONSTANTS
  t1 = t1  a1 = a1  a2 = a2  c1 = c1  none = none
  Threads = {t1}  Api = {a1, a2}  Cli = {c1}  NoRequest = none
  MaxRequests = 3  MaxBlocks = 2  MaxFaults = 1
SYMMETRY ApiAlike
INVARIANTS TypeOK DisputedCloseNeedsOverride AuditTruthful UnauditedOnlyByFault
PROPERTIES NeverReopened
CHECK_DEADLOCK FALSE
