\* Three concurrent requests of two agents with one key, replies, a reader, a fault.
\* The requests are bounded: in the end none is left to receive.
SPECIFICATION Spec
CONSTANTS
  p1 = p1  p2 = p2  p3 = p3  r1 = r1  a1 = a1  a2 = a2  k1 = k1  nokey = nokey  none = none
  Agents = {a1, a2}  Keys = {k1}  NoKey = nokey  Bodies = {"x"}
  Posters = {p1, p2, p3}  Readers = {r1}  NoRequest = none
  PageSize = 1
  MaxRequests = 3  MaxFaults = 1  MayReply = TRUE
SYMMETRY PostersAgentsAlike
INVARIANTS GapFree AnswersStored RetriesAgree ConflictJustified
  ClashEarned NothingSkipped
PROPERTIES GrowsAtTheEnd
CHECK_DEADLOCK FALSE
