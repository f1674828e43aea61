\* Two requests of one agent at one time.
\* The posts and the requests are bounded: in the end none is left.
SPECIFICATION CursorSpec
CONSTANTS
  a1 = a1  k1 = k1  k2 = k2
  Agents = {a1}  Acks = {k1, k2}  AgentOf <- SlotsOfOne
  MaxSeq = 2  MaxAcks = 2
PROPERTIES CursorMonotone
CHECK_DEADLOCK FALSE
