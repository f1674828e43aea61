\* Fair overlapping ticks beside one participant's acknowledgements, one fault.
SPECIFICATION FairSpec
CONSTANTS
  a1 = a1  k1 = k1  w1 = w1  s1 = s1  s2 = s2
  Agents = {a1}  Acks = {k1}  AgentOf <- OneAgent
  Workers = {w1}  Ticks = {s1, s2}  WorkerOf <- OneWorker
  MaxSeq = 2  MaxAcks = 2  MaxFlips = 1  MaxFaults = 1
INVARIANTS NotifiedOnce CursorWithinThread
PROPERTIES CursorMonotone UnreadIsNoticed
