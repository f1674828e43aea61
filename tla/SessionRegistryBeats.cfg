\* An agent with a row and one without, two heartbeats, two overlapping fair ticks, one
\* fault. The stale time is shorter than one unit of the clock, so that a row of time 0
\* is listed at two times.
\* Time and requests are bounded; ticks never end.
SPECIFICATION FairSpec
CONSTANTS
  a1 = a1  a2 = a2  k1 = k1  k2 = k2  s1 = s1  s2 = s2
  Agents = {a1, a2}  Registered = {a1}  Beats = {k1, k2}  Ticks = {s1, s2}  Reported <- Online
  StaleAfter = 0  MaxTime = 2  MaxBeats = 2  MaxFaults = 1
INVARIANTS NewestKept
PROPERTIES NeverOlder StaleExpires
