------------------------ MODULE SessionRegistryProofs ------------------------
(***************************************************************************)
(* What holds of the session registry for any agents, requests, ticks and  *)
(* bounds.                                                                 *)
(***************************************************************************)
EXTENDS SessionRegistry, TLAPS

(* Rows and the heartbeats under way keep their types: a heartbeat's time  *)
(* is a positive number, which an agent without a row does not have.       *)
RowType == [no : Nat, at : Nat, status : SessionStatuses, mode : Mode]
RowsOK ==
  /\ clock \in Nat \ {0}
  /\ row \in [Agents -> RowType]
  /\ beatPhase \in [Beats -> BeatPhases]
  /\ DOMAIN beat = Beats
  /\ \A k \in Beats : beatPhase[k] # "idle" =>
       /\ beat[k].no \in Nat /\ beat[k].agent \in Agents
       /\ beat[k].at \in Nat \ {0} /\ beat[k].status \in SessionStatuses
       /\ beat[k].mode \in Mode
  /\ stale \in [Ticks -> SUBSET Agents]

LEMMA RowsOKInit == Init => RowsOK
<1>1. SUFFICES ASSUME Init PROVE RowsOK
  OBVIOUS
<1>2. NoRow \in RowType
      /\ FirstRow \in RowType
  BY DEF NoRow, FirstRow, SessionStatuses, RowType, Managed, Mode
<1>3. row \in [Agents -> RowType]
  BY <1>1, <1>2 DEF Init
<1>4. QED
  BY <1>1, <1>3 DEF Init, RowsOK, BeatPhases

(* A step of a request that is under way leaves the others alone, and what *)
(* it asks for too, until it is over.                                      *)
Moves(k, next) == GoTo(k, next) \/ (next = "idle" /\ Finish(k))

LEMMA MovesKeep ==
  ASSUME RowsOK, NEW k \in Beats, NEW next \in BeatPhases, Moves(k, next),
         beatPhase[k] # "idle"
  PROVE  /\ beatPhase' \in [Beats -> BeatPhases]
         /\ DOMAIN beat' = Beats
         /\ beatPhase' = [beatPhase EXCEPT ![k] = next]
         /\ \A j \in Beats : beatPhase'[j] # "idle" =>
              beatPhase[j] # "idle" /\ beat'[j] = beat[j]
<1>1. CASE GoTo(k, next)
  BY <1>1 DEF RowsOK, GoTo
<1>2. CASE next = "idle" /\ Finish(k)
  BY <1>2 DEF RowsOK, Finish
<1>3. QED
  BY <1>1, <1>2 DEF Moves

(* What a step may do to a row.                                            *)
LEMMA RowSteps ==
  ASSUME NEW r \in RowType
  PROVE  /\ Offline(r) \in RowType /\ Offline(r).at = r.at /\ Offline(r).no = r.no
         /\ Deregistered(r) \in RowType /\ Deregistered(r).at = r.at
         /\ Deregistered(r).no = r.no
<1>1. /\ Offline(r) = [no |-> r.no, at |-> r.at, status |-> "offline", mode |-> r.mode]
      /\ r.no \in Nat /\ r.at \in Nat /\ r.mode \in Mode
  BY DEF Offline, RowType
<1>2. Deregistered(r) = [no |-> r.no, at |-> r.at, status |-> "offline",
                         mode |-> NotResumable(r.mode)]
  <2>1. ASSUME NEW x \in RowType, NEW m
        PROVE  [x EXCEPT !.mode = m] = [no |-> x.no, at |-> x.at, status |-> x.status,
                                        mode |-> m]
    BY DEF RowType
  <2>2. Offline(r) \in RowType
    BY <1>1 DEF RowType, SessionStatuses
  <2>3. QED
    BY <1>1, <2>1, <2>2 DEF Deregistered
<1>3. NotResumable(r.mode) \in Mode
  BY <1>1 DEF Mode, NotResumable
<1>4. "offline" \in SessionStatuses
  BY DEF SessionStatuses
<1>5. QED
  BY <1>1, <1>2, <1>3, <1>4 DEF RowType

LEMMA RowsOKNext == RowsOK /\ [Next]_vars => RowsOK'
<1>1. SUFFICES ASSUME RowsOK, [Next]_vars PROVE RowsOK'
  OBVIOUS
<1> USE <1>1
<1>2. CASE UNCHANGED vars
  BY <1>2 DEF RowsOK, vars, beatVars, tickVars
<1>3. CASE AdvanceClock
  BY <1>3 DEF RowsOK, AdvanceClock, beatVars, tickVars
<1>4. ASSUME NEW k \in Beats, Receive(k) \/ Register(k) PROVE RowsOK'
  <2>1. PICK b \in Beat : Accept(k, b)
    BY <1>4 DEF Receive, Register
  <2>2. b.no \in Nat /\ b.agent \in Agents /\ b.at \in Nat \ {0}
        /\ b.status \in SessionStatuses /\ b.mode \in Mode
    BY <2>1, RegistryAssumption DEF Beat, Time
  <2>3. QED
    BY <2>1, <2>2 DEF RowsOK, Accept, BeatPhases, tickVars
<1>5. ASSUME NEW k \in Beats, Update(k) PROVE RowsOK'
  <2>1. /\ beatPhase[k] = "update" /\ UNCHANGED <<clock, tickVars>>
        /\ row' \in {row, [row EXCEPT ![beat[k].agent] = RowOf(beat[k])]}
        /\ \E next \in BeatPhases : Moves(k, next)
    BY <1>5 DEF Update, Answer, BeatPhases, Moves
  <2>2. RowOf(beat[k]) \in RowType
    BY <2>1 DEF RowsOK, RowOf, RowType
  <2>3. row' \in [Agents -> RowType]
    BY <2>1, <2>2 DEF RowsOK
  <2>4. QED
    BY <2>1, <2>3, MovesKeep DEF RowsOK, tickVars
<1>6. ASSUME NEW k \in Beats, Find(k) \/ FindAgain(k) \/ Fail(k) PROVE RowsOK'
  <2>1. /\ beatPhase[k] # "idle" /\ UNCHANGED <<clock, row, tickVars>>
        /\ \E next \in BeatPhases : Moves(k, next)
    BY <1>6 DEF Find, FindAgain, Fail, Answer, BeatPhases, Moves
  <2>2. QED
    BY <2>1, MovesKeep DEF RowsOK, tickVars
<1>7. ASSUME NEW k \in Beats, Insert(k) PROVE RowsOK'
  <2>1. /\ beatPhase[k] = "insert" /\ UNCHANGED <<clock, tickVars>>
        /\ Moves(k, "find_again") /\ "find_again" \in BeatPhases
    BY <1>7 DEF Insert, BeatPhases, Moves
  <2>2. RowOf(beat[k]) \in RowType
    BY <2>1 DEF RowsOK, RowOf, RowType
  <2>3. row' \in [Agents -> RowType]
    BY <1>7, <2>2 DEF RowsOK, Insert
  <2>4. QED
    BY <2>1, <2>3, MovesKeep DEF RowsOK, tickVars
<1>8. ASSUME NEW s \in Ticks, StartTick(s) \/ ListRuntimes(s) PROVE RowsOK'
  <2>1. ToMark(s) \subseteq Agents
    BY DEF ToMark
  <2>2. QED
    BY <1>8, <2>1 DEF RowsOK, StartTick, ListRuntimes, beatVars
<1>9. ASSUME NEW s \in Ticks, MarkOffline(s) PROVE RowsOK'
  <2>1. PICK a \in stale[s] : /\ row' = [row EXCEPT ![a] = Offline(row[a])]
                              /\ stale' = [stale EXCEPT ![s] = @ \ {a}]
    BY <1>9 DEF MarkOffline
  <2>2. a \in Agents
    BY <2>1 DEF RowsOK
  <2>3. row' \in [Agents -> RowType]
    BY <2>1, <2>2, RowSteps DEF RowsOK
  <2>4. stale' \in [Ticks -> SUBSET Agents]
    BY <2>1 DEF RowsOK
  <2>5. QED
    BY <1>9, <2>3, <2>4 DEF RowsOK, MarkOffline, beatVars
<1>10. ASSUME NEW s \in Ticks, FinishTick(s) \/ TickFails(s) PROVE RowsOK'
  BY <1>10 DEF RowsOK, FinishTick, TickFails, EndTick, beatVars
<1>11. ASSUME NEW a \in Agents, Deregister(a) PROVE RowsOK'
  <2>1. row' \in [Agents -> RowType]
    BY <1>11, RowSteps DEF RowsOK, Deregister
  <2>2. QED
    BY <1>11, <2>1 DEF RowsOK, Deregister, beatVars, tickVars
<1>12. QED
  BY <1>2, <1>3, <1>4, <1>5, <1>6, <1>7, <1>8, <1>9, <1>10, <1>11
  DEF Next, BeatStep, UpsertFromHeartbeat, TickStep

LEMMA RowsAreOK == Spec => []RowsOK
  BY RowsOKInit, RowsOKNext, PTL DEF Spec

-----------------------------------------------------------------------------
(* Within the bounds of the model: what a heartbeat writes, and what a     *)
(* tick or a deregistration leaves, is a row of the table.                 *)
LEMMA RowsClosed ==
  /\ NoRow \in Rows /\ FirstRow \in Rows
  /\ \A b \in Beat : RowOf(b) \in Rows
  /\ \A r \in Rows : Offline(r) \in Rows /\ Deregistered(r) \in Rows
<1>1. NoRow \in Rows /\ FirstRow \in Rows
  BY RegistryAssumption DEF NoRow, FirstRow, Rows, SessionStatuses, Managed, Mode
<1>2. \A b \in Beat : RowOf(b) \in Rows
  BY RegistryAssumption DEF RowOf, Beat, Rows, Time
<1>3. ASSUME NEW r \in Rows PROVE Offline(r) \in Rows /\ Deregistered(r) \in Rows
  <2>1. r.no \in 0 .. MaxBeats /\ r.at \in 0 .. MaxTime /\ r.mode \in Mode
    BY DEF Rows
  <2>2. r \in RowType
    BY RegistryAssumption DEF Rows, RowType
  <2>3. /\ Offline(r) \in RowType /\ Offline(r).at = r.at /\ Offline(r).no = r.no
        /\ Deregistered(r) \in RowType /\ Deregistered(r).at = r.at
        /\ Deregistered(r).no = r.no
    BY <2>2, RowSteps
  <2>4. \A x \in RowType : x.no \in 0 .. MaxBeats /\ x.at \in 0 .. MaxTime => x \in Rows
    BY DEF RowType, Rows
  <2> QED
    BY <2>1, <2>3, <2>4
<1> QED
  BY <1>1, <1>2, <1>3

LEMMA TypeOKNext == RowsOK /\ TypeOK /\ [Next]_vars => TypeOK'
<1>1. SUFFICES ASSUME RowsOK, TypeOK, [Next]_vars PROVE TypeOK'
  OBVIOUS
<1> USE DEF beatVars, tickVars
<1>2. CASE UNCHANGED vars
  BY <1>1, <1>2 DEF TypeOK, vars
<1>3. CASE AdvanceClock
  BY <1>1, <1>3, RegistryAssumption DEF TypeOK, AdvanceClock, Time
<1>4. ASSUME NEW k \in Beats, Receive(k) \/ Register(k) PROVE TypeOK'
  <2>1. PICK b \in Beat : Accept(k, b)
    BY <1>4 DEF Receive, Register
  <2>2. beats' \in 0 .. MaxBeats
    BY <1>1, <2>1, RegistryAssumption DEF TypeOK, Accept
  <2>3. /\ beatPhase' \in [Beats -> BeatPhases]
        /\ \A j \in Beats : beatPhase'[j] # "idle" => beat'[j] \in Beat
    BY <1>1, <2>1 DEF RowsOK, TypeOK, Accept, BeatPhases
  <2> QED
    BY <1>1, <2>1, <2>2, <2>3 DEF TypeOK, Accept
(* A step of a request that is under way.                                  *)
<1>5. ASSUME NEW k \in Beats, NEW next \in BeatPhases, Moves(k, next), beatPhase[k] # "idle",
             row' \in [Agents -> Rows], answers' \in {answers, answers \cup {beat[k]}},
             UNCHANGED <<clock, tickVars, faults>>
      PROVE  TypeOK'
  <2>1. /\ beatPhase' \in [Beats -> BeatPhases]
        /\ \A j \in Beats : beatPhase'[j] # "idle" =>
             beatPhase[j] # "idle" /\ beat'[j] = beat[j]
    BY <1>1, <1>5, MovesKeep
  <2>2. \A j \in Beats : beatPhase'[j] # "idle" => beat'[j] \in Beat
    BY <1>1, <2>1 DEF TypeOK
  <2>3. beats' = beats
    BY <1>5 DEF Moves, GoTo, Finish
  <2>4. answers' \subseteq Beat
    BY <1>1, <1>5 DEF TypeOK
  <2> QED
    BY <1>1, <1>5, <2>1, <2>2, <2>3, <2>4 DEF TypeOK
<1>6. ASSUME NEW k \in Beats, UpsertFromHeartbeat(k) \/ Fail(k) PROVE TypeOK'
  <2>1. /\ beatPhase[k] # "idle" /\ UNCHANGED <<clock, tickVars, faults>>
        /\ \E next \in BeatPhases : Moves(k, next)
        /\ answers' \in {answers, answers \cup {beat[k]}}
        /\ \/ UNCHANGED row
           \/ row' = [row EXCEPT ![beat[k].agent] = RowOf(beat[k])]
    <3>1. CASE Update(k)
      BY <3>1 DEF Update, Answer, BeatPhases, Moves
    <3>2. CASE Find(k) \/ FindAgain(k) \/ Fail(k)
      BY <3>2 DEF Find, FindAgain, Fail, Answer, BeatPhases, Moves
    <3>3. CASE Insert(k)
      BY <1>1, <3>3 DEF Insert, BeatPhases, Moves, TypeOK
    <3> QED
      BY <1>6, <3>1, <3>2, <3>3 DEF UpsertFromHeartbeat
  <2>2. beat[k] \in Beat
    BY <1>1, <2>1 DEF TypeOK
  <2>3. row' \in [Agents -> Rows]
    BY <1>1, <2>1, <2>2, RowsClosed DEF TypeOK
  <2> QED
    BY <1>5, <2>1, <2>3
<1>7. ASSUME NEW a \in Agents, Deregister(a) PROVE TypeOK'
  <2>1. row' \in [Agents -> Rows]
    BY <1>1, <1>7, RowsClosed DEF TypeOK, Deregister
  <2> QED
    BY <1>1, <1>7, <2>1 DEF TypeOK, Deregister
<1>8. ASSUME NEW s \in Ticks, StartTick(s) PROVE TypeOK'
  BY <1>1, <1>8 DEF TypeOK, StartTick, Phases
<1>9. ASSUME NEW s \in Ticks, ListRuntimes(s) PROVE TypeOK'
  <2>1. ToMark(s) \subseteq Agents
    BY DEF ToMark
  <2> QED
    BY <1>1, <1>9, <2>1 DEF TypeOK, ListRuntimes, Phases
<1>10. ASSUME NEW s \in Ticks, MarkOffline(s) PROVE TypeOK'
  <2>1. PICK a \in stale[s] : /\ row' = [row EXCEPT ![a] = Offline(row[a])]
                              /\ stale' = [stale EXCEPT ![s] = @ \ {a}]
    BY <1>10 DEF MarkOffline
  <2>2. row' \in [Agents -> Rows]
    BY <1>1, <2>1, RowsClosed DEF TypeOK
  <2>3. stale' \in [Ticks -> SUBSET Agents]
    BY <1>1, <2>1 DEF TypeOK
  <2> QED
    BY <1>1, <1>10, <2>2, <2>3 DEF TypeOK, MarkOffline
<1>11. ASSUME NEW s \in Ticks, FinishTick(s) \/ TickFails(s) PROVE TypeOK'
  <2>1. /\ EndTick(s) /\ faults' \in 0 .. MaxFaults
    BY <1>1, <1>11, RegistryAssumption DEF TypeOK, FinishTick, TickFails
  <2>2. 1 \in Time
    BY RegistryAssumption DEF Time
  <2> QED
    BY <1>1, <2>1, <2>2 DEF TypeOK, EndTick, Phases
<1> QED
  BY <1>1, <1>2, <1>3, <1>4, <1>6, <1>7, <1>8, <1>9, <1>10, <1>11
  DEF Next, BeatStep, TickStep

(* Rows, requests and ticks keep their shape and their bounds.             *)
THEOREM RegistryTypeCorrect == Spec => []TypeOK
<1>1. Init => TypeOK
  <2>1. SUFFICES ASSUME Init PROVE TypeOK
    OBVIOUS
  <2>2. row \in [Agents -> Rows]
    BY <2>1, RowsClosed DEF Init
  <2>3. 1 \in Time /\ 0 \in 0 .. MaxBeats /\ 0 \in 0 .. MaxFaults
    BY RegistryAssumption DEF Time
  <2> QED
    BY <2>1, <2>2, <2>3 DEF Init, TypeOK, BeatPhases, Phases
<1> QED
  BY <1>1, TypeOKNext, RowsAreOK, PTL DEF Spec

-----------------------------------------------------------------------------
(* How a step changes the time of an agent's heartbeat: never down.        *)
LEMMA HeartbeatsAdvance ==
  ASSUME RowsOK, [Next]_vars
  PROVE  \A a \in Agents :
           row'[a] # row[a] => \/ row'[a].at > row[a].at
                               \/ row'[a] \in {Offline(row[a]), Deregistered(row[a])}
<1>1. SUFFICES ASSUME NEW a \in Agents, row'[a] # row[a]
               PROVE  \/ row'[a].at > row[a].at
                      \/ row'[a] \in {Offline(row[a]), Deregistered(row[a])}
  OBVIOUS
<1>2. ASSUME NEW k \in Beats, Update(k) PROVE row'[a].at > row[a].at
  <2>1. /\ Newer(beat[k])
        /\ row' = [row EXCEPT ![beat[k].agent] = RowOf(beat[k])]
    BY <1>1, <1>2 DEF Update
  <2>2. a = beat[k].agent /\ row'[a] = RowOf(beat[k])
    BY <1>1, <2>1 DEF RowsOK
  <2>3. QED
    BY <2>1, <2>2 DEF Newer, RowOf, RowsOK
<1>3. ASSUME NEW k \in Beats, Insert(k) PROVE row'[a].at > row[a].at
  <2>1. a = beat[k].agent /\ ~Exists(a) /\ row'[a] = RowOf(beat[k])
    BY <1>1, <1>3 DEF Insert, RowsOK
  <2>2. beat[k].at \in Nat \ {0}
    BY <1>3 DEF Insert, RowsOK
  <2>3. QED
    BY <2>1, <2>2 DEF Exists, RowOf
<1>4. ASSUME NEW s \in Ticks, MarkOffline(s) PROVE row'[a] = Offline(row[a])
  <2>1. PICK b \in stale[s] : row' = [row EXCEPT ![b] = Offline(row[b])]
    BY <1>4 DEF MarkOffline
  <2>2. QED
    BY <1>1, <2>1 DEF RowsOK
<1>5. ASSUME NEW b \in Agents, Deregister(b) PROVE row'[a] = Deregistered(row[a])
  BY <1>1, <1>5 DEF RowsOK, Deregister
<1>6. \/ \E k \in Beats : Update(k) \/ Insert(k)
      \/ \E s \in Ticks : MarkOffline(s)
      \/ \E b \in Agents : Deregister(b)
  BY <1>1 DEF Next, BeatStep, UpsertFromHeartbeat, TickStep, vars, AdvanceClock,
     Receive, Register, Accept, Find, FindAgain, Fail, StartTick, ListRuntimes,
     FinishTick, TickFails, EndTick
<1>7. QED
  BY <1>2, <1>3, <1>4, <1>5, <1>6

(* A heartbeat that is older than the row never changes it: the row only   *)
(* advances, or is marked offline (heartbeatSession, markRuntimeStatus).   *)
THEOREM OldHeartbeatsAreIgnored == Spec => NeverOlder
<1>1. RowsOK /\ [Next]_vars =>
        [\A a \in Agents :
           row'[a] # row[a] => \/ row'[a].at > row[a].at
                               \/ row'[a] \in {Offline(row[a]), Deregistered(row[a])}]_vars
  BY HeartbeatsAdvance
<1>2. QED
  BY <1>1, RowsAreOK, PTL DEF Spec, NeverOlder

-----------------------------------------------------------------------------
(* An agent that has a row keeps one: its requests never come to the       *)
(* insertion, and one that was turned down by the UPDATE found a row that  *)
(* is no older than itself.                                                *)
HasRow(k) == beat[k].agent \in Registered
Kept ==
  /\ \A a \in Registered : Exists(a)
  /\ \A k \in Beats : beatPhase[k] \in {"insert", "find_again"} => ~HasRow(k)
  /\ \A k \in Beats :
       beatPhase[k] = "find" /\ HasRow(k) => row[beat[k].agent].at >= beat[k].at
  /\ \A b \in answers : b.agent \in Agents /\ b.at \in Nat
  /\ NewestKept

(* Times of rows do not go down, and requests under way are not changed.   *)
LEMMA TimesOnlyGrow ==
  ASSUME RowsOK, [Next]_vars
  PROVE  \A a \in Agents : row'[a].at >= row[a].at
<1>1. SUFFICES ASSUME NEW a \in Agents PROVE row'[a].at >= row[a].at
  OBVIOUS
<1>2. row[a] \in RowType /\ row'[a] \in RowType
  BY RowsOKNext DEF RowsOK
<1>3. CASE row'[a] = row[a]
  BY <1>2, <1>3 DEF RowType
<1>4. CASE row'[a].at > row[a].at
  BY <1>2, <1>4 DEF RowType
<1>5. CASE row'[a] \in {Offline(row[a]), Deregistered(row[a])}
  BY <1>2, <1>5, RowSteps DEF RowType
<1>6. QED
  BY <1>3, <1>4, <1>5, HeartbeatsAdvance

LEMMA KeptNext == RowsOK /\ Kept /\ [Next]_vars => Kept'
<1>1. SUFFICES ASSUME RowsOK, Kept, [Next]_vars PROVE Kept'
  OBVIOUS
<1>2. /\ \A a \in Agents : row'[a].at >= row[a].at /\ row'[a].at \in Nat /\ row[a].at \in Nat
      /\ Registered \subseteq Agents
  <2>1. row \in [Agents -> RowType] /\ row' \in [Agents -> RowType]
    BY <1>1, RowsOKNext DEF RowsOK
  <2>2. \A r \in RowType : r.at \in Nat
    BY DEF RowType
  <2>3. QED
    BY <1>1, <2>1, <2>2, TimesOnlyGrow, RegistryAssumption
<1>3. \A a \in Registered : Exists(a)'
  BY <1>1, <1>2 DEF Kept, Exists
<1>4. \A b \in answers : b.agent \in Registered => row'[b.agent].at >= b.at
  BY <1>1, <1>2 DEF Kept, NewestKept, KeptOf
<1>5. ASSUME NEW k \in Beats, beatPhase[k] = "find", HasRow(k)
      PROVE  row'[beat[k].agent].at >= beat[k].at
  <2>1. beat[k].agent \in Agents /\ beat[k].at \in Nat
    BY <1>1, <1>5 DEF RowsOK
  <2>2. QED
    BY <1>1, <1>2, <1>5, <2>1 DEF Kept
<1>6. ASSUME UNCHANGED <<beatPhase, beat, answers>> PROVE Kept'
  BY <1>1, <1>3, <1>4, <1>5, <1>6 DEF Kept, NewestKept, KeptOf, HasRow
<1>7. ASSUME NEW k \in Beats, Receive(k) \/ Register(k) PROVE Kept'
  <2>1. /\ UNCHANGED answers
        /\ \A j \in Beats : j # k => beatPhase'[j] = beatPhase[j] /\ beat'[j] = beat[j]
        /\ beatPhase'[k] = "update"
    BY <1>1, <1>7 DEF Receive, Register, Accept, RowsOK
  <2>2. \A j \in Beats : beatPhase'[j] # "update" => j # k
    BY <2>1
  <2>3. QED
    BY <1>1, <1>3, <1>4, <1>5, <2>1, <2>2 DEF Kept, NewestKept, KeptOf, HasRow
(* A step of a request, and what the next phase or the answer claims.      *)
<1>8. ASSUME NEW k \in Beats, NEW next \in BeatPhases, Moves(k, next), beatPhase[k] # "idle",
             answers' \in {answers, answers \cup {beat[k]}},
             HasRow(k) => next \in {"find", "idle"},
             HasRow(k) /\ (next = "find" \/ answers' # answers)
               => row'[beat[k].agent].at >= beat[k].at
      PROVE  Kept'
  <2>1. beat[k].agent \in Agents /\ beat[k].at \in Nat
    BY <1>1, <1>8 DEF RowsOK
  <2>2. /\ beatPhase'[k] = next
        /\ \A j \in Beats : j # k => beatPhase'[j] = beatPhase[j]
        /\ \A j \in Beats : beatPhase'[j] # "idle" => beat'[j] = beat[j]
    BY <1>1, <1>8, MovesKeep DEF RowsOK
  <2>3. ASSUME NEW j \in Beats, beatPhase'[j] = "find", HasRow(j)
        PROVE  row'[beat[j].agent].at >= beat[j].at
    <3>1. CASE j = k
      BY <1>8, <2>2, <2>3, <3>1
    <3>2. CASE j # k
      BY <1>5, <2>2, <2>3, <3>2
    <3>3. QED
      BY <3>1, <3>2
  <2>4. ASSUME NEW j \in Beats, beatPhase'[j] \in {"insert", "find_again"} PROVE ~HasRow(j)
    <3>1. CASE j = k
      BY <1>8, <2>2, <2>4, <3>1
    <3>2. CASE j # k
      BY <1>1, <2>2, <2>4, <3>2 DEF Kept
    <3>3. QED
      BY <3>1, <3>2
  <2>5. \A b \in answers' :
          /\ b.agent \in Agents /\ b.at \in Nat
          /\ b.agent \in Registered => row'[b.agent].at >= b.at
    <3>1. CASE answers' = answers
      BY <1>1, <1>4, <3>1 DEF Kept
    <3>2. CASE answers' # answers
      <4>1. answers' = answers \cup {beat[k]}
        BY <1>8, <3>2
      <4>2. HasRow(k) => row'[beat[k].agent].at >= beat[k].at
        BY <1>8, <3>2
      <4>3. QED
        BY <1>1, <1>4, <2>1, <4>1, <4>2 DEF Kept, HasRow
    <3>3. QED
      BY <3>1, <3>2
  <2>6. QED
    <3>1. \A j \in Beats :
            /\ beatPhase'[j] \in {"insert", "find_again"} => ~(beat'[j].agent \in Registered)
            /\ beatPhase'[j] = "find" /\ beat'[j].agent \in Registered
                 => row'[beat'[j].agent].at >= beat'[j].at
      BY <2>2, <2>3, <2>4 DEF HasRow
    <3>2. QED
      BY <1>3, <2>5, <3>1 DEF Kept, NewestKept, KeptOf, HasRow
<1>9. ASSUME NEW k \in Beats, Update(k) PROVE Kept'
  <2>1. /\ beatPhase[k] # "idle"
        /\ beat[k].agent \in Agents /\ beat[k].at \in Nat /\ row[beat[k].agent].at \in Nat
    <3>1. beatPhase[k] # "idle"
      BY <1>9 DEF Update
    <3>2. beat[k].agent \in Agents /\ beat[k].at \in Nat
      BY <1>1, <3>1 DEF RowsOK
    <3>3. QED
      BY <1>2, <3>1, <3>2
  <2>2. CASE /\ row' = [row EXCEPT ![beat[k].agent] = RowOf(beat[k])] /\ Answer(k)
    <3>1. row'[beat[k].agent].at = beat[k].at
      BY <1>1, <2>1, <2>2 DEF RowsOK, RowOf
    <3>2. QED
      BY <1>8, <2>1, <2>2, <3>1 DEF Answer, BeatPhases, Moves
  <2>3. CASE ~Newer(beat[k]) /\ GoTo(k, "find") /\ UNCHANGED <<row, answers>>
    <3>1. HasRow(k) => row'[beat[k].agent].at >= beat[k].at
      BY <1>1, <2>1, <2>3 DEF Newer, Kept, HasRow
    <3>2. QED
      BY <1>8, <2>1, <2>3, <3>1 DEF BeatPhases, Moves
  <2>4. QED
    BY <1>9, <2>2, <2>3 DEF Update
<1>10. ASSUME NEW k \in Beats, Find(k) PROVE Kept'
  <2>1. beatPhase[k] = "find" /\ UNCHANGED row
    BY <1>10 DEF Find
  <2>2. CASE Answer(k)
    BY <1>5, <1>8, <2>1, <2>2 DEF Answer, BeatPhases, Moves
  <2>3. CASE ~Exists(beat[k].agent) /\ GoTo(k, "insert") /\ UNCHANGED answers
    <3>1. ~HasRow(k)
      BY <1>1, <2>3 DEF Kept, HasRow
    <3>2. QED
      BY <1>8, <2>1, <2>3, <3>1 DEF BeatPhases, Moves
  <2>4. QED
    BY <1>10, <2>2, <2>3 DEF Find
<1>11. ASSUME NEW k \in Beats, Fail(k) PROVE Kept'
  BY <1>8, <1>11 DEF Fail, BeatPhases, Moves
<1>12. ASSUME NEW k \in Beats, Insert(k) \/ FindAgain(k) PROVE Kept'
  <2>1. beatPhase[k] \in {"insert", "find_again"} /\ ~HasRow(k)
    BY <1>1, <1>12 DEF Insert, FindAgain, Kept
  <2>2. /\ answers' \in {answers, answers \cup {beat[k]}}
        /\ Moves(k, "find_again") \/ Moves(k, "idle")
    BY <1>12 DEF Insert, FindAgain, Answer, Moves
  <2>3. QED
    BY <1>8, <2>1, <2>2 DEF BeatPhases
<1>13. (\E k \in Beats : BeatStep(k)) \/ UNCHANGED <<beatPhase, beat, answers>>
  BY <1>1 DEF Next, TickStep, AdvanceClock, StartTick, ListRuntimes, Deregister,
     MarkOffline, FinishTick, TickFails, EndTick, vars, beatVars
<1>14. QED
  BY <1>6, <1>7, <1>9, <1>10, <1>11, <1>12, <1>13 DEF BeatStep, UpsertFromHeartbeat

(* A heartbeat of an agent that has a row, once answered, is in its row or *)
(* a newer one is, whatever heartbeats and worker ticks race (the UPDATE   *)
(* of heartbeatSession compares the times itself).                         *)
THEOREM AnsweredHeartbeatsAreKept == Spec => []NewestKept
<1>1. Init => Kept
  <2>1. SUFFICES ASSUME Init PROVE Kept
    OBVIOUS
  <2>2. \A a \in Registered : row[a] = FirstRow
    BY <2>1, RegistryAssumption DEF Init
  <2>3. \A a \in Registered : Exists(a)
    BY <2>2 DEF Exists, FirstRow
  <2>4. answers = {} /\ \A k \in Beats : beatPhase[k] = "idle"
    BY <2>1 DEF Init
  <2>5. QED
    BY <2>3, <2>4 DEF Kept, NewestKept
<1>2. RowsOK /\ Kept /\ [Next]_vars => Kept'
  BY KeptNext
<1>3. Kept => NewestKept
  BY DEF Kept
<1>4. QED
  BY <1>1, <1>2, <1>3, RowsAreOK, PTL DEF Spec
=============================================================================
