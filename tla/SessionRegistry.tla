--------------------------- MODULE SessionRegistry ---------------------------
(***************************************************************************)
(* The table session_registry: heartbeat_session of the bridge API writes  *)
(* it (app.ts, session-store.ts), registrations and heartbeats of the      *)
(* worker's runtime registry do (upsertFromHeartbeat of runtime-registry.ts*)
(* makes the same statements), the second stage of every worker tick marks *)
(* stale sessions offline, and a deregistration does so at once.           *)
(*                                                                         *)
(* A heartbeat is a slot for a request under way, a tick a slot for one    *)
(* call of reconcileWorkspaceRuntimes; their phases are the awaits.  Time  *)
(* starts at 1, so that 0 can stand for an agent without a row.  Of a row  *)
(* the heartbeat that wrote it is kept, by number, with its time, its      *)
(* status, and its mode: whether the session is managed and whether it is  *)
(* resumable.  The other columns come with the heartbeat.                  *)
(*                                                                         *)
(* answers is a history of the requests that were answered with success.   *)
(*                                                                         *)
(* An operator with "Wrong" in its name is the definition after it with a  *)
(* plausible mistake in the code.                                          *)
(***************************************************************************)
EXTENDS Naturals

CONSTANTS
  Agents, Registered,     \* agents, those with a row from the start
  Beats, Ticks,           \* requests under way, worker ticks
  Reported,               \* statuses and modes that heartbeats report
  StaleAfter,             \* units of time without a heartbeat
  MaxTime, MaxBeats,      \* bounds: last clock value, requests ever made
  MaxFaults               \* bound: failed ticks

SessionStatuses == {"active", "idle", "offline"}
Mode == [managed : BOOLEAN, resumable : BOOLEAN]

ASSUME RegistryAssumption ==
  /\ Registered \subseteq Agents
  /\ Reported \subseteq [status : SessionStatuses, mode : Mode]
  /\ StaleAfter \in Nat /\ MaxTime \in Nat \ {0} /\ MaxBeats \in Nat
  /\ MaxFaults \in Nat

VARIABLES
  clock, row,
  beatPhase, beat, beats,        \* requests
  phase, reconciledAt, stale,    \* ticks: stale[s] are still to be marked
  answers, faults

beatVars == <<beatPhase, beat, beats>>
tickVars == <<phase, reconciledAt, stale>>
vars == <<clock, row, beatVars, tickVars, answers, faults>>

Time == 1 .. MaxTime
Beat == [no : 1 .. MaxBeats, agent : Agents, at : Time, status : SessionStatuses,
         mode : Mode]
Managed == [managed |-> TRUE, resumable |-> TRUE]
Rows == [no : 0 .. MaxBeats, at : 0 .. MaxTime, status : SessionStatuses, mode : Mode]
NoRow == [no |-> 0, at |-> 0, status |-> "offline", mode |-> Managed]
FirstRow == [no |-> 0, at |-> 1, status |-> "idle", mode |-> Managed]
RowOf(b) == [no |-> b.no, at |-> b.at, status |-> b.status, mode |-> b.mode]

NoBeat == [no |-> 0]

BeatPhases == {"idle", "update", "find", "insert", "find_again"}
Phases == {"idle", "listing", "marking"}

Exists(a) == row[a].at # 0

(* isSessionStale.                                                         *)
IsStale(r, at) == at - r.at > StaleAfter

Init ==
  /\ clock = 1
  /\ row = [a \in Agents |-> IF a \in Registered THEN FirstRow ELSE NoRow]
  /\ beatPhase = [k \in Beats |-> "idle"]
  /\ beat = [k \in Beats |-> NoBeat]
  /\ beats = 0
  /\ phase = [s \in Ticks |-> "idle"]
  /\ reconciledAt = [s \in Ticks |-> 1]
  /\ stale = [s \in Ticks |-> {}]
  /\ answers = {} /\ faults = 0

AdvanceClock ==
  /\ clock < MaxTime
  /\ clock' = clock + 1
  /\ UNCHANGED <<row, beatVars, tickVars, answers, faults>>

-----------------------------------------------------------------------------
(* Heartbeats.                                                             *)

Accept(k, b) ==
  /\ beatPhase[k] = "idle"
  /\ beats < MaxBeats
  /\ beats' = beats + 1
  /\ b.no = beats + 1
  /\ [status |-> b.status, mode |-> b.mode] \in Reported
  /\ beat' = [beat EXCEPT ![k] = b]
  /\ beatPhase' = [beatPhase EXCEPT ![k] = "update"]
  /\ UNCHANGED <<clock, row, tickVars, answers, faults>>

(* heartbeat_session of the API: the time is the server's.                 *)
Receive(k) == \E b \in Beat : b.at = clock /\ Accept(k, b)

(* registerRuntime and heartbeatRuntime of the worker: the caller may give *)
(* an earlier time, and a registration is idle unless it says otherwise.   *)
Register(k) == \E b \in Beat : b.at <= clock /\ Accept(k, b)

GoTo(k, next) ==
  /\ beatPhase' = [beatPhase EXCEPT ![k] = next]
  /\ UNCHANGED <<beat, beats>>

Finish(k) ==
  /\ beatPhase' = [beatPhase EXCEPT ![k] = "idle"]
  /\ beat' = [beat EXCEPT ![k] = NoBeat]
  /\ UNCHANGED beats

(* The request is answered with the row that was written or found.         *)
Answer(k) ==
  /\ answers' = answers \cup {beat[k]}
  /\ Finish(k)

(* UPDATE ... WHERE last_heartbeat_at < the time of this heartbeat.        *)
NewerWrongAlways(b) == Exists(b.agent)
Newer(b) == Exists(b.agent) /\ row[b.agent].at < b.at

Update(k) ==
  /\ beatPhase[k] = "update"
  /\ \/ /\ Newer(beat[k])
        /\ row' = [row EXCEPT ![beat[k].agent] = RowOf(beat[k])]
        /\ Answer(k)
     \/ /\ ~Newer(beat[k])
        /\ GoTo(k, "find")
        /\ UNCHANGED <<row, answers>>
  /\ UNCHANGED <<clock, tickVars, faults>>

Find(k) ==
  /\ beatPhase[k] = "find"
  /\ \/ /\ Exists(beat[k].agent)
        /\ Answer(k)
     \/ /\ ~Exists(beat[k].agent)
        /\ GoTo(k, "insert")
        /\ UNCHANGED answers
  /\ UNCHANGED <<clock, row, tickVars, faults>>

(* INSERT ... ON CONFLICT DO NOTHING.                                      *)
Insert(k) ==
  /\ beatPhase[k] = "insert"
  /\ row' = [row EXCEPT ![beat[k].agent] =
               IF Exists(beat[k].agent) THEN @ ELSE RowOf(beat[k])]
  /\ GoTo(k, "find_again")
  /\ UNCHANGED <<clock, tickVars, answers, faults>>

FindAgain(k) ==
  /\ beatPhase[k] = "find_again"
  /\ Exists(beat[k].agent)
  /\ Answer(k)
  /\ UNCHANGED <<clock, row, tickVars, faults>>

(* A query fails, the new row is turned down for a session id that another *)
(* agent has, or the process of the API stops: no answer.                  *)
Fail(k) ==
  /\ beatPhase[k] # "idle"
  /\ Finish(k)
  /\ UNCHANGED <<clock, row, tickVars, answers, faults>>

-----------------------------------------------------------------------------
(* reconcileWorkspaceRuntimes.                                             *)

(* The tick took its time stamp; other stages come before the listing.     *)
StartTick(s) ==
  /\ phase[s] = "idle"
  /\ phase' = [phase EXCEPT ![s] = "listing"]
  /\ reconciledAt' = [reconciledAt EXCEPT ![s] = clock]
  /\ UNCHANGED <<clock, row, beatVars, stale, answers, faults>>

ToMarkWrongActiveOnly(s) ==
  {a \in Agents : Exists(a) /\ row[a].status = "active" /\ IsStale(row[a], reconciledAt[s])}
ToMark(s) ==
  {a \in Agents : Exists(a) /\ row[a].status # "offline" /\ IsStale(row[a], reconciledAt[s])}

ListRuntimes(s) ==
  /\ phase[s] = "listing"
  /\ phase' = [phase EXCEPT ![s] = "marking"]
  /\ stale' = [stale EXCEPT ![s] = ToMark(s)]
  /\ UNCHANGED <<clock, row, beatVars, reconciledAt, answers, faults>>

(* markRuntimeStatus: the row as it is by now becomes offline.             *)
Offline(r) == [r EXCEPT !.status = "offline"]

MarkOffline(s) ==
  /\ phase[s] = "marking"
  /\ \E a \in stale[s] :
       /\ row' = [row EXCEPT ![a] = Offline(row[a])]
       /\ stale' = [stale EXCEPT ![s] = @ \ {a}]
  /\ UNCHANGED <<clock, beatVars, phase, reconciledAt, answers, faults>>

(* All are marked, or a query failed: the stage is over.                   *)
EndTick(s) ==
  /\ phase' = [phase EXCEPT ![s] = "idle"]
  /\ reconciledAt' = [reconciledAt EXCEPT ![s] = 1]
  /\ stale' = [stale EXCEPT ![s] = {}]
  /\ UNCHANGED <<clock, row, beatVars, answers>>

FinishTick(s) ==
  /\ phase[s] = "marking" /\ stale[s] = {}
  /\ EndTick(s)
  /\ UNCHANGED faults

TickFails(s) ==
  /\ phase[s] # "idle"
  /\ faults < MaxFaults
  /\ faults' = faults + 1
  /\ EndTick(s)

-----------------------------------------------------------------------------
(* deregisterRuntime: an agent that has a row is taken offline at once,    *)
(* and its session is not to be resumed.                                   *)
NotResumable(mode) == [mode EXCEPT !.resumable = FALSE]
Deregistered(r) == [Offline(r) EXCEPT !.mode = NotResumable(r.mode)]

Deregister(a) ==
  /\ Exists(a)
  /\ row' = [row EXCEPT ![a] = Deregistered(row[a])]
  /\ UNCHANGED <<clock, beatVars, tickVars, answers, faults>>

-----------------------------------------------------------------------------
(* upsertFromHeartbeat, and heartbeatSession which is the same.            *)
UpsertFromHeartbeat(k) == Update(k) \/ Find(k) \/ Insert(k) \/ FindAgain(k)

BeatStep(k) == Receive(k) \/ Register(k) \/ UpsertFromHeartbeat(k) \/ Fail(k)
TickStep(s) ==
  \/ StartTick(s) \/ ListRuntimes(s) \/ MarkOffline(s) \/ FinishTick(s)

Next ==
  \/ AdvanceClock
  \/ \E k \in Beats : BeatStep(k)
  \/ \E a \in Agents : Deregister(a)
  \/ \E s \in Ticks : TickStep(s) \/ TickFails(s)

Spec == Init /\ [][Next]_vars

(* setInterval keeps starting ticks, and their queries return.             *)
FairSpec == Spec /\ \A s \in Ticks : WF_vars(TickStep(s))

-----------------------------------------------------------------------------
TypeOK ==
  /\ clock \in Time
  /\ row \in [Agents -> Rows]
  /\ beatPhase \in [Beats -> BeatPhases]
  /\ \A k \in Beats : beatPhase[k] # "idle" => beat[k] \in Beat
  /\ beats \in 0 .. MaxBeats
  /\ phase \in [Ticks -> Phases]
  /\ reconciledAt \in [Ticks -> Time]
  /\ stale \in [Ticks -> SUBSET Agents]
  /\ answers \subseteq Beat /\ faults \in 0 .. MaxFaults

(* A heartbeat that was answered is in the row, or a newer one is: the     *)
(* UPDATE compares the times in one statement, whatever overtakes what.    *)
(* Of an agent that has a row: two first heartbeats race for one insertion *)
(* and the one that comes second is dropped, even if it is the newer one.  *)
KeptOf(b) == row[b.agent].at >= b.at
NewestKept == \A b \in answers : b.agent \in Registered => KeptOf(b)

(* A row is as its newest heartbeat left it, or it was taken offline: an   *)
(* old heartbeat never brings an old status back after a newer one.        *)
NeverOlder ==
  [][\A a \in Agents :
       row'[a] # row[a] => \/ row'[a].at > row[a].at
                           \/ row'[a] \in {Offline(row[a]), Deregistered(row[a])}]_vars

(* A session without heartbeats does not stay registered as available: it  *)
(* is marked offline, unless a heartbeat arrives.                          *)
StaleExpires ==
  \A a \in Agents : \A n \in 0 .. MaxBeats :
    (Exists(a) /\ row[a].no = n /\ IsStale(row[a], clock))
      ~> (row[a].no # n \/ row[a].status = "offline")
=============================================================================
