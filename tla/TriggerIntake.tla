---------------------------- MODULE TriggerIntake ----------------------------
(***************************************************************************)
(* trigger_participant of the bridge API (app.ts, trigger-store.ts) beside *)
(* the session registry it decides from and the worker that works off what *)
(* it inserts.                                                             *)
(*                                                                         *)
(* A call is a slot for one request; its phases are the awaits.  The id of *)
(* a request is the client's x-request-id, from which the trigger id is    *)
(* made, so a retry carries the id of the first try.  A payload stands for *)
(* what a replay compares besides the target agent: the thread and its     *)
(* workspace, reason and prompt.  The thread was found and the target is a *)
(* participant, which no operation changes.  A session is known by the     *)
(* number of the heartbeat that its row is from; a null session id is      *)
(* NoSession.                                                              *)
(*                                                                         *)
(* The worker is what TriggerLifecycle promises of it, with the statuses   *)
(* of the table: module TriggerQueue has its ticks.                        *)
(*                                                                         *)
(* told, known, gone and taken are histories: the answers that clients     *)
(* got; of a call the heartbeats of its target that were answered before   *)
(* it was received, and those whose session was taken offline by then; and *)
(* every heartbeat whose session was taken offline.                        *)
(***************************************************************************)
EXTENDS SessionRegistry

CONSTANTS
  Calls,              \* requests under way
  Ids, Payloads,      \* request ids, and what is asked
  NoSession,          \* a null target_session_id
  Recorded,           \* the statuses that attempts leave
  MaxCalls,           \* bound: requests ever received
  MaxRequests         \* bound: requests and heartbeats together

DueStatuses == {"queued", "timeout", "deferred"}
FallbackStatuses == {"fallback_resume", "fallback_spawn"}
SettledStatuses == {"delivered", "failed"} \cup FallbackStatuses
JobStatuses == DueStatuses \cup SettledStatuses \cup {"triggering"}

ASSUME IntakeAssumption ==
  /\ Recorded \subseteq {"timeout", "deferred"} \cup SettledStatuses
  /\ NoSession \notin 0 .. MaxBeats
  /\ MaxCalls \in Nat /\ MaxRequests \in Nat

VARIABLES
  callPhase, call, seen, reply, calls,  \* requests; seen[c] is the session read
  jobs,                                 \* trigger_jobs, by request id
  told, taken

callVars == <<callPhase, call, seen, reply, calls>>
intakeVars == <<vars, callVars, jobs, told, taken>>

CallPhases == {"idle", "session", "insert", "find", "audit"}

Sessions == (0 .. MaxBeats) \cup {NoSession}
Job == [status : JobStatuses, agent : Agents, payload : Payloads, session : Sessions,
        at : Time]
NoJob == [status |-> "absent"]

Actions == {"trigger_runtime", "resume_session", "spawn_session"}
Call == [id : Ids, agent : Agents, payload : Payloads, at : Time,
         known : SUBSET Beat, gone : SUBSET (0 .. MaxBeats)]
NoCall == [id |-> "none"]
Reply == [id : Ids, agent : Agents, payload : Payloads,
          action : Actions \cup {"idempotency_conflict"}, session : Sessions, at : Time]
NoReply == [id |-> "none"]

IntakeInit ==
  /\ Init
  /\ callPhase = [c \in Calls |-> "idle"]
  /\ call = [c \in Calls |-> NoCall]
  /\ seen = [c \in Calls |-> NoRow]
  /\ reply = [c \in Calls |-> NoReply]
  /\ calls = 0
  /\ jobs = [i \in Ids |-> NoJob]
  /\ told = {} /\ taken = {}

-----------------------------------------------------------------------------
(* trigger_participant.                                                    *)

Ask(c) ==
  /\ callPhase[c] = "idle"
  /\ calls < MaxCalls /\ calls + beats < MaxRequests
  /\ calls' = calls + 1
  /\ \E i \in Ids, a \in Agents, p \in Payloads :
       call' = [call EXCEPT ![c] =
         [id |-> i, agent |-> a, payload |-> p, at |-> clock,
          known |-> {b \in answers : b.agent = a},
          gone |-> {n \in 0 .. MaxBeats : <<a, n>> \in taken}]]
  /\ callPhase' = [callPhase EXCEPT ![c] = "session"]
  /\ UNCHANGED <<vars, seen, reply, jobs, told, taken>>

Enter(c, next) == callPhase' = [callPhase EXCEPT ![c] = next]

EndCall(c) ==
  /\ Enter(c, "idle")
  /\ call' = [call EXCEPT ![c] = NoCall]
  /\ seen' = [seen EXCEPT ![c] = NoRow]
  /\ reply' = [reply EXCEPT ![c] = NoReply]
  /\ UNCHANGED calls

ReadSession(c) ==
  /\ callPhase[c] = "session"
  /\ Enter(c, "insert")
  /\ seen' = [seen EXCEPT ![c] = row[call[c].agent]]
  /\ UNCHANGED <<vars, call, reply, calls, jobs, told, taken>>

(* resolveTriggerDecision: the status a new job is inserted with, for the  *)
(* session r that was read by a request of time at.                        *)
DecisionWrongOffline(r, at) ==
  LET found == r.at # 0
      fresh == found /\ ~IsStale(r, at)
  IN  IF fresh /\ r.mode.managed THEN "queued"
      ELSE IF fresh /\ r.mode.resumable THEN "fallback_resume" ELSE "fallback_spawn"
DecisionWrongAction(r, at) ==
  LET found == r.at # 0
      fresh == found /\ ~IsStale(r, at)
  IN  IF fresh /\ r.mode.managed /\ r.status # "offline" THEN "queued"
      ELSE IF fresh /\ r.mode.resumable THEN "resume_session" ELSE "spawn_session"
Decision(r, at) ==
  LET found == r.at # 0
      fresh == found /\ ~IsStale(r, at)
  IN  IF fresh /\ r.mode.managed /\ r.status # "offline" THEN "queued"
      ELSE IF fresh /\ r.mode.resumable THEN "fallback_resume" ELSE "fallback_spawn"

JobOf(c) ==
  [status |-> Decision(seen[c], call[c].at), agent |-> call[c].agent,
   payload |-> call[c].payload, at |-> call[c].at,
   session |-> IF seen[c].at = 0 THEN NoSession ELSE seen[c].no]

(* toDecisionFromJobStatus.                                                *)
ActionOf(status) ==
  CASE status = "fallback_resume" -> "resume_session"
    [] status = "fallback_spawn"  -> "spawn_session"
    [] OTHER                      -> "trigger_runtime"

(* The answer is made from the record, then the audit row is written.      *)
ComposeWrongDecides(c, job) ==
  /\ Enter(c, "audit")
  /\ reply' = [reply EXCEPT ![c] =
       [id |-> call[c].id, agent |-> call[c].agent, payload |-> call[c].payload,
        action |-> ActionOf(Decision(seen[c], call[c].at)), session |-> job.session,
        at |-> job.at]]
  /\ UNCHANGED <<call, seen, calls>>
Compose(c, job) ==
  /\ Enter(c, "audit")
  /\ reply' = [reply EXCEPT ![c] =
       [id |-> call[c].id, agent |-> call[c].agent, payload |-> call[c].payload,
        action |-> ActionOf(job.status), session |-> job.session, at |-> job.at]]
  /\ UNCHANGED <<call, seen, calls>>

(* INSERT ... ON CONFLICT DO NOTHING.                                      *)
VacantWrongSettled(i) == jobs[i] = NoJob \/ jobs[i].status \in SettledStatuses
Vacant(i) == jobs[i] = NoJob

InsertJob(c) ==
  /\ callPhase[c] = "insert"
  /\ \/ /\ Vacant(call[c].id)
        /\ jobs' = [jobs EXCEPT ![call[c].id] = JobOf(c)]
        /\ Compose(c, JobOf(c))
     \/ /\ ~Vacant(call[c].id)
        /\ Enter(c, "find")
        /\ UNCHANGED <<call, seen, reply, calls, jobs>>
  /\ UNCHANGED <<vars, told, taken>>

(* The row is stored, but the call ends without an answer: the connection  *)
(* is lost, or the process of the API stops.                               *)
InsertUnreported(c) ==
  /\ callPhase[c] = "insert"
  /\ Vacant(call[c].id)
  /\ jobs' = [jobs EXCEPT ![call[c].id] = JobOf(c)]
  /\ EndCall(c)
  /\ UNCHANGED <<vars, told, taken>>

(* hasTriggerReplayMatch.                                                  *)
ReplayMatchWrongPayload(c, job) == job.agent = call[c].agent
ReplayMatch(c, job) == job.agent = call[c].agent /\ job.payload = call[c].payload

(* The job of an earlier request with this id, as the worker left it by    *)
(* now; of another payload it is a conflict.                               *)
FindJob(c) ==
  LET i == call[c].id
  IN  /\ callPhase[c] = "find"
      /\ \/ /\ ReplayMatch(c, jobs[i])
            /\ Compose(c, jobs[i])
            /\ UNCHANGED told
         \/ /\ ~ReplayMatch(c, jobs[i])
            /\ told' = told \cup
                 {[id |-> i, agent |-> call[c].agent, payload |-> call[c].payload,
                   action |-> "idempotency_conflict",
                   session |-> jobs[i].session, at |-> jobs[i].at]}
            /\ EndCall(c)
      /\ UNCHANGED <<vars, jobs, taken>>

(* The audit row is written or could not be: the answer goes out.          *)
Respond(c) ==
  /\ callPhase[c] = "audit"
  /\ told' = told \cup {reply[c]}
  /\ EndCall(c)
  /\ UNCHANGED <<vars, jobs, taken>>

(* A query fails, the connection is lost, or the API stops: no answer.     *)
CallFails(c) ==
  /\ callPhase[c] # "idle"
  /\ EndCall(c)
  /\ UNCHANGED <<vars, jobs, told, taken>>

-----------------------------------------------------------------------------
(* The worker, as far as requests see it.                                  *)

SetStatus(i, status) ==
  /\ jobs' = [jobs EXCEPT ![i].status = status]
  /\ UNCHANGED <<vars, callVars, told, taken>>

ClaimJob(i) == jobs[i].status \in DueStatuses /\ SetStatus(i, "triggering")

RecordJob(i) ==
  /\ jobs[i].status = "triggering"
  /\ \E status \in Recorded : SetStatus(i, status)

-----------------------------------------------------------------------------
(* A step of the registry, and the sessions it takes offline: their rows   *)
(* change and stay those of the same heartbeat.                            *)
TakenOffline == {<<a, row[a].no>> : a \in {x \in Agents : /\ row'[x] # row[x]
                                                          /\ row'[x].no = row[x].no}}
RegistryStep ==
  /\ Next
  /\ calls + beats' <= MaxRequests
  /\ taken' = taken \cup TakenOffline
  /\ UNCHANGED <<callVars, jobs, told>>

CallStep(c) ==
  \/ Ask(c) \/ ReadSession(c) \/ InsertJob(c) \/ InsertUnreported(c) \/ FindJob(c)
  \/ Respond(c) \/ CallFails(c)

IntakeNext ==
  \/ RegistryStep
  \/ \E c \in Calls : CallStep(c)
  \/ \E i \in Ids : ClaimJob(i) \/ RecordJob(i)

IntakeSpec == IntakeInit /\ [][IntakeNext]_intakeVars

-----------------------------------------------------------------------------
IntakeTypeOK ==
  /\ TypeOK
  /\ callPhase \in [Calls -> CallPhases]
  /\ call \in [Calls -> Call \cup {NoCall}]
  /\ \A c \in Calls : callPhase[c] # "idle" <=> call[c] \in Call
  /\ seen \in [Calls -> Rows]
  /\ reply \in [Calls -> Reply \cup {NoReply}]
  /\ \A c \in Calls : callPhase[c] = "audit" <=> reply[c] \in Reply
  /\ calls \in 0 .. MaxCalls
  /\ jobs \in [Ids -> Job \cup {NoJob}]
  /\ told \subseteq Reply
  /\ taken \subseteq Agents \X (0 .. MaxBeats)

(* What a client was told stays true, however often and concurrently it    *)
(* repeats a request: a success names the one job of its request id, with  *)
(* the target, payload, session and time of its insertion; and a conflict  *)
(* is answered exactly when that job was asked for with another target or  *)
(* payload (createOrReuseTriggerJob, hasTriggerReplayMatch).               *)
AnswersTrue ==
  \A t \in told :
    /\ jobs[t.id] # NoJob
    /\ t.session = jobs[t.id].session /\ t.at = jobs[t.id].at
    /\ t.action = "idempotency_conflict" <=>
         <<t.agent, t.payload>> # <<jobs[t.id].agent, jobs[t.id].payload>>

(* Callers that repeat one request are never sent two ways: if one is told *)
(* to resume the agent's session, no other is told to spawn one, although  *)
(* each has read the session anew and the worker may have fallen back in   *)
(* between (toDecisionFromJobStatus).  It does not say that the agent is   *)
(* woken once: a caller that repeats its request after the worker spawned  *)
(* a session is told to spawn one.                                         *)
HandsOver(t) == t.action \in {"resume_session", "spawn_session"}

OneInstruction ==
  \A t, u \in told : t.id = u.id /\ HandsOver(t) /\ HandsOver(u) => t.action = u.action

(* No request changes a job that is stored, whatever the worker is doing   *)
(* with it, and no step of the worker changes what was asked for.          *)
Asked(job) == [agent |-> job.agent, payload |-> job.payload, session |-> job.session,
               at |-> job.at]
JobsAreKept ==
  [][\A i \in Ids : jobs[i] # NoJob =>
       /\ jobs'[i] # NoJob /\ Asked(jobs'[i]) = Asked(jobs[i])
       /\ jobs'[i] # jobs[i] => callPhase' = callPhase]_intakeVars

-----------------------------------------------------------------------------
(* The decision, which is taken from one reading of a row that others      *)
(* write.                                                                  *)
Creates(c) ==
  /\ callPhase[c] = "insert" /\ callPhase'[c] # "insert"
  /\ jobs'[call[c].id] # jobs[call[c].id]

(* A job is queued for the runtime only if the target's session is one     *)
(* that nothing had taken offline when the request was received: no tick,  *)
(* no deregistration, and no old heartbeat that came late.                 *)
QueuedWasReachable ==
  [][\A c \in Calls : Creates(c) /\ jobs'[call[c].id].status = "queued" =>
       /\ jobs'[call[c].id].session \in (0 .. MaxBeats) \ call[c].gone
       /\ \A b \in call[c].known :
            b.agent \in Registered => b.at <= seen[c].at]_intakeVars

(* A request hands the agent to the fallback although the agent's last     *)
(* heartbeat that was answered before says that it can be reached, only if *)
(* a newer heartbeat replaced it, or its session was taken offline since.  *)
Reachable(b, at) ==
  b.mode.managed /\ b.status # "offline" /\ ~IsStale(RowOf(b), at)

FallbackEarned ==
  [][\A c \in Calls : Creates(c) /\ jobs'[call[c].id].status \in FallbackStatuses =>
       \A b \in call[c].known :
         b.agent \in Registered /\ Reachable(b, call[c].at) =>
           \/ seen[c].no # b.no /\ seen[c].at >= b.at
           \/ <<b.agent, b.no>> \in taken]_intakeVars
=============================================================================
