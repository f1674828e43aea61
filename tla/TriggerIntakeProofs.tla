------------------------- MODULE TriggerIntakeProofs -------------------------
(***************************************************************************)
(* What holds of the trigger intake for any agents, requests, payloads and *)
(* bounds.                                                                 *)
(***************************************************************************)
EXTENDS TriggerIntake, SessionRegistryProofs

(* Beside requests and the worker's jobs the registry takes its own steps. *)
LEMMA RegistrySteps == [IntakeNext]_intakeVars => [Next]_vars
<1>1. SUFFICES ASSUME IntakeNext PROVE [Next]_vars
  BY DEF intakeVars
<1>2. CASE RegistryStep
  BY <1>2 DEF RegistryStep
<1>3. ASSUME NEW c \in Calls, CallStep(c) PROVE UNCHANGED vars
  BY <1>3 DEF CallStep, Ask, ReadSession, InsertJob, InsertUnreported, FindJob, Respond,
     CallFails
<1>4. ASSUME NEW i \in Ids, ClaimJob(i) \/ RecordJob(i) PROVE UNCHANGED vars
  BY <1>4 DEF ClaimJob, RecordJob, SetStatus
<1>5. QED
  BY <1>1, <1>2, <1>3, <1>4 DEF IntakeNext

LEMMA RegistryBehaves == IntakeSpec => Spec
  BY RegistrySteps, PTL DEF IntakeSpec, IntakeInit, Spec

-----------------------------------------------------------------------------
(* Jobs and requests.                                                      *)

JobType == [status : JobStatuses, agent : Agents, payload : Payloads,
            session : Nat \cup {NoSession}, at : Nat]
Under(c) == callPhase[c] # "idle"

IntakeOK ==
  /\ callPhase \in [Calls -> CallPhases]
  /\ DOMAIN call = Calls /\ DOMAIN reply = Calls
  /\ seen \in [Calls -> RowType]
  /\ jobs \in [Ids -> JobType \cup {NoJob}]
  /\ \A c \in Calls : Under(c) =>
       /\ call[c].id \in Ids /\ call[c].agent \in Agents
       /\ call[c].payload \in Payloads /\ call[c].at \in Nat

(* Every job is one of the table, none is the missing one.                 *)
LEMMA JobsAreJobs ==
  /\ NoJob \notin JobType
  /\ \A j \in JobType : j.status \in JobStatuses /\ j # NoJob
<1>1. \A j \in JobType : j.status \in JobStatuses
  BY DEF JobType
<1>2. NoJob.status = "absent" /\ "absent" \notin JobStatuses
  BY DEF NoJob, JobStatuses, DueStatuses, SettledStatuses, FallbackStatuses
<1>3. QED
  BY <1>1, <1>2

LEMMA NewJobs ==
  ASSUME IntakeOK, NEW c \in Calls, Under(c)
  PROVE  JobOf(c) \in JobType
<1>1. /\ seen[c].no \in Nat /\ call[c].agent \in Agents
      /\ call[c].payload \in Payloads /\ call[c].at \in Nat
  BY DEF IntakeOK, RowType
<1>2. Decision(seen[c], call[c].at) \in JobStatuses
  BY DEF Decision, JobStatuses, DueStatuses, SettledStatuses, FallbackStatuses
<1>3. QED
  BY <1>1, <1>2 DEF JobOf, JobType

(* The only changes of the table: a request inserts the job of a new id,   *)
(* the worker sets the status of one that is there, due or under way.      *)
JobsStep ==
  \/ UNCHANGED jobs
  \/ \E c \in Calls : /\ Under(c) /\ Vacant(call[c].id)
                      /\ jobs' = [jobs EXCEPT ![call[c].id] = JobOf(c)]
  \/ \E i \in Ids, status \in JobStatuses :
       /\ jobs[i].status \in DueStatuses \cup {"triggering"}
       /\ jobs' = [jobs EXCEPT ![i].status = status]
       /\ callPhase' = callPhase

LEMMA JobsSteps == [IntakeNext]_intakeVars => JobsStep
<1>1. SUFFICES ASSUME [IntakeNext]_intakeVars PROVE JobsStep
  OBVIOUS
<1>2. CASE UNCHANGED intakeVars
  BY <1>2 DEF intakeVars, JobsStep
<1>3. CASE RegistryStep
  BY <1>3 DEF RegistryStep, JobsStep
<1>4. ASSUME NEW c \in Calls, CallStep(c) PROVE JobsStep
  BY <1>4 DEF CallStep, Ask, ReadSession, InsertJob, InsertUnreported, FindJob, Respond,
     CallFails, JobsStep, Under
<1>5. ASSUME NEW i \in Ids, ClaimJob(i) \/ RecordJob(i) PROVE JobsStep
  <2>1. "triggering" \in JobStatuses /\ Recorded \subseteq JobStatuses
    BY IntakeAssumption DEF JobStatuses, DueStatuses
  <2>2. QED
    BY <1>5, <2>1 DEF ClaimJob, RecordJob, SetStatus, callVars, JobsStep
<1>6. QED
  BY <1>1, <1>2, <1>3, <1>4, <1>5 DEF IntakeNext

(* What a step leaves of a job that is stored.                             *)
Keeps(i) ==
  /\ jobs'[i] \in JobType /\ Asked(jobs'[i]) = Asked(jobs[i])
  /\ jobs'[i].agent = jobs[i].agent /\ jobs'[i].payload = jobs[i].payload
  /\ jobs'[i].session = jobs[i].session /\ jobs'[i].at = jobs[i].at
  /\ jobs[i].status \in FallbackStatuses => jobs'[i] = jobs[i]
  /\ jobs'[i] # jobs[i] => callPhase' = callPhase

LEMMA StoredJobs ==
  ASSUME IntakeOK, JobsStep
  PROVE  /\ jobs' \in [Ids -> JobType \cup {NoJob}]
         /\ \A i \in Ids : jobs[i] # NoJob => Keeps(i)
<1>1. CASE UNCHANGED jobs
  BY <1>1 DEF IntakeOK, Keeps
<1>2. ASSUME NEW c \in Calls, Under(c), Vacant(call[c].id),
             jobs' = [jobs EXCEPT ![call[c].id] = JobOf(c)]
      PROVE  /\ jobs' \in [Ids -> JobType \cup {NoJob}]
             /\ \A i \in Ids : jobs[i] # NoJob => Keeps(i)
  <2>1. call[c].id \in Ids /\ JobOf(c) \in JobType
    BY <1>2, NewJobs DEF IntakeOK
  <2>2. \A i \in Ids : jobs[i] # NoJob => jobs'[i] = jobs[i]
    BY <1>2, <2>1 DEF Vacant, IntakeOK
  <2>3. jobs' \in [Ids -> JobType \cup {NoJob}]
    BY <1>2, <2>1 DEF IntakeOK
  <2>4. QED
    BY <2>2, <2>3 DEF Keeps, IntakeOK
<1>3. ASSUME NEW i \in Ids, NEW status \in JobStatuses,
             jobs[i].status \in DueStatuses \cup {"triggering"},
             jobs' = [jobs EXCEPT ![i].status = status], callPhase' = callPhase
      PROVE  /\ jobs' \in [Ids -> JobType \cup {NoJob}]
             /\ \A j \in Ids : jobs[j] # NoJob => Keeps(j)
  <2>1. jobs[i] # NoJob /\ jobs[i].status \notin FallbackStatuses
    BY <1>3 DEF NoJob, DueStatuses, FallbackStatuses
  <2>2. jobs[i] \in JobType
    BY <2>1 DEF IntakeOK
  <2>3. ASSUME NEW job \in JobType
        PROVE  LET next == [job EXCEPT !.status = status]
               IN  /\ next \in JobType /\ next.agent = job.agent
                   /\ next.payload = job.payload
                   /\ next.session = job.session /\ next.at = job.at
    BY DEF JobType
  <2>4. jobs'[i] = [jobs[i] EXCEPT !.status = status]
        /\ \A j \in Ids : j # i => jobs'[j] = jobs[j]
    BY <1>3 DEF IntakeOK
  <2>5. Keeps(i)
    BY <1>3, <2>1, <2>2, <2>3, <2>4 DEF Keeps, Asked
  <2>6. \A j \in Ids : j # i /\ jobs[j] # NoJob => Keeps(j)
    BY <2>4 DEF Keeps, IntakeOK
  <2>7. jobs' \in [Ids -> JobType \cup {NoJob}]
    BY <1>3, <2>2, <2>3, <2>4 DEF IntakeOK
  <2>8. QED
    BY <2>5, <2>6, <2>7
<1>4. QED
  BY <1>1, <1>2, <1>3 DEF JobsStep

LEMMA IntakeOKInit == IntakeInit => IntakeOK
  BY RowsOKInit DEF IntakeInit, IntakeOK, CallPhases, Under, NoRow, RowType, SessionStatuses,
     Managed, Mode

LEMMA IntakeOKNext == RowsOK /\ IntakeOK /\ [IntakeNext]_intakeVars => IntakeOK'
<1>1. SUFFICES ASSUME RowsOK, IntakeOK, [IntakeNext]_intakeVars PROVE IntakeOK'
  OBVIOUS
<1>2. jobs' \in [Ids -> JobType \cup {NoJob}]
  BY <1>1, JobsSteps, StoredJobs
<1>3. CASE UNCHANGED callVars
  BY <1>1, <1>2, <1>3 DEF IntakeOK, callVars, Under
<1>4. ASSUME NEW c \in Calls, Ask(c) PROVE IntakeOK'
  <2>1. PICK i \in Ids, a \in Agents, p \in Payloads :
          call' = [call EXCEPT ![c] =
            [id |-> i, agent |-> a, payload |-> p, at |-> clock,
             known |-> {b \in answers : b.agent = a},
             gone |-> {n \in 0 .. MaxBeats : <<a, n>> \in taken}]]
    BY <1>4 DEF Ask
  <2>2. clock \in Nat
    BY <1>1 DEF RowsOK
  <2>3. QED
    BY <1>1, <1>2, <1>4, <2>1, <2>2 DEF Ask, IntakeOK, CallPhases, Under
<1>5. ASSUME NEW c \in Calls, ReadSession(c) PROVE IntakeOK'
  <2>1. row[call[c].agent] \in RowType
    BY <1>1, <1>5 DEF ReadSession, RowsOK, IntakeOK, Under
  <2>2. QED
    BY <1>1, <1>2, <1>5, <2>1 DEF ReadSession, Enter, IntakeOK, CallPhases, Under
(* The other steps of a request go on with it or end it.                   *)
<1>6. ASSUME NEW c \in Calls, Under(c), NEW next \in CallPhases,
             (Enter(c, next) /\ UNCHANGED <<call, seen>>) \/ EndCall(c),
             DOMAIN reply' = Calls
      PROVE  IntakeOK'
  <2>1. CASE Enter(c, next) /\ UNCHANGED <<call, seen>>
    BY <1>1, <1>2, <1>6, <2>1 DEF Enter, IntakeOK, Under
  <2>2. CASE EndCall(c)
    <3>1. NoRow \in RowType
      BY DEF NoRow, RowType, SessionStatuses, Managed, Mode
    <3>2. QED
      BY <1>1, <1>2, <2>2, <3>1 DEF EndCall, Enter, IntakeOK, CallPhases, Under
  <2>3. QED
    BY <1>6, <2>1, <2>2
<1>7. ASSUME NEW c \in Calls, InsertJob(c) \/ InsertUnreported(c) \/ FindJob(c)
                              \/ Respond(c) \/ CallFails(c)
      PROVE  IntakeOK'
  <2>1. Under(c) /\ "audit" \in CallPhases /\ "find" \in CallPhases
    BY <1>7 DEF InsertJob, InsertUnreported, FindJob, Respond, CallFails, Under, CallPhases
  <2>2. \/ Enter(c, "audit") /\ UNCHANGED <<call, seen>>
        \/ Enter(c, "find") /\ UNCHANGED <<call, seen>>
        \/ EndCall(c)
    BY <1>7 DEF InsertJob, InsertUnreported, FindJob, Respond, CallFails, Compose
  <2>3. DOMAIN reply' = Calls
    BY <1>1, <1>7 DEF InsertJob, InsertUnreported, FindJob, Respond, CallFails, Compose,
       EndCall, IntakeOK
  <2>4. QED
    BY <1>6, <2>1, <2>2, <2>3
<1>8. (\E c \in Calls : CallStep(c)) \/ UNCHANGED callVars
  BY <1>1 DEF IntakeNext, intakeVars, RegistryStep, ClaimJob, RecordJob, SetStatus
<1>9. QED
  BY <1>3, <1>4, <1>5, <1>7, <1>8 DEF CallStep

LEMMA IntakeIsOK == IntakeSpec => [](RowsOK /\ IntakeOK)
<1>1. IntakeSpec => []RowsOK
  BY RegistryBehaves, RowsAreOK, PTL
<1>2. QED
  BY <1>1, IntakeOKInit, IntakeOKNext, PTL DEF IntakeSpec

(* No request changes a job that is stored, and no step of the worker what *)
(* was asked for (createOrReuseTriggerJob, claimDueJobs, recordAttempt).   *)
THEOREM RequestsKeepJobs == IntakeSpec => JobsAreKept
<1>1. IntakeOK /\ [IntakeNext]_intakeVars =>
        [\A i \in Ids : jobs[i] # NoJob =>
           /\ jobs'[i] # NoJob /\ Asked(jobs'[i]) = Asked(jobs[i])
           /\ jobs'[i] # jobs[i] => callPhase' = callPhase]_intakeVars
  BY JobsSteps, StoredJobs, JobsAreJobs DEF Keeps
<1>2. QED
  BY <1>1, IntakeIsOK, PTL DEF IntakeSpec, JobsAreKept

-----------------------------------------------------------------------------
(* Answers.                                                                *)

(* What one answer claims, of the job that it names.                       *)
Holds(t) ==
  /\ t.id \in Ids /\ jobs[t.id] # NoJob
  /\ t.session = jobs[t.id].session /\ t.at = jobs[t.id].at
  /\ t.action = "idempotency_conflict" <=>
       <<t.agent, t.payload>> # <<jobs[t.id].agent, jobs[t.id].payload>>
  /\ HandsOver(t) => /\ jobs[t.id].status \in FallbackStatuses
                     /\ t.action = ActionOf(jobs[t.id].status)

Answered ==
  /\ \A c \in Calls : callPhase[c] = "find" => jobs[call[c].id] # NoJob
  /\ \A c \in Calls : callPhase[c] = "audit" => Holds(reply[c])
  /\ \A t \in told : Holds(t)

(* An answer holds of the job it is made from,                             *)
LEMMA AnswersHold ==
  ASSUME NEW t, NEW job \in JobType, t.id \in Ids, jobs[t.id] = job,
         t.session = job.session, t.at = job.at,
         \/ /\ t.action = ActionOf(job.status)
            /\ t.agent = job.agent /\ t.payload = job.payload
         \/ /\ t.action = "idempotency_conflict"
            /\ ~(job.agent = t.agent /\ job.payload = t.payload)
  PROVE  Holds(t)
<1>1. job # NoJob
  BY JobsAreJobs
<1>2. CASE t.action = ActionOf(job.status) /\ t.agent = job.agent /\ t.payload = job.payload
  BY <1>1, <1>2 DEF ActionOf, Holds, HandsOver, FallbackStatuses
<1>3. CASE /\ t.action = "idempotency_conflict"
           /\ ~(job.agent = t.agent /\ job.payload = t.payload)
  BY <1>1, <1>3 DEF Holds, HandsOver
<1>4. QED
  BY <1>2, <1>3

(* and then for ever.                                                      *)
LEMMA AnswersKeepHolding ==
  ASSUME IntakeOK, JobsStep, NEW t, Holds(t)
  PROVE  Holds(t)'
<1>1. t.id \in Ids /\ jobs[t.id] # NoJob /\ Keeps(t.id)
  BY StoredJobs DEF Holds
<1>2. jobs'[t.id] # NoJob
  BY <1>1, JobsAreJobs DEF Keeps
<1>3. QED
  BY <1>1, <1>2 DEF Holds, Keeps

LEMMA AnsweredNext == RowsOK /\ IntakeOK /\ Answered /\ [IntakeNext]_intakeVars => Answered'
<1>1. SUFFICES ASSUME RowsOK, IntakeOK, Answered, [IntakeNext]_intakeVars PROVE Answered'
  OBVIOUS
<1>2. \A t : Holds(t) => Holds(t)'
  BY <1>1, JobsSteps, AnswersKeepHolding
<1>3. /\ IntakeOK' /\ jobs' \in [Ids -> JobType \cup {NoJob}]
      /\ \A i \in Ids : jobs[i] # NoJob => jobs'[i] # NoJob
  BY <1>1, IntakeOKNext, JobsSteps, StoredJobs, JobsAreJobs DEF Keeps
<1>4. CASE UNCHANGED <<callVars, told>>
  BY <1>1, <1>2, <1>3, <1>4 DEF Answered, callVars, IntakeOK, Under
(* A step of one request: what it has to show.                             *)
<1>5. ASSUME NEW c \in Calls,
             \A d \in Calls \ {c} : /\ callPhase'[d] = callPhase[d]
                                    /\ call'[d] = call[d] /\ reply'[d] = reply[d],
             callPhase'[c] = "find" => jobs'[call'[c].id] # NoJob,
             callPhase'[c] = "audit" => Holds(reply[c])',
             \A t \in told' \ told : Holds(t)'
      PROVE  Answered'
  <2>1. \A t \in told' : Holds(t)'
    BY <1>1, <1>2, <1>5 DEF Answered
  <2>2. ASSUME NEW d \in Calls
        PROVE  /\ callPhase'[d] = "find" => jobs'[call'[d].id] # NoJob
               /\ callPhase'[d] = "audit" => Holds(reply[d])'
    <3>1. CASE d = c
      BY <1>5, <3>1
    <3>2. CASE d # c
      <4>1. callPhase'[d] = callPhase[d] /\ call'[d] = call[d] /\ reply'[d] = reply[d]
        BY <1>5, <3>2
      <4>2. callPhase[d] = "find" => call[d].id \in Ids
        BY <1>1 DEF IntakeOK, Under
      <4>3. callPhase[d] = "audit" => Holds(reply[d])'
        BY <1>1, <1>2, <4>1 DEF Answered, Holds
      <4>4. QED
        BY <1>1, <1>3, <4>1, <4>2, <4>3 DEF Answered
    <3>3. QED
      BY <3>1, <3>2
  <2>3. QED
    BY <2>1, <2>2 DEF Answered
<1>6. ASSUME NEW c \in Calls, Ask(c) \/ ReadSession(c) PROVE Answered'
  <2>1. /\ callPhase'[c] \in {"session", "insert"} /\ UNCHANGED told
        /\ \A d \in Calls \ {c} : /\ callPhase'[d] = callPhase[d]
                                  /\ call'[d] = call[d] /\ reply'[d] = reply[d]
    BY <1>1, <1>6 DEF Ask, ReadSession, Enter, IntakeOK
  <2>2. QED
    BY <1>5, <2>1
<1>7. ASSUME NEW c \in Calls, EndCall(c), \A t \in told' \ told : Holds(t)'
      PROVE  Answered'
  <2>1. /\ callPhase'[c] = "idle"
        /\ \A d \in Calls \ {c} : /\ callPhase'[d] = callPhase[d]
                                  /\ call'[d] = call[d] /\ reply'[d] = reply[d]
    BY <1>1, <1>7 DEF EndCall, Enter, IntakeOK
  <2>2. QED
    BY <1>5, <1>7, <2>1
<1>8. ASSUME NEW c \in Calls, NEW job \in JobType, Under(c), Compose(c, job), UNCHANGED told,
             jobs'[call[c].id] = job, job.agent = call[c].agent,
             job.payload = call[c].payload
      PROVE  Answered'
  <2> DEFINE t == [id |-> call[c].id, agent |-> call[c].agent,
                   payload |-> call[c].payload, action |-> ActionOf(job.status),
                   session |-> job.session, at |-> job.at]
  <2>1. /\ callPhase'[c] = "audit" /\ reply'[c] = t
        /\ \A d \in Calls \ {c} : /\ callPhase'[d] = callPhase[d]
                                  /\ call'[d] = call[d] /\ reply'[d] = reply[d]
    BY <1>1, <1>8 DEF Compose, Enter, IntakeOK
  <2>2. Holds(reply[c])'
    <3>1. reply'[c].id \in Ids /\ jobs'[reply'[c].id] = job
      BY <1>1, <1>8, <2>1 DEF IntakeOK
    <3>2. /\ reply'[c].session = job.session /\ reply'[c].at = job.at
          /\ reply'[c].action = ActionOf(job.status)
          /\ reply'[c].agent = job.agent /\ reply'[c].payload = job.payload
      BY <1>8, <2>1
    <3>3. job # NoJob
      BY JobsAreJobs
    <3>4. QED
      BY <3>1, <3>2, <3>3 DEF Holds, HandsOver, ActionOf, FallbackStatuses
  <2>3. QED
    BY <1>5, <1>8, <2>1, <2>2
<1>9. ASSUME NEW c \in Calls, InsertJob(c) PROVE Answered'
  <2>1. Under(c) /\ call[c].id \in Ids
    BY <1>1, <1>9 DEF InsertJob, IntakeOK, Under
  <2>2. CASE /\ jobs' = [jobs EXCEPT ![call[c].id] = JobOf(c)] /\ Compose(c, JobOf(c))
    <3>1. JobOf(c) \in JobType /\ jobs'[call[c].id] = JobOf(c)
      BY <1>1, <2>1, <2>2, NewJobs DEF IntakeOK
    <3>2. JobOf(c).agent = call[c].agent /\ JobOf(c).payload = call[c].payload
      BY DEF JobOf
    <3>3. QED
      BY <1>8, <1>9, <2>1, <2>2, <3>1, <3>2 DEF InsertJob
  <2>3. CASE ~Vacant(call[c].id) /\ Enter(c, "find")
             /\ UNCHANGED <<call, seen, reply, calls, jobs>>
    <3>1. /\ jobs'[call'[c].id] # NoJob /\ callPhase'[c] = "find" /\ UNCHANGED told
          /\ \A d \in Calls \ {c} : /\ callPhase'[d] = callPhase[d]
                                    /\ call'[d] = call[d] /\ reply'[d] = reply[d]
      BY <1>1, <1>9, <2>3 DEF InsertJob, Vacant, Enter, IntakeOK
    <3>2. QED
      BY <1>5, <3>1
  <2>4. QED
    BY <1>9, <2>2, <2>3 DEF InsertJob
<1>10. ASSUME NEW c \in Calls, FindJob(c) PROVE Answered'
  <2>1. /\ callPhase[c] = "find" /\ Under(c) /\ call[c].id \in Ids /\ UNCHANGED jobs
        /\ jobs[call[c].id] \in JobType
    BY <1>1, <1>10 DEF FindJob, IntakeOK, Under, Answered
  <2>2. CASE ReplayMatch(c, jobs[call[c].id]) /\ Compose(c, jobs[call[c].id])
             /\ UNCHANGED told
    BY <1>8, <2>1, <2>2 DEF ReplayMatch
  <2>3. CASE ~ReplayMatch(c, jobs[call[c].id]) /\ EndCall(c)
    <3>1. PICK t :
            /\ t = [id |-> call[c].id, agent |-> call[c].agent,
                    payload |-> call[c].payload, action |-> "idempotency_conflict",
                    session |-> jobs[call[c].id].session, at |-> jobs[call[c].id].at]
            /\ told' = told \cup {t}
      BY <1>10, <2>3 DEF FindJob
    <3>2. Holds(t)
      BY <2>1, <2>3, <3>1, AnswersHold DEF ReplayMatch
    <3>3. Holds(t)'
      BY <1>2, <3>2
    <3>4. QED
      BY <1>7, <2>3, <3>1, <3>3
  <2>4. QED
    BY <1>10, <2>2, <2>3 DEF FindJob
<1>11. ASSUME NEW c \in Calls, Respond(c) \/ CallFails(c) \/ InsertUnreported(c)
       PROVE  Answered'
  <2>1. EndCall(c) /\ \A t \in told' \ told : Holds(t)
    BY <1>1, <1>11 DEF Respond, CallFails, InsertUnreported, Answered
  <2>2. QED
    BY <1>2, <1>7, <2>1
<1>12. (\E c \in Calls : CallStep(c)) \/ UNCHANGED <<callVars, told>>
  BY <1>1 DEF IntakeNext, intakeVars, RegistryStep, ClaimJob, RecordJob, SetStatus
<1>13. QED
  BY <1>4, <1>6, <1>9, <1>10, <1>11, <1>12 DEF CallStep

LEMMA AnswersAreTrue == IntakeSpec => []Answered
<1>1. IntakeInit => Answered
  BY DEF IntakeInit, Answered
<1>2. QED
  BY <1>1, AnsweredNext, IntakeIsOK, PTL DEF IntakeSpec

(* A success names the one job of its request id as it was inserted, and a *)
(* conflict is answered exactly for another target or payload, whatever is *)
(* repeated at once (createOrReuseTriggerJob, hasTriggerReplayMatch).      *)
THEOREM RepliesStayTrue == IntakeSpec => []AnswersTrue
<1>1. Answered => AnswersTrue
  BY DEF Answered, AnswersTrue, Holds
<1>2. QED
  BY <1>1, AnswersAreTrue, PTL

(* Callers of one request are never sent to two fallbacks: the job one was *)
(* told of keeps its fallback status, and answers are made from the status *)
(* (toDecisionFromJobStatus, claimDueJobs).                                *)
THEOREM CallersAreSentOneWay == IntakeSpec => []OneInstruction
<1>1. Answered => OneInstruction
  BY DEF Answered, OneInstruction, Holds
<1>2. QED
  BY <1>1, AnswersAreTrue, PTL

-----------------------------------------------------------------------------
(* Heartbeats are numbered in the order in which they are received.  A row *)
(* has the number of the one that wrote it, which is that heartbeat's row  *)
(* until its session is taken offline.                                     *)
Unwritten(k) == beatPhase[k] \in {"update", "find", "insert"}

(* The row that b wrote is as b left it, another one, or taken offline.    *)
Traced(b) ==
  row[b.agent].no = b.no => row[b.agent] = RowOf(b) \/ <<b.agent, b.no>> \in taken

Numbered ==
  /\ beats \in Nat /\ beats <= MaxBeats
  /\ \A a \in Agents : row[a].no <= beats
  /\ \A k \in Beats : beatPhase[k] # "idle" => 1 <= beat[k].no /\ beat[k].no <= beats
  /\ \A k, j \in Beats : beatPhase[k] # "idle" /\ beatPhase[j] # "idle" /\ k # j
                           => beat[k].no # beat[j].no
  /\ \A k \in Beats : Unwritten(k) =>
       \A a \in Agents : row[a].no # beat[k].no /\ <<a, beat[k].no>> \notin taken
  /\ \A a \in Agents, n \in Nat : <<a, n>> \in taken => n <= beats
  /\ \A a \in Agents : <<a, row[a].no>> \in taken => row[a].status = "offline"

History ==
  /\ \A b \in answers : /\ b.agent \in Agents /\ b.no \in Nat /\ b.at \in Nat \ {0}
                        /\ 1 <= b.no /\ b.no <= beats /\ Traced(b)
  /\ \A b \in answers, k \in Beats : beatPhase[k] # "idle" => b.no # beat[k].no
  /\ \A k \in Beats : beatPhase[k] = "find_again" => Traced(beat[k])

(* The four things that a step of the registry does.                       *)
Receives(k) ==
  /\ beatPhase[k] = "idle" /\ beatPhase' = [beatPhase EXCEPT ![k] = "update"]
  /\ beats < MaxBeats /\ beats' = beats + 1 /\ beat'[k].no = beats + 1
  /\ \A j \in Beats : j # k => beat'[j] = beat[j]
  /\ UNCHANGED <<row, answers>>

GoesOn(k) ==
  /\ \E next \in BeatPhases :
       /\ Moves(k, next) /\ (next \in {"update", "find", "insert"} => Unwritten(k))
       /\ answers' = answers \/ (next = "idle" /\ answers' = answers \cup {beat[k]})
  /\ beatPhase[k] # "idle"
  /\ UNCHANGED <<row, beats>>

Writes(k) ==
  /\ Unwritten(k)
  /\ row' = [row EXCEPT ![beat[k].agent] = RowOf(beat[k])]
  /\ \/ GoTo(k, "find_again") /\ UNCHANGED answers
     \/ Answer(k)

TakesOffline(a) ==
  /\ row' = [row EXCEPT ![a] = row'[a]]
  /\ row'[a] \in {Offline(row[a]), Deregistered(row[a])}
  /\ UNCHANGED <<beatVars, answers>>

LEMMA RegistryMoves ==
  ASSUME RowsOK, [Next]_vars
  PROVE  \/ UNCHANGED <<row, beatVars, answers>>
         \/ \E k \in Beats : Receives(k) \/ GoesOn(k) \/ Writes(k)
         \/ \E a \in Agents : TakesOffline(a)
<1>1. ASSUME NEW k \in Beats, Receive(k) \/ Register(k) PROVE Receives(k)
  BY <1>1 DEF Receive, Register, Accept, RowsOK, Receives
<1>2. ASSUME NEW k \in Beats, Update(k) PROVE GoesOn(k) \/ Writes(k)
  BY <1>2 DEF Update, GoesOn, Writes, Moves, BeatPhases, Unwritten, GoTo
<1>3. ASSUME NEW k \in Beats, Find(k) PROVE GoesOn(k)
  BY <1>3 DEF Find, GoesOn, Answer, Moves, BeatPhases, Unwritten, GoTo, Finish
<1>4. ASSUME NEW k \in Beats, Insert(k) PROVE GoesOn(k) \/ Writes(k)
  <2>1. /\ beatPhase[k] = "insert" /\ GoTo(k, "find_again") /\ UNCHANGED answers
        /\ \/ row' = [row EXCEPT ![beat[k].agent] = RowOf(beat[k])]
           \/ row' = [row EXCEPT ![beat[k].agent] = row[beat[k].agent]]
    BY <1>4 DEF Insert
  <2>2. row = [row EXCEPT ![beat[k].agent] = row[beat[k].agent]]
    BY DEF RowsOK
  <2>3. QED
    BY <2>1, <2>2 DEF GoesOn, Writes, Moves, BeatPhases, Unwritten, GoTo
<1>5. ASSUME NEW k \in Beats, FindAgain(k) \/ Fail(k) PROVE GoesOn(k)
  BY <1>5 DEF FindAgain, Fail, GoesOn, Answer, Moves, BeatPhases, Finish
<1>6. ASSUME NEW a \in Agents, UNCHANGED <<beatVars, answers>>,
             NEW r \in {Offline(row[a]), Deregistered(row[a])},
             row' = [row EXCEPT ![a] = r]
      PROVE  TakesOffline(a)
  BY <1>6 DEF RowsOK, TakesOffline
<1>7. ASSUME NEW s \in Ticks, MarkOffline(s) PROVE \E a \in Agents : TakesOffline(a)
  <2>1. PICK a \in stale[s] : row' = [row EXCEPT ![a] = Offline(row[a])]
    BY <1>7 DEF MarkOffline
  <2>2. a \in Agents
    BY <2>1 DEF RowsOK
  <2>3. QED
    BY <1>6, <1>7, <2>1, <2>2 DEF MarkOffline
<1>8. ASSUME NEW a \in Agents, Deregister(a) PROVE TakesOffline(a)
  BY <1>6, <1>8 DEF Deregister
<1>9. \/ UNCHANGED <<row, beatVars, answers>>
      \/ \E k \in Beats : BeatStep(k)
      \/ \E s \in Ticks : MarkOffline(s)
      \/ \E a \in Agents : Deregister(a)
  BY DEF Next, TickStep, vars, AdvanceClock, StartTick, ListRuntimes, FinishTick,
     TickFails, EndTick
<1>10. QED
  BY <1>1, <1>2, <1>3, <1>4, <1>5, <1>7, <1>8, <1>9 DEF BeatStep, UpsertFromHeartbeat

(* Whose row stays that of the same heartbeat is not taken offline.        *)
LEMMA TakenSteps == [IntakeNext]_intakeVars => taken' = taken \cup TakenOffline
<1>1. CASE RegistryStep
  BY <1>1 DEF RegistryStep
<1>2. ASSUME UNCHANGED <<vars, taken>> PROVE taken' = taken \cup TakenOffline
  BY <1>2 DEF vars, TakenOffline
<1>3. ASSUME NEW c \in Calls, CallStep(c) PROVE UNCHANGED <<vars, taken>>
  BY <1>3 DEF CallStep, Ask, ReadSession, InsertJob, InsertUnreported, FindJob, Respond,
     CallFails
<1>4. ASSUME NEW i \in Ids, ClaimJob(i) \/ RecordJob(i) PROVE UNCHANGED <<vars, taken>>
  BY <1>4 DEF ClaimJob, RecordJob, SetStatus
<1>5. QED
  BY <1>1, <1>2, <1>3, <1>4 DEF IntakeNext, intakeVars

LEMMA NoneTaken ==
  ASSUME \A a \in Agents : row'[a] = row[a] \/ row'[a].no # row[a].no
  PROVE  TakenOffline = {}
  BY DEF TakenOffline

LEMMA OneTaken ==
  ASSUME RowsOK, NEW a \in Agents, TakesOffline(a)
  PROVE  /\ \A x \in Agents : x # a => row'[x] = row[x]
         /\ row'[a].no = row[a].no /\ row'[a].status = "offline"
         /\ TakenOffline = IF row'[a] = row[a] THEN {} ELSE {<<a, row[a].no>>}
<1>1. \A r \in RowType : /\ Offline(r).no = r.no /\ Offline(r).status = "offline"
                         /\ Deregistered(r).no = r.no /\ Deregistered(r).status = "offline"
  <2>1. ASSUME NEW r \in RowType
        PROVE  /\ Offline(r).no = r.no /\ Offline(r).status = "offline"
               /\ Offline(r) \in RowType
    BY RowSteps DEF Offline, RowType
  <2>2. ASSUME NEW r \in RowType, NEW m
        PROVE  /\ [r EXCEPT !.mode = m].no = r.no
               /\ [r EXCEPT !.mode = m].status = r.status
    BY DEF RowType
  <2>3. QED
    BY <2>1, <2>2 DEF Deregistered
<1>2. \A x \in Agents : x # a => row'[x] = row[x]
  BY DEF TakesOffline, RowsOK
<1>3. row'[a].no = row[a].no /\ row'[a].status = "offline"
  BY <1>1 DEF TakesOffline, RowsOK
<1>4. QED
  BY <1>2, <1>3 DEF TakenOffline

LEMMA NumberedNext ==
  RowsOK /\ Numbered /\ [IntakeNext]_intakeVars => Numbered'
<1>1. SUFFICES ASSUME RowsOK, Numbered, [IntakeNext]_intakeVars PROVE Numbered'
  OBVIOUS
<1>2. /\ taken' = taken \cup TakenOffline
      /\ [Next]_vars /\ RowsOK'
  BY <1>1, TakenSteps, RegistrySteps, RowsOKNext
<1>3. /\ \A a \in Agents : row[a].no \in Nat
      /\ \A k \in Beats : beatPhase[k] # "idle" => beat[k].no \in Nat /\ beat[k].agent \in Agents
  BY <1>1 DEF RowsOK, RowType
<1>4. CASE UNCHANGED <<row, beatVars, answers>>
  <2>1. UNCHANGED taken
    BY <1>2, <1>4, NoneTaken
  <2>2. QED
    BY <1>1, <1>4, <2>1 DEF Numbered, Unwritten, beatVars
<1>5. ASSUME NEW k \in Beats, Receives(k) PROVE Numbered'
  <2>1. UNCHANGED taken
    BY <1>2, <1>5, NoneTaken DEF Receives
  <2>2. /\ beats \in Nat /\ beats' = beats + 1 /\ beat'[k].no = beats + 1 /\ UNCHANGED row
        /\ \A j \in Beats : j # k => beat'[j] = beat[j] /\ beatPhase'[j] = beatPhase[j]
    BY <1>1, <1>5 DEF Receives, Numbered, RowsOK
  <2>3. \A a \in Agents : row[a].no # beat'[k].no /\ <<a, beat'[k].no>> \notin taken
    BY <1>1, <2>2 DEF Numbered
  <2>4. \A j \in Beats : Unwritten(j)' =>
          \A a \in Agents : row[a].no # beat'[j].no /\ <<a, beat'[j].no>> \notin taken
    BY <1>1, <2>2, <2>3 DEF Numbered, Unwritten
  <2>5. \A j \in Beats : beatPhase'[j] # "idle" => 1 <= beat'[j].no /\ beat'[j].no <= beats'
    BY <1>1, <1>3, <2>2 DEF Numbered
  <2>6. \A i, j \in Beats : beatPhase'[i] # "idle" /\ beatPhase'[j] # "idle" /\ i # j
                              => beat'[i].no # beat'[j].no
    <3>1. ASSUME NEW i \in Beats, NEW j \in Beats, i # j, beatPhase'[i] # "idle",
                 beatPhase'[j] # "idle"
          PROVE  beat'[i].no # beat'[j].no
      <4>1. CASE i = k
        BY <1>1, <1>3, <2>2, <3>1, <4>1 DEF Numbered
      <4>2. CASE j = k
        BY <1>1, <1>3, <2>2, <3>1, <4>2 DEF Numbered
      <4>3. CASE i # k /\ j # k
        BY <1>1, <2>2, <3>1, <4>3 DEF Numbered
      <4>4. QED
        BY <4>1, <4>2, <4>3
    <3>2. QED
      BY <3>1
  <2>7. /\ beats' \in Nat /\ \A a \in Agents : row[a].no <= beats'
        /\ \A a \in Agents, n \in Nat : <<a, n>> \in taken => n <= beats'
    BY <1>1, <1>3, <2>2 DEF Numbered
  <2>8. beats' <= MaxBeats
    BY <1>5, <2>2, RegistryAssumption DEF Receives
  <2>9. QED
    BY <1>1, <2>1, <2>2, <2>4, <2>5, <2>6, <2>7, <2>8 DEF Numbered
(* Requests go on: their numbers stay, and fewer have not yet written.     *)
<1>6. ASSUME NEW k \in Beats, NEW next \in BeatPhases, Moves(k, next), beatPhase[k] # "idle",
             next \in {"update", "find", "insert"} => Unwritten(k)
      PROVE  /\ UNCHANGED beats
             /\ \A j \in Beats : beatPhase'[j] # "idle" =>
                  beatPhase[j] # "idle" /\ beat'[j] = beat[j]
             /\ \A j \in Beats : Unwritten(j)' => Unwritten(j) /\ beat'[j] = beat[j]
  <2>1. /\ beatPhase' = [beatPhase EXCEPT ![k] = next]
        /\ \A j \in Beats : beatPhase'[j] # "idle" =>
             beatPhase[j] # "idle" /\ beat'[j] = beat[j]
        /\ UNCHANGED beats
    BY <1>1, <1>6, MovesKeep DEF Moves, GoTo, Finish
  <2>2. \A j \in Beats : Unwritten(j)' => Unwritten(j) /\ beatPhase'[j] # "idle"
    BY <1>1, <1>6, <2>1 DEF Unwritten, RowsOK
  <2>3. QED
    BY <2>1, <2>2
<1>7. ASSUME NEW k \in Beats, GoesOn(k) PROVE Numbered'
  <2>1. UNCHANGED <<row, taken>>
    BY <1>2, <1>7, NoneTaken DEF GoesOn
  <2>2. /\ UNCHANGED beats
        /\ \A j \in Beats : beatPhase'[j] # "idle" =>
             beatPhase[j] # "idle" /\ beat'[j] = beat[j]
        /\ \A j \in Beats : Unwritten(j)' => Unwritten(j) /\ beat'[j] = beat[j]
    BY <1>6, <1>7 DEF GoesOn
  <2>3. QED
    BY <1>1, <2>1, <2>2 DEF Numbered
<1>8. ASSUME NEW k \in Beats, Writes(k) PROVE Numbered'
  <2>1. /\ beat[k].agent \in Agents /\ beatPhase[k] # "idle"
        /\ row'[beat[k].agent].no = beat[k].no
        /\ \A a \in Agents : a # beat[k].agent => row'[a] = row[a]
    BY <1>1, <1>3, <1>8 DEF Writes, Unwritten, RowsOK, RowOf
  <2>2. \A a \in Agents : row[a].no # beat[k].no /\ <<a, beat[k].no>> \notin taken
    BY <1>1, <1>8 DEF Writes, Numbered
  <2>3. UNCHANGED taken
    BY <1>2, <2>1, <2>2, NoneTaken
  <2>4. \E next \in {"find_again", "idle"} : Moves(k, next)
    BY <1>8 DEF Writes, Answer, Moves
  <2>5. /\ UNCHANGED beats
        /\ \A j \in Beats : beatPhase'[j] # "idle" =>
             beatPhase[j] # "idle" /\ beat'[j] = beat[j]
        /\ \A j \in Beats : Unwritten(j)' => Unwritten(j) /\ beat'[j] = beat[j]
    BY <1>6, <2>1, <2>4 DEF BeatPhases
  <2>6. ~Unwritten(k)'
    BY <1>1, <2>4 DEF Moves, GoTo, Finish, Unwritten, RowsOK
  <2>7. \A j \in Beats : Unwritten(j)' =>
          \A a \in Agents : row'[a].no # beat'[j].no /\ <<a, beat'[j].no>> \notin taken
    <3>1. ASSUME NEW j \in Beats, Unwritten(j)', NEW a \in Agents
          PROVE  row'[a].no # beat'[j].no /\ <<a, beat'[j].no>> \notin taken
      <4>1. j # k /\ Unwritten(j) /\ beat'[j] = beat[j] /\ beatPhase[j] # "idle"
        BY <2>5, <2>6, <3>1 DEF Unwritten
      <4>2. beat[j].no # beat[k].no
        BY <1>1, <2>1, <4>1 DEF Numbered
      <4>3. row[a].no # beat[j].no /\ <<a, beat[j].no>> \notin taken
        BY <1>1, <4>1 DEF Numbered
      <4>4. QED
        BY <2>1, <4>1, <4>2, <4>3
    <3>2. QED
      BY <3>1
  <2>8. \A a \in Agents : row'[a].no <= beats /\ (<<a, row'[a].no>> \in taken
                                                    => row'[a].status = "offline")
    BY <1>1, <2>1, <2>2 DEF Numbered
  <2>9. \A j \in Beats : beatPhase'[j] # "idle" => 1 <= beat'[j].no /\ beat'[j].no <= beats
    BY <1>1, <2>5 DEF Numbered
  <2>10. \A i, j \in Beats : beatPhase'[i] # "idle" /\ beatPhase'[j] # "idle" /\ i # j
                               => beat'[i].no # beat'[j].no
    BY <1>1, <2>5 DEF Numbered
  <2>11. QED
    BY <1>1, <2>3, <2>5, <2>7, <2>8, <2>9, <2>10 DEF Numbered
<1>9. ASSUME NEW a \in Agents, TakesOffline(a) PROVE Numbered'
  <2>1. /\ \A x \in Agents : x # a => row'[x] = row[x]
        /\ row'[a].no = row[a].no /\ row'[a].status = "offline"
        /\ taken \subseteq taken' /\ taken' \subseteq taken \cup {<<a, row[a].no>>}
    BY <1>1, <1>2, <1>9, OneTaken
  <2>2. UNCHANGED <<beatPhase, beat, beats>>
    BY <1>9 DEF TakesOffline, beatVars
  <2>3. \A x \in Agents : row'[x].no = row[x].no
    BY <2>1
  <2>4. ASSUME NEW x \in Agents, NEW n \in Nat, <<x, n>> \in taken'
        PROVE  <<x, n>> \in taken \/ (x = a /\ n = row[a].no)
    BY <2>1, <2>4
  <2>5. \A j \in Beats : Unwritten(j)' =>
          \A x \in Agents : row'[x].no # beat'[j].no /\ <<x, beat'[j].no>> \notin taken'
    <3>1. ASSUME NEW j \in Beats, Unwritten(j), NEW x \in Agents
          PROVE  row[x].no # beat[j].no /\ <<x, beat[j].no>> \notin taken'
      <4>1. row[x].no # beat[j].no /\ row[a].no # beat[j].no /\ <<x, beat[j].no>> \notin taken
        BY <1>1, <3>1 DEF Numbered
      <4>2. beat[j].no \in Nat
        BY <1>3, <3>1 DEF Unwritten
      <4>3. QED
        BY <2>4, <4>1, <4>2
    <3>2. QED
      BY <2>2, <2>3, <3>1 DEF Unwritten
  <2>6. \A x \in Agents, n \in Nat : <<x, n>> \in taken' => n <= beats
    BY <1>1, <1>3, <2>4 DEF Numbered
  <2>7. \A x \in Agents : <<x, row'[x].no>> \in taken' => row'[x].status = "offline"
    BY <1>1, <1>3, <2>1, <2>3, <2>4 DEF Numbered
  <2>8. QED
    BY <1>1, <2>2, <2>3, <2>5, <2>6, <2>7 DEF Numbered
<1>10. QED
  BY <1>1, <1>2, <1>4, <1>5, <1>7, <1>8, <1>9, RegistryMoves

(* A heartbeat stays traced while others write.                            *)
LEMMA TracedStays ==
  ASSUME RowsOK, [IntakeNext]_intakeVars, NEW b, b.agent \in Agents, Traced(b),
         \A k \in Beats : Writes(k) => beat[k].no # b.no
  PROVE  Traced(b)'
<1>1. [Next]_vars /\ taken' = taken \cup TakenOffline
  BY RegistrySteps, TakenSteps
<1>2. CASE row'[b.agent] = row[b.agent]
  BY <1>1, <1>2 DEF Traced
<1>3. ASSUME NEW k \in Beats, Writes(k) PROVE Traced(b)'
  <2>1. CASE beat[k].agent = b.agent
    <3>1. row'[b.agent].no = beat[k].no
      BY <1>3, <2>1 DEF Writes, RowsOK, RowOf
    <3>2. QED
      BY <1>3, <3>1 DEF Traced
  <2>2. CASE beat[k].agent # b.agent
    BY <1>2, <1>3, <2>2 DEF Writes, RowsOK
  <2>3. QED
    BY <2>1, <2>2
<1>4. ASSUME NEW a \in Agents, TakesOffline(a) PROVE Traced(b)'
  <2>1. CASE a = b.agent /\ row'[a] # row[a]
    BY <1>1, <1>4, <2>1, OneTaken DEF Traced
  <2>2. CASE a # b.agent
    BY <1>2, <1>4, <2>2, OneTaken
  <2>3. QED
    BY <1>2, <2>1, <2>2
<1>5. UNCHANGED row \/ (\E k \in Beats : Writes(k)) \/ (\E a \in Agents : TakesOffline(a))
  BY <1>1, RegistryMoves DEF Receives, GoesOn
<1>6. QED
  BY <1>2, <1>3, <1>4, <1>5

LEMMA HistoryNext ==
  RowsOK /\ Numbered /\ History /\ [IntakeNext]_intakeVars => History'
<1>1. SUFFICES ASSUME RowsOK, Numbered, History, [IntakeNext]_intakeVars PROVE History'
  OBVIOUS
<1>2. /\ taken' = taken \cup TakenOffline /\ [Next]_vars
      /\ beats \in Nat
  BY <1>1, TakenSteps, RegistrySteps DEF Numbered
<1>3. \A k \in Beats : beatPhase[k] # "idle" =>
        /\ beat[k].no \in Nat /\ beat[k].agent \in Agents /\ beat[k].at \in Nat \ {0}
        /\ 1 <= beat[k].no /\ beat[k].no <= beats
  BY <1>1 DEF RowsOK, Numbered
<1>4. \A b \in answers : Traced(b)'
  <2>1. \A b \in answers : /\ b.agent \in Agents /\ Traced(b)
                           /\ \A k \in Beats : Writes(k) => beat[k].no # b.no
    BY <1>1 DEF History, Writes, Unwritten
  <2>2. QED
    BY <1>1, <2>1, TracedStays
<1>5. ASSUME NEW j \in Beats, beatPhase[j] = "find_again", beat'[j] = beat[j]
      PROVE  Traced(beat[j])'
  <2>1. PICK b : b = beat[j]
    OBVIOUS
  <2>2. /\ b.agent \in Agents /\ Traced(b)
        /\ \A k \in Beats : Writes(k) => beat[k].no # b.no
    BY <1>1, <1>3, <1>5, <2>1 DEF History, Numbered, Writes, Unwritten
  <2>3. Traced(b)'
    BY <1>1, <2>2, TracedStays
  <2>4. QED
    BY <1>5, <2>1, <2>3 DEF Traced
<1>6. \A b \in answers : /\ b.agent \in Agents /\ b.no \in Nat /\ b.at \in Nat \ {0}
                         /\ 1 <= b.no /\ b.no <= beats
  BY <1>1 DEF History
<1>7. CASE UNCHANGED <<beatVars, answers>>
  <2>1. UNCHANGED <<beatPhase, beat, beats, answers>>
    BY <1>7 DEF beatVars
  <2>2. \A j \in Beats : beatPhase'[j] = "find_again" => Traced(beat[j])'
    BY <1>5, <2>1
  <2>3. QED
    BY <1>1, <1>4, <1>6, <2>1, <2>2 DEF History
<1>8. ASSUME NEW k \in Beats, Receives(k) PROVE History'
  <2>1. /\ answers' = answers /\ beats' = beats + 1 /\ beat'[k].no = beats + 1
        /\ beatPhase'[k] = "update"
        /\ \A j \in Beats : j # k => beat'[j] = beat[j] /\ beatPhase'[j] = beatPhase[j]
    BY <1>1, <1>8 DEF Receives, RowsOK
  <2>2. \A b \in answers : b.no # beat'[k].no /\ b.no <= beats'
    BY <1>2, <1>6, <2>1
  <2>3. \A j \in Beats : beatPhase'[j] = "find_again" => Traced(beat[j])'
    BY <1>5, <2>1
  <2>4. \A b \in answers, j \in Beats : beatPhase'[j] # "idle" => b.no # beat'[j].no
    BY <1>1, <2>1, <2>2 DEF History
  <2>5. QED
    BY <1>4, <1>6, <2>1, <2>2, <2>3, <2>4 DEF History
(* A request goes on or writes its row: what is new is traced.             *)
<1>9. ASSUME NEW k \in Beats, NEW next \in BeatPhases, Moves(k, next), beatPhase[k] # "idle",
             answers' = answers \/ (next = "idle" /\ answers' = answers \cup {beat[k]}),
             next = "find_again" \/ answers' # answers =>
               \A b : b = beat[k] => Traced(b)'
      PROVE  History'
  <2>1. /\ beatPhase' = [beatPhase EXCEPT ![k] = next] /\ UNCHANGED beats
        /\ \A j \in Beats : beatPhase'[j] # "idle" =>
             beatPhase[j] # "idle" /\ beat'[j] = beat[j]
    BY <1>1, <1>9, MovesKeep DEF Moves, GoTo, Finish
  <2>2. beatPhase'[k] = next /\ \A j \in Beats : j # k => beatPhase'[j] = beatPhase[j]
    BY <1>1, <2>1 DEF RowsOK
  <2>3. ASSUME NEW j \in Beats, beatPhase'[j] = "find_again" PROVE Traced(beat[j])'
    <3>1. beat'[j] = beat[j]
      BY <2>1, <2>3
    <3>2. CASE j = k
      <4>1. PICK b : b = beat[k]
        OBVIOUS
      <4>2. Traced(b)'
        BY <1>9, <2>2, <2>3, <3>2, <4>1
      <4>3. QED
        BY <3>1, <3>2, <4>1, <4>2 DEF Traced
    <3>3. CASE j # k
      BY <1>5, <2>2, <2>3, <3>1, <3>3
    <3>4. QED
      BY <3>2, <3>3
  <2>4. ASSUME NEW b \in answers'
        PROVE  /\ b.agent \in Agents /\ b.no \in Nat /\ b.at \in Nat \ {0}
               /\ 1 <= b.no /\ b.no <= beats /\ Traced(b)'
    <3>1. CASE b \in answers
      BY <1>4, <1>6, <3>1
    <3>2. CASE b \notin answers
      <4>1. b = beat[k] /\ answers' # answers
        BY <1>9, <2>4, <3>2
      <4>2. Traced(b)'
        BY <1>9, <4>1
      <4>3. QED
        BY <1>3, <1>9, <4>1, <4>2
    <3>3. QED
      BY <3>1, <3>2
  <2>5. ASSUME NEW b \in answers', NEW j \in Beats, beatPhase'[j] # "idle"
        PROVE  b.no # beat'[j].no
    <3>1. beatPhase[j] # "idle" /\ beat'[j] = beat[j]
      BY <2>1, <2>5
    <3>2. CASE b \in answers
      BY <1>1, <3>1, <3>2 DEF History
    <3>3. CASE b \notin answers
      <4>1. b = beat[k] /\ j # k
        BY <1>9, <2>2, <2>5, <3>3
      <4>2. QED
        BY <1>1, <1>9, <3>1, <4>1 DEF Numbered
    <3>4. QED
      BY <3>2, <3>3
  <2>6. QED
    BY <2>1, <2>3, <2>4, <2>5 DEF History
<1>10. ASSUME NEW k \in Beats, GoesOn(k) PROVE History'
  <2>1. UNCHANGED <<row, taken>>
    BY <1>2, <1>10, NoneTaken DEF GoesOn
  <2>2. Unwritten(k) \/ beatPhase[k] = "find_again"
    BY <1>1, <1>10 DEF GoesOn, Unwritten, RowsOK, BeatPhases
  <2>3. Unwritten(k) => row[beat[k].agent].no # beat[k].no
    BY <1>1, <1>3, <1>10 DEF GoesOn, Numbered
  <2>4. Traced(beat[k])
    BY <1>1, <2>2, <2>3 DEF History, Traced
  <2>5. \A b : b = beat[k] => Traced(b)'
    BY <2>1, <2>4 DEF Traced
  <2>6. QED
    BY <1>9, <1>10, <2>5 DEF GoesOn
<1>11. ASSUME NEW k \in Beats, Writes(k) PROVE History'
  <2>1. beatPhase[k] # "idle" /\ beat[k].agent \in Agents
    BY <1>3, <1>11 DEF Writes, Unwritten
  <2>2. row'[beat[k].agent] = RowOf(beat[k])
    BY <1>1, <1>11, <2>1 DEF Writes, RowsOK
  <2>3. \A b : b = beat[k] => Traced(b)'
    BY <2>2 DEF Traced
  <2>4. CASE GoTo(k, "find_again") /\ UNCHANGED answers
    BY <1>9, <2>1, <2>3, <2>4 DEF Moves, BeatPhases
  <2>5. CASE Answer(k)
    BY <1>9, <2>1, <2>3, <2>5 DEF Answer, Moves, BeatPhases
  <2>6. QED
    BY <1>11, <2>4, <2>5 DEF Writes
<1>12. QED
  BY <1>1, <1>2, <1>7, <1>8, <1>10, <1>11, RegistryMoves DEF TakesOffline

LEMMA HeartbeatsAreTraced == IntakeSpec => [](Numbered /\ History)
<1>1. IntakeInit => Numbered /\ History
  <2>1. SUFFICES ASSUME IntakeInit PROVE Numbered /\ History
    OBVIOUS
  <2>2. /\ beats = 0 /\ answers = {} /\ taken = {} /\ \A k \in Beats : beatPhase[k] = "idle"
        /\ \A a \in Agents : row[a] \in {NoRow, FirstRow}
    BY <2>1 DEF IntakeInit, Init
  <2>3. \A a \in Agents : row[a].no = 0
    <3>1. NoRow.no = 0 /\ FirstRow.no = 0
      BY DEF NoRow, FirstRow
    <3>2. QED
      BY <2>2, <3>1
  <2>4. Numbered
    BY <2>2, <2>3, RegistryAssumption DEF Numbered, Unwritten
  <2>5. QED
    BY <2>2, <2>4 DEF History
<1>2. RowsOK /\ Numbered /\ History /\ [IntakeNext]_intakeVars => (Numbered /\ History)'
  BY NumberedNext, HistoryNext
<1>3. QED
  BY <1>1, <1>2, IntakeIsOK, PTL DEF IntakeSpec

-----------------------------------------------------------------------------
(* What a request knows of the session that it read.                       *)
Remembers(c) ==
  /\ \A b \in call[c].known : b \in answers /\ b.agent = call[c].agent
  /\ \A n \in call[c].gone : <<call[c].agent, n>> \in taken

Read(c) ==
  /\ seen[c].no \in 0 .. MaxBeats
  /\ seen[c].no \in call[c].gone => seen[c].status = "offline"
  /\ \A b \in call[c].known : b.agent \in Registered =>
       /\ b.at <= seen[c].at
       /\ seen[c].no = b.no => seen[c] = RowOf(b) \/ <<b.agent, b.no>> \in taken

Decided ==
  /\ \A c \in Calls : Under(c) => Remembers(c)
  /\ \A c \in Calls : callPhase[c] = "insert" => Read(c)

LEMMA DecidedNext ==
  RowsOK /\ IntakeOK /\ Numbered /\ History /\ NewestKept /\ Decided
    /\ [IntakeNext]_intakeVars => Decided'
<1>1. SUFFICES ASSUME RowsOK, IntakeOK, Numbered, History, NewestKept, Decided,
                      [IntakeNext]_intakeVars
               PROVE  Decided'
  OBVIOUS
<1>2. taken \subseteq taken' /\ answers \subseteq answers'
  <2>1. [Next]_vars /\ taken \subseteq taken'
    BY <1>1, TakenSteps, RegistrySteps
  <2>2. QED
    BY <1>1, <2>1, RegistryMoves DEF Receives, GoesOn, Writes, Answer, TakesOffline
(* What a request knows remains true.                                      *)
<1>3. ASSUME NEW c \in Calls, Under(c), call'[c] = call[c] PROVE Remembers(c)'
  BY <1>1, <1>2, <1>3 DEF Decided, Remembers
<1>4. ASSUME NEW c \in Calls, callPhase[c] = "insert", call'[c] = call[c], seen'[c] = seen[c]
      PROVE  Read(c)'
  BY <1>1, <1>2, <1>4 DEF Decided, Read
<1>5. CASE UNCHANGED callVars
  BY <1>1, <1>3, <1>4, <1>5 DEF callVars, Decided, Under
<1>6. ASSUME NEW c \in Calls,
             \A d \in Calls \ {c} : /\ callPhase'[d] = callPhase[d]
                                    /\ call'[d] = call[d] /\ seen'[d] = seen[d],
             Under(c)' => Remembers(c)', callPhase'[c] = "insert" => Read(c)'
      PROVE  Decided'
  <2>1. ASSUME NEW d \in Calls
        PROVE  (Under(d)' => Remembers(d)') /\ (callPhase'[d] = "insert" => Read(d)')
    <3>1. CASE d = c
      BY <1>6, <3>1
    <3>2. CASE d # c
      <4>1. /\ callPhase'[d] = callPhase[d]
            /\ call'[d] = call[d] /\ seen'[d] = seen[d]
        BY <1>6, <3>2
      <4>2. Under(d)' => Remembers(d)'
        BY <1>3, <4>1 DEF Under
      <4>3. QED
        BY <1>4, <4>1, <4>2
    <3>3. QED
      BY <3>1, <3>2
  <2>2. QED
    BY <2>1 DEF Decided
<1>7. ASSUME NEW c \in Calls, Ask(c) PROVE Decided'
  <2>1. PICK i \in Ids, a \in Agents, p \in Payloads :
          call' = [call EXCEPT ![c] =
            [id |-> i, agent |-> a, payload |-> p, at |-> clock,
             known |-> {b \in answers : b.agent = a},
             gone |-> {n \in 0 .. MaxBeats : <<a, n>> \in taken}]]
    BY <1>7 DEF Ask
  <2>2. /\ call'[c].agent = a /\ call'[c].known = {b \in answers : b.agent = a}
        /\ call'[c].gone = {n \in 0 .. MaxBeats : <<a, n>> \in taken}
    BY <1>1, <2>1 DEF IntakeOK
  <2>3. Remembers(c)'
    BY <1>2, <2>2 DEF Remembers
  <2>4. /\ callPhase'[c] = "session"
        /\ \A d \in Calls \ {c} : /\ callPhase'[d] = callPhase[d]
                                  /\ call'[d] = call[d] /\ seen'[d] = seen[d]
    BY <1>1, <1>7, <2>1 DEF Ask, IntakeOK
  <2>5. QED
    BY <1>6, <2>3, <2>4
<1>8. ASSUME NEW c \in Calls, ReadSession(c) PROVE Decided'
  <2> DEFINE a == call[c].agent
  <2>1. /\ a \in Agents /\ Remembers(c) /\ seen'[c] = row[a] /\ call' = call /\ Under(c)
        /\ UNCHANGED <<row, taken, answers>>
        /\ \A d \in Calls \ {c} : /\ callPhase'[d] = callPhase[d]
                                  /\ call'[d] = call[d] /\ seen'[d] = seen[d]
    BY <1>1, <1>8 DEF ReadSession, Enter, IntakeOK, Decided, Under, vars
  <2>2. row[a].no \in 0 .. MaxBeats
    <3>1. row[a].no \in Nat
      BY <1>1, <2>1 DEF RowsOK, RowType
    <3>2. row[a].no <= beats /\ beats \in Nat /\ beats <= MaxBeats
      BY <1>1, <2>1 DEF Numbered
    <3>3. QED
      BY <3>1, <3>2, RegistryAssumption
  <2>3. row[a].no \in call[c].gone => row[a].status = "offline"
    BY <1>1, <2>1 DEF Remembers, Numbered
  <2>4. ASSUME NEW b \in call[c].known, b.agent \in Registered
        PROVE  /\ b.at <= row[a].at
               /\ row[a].no = b.no => row[a] = RowOf(b) \/ <<b.agent, b.no>> \in taken
    <3>1. b \in answers /\ b.agent = a
      BY <2>1, <2>4 DEF Remembers
    <3>2. row[a].at >= b.at /\ row[a].at \in Nat /\ b.at \in Nat
      BY <1>1, <2>1, <2>4, <3>1 DEF NewestKept, KeptOf, RowsOK, RowType, History
    <3>3. Traced(b)
      BY <1>1, <3>1 DEF History
    <3>4. QED
      BY <3>1, <3>2, <3>3 DEF Traced
  <2>5. Read(c)'
    BY <2>1, <2>2, <2>3, <2>4 DEF Read
  <2>6. Remembers(c)'
    BY <1>3, <2>1
  <2>7. QED
    BY <1>6, <2>1, <2>5, <2>6
<1>9. ASSUME NEW c \in Calls, InsertJob(c) \/ InsertUnreported(c) \/ FindJob(c)
                              \/ Respond(c) \/ CallFails(c)
      PROVE  Decided'
  <2>1. /\ \/ call' = call /\ callPhase'[c] # "insert" /\ Under(c)
           \/ callPhase'[c] = "idle"
        /\ \A d \in Calls \ {c} : /\ callPhase'[d] = callPhase[d]
                                  /\ call'[d] = call[d] /\ seen'[d] = seen[d]
    BY <1>1, <1>9 DEF InsertJob, InsertUnreported, FindJob, Respond, CallFails, Compose,
       EndCall, Enter, IntakeOK, Under
  <2>2. QED
    BY <1>3, <1>6, <2>1 DEF Under
<1>10. (\E c \in Calls : CallStep(c)) \/ UNCHANGED callVars
  BY <1>1 DEF IntakeNext, intakeVars, RegistryStep, ClaimJob, RecordJob, SetStatus
<1>11. QED
  BY <1>5, <1>7, <1>8, <1>9, <1>10 DEF CallStep

LEMMA DecisionsAreRead == IntakeSpec => [](IntakeOK /\ Decided)
<1>1. IntakeInit => Decided
  BY DEF IntakeInit, Decided, Under
<1>2. IntakeSpec => []NewestKept
  BY RegistryBehaves, AnsweredHeartbeatsAreKept, PTL
<1>3. QED
  BY <1>1, <1>2, DecidedNext, IntakeIsOK, HeartbeatsAreTraced, PTL DEF IntakeSpec

(* The job that a request stores is the one that it decided on.            *)
LEMMA CreatedJobs ==
  ASSUME IntakeOK, [IntakeNext]_intakeVars, NEW c \in Calls, Creates(c)
  PROVE  /\ jobs'[call[c].id].status = Decision(seen[c], call[c].at)
         /\ jobs'[call[c].id].session = IF seen[c].at = 0 THEN NoSession ELSE seen[c].no
<1>1. callPhase'[c] # callPhase[c] /\ callPhase[c] = "insert" /\ call[c].id \in Ids
      /\ jobs'[call[c].id] # jobs[call[c].id]
  BY DEF Creates, IntakeOK, Under
<1>2. PICK d \in Calls : CallStep(d)
  BY <1>1 DEF IntakeNext, intakeVars, RegistryStep, ClaimJob, RecordJob, SetStatus, callVars
<1>3. d = c
  BY <1>1, <1>2 DEF CallStep, Ask, ReadSession, InsertJob, InsertUnreported, FindJob, Respond,
     CallFails, Compose, EndCall, Enter, IntakeOK
<1>4. InsertJob(c) \/ InsertUnreported(c)
  BY <1>1, <1>2, <1>3 DEF CallStep, Ask, ReadSession, FindJob, Respond, CallFails
<1>5. jobs'[call[c].id] = JobOf(c)
  BY <1>1, <1>4 DEF InsertJob, InsertUnreported, IntakeOK
<1>6. /\ JobOf(c).status = Decision(seen[c], call[c].at)
      /\ JobOf(c).session = IF seen[c].at = 0 THEN NoSession ELSE seen[c].no
  BY DEF JobOf
<1>7. QED
  BY <1>5, <1>6

(* A job is queued for the runtime only for a session that nothing had     *)
(* taken offline when the request came (resolveTriggerDecision).           *)
THEOREM QueuedJobsAreReachable == IntakeSpec => QueuedWasReachable
<1>1. ASSUME IntakeOK, Decided, [IntakeNext]_intakeVars, NEW c \in Calls, Creates(c),
             jobs'[call[c].id].status = "queued"
      PROVE  /\ jobs'[call[c].id].session \in (0 .. MaxBeats) \ call[c].gone
             /\ \A b \in call[c].known : b.agent \in Registered => b.at <= seen[c].at
  <2>1. /\ jobs'[call[c].id].session = IF seen[c].at = 0 THEN NoSession ELSE seen[c].no
        /\ Decision(seen[c], call[c].at) = "queued"
    BY <1>1, CreatedJobs
  <2>2. seen[c].at # 0 /\ seen[c].status # "offline"
    BY <2>1 DEF Decision
  <2>3. Read(c)
    BY <1>1 DEF Decided, Creates
  <2>4. QED
    BY <2>1, <2>2, <2>3 DEF Read
<1>2. IntakeOK /\ Decided /\ [IntakeNext]_intakeVars =>
        [\A c \in Calls : Creates(c) /\ jobs'[call[c].id].status = "queued" =>
           /\ jobs'[call[c].id].session \in (0 .. MaxBeats) \ call[c].gone
           /\ \A b \in call[c].known :
                b.agent \in Registered => b.at <= seen[c].at]_intakeVars
  BY <1>1
<1>3. QED
  BY <1>2, DecisionsAreRead, PTL DEF IntakeSpec, QueuedWasReachable

(* An agent whose last heartbeat says that it can be reached is handed to  *)
(* the fallback only if a newer heartbeat replaced that one, or a tick or  *)
(* a deregistration took its session offline (resolveTriggerDecision).     *)
THEOREM FallbacksAreEarned == IntakeSpec => FallbackEarned
<1>1. ASSUME IntakeOK, Decided, History, [IntakeNext]_intakeVars, NEW c \in Calls, Creates(c),
             jobs'[call[c].id].status \in FallbackStatuses,
             NEW b \in call[c].known, b.agent \in Registered, Reachable(b, call[c].at)
      PROVE  \/ seen[c].no # b.no /\ seen[c].at >= b.at
             \/ <<b.agent, b.no>> \in taken
  <2>1. Read(c) /\ Remembers(c)
    BY <1>1 DEF Decided, Creates, Under
  <2>2. seen[c].at \in Nat /\ b.at \in Nat \ {0} /\ b.at <= seen[c].at
    BY <1>1, <2>1 DEF Read, Remembers, History, IntakeOK, RowType
  <2>3. seen[c] # RowOf(b)
    <3>1. Decision(seen[c], call[c].at) # "queued"
      BY <1>1, CreatedJobs DEF FallbackStatuses
    <3>2. RowOf(b).at # 0 /\ RowOf(b).mode = b.mode /\ RowOf(b).status = b.status
      BY <2>2 DEF RowOf
    <3>3. Decision(RowOf(b), call[c].at) = "queued"
      BY <1>1, <3>2 DEF Decision, Reachable
    <3>4. QED
      BY <3>1, <3>3
  <2>4. QED
    BY <1>1, <2>1, <2>2, <2>3 DEF Read
<1>2. IntakeOK /\ Decided /\ History /\ [IntakeNext]_intakeVars =>
        [\A c \in Calls : Creates(c) /\ jobs'[call[c].id].status \in FallbackStatuses =>
           \A b \in call[c].known :
             b.agent \in Registered /\ Reachable(b, call[c].at) =>
               \/ seen[c].no # b.no /\ seen[c].at >= b.at
               \/ <<b.agent, b.no>> \in taken]_intakeVars
  BY <1>1
<1>3. QED
  BY <1>2, DecisionsAreRead, HeartbeatsAreTraced, PTL DEF IntakeSpec, FallbackEarned
-----------------------------------------------------------------------------
(* Types.                                                                  *)

(* None of the records stands for there being none.                        *)
LEMMA NoRecords == NoCall \notin Call /\ NoReply \notin Reply /\ NoJob \notin Job
<1>1. \A x \in Call : "agent" \in DOMAIN x
  BY DEF Call
<1>2. \A x \in Reply : "agent" \in DOMAIN x
  BY DEF Reply
<1>3. \A x \in Job : "agent" \in DOMAIN x
  BY DEF Job
<1>4. "agent" \notin DOMAIN NoCall /\ "agent" \notin DOMAIN NoReply /\ "agent" \notin DOMAIN NoJob
  BY DEF NoCall, NoReply, NoJob
<1> QED
  BY <1>1, <1>2, <1>3, <1>4

(* A job and an answer that are made from a request and a row.             *)
LEMMA MadeRecords ==
  ASSUME IntakeTypeOK, NEW c \in Calls, callPhase[c] # "idle"
  PROVE  /\ JobOf(c) \in Job
         /\ \A job \in Job :
              [id |-> call[c].id, agent |-> call[c].agent, payload |-> call[c].payload,
               action |-> ActionOf(job.status), session |-> job.session, at |-> job.at]
                \in Reply
         /\ \A job \in Job :
              [id |-> call[c].id, agent |-> call[c].agent, payload |-> call[c].payload,
               action |-> "idempotency_conflict", session |-> job.session, at |-> job.at]
                \in Reply
<1>1. /\ call[c].id \in Ids /\ call[c].agent \in Agents /\ call[c].payload \in Payloads
      /\ call[c].at \in Time /\ seen[c].no \in 0 .. MaxBeats
  BY DEF IntakeTypeOK, Call, Rows
<1>2. Decision(seen[c], call[c].at) \in JobStatuses
  BY DEF Decision, JobStatuses, DueStatuses, SettledStatuses, FallbackStatuses
<1>3. JobOf(c) \in Job
  BY <1>1, <1>2 DEF JobOf, Job, Sessions
<1>4. \A job \in Job : /\ job.session \in Sessions /\ job.at \in Time
                       /\ ActionOf(job.status) \in Actions
  BY DEF Job, ActionOf, Actions
<1> QED
  BY <1>1, <1>3, <1>4 DEF Reply

(* The phase of a request says which records it has, and the table of jobs *)
(* and the histories hold records of their kinds.                          *)
RequestTypes ==
  /\ callPhase \in [Calls -> CallPhases]
  /\ call \in [Calls -> Call \cup {NoCall}]
  /\ \A c \in Calls : callPhase[c] # "idle" <=> call[c] \in Call
  /\ seen \in [Calls -> Rows]
  /\ reply \in [Calls -> Reply \cup {NoReply}]
  /\ \A c \in Calls : callPhase[c] = "audit" <=> reply[c] \in Reply
TableTypes ==
  /\ jobs \in [Ids -> Job \cup {NoJob}]
  /\ told \subseteq Reply
  /\ taken \subseteq Agents \X (0 .. MaxBeats)
  /\ calls \in 0 .. MaxCalls

LEMMA EndedCall ==
  ASSUME RequestTypes, NEW c \in Calls, EndCall(c)
  PROVE  RequestTypes'
<1>1. NoRow \in Rows
  BY RowsClosed
<1> QED
  BY <1>1, NoRecords DEF RequestTypes, EndCall, Enter, CallPhases

LEMMA EnteredCall ==
  ASSUME RequestTypes, NEW c \in Calls, NEW next \in CallPhases \ {"idle", "audit"},
         callPhase[c] \notin {"idle", "audit"}, Enter(c, next), UNCHANGED <<call, reply>>,
         seen' \in [Calls -> Rows]
  PROVE  RequestTypes'
  BY DEF RequestTypes, Enter

LEMMA ComposedCall ==
  ASSUME IntakeTypeOK, RequestTypes, NEW c \in Calls, callPhase[c] # "idle",
         NEW job \in Job, Compose(c, job)
  PROVE  RequestTypes'
<1> DEFINE r == [id |-> call[c].id, agent |-> call[c].agent, payload |-> call[c].payload,
                 action |-> ActionOf(job.status), session |-> job.session, at |-> job.at]
<1>1. r \in Reply
  BY MadeRecords
<1>2. reply' = [reply EXCEPT ![c] = r] /\ Enter(c, "audit") /\ UNCHANGED <<call, seen>>
  BY DEF Compose
<1> HIDE DEF r
<1> QED
  BY <1>1, <1>2 DEF RequestTypes, Enter, CallPhases

LEMMA StoredJob ==
  ASSUME IntakeTypeOK, NEW i \in Ids, jobs[i].status \in JobStatuses, NEW status \in JobStatuses
  PROVE  [jobs EXCEPT ![i].status = status] \in [Ids -> Job \cup {NoJob}]
<1>1. jobs[i] # NoJob
  BY DEF NoJob, JobStatuses, DueStatuses, SettledStatuses, FallbackStatuses
<1>2. jobs[i] \in Job
  BY <1>1 DEF IntakeTypeOK
<1>3. \A job \in Job : [job EXCEPT !.status = status] \in Job
  BY DEF Job
<1>4. [jobs EXCEPT ![i].status = status] = [jobs EXCEPT ![i] = [jobs[i] EXCEPT !.status = status]]
  OBVIOUS
<1> QED
  BY <1>2, <1>3, <1>4 DEF IntakeTypeOK

LEMMA IntakeTypeOKNext ==
  IntakeTypeOK /\ TypeOK' /\ Answered /\ [IntakeNext]_intakeVars => IntakeTypeOK'
<1>1. SUFFICES ASSUME IntakeTypeOK, TypeOK', Answered, [IntakeNext]_intakeVars
               PROVE  RequestTypes' /\ TableTypes'
  BY DEF IntakeTypeOK, RequestTypes, TableTypes
<1>2. RequestTypes /\ TableTypes /\ TypeOK
  BY <1>1 DEF IntakeTypeOK, RequestTypes, TableTypes
<1>3. CASE UNCHANGED intakeVars
  BY <1>2, <1>3 DEF RequestTypes, TableTypes, intakeVars, callVars
<1>4. CASE RegistryStep
  <2>1. TakenOffline \subseteq Agents \X (0 .. MaxBeats)
    <3>1. \A a \in Agents : row[a].no \in 0 .. MaxBeats
      BY <1>2 DEF TypeOK, Rows
    <3> QED
      BY <3>1 DEF TakenOffline
  <2> QED
    BY <1>2, <1>4, <2>1 DEF RegistryStep, RequestTypes, TableTypes, callVars
<1>5. ASSUME NEW c \in Calls, Ask(c) PROVE RequestTypes' /\ TableTypes'
  <2>1. PICK i \in Ids, a \in Agents, p \in Payloads :
          call' = [call EXCEPT ![c] =
            [id |-> i, agent |-> a, payload |-> p, at |-> clock,
             known |-> {b \in answers : b.agent = a},
             gone |-> {n \in 0 .. MaxBeats : <<a, n>> \in taken}]]
    BY <1>5 DEF Ask
  <2> DEFINE asked == [id |-> i, agent |-> a, payload |-> p, at |-> clock,
                       known |-> {b \in answers : b.agent = a},
                       gone |-> {n \in 0 .. MaxBeats : <<a, n>> \in taken}]
  <2>2. asked \in Call
    <3>1. clock \in Time /\ answers \subseteq Beat
      BY <1>2 DEF TypeOK
    <3> QED
      BY <3>1 DEF Call
  <2>3. call' = [call EXCEPT ![c] = asked]
    BY <2>1
  <2> HIDE DEF asked
  <2>4. RequestTypes'
    BY <1>2, <1>5, <2>2, <2>3 DEF Ask, RequestTypes, CallPhases
  <2>5. calls' \in 0 .. MaxCalls
    BY <1>2, <1>5, IntakeAssumption DEF Ask, TableTypes
  <2> QED
    BY <1>2, <1>5, <2>4, <2>5 DEF Ask, TableTypes
<1>6. ASSUME NEW c \in Calls, ReadSession(c) PROVE RequestTypes' /\ TableTypes'
  <2>1. call[c] \in Call
    BY <1>2, <1>6 DEF ReadSession, RequestTypes
  <2>2. row[call[c].agent] \in Rows
    BY <1>2, <2>1 DEF TypeOK, Call
  <2>3. seen' \in [Calls -> Rows]
    BY <1>2, <1>6, <2>2 DEF ReadSession, RequestTypes
  <2>4. RequestTypes'
    BY <1>2, <1>6, <2>3, EnteredCall DEF ReadSession, CallPhases
  <2> QED
    BY <1>2, <1>6, <2>4 DEF ReadSession, TableTypes
<1>7. ASSUME NEW c \in Calls, InsertJob(c) \/ InsertUnreported(c)
      PROVE  RequestTypes' /\ TableTypes'
  <2>1. callPhase[c] = "insert" /\ UNCHANGED <<told, taken>>
    BY <1>7 DEF InsertJob, InsertUnreported
  <2>2. JobOf(c) \in Job
    BY <1>1, <2>1, MadeRecords
  <2>3. jobs' \in [Ids -> Job \cup {NoJob}]
    BY <1>2, <1>7, <2>2 DEF InsertJob, InsertUnreported, TableTypes
  <2>4. calls' = calls
    BY <1>7 DEF InsertJob, InsertUnreported, Compose, EndCall
  <2>5. RequestTypes'
    <3>1. CASE InsertUnreported(c)
      BY <1>2, <3>1, EndedCall DEF InsertUnreported
    <3>2. CASE Compose(c, JobOf(c))
      BY <1>1, <1>2, <2>1, <2>2, <3>2, ComposedCall
    <3>3. CASE Enter(c, "find") /\ UNCHANGED <<call, seen, reply>>
      <4>1. seen' \in [Calls -> Rows]
        BY <1>2, <3>3 DEF RequestTypes
      <4> QED
        BY <1>2, <2>1, <3>3, <4>1, EnteredCall DEF CallPhases
    <3> QED
      BY <1>7, <3>1, <3>2, <3>3 DEF InsertJob
  <2> QED
    BY <1>2, <2>1, <2>3, <2>4, <2>5 DEF TableTypes
<1>8. ASSUME NEW c \in Calls, FindJob(c) PROVE RequestTypes' /\ TableTypes'
  <2>1. callPhase[c] = "find" /\ UNCHANGED <<jobs, taken>>
    BY <1>8 DEF FindJob
  <2>2. call[c] \in Call
    BY <1>2, <2>1 DEF RequestTypes
  <2>3. PICK job \in Job : job = jobs[call[c].id]
    <3>1. call[c].id \in Ids /\ jobs[call[c].id] # NoJob
      BY <1>1, <2>1, <2>2 DEF Answered, Call
    <3> QED
      BY <1>2, <3>1 DEF TableTypes
  <2>4. \/ Compose(c, job) /\ UNCHANGED told
        \/ /\ told' = told \cup
                {[id |-> call[c].id, agent |-> call[c].agent, payload |-> call[c].payload,
                  action |-> "idempotency_conflict", session |-> job.session, at |-> job.at]}
           /\ EndCall(c)
    BY <1>8, <2>3 DEF FindJob
  <2>5. RequestTypes'
    BY <1>1, <1>2, <2>1, <2>4, ComposedCall, EndedCall
  <2>6. told' \subseteq Reply
    <3>1. [id |-> call[c].id, agent |-> call[c].agent, payload |-> call[c].payload,
           action |-> "idempotency_conflict", session |-> job.session, at |-> job.at]
             \in Reply
      BY <1>1, <2>1, MadeRecords
    <3>2. told \subseteq Reply
      BY <1>2 DEF TableTypes
    <3> QED
      BY <2>4, <3>1, <3>2
  <2>7. calls' = calls
    BY <2>4 DEF Compose, EndCall
  <2> QED
    BY <1>2, <2>1, <2>5, <2>6, <2>7 DEF TableTypes
<1>9. ASSUME NEW c \in Calls, Respond(c) \/ CallFails(c) PROVE RequestTypes' /\ TableTypes'
  <2>1. EndCall(c) /\ UNCHANGED <<jobs, taken>>
    BY <1>9 DEF Respond, CallFails
  <2>2. RequestTypes'
    BY <1>2, <2>1, EndedCall
  <2>3. told' \subseteq Reply
    BY <1>2, <1>9 DEF Respond, CallFails, RequestTypes, TableTypes
  <2> QED
    BY <1>2, <2>1, <2>2, <2>3 DEF TableTypes, EndCall
<1>10. ASSUME NEW i \in Ids, ClaimJob(i) \/ RecordJob(i) PROVE RequestTypes' /\ TableTypes'
  <2>1. /\ UNCHANGED <<callVars, told, taken>>
        /\ jobs[i].status \in JobStatuses
        /\ \E status \in JobStatuses : jobs' = [jobs EXCEPT ![i].status = status]
    BY <1>10, IntakeAssumption
    DEF ClaimJob, RecordJob, SetStatus, JobStatuses, DueStatuses
  <2>2. jobs' \in [Ids -> Job \cup {NoJob}]
    BY <1>1, <2>1, StoredJob
  <2> QED
    BY <1>2, <2>1, <2>2 DEF RequestTypes, TableTypes, callVars
<1> QED
  BY <1>1, <1>3, <1>4, <1>5, <1>6, <1>7, <1>8, <1>9, <1>10 DEF IntakeNext, CallStep

(* Requests, jobs and the registry keep their shape: in particular every   *)
(* answer is made of a job that is there, and names the session and the    *)
(* time of one.                                                            *)
THEOREM IntakeTypeCorrect == IntakeSpec => []IntakeTypeOK
<1>1. IntakeInit => RequestTypes /\ TableTypes
  <2>1. NoRow \in Rows
    BY RowsClosed
  <2>2. 0 \in 0 .. MaxCalls
    BY IntakeAssumption
  <2> QED
    BY <2>1, <2>2, NoRecords DEF IntakeInit, RequestTypes, TableTypes, CallPhases
<1>2. IntakeInit /\ TypeOK => IntakeTypeOK
  BY <1>1 DEF IntakeTypeOK, RequestTypes, TableTypes
<1>3. IntakeSpec => []TypeOK
  BY RegistryBehaves, RegistryTypeCorrect, PTL
<1> QED
  BY <1>2, <1>3, IntakeTypeOKNext, AnswersAreTrue, PTL DEF IntakeSpec
=============================================================================
