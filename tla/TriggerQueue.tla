---------------------------- MODULE TriggerQueue ----------------------------
(***************************************************************************)
(* The supervisor worker's trigger queue: apps/supervisor-worker/src/      *)
(* trigger-queue.ts, driven by worker-loop.ts and main.ts.                 *)
(*                                                                         *)
(* The tables trigger_jobs, trigger_attempts and threads are shared; every *)
(* worker process adds memory of its own (loop guard and rate limiter) and *)
(* ticks.  main.ts starts a tick from setInterval without awaiting the one *)
(* before it, so several ticks of one worker can be under way.  A step of  *)
(* a tick here is what the code does between two awaits.                   *)
(*                                                                         *)
(* Time is a clock of whole units; a null next_retry_at is 0, which is due *)
(* at every time as the null is.                                           *)
(*                                                                         *)
(* An operator with "Wrong" in its name is not part of the model: it is the *)
(* definition after it with a plausible mistake in the code, and the       *)
(* property that PROJECT.json pairs it with notices that mistake.          *)
(***************************************************************************)
EXTENDS Integers, Sequences, FiniteSets, Stamps

CONSTANTS
  Jobs, Threads, Agents,    \* trigger ids, thread ids, target agent ids
  ThreadOf, AgentOf,        \* the thread and the target agent of each job
  Workers, Ticks, WorkerOf, \* processes, concurrent tick slots, their process
  NoJob,                    \* "no job in progress"
  MaxRetries,               \* max_retries of the jobs the API creates
  ClaimLimit,               \* jobs one tick may claim
  BackoffBase, BackoffMax,  \* backoff of a timed-out attempt
  DeferRecheck, MaxDefer,   \* recheck delay and longest wait for a busy pane
  RateLimit, RateWindow,    \* attempts allowed per thread and agent in a window
  LoopMaxTurns,             \* outcomes without progress that block a thread
  LoopMaxRepeatedFindings,  \* equal error codes in a row that block a thread
  TransientCodes,           \* error codes reported as a timeout to retry
  PermanentCodes,           \* error codes reported as a failure
  MaxTime, SubmitHorizon,   \* bounds: last clock value, last submission time
  MaxFaults,                \* bound: failed ticks and worker restarts
  OperatorActs              \* bound: whether thread statuses change from outside

CodesOfQueue == {"none", "OPERATOR_BUSY", "DEFER_TIMEOUT", "TRIGGER_RATE_LIMITED",
                 "FALLBACK_SPAWN_FAILED", "THREAD_AUTO_BLOCKED"}
Codes == CodesOfQueue \cup TransientCodes \cup PermanentCodes

-----------------------------------------------------------------------------
(* Job statuses and attempt results, as the database enumerations.         *)

DueStatusesWrongRetriesFailed == {"queued", "timeout", "deferred", "failed"}
DueStatusesWrongForgetsTimeout == {"queued", "deferred"}
DueStatuses == {"queued", "timeout", "deferred"}
SettledStatuses == {"delivered", "failed", "fallback_resume", "fallback_spawn"}
JobStatuses == DueStatuses \cup SettledStatuses \cup {"triggering"}
NotCreated == "absent"      \* no row of trigger_jobs yet

ProgressResults == {"delivered", "fallback_resume_succeeded", "fallback_spawned"}
AttemptResults == ProgressResults \cup {"deferred", "timeout", "failed",
                                        "fallback_resume_failed"}

ThreadStatuses == {"active", "blocked", "resolved", "closed"}
ThreadTransitions == [active   |-> {"blocked", "resolved", "closed"},
                      blocked  |-> {"active", "closed"},
                      resolved |-> {"closed"},
                      closed   |-> {}]

(* computeBackoffMs: doubled for every attempt, capped.                    *)
Backoff(attemptNo) ==
  LET raw == BackoffBase * 2 ^ (IF attemptNo > 1 THEN attemptNo - 1 ELSE 0)
  IN  IF raw < BackoffMax THEN raw ELSE BackoffMax

ASSUME QueueAssumption ==
  /\ ThreadOf \in [Jobs -> Threads]
  /\ AgentOf \in [Jobs -> Agents]
  /\ WorkerOf \in [Ticks -> Workers]
  /\ NoJob \notin Jobs
  /\ MaxRetries \in Nat /\ ClaimLimit \in Nat \ {0}
  /\ DeferRecheck \in Nat \ {0} /\ MaxDefer \in Nat
  /\ RateLimit \in Nat \ {0} /\ RateWindow \in Nat
  /\ LoopMaxTurns \in Nat \ {0} /\ LoopMaxRepeatedFindings \in Nat \ {0}
  /\ MaxTime \in Nat /\ SubmitHorizon \in Nat /\ MaxFaults \in Nat
  /\ OperatorActs \in BOOLEAN

(* A retried attempt waits: the backoff of every attempt that may be       *)
(* retried is a positive number of units.                                  *)
ASSUME BackoffAssumption ==
  \A n \in 1 .. MaxRetries : Backoff(n) \in Nat \ {0}

-----------------------------------------------------------------------------
VARIABLES
  clock,
  \* trigger_jobs
  status, attempts, nextRetryAt, createdAt, updatedAt,
  \* trigger_attempts: the rows of each job
  rows,
  \* threads
  threadStatus,
  \* memory of each worker process
  loopState,    \* loopState[w][t]: turns, code and cycles without progress
  rateEvents,   \* rateEvents[w][k]: time stamps of the admitted attempts
  \* ticks
  phase, processedAt,
  candidates,   \* due rows read and not yet tried to claim
  hand,         \* claimed jobs whose attempt is not recorded
  seen,         \* seen[s][j]: the attempts column of the claimed row
  current,      \* the job of the iteration under way
  verdict,      \* what the iteration decided to record
  faults        \* bound counter

jobVars == <<status, attempts, nextRetryAt, createdAt, updatedAt>>
memoryVars == <<loopState, rateEvents>>
tickVars == <<phase, processedAt, candidates, hand, seen, current, verdict>>
vars == <<clock, jobVars, rows, threadStatus, memoryVars, tickVars, faults>>

Time == 0 .. MaxTime
RateKeys == Threads \X Agents
RateKey(j) == <<ThreadOf[j], AgentOf[j]>>

Phases == {"idle", "reading", "claiming", "processing", "executing",
           "falling_back", "blocking", "recording"}
AttemptPhases == {"executing", "falling_back", "blocking", "recording"}

Row(no, result, code, at) ==
  [no |-> no, result |-> result, code |-> code, at |-> at]
Verdict(result, code, st, at) ==
  [result |-> result, code |-> code, status |-> st, retryAt |-> at]
NoVerdict == Verdict("failed", "none", "failed", 0)
NoLoop == [turns |-> 0, code |-> "none", cycles |-> 0]
Outcome(result, retryable, code) ==
  [result |-> result, retryable |-> retryable, code |-> code]

Init ==
  /\ clock = 0
  /\ status = [j \in Jobs |-> NotCreated]
  /\ attempts = [j \in Jobs |-> 0]
  /\ nextRetryAt = [j \in Jobs |-> 0]
  /\ createdAt = [j \in Jobs |-> 0]
  /\ updatedAt = [j \in Jobs |-> 0]
  /\ rows = [j \in Jobs |-> {}]
  /\ threadStatus = [t \in Threads |-> "active"]
  /\ loopState = [w \in Workers |-> [t \in Threads |-> NoLoop]]
  /\ rateEvents = [w \in Workers |-> [k \in RateKeys |-> <<>>]]
  /\ phase = [s \in Ticks |-> "idle"]
  /\ processedAt = [s \in Ticks |-> 0]
  /\ candidates = [s \in Ticks |-> {}]
  /\ hand = [s \in Ticks |-> {}]
  /\ seen = [s \in Ticks |-> [j \in Jobs |-> 0]]
  /\ current = [s \in Ticks |-> NoJob]
  /\ verdict = [s \in Ticks |-> NoVerdict]
  /\ faults = 0

-----------------------------------------------------------------------------
(* The environment: the API, the operator and time.                        *)

(* trigger_participant inserts a job: for the runtime, or marked for       *)
(* fallback when no managed runtime is available.                          *)
Submit(j) ==
  /\ status[j] = NotCreated
  /\ clock <= SubmitHorizon
  /\ \E st \in {"queued", "fallback_resume", "fallback_spawn"} :
       status' = [status EXCEPT ![j] = st]
  /\ createdAt' = [createdAt EXCEPT ![j] = clock]
  /\ updatedAt' = [updatedAt EXCEPT ![j] = clock]
  /\ UNCHANGED <<clock, attempts, nextRetryAt, rows, threadStatus, memoryVars,
                 tickVars, faults>>

(* update_thread_status of the API or the operator's command line.         *)
UpdateThreadStatus(t) ==
  /\ OperatorActs
  /\ \E st \in ThreadTransitions[threadStatus[t]] :
       threadStatus' = [threadStatus EXCEPT ![t] = st]
  /\ UNCHANGED <<clock, jobVars, rows, memoryVars, tickVars, faults>>

AdvanceClock ==
  /\ clock < MaxTime
  /\ clock' = clock + 1
  /\ UNCHANGED <<jobVars, rows, threadStatus, memoryVars, tickVars, faults>>

-----------------------------------------------------------------------------
(* Claiming.                                                               *)

(* setInterval fires: the tick takes its one time stamp, then reconciles   *)
(* unread messages and runtimes before it comes to the queue.              *)
StartTick(s) ==
  /\ phase[s] = "idle"
  /\ phase' = [phase EXCEPT ![s] = "reading"]
  /\ processedAt' = [processedAt EXCEPT ![s] = clock]
  /\ UNCHANGED <<clock, jobVars, rows, threadStatus, memoryVars, candidates,
                 hand, seen, current, verdict, faults>>

Due(at) == {j \in Jobs : status[j] \in DueStatuses /\ nextRetryAt[j] <= at}

(* The candidates: the oldest due rows, three times the limit, with the    *)
(* status and the updated_at that the claim will compare.                  *)
ReadCandidates(s) ==
  /\ phase[s] = "reading"
  /\ \E chosen \in SUBSET Due(processedAt[s]) :
       /\ \/ chosen = Due(processedAt[s]) /\ Cardinality(chosen) <= 3 * ClaimLimit
          \/ Cardinality(chosen) = 3 * ClaimLimit
       /\ \A j \in chosen, i \in Due(processedAt[s]) \ chosen :
            createdAt[j] <= createdAt[i]
       /\ candidates' = [candidates EXCEPT ![s] =
            {[job |-> j, status |-> status[j], updatedAt |-> updatedAt[j]] :
               j \in chosen}]
  /\ phase' = [phase EXCEPT ![s] = "claiming"]
  /\ UNCHANGED <<clock, jobVars, rows, threadStatus, memoryVars, processedAt,
                 hand, seen, current, verdict, faults>>

(* The row is as the tick read it.                                         *)
UnchangedWrongAnyStatus(c) == updatedAt[c.job] = c.updatedAt
UnchangedWrongAnyTime(c) == status[c.job] = c.status
Unchanged(c) == status[c.job] = c.status /\ updatedAt[c.job] = c.updatedAt

(* The oldest candidate: its row is claimed if nobody changed it since.    *)
ClaimNext(s) ==
  /\ phase[s] = "claiming"
  /\ Cardinality(hand[s]) < ClaimLimit
  /\ \E c \in candidates[s] :
       /\ \A d \in candidates[s] : createdAt[c.job] <= createdAt[d.job]
       /\ candidates' = [candidates EXCEPT ![s] = @ \ {c}]
       /\ IF Unchanged(c)
          THEN /\ status' = [status EXCEPT ![c.job] = "triggering"]
               /\ updatedAt' = [updatedAt EXCEPT ![c.job] = processedAt[s]]
               /\ hand' = [hand EXCEPT ![s] = @ \cup {c.job}]
               /\ seen' = [seen EXCEPT ![s][c.job] = attempts[c.job]]
          ELSE UNCHANGED <<status, updatedAt, hand, seen>>
  /\ UNCHANGED <<clock, attempts, nextRetryAt, createdAt, rows, threadStatus,
                 memoryVars, phase, processedAt, current, verdict, faults>>

ClaimDone(s) ==
  /\ phase[s] = "claiming"
  /\ candidates[s] = {} \/ Cardinality(hand[s]) >= ClaimLimit
  /\ phase' = [phase EXCEPT ![s] = "processing"]
  /\ candidates' = [candidates EXCEPT ![s] = {}]
  /\ UNCHANGED <<clock, jobVars, rows, threadStatus, memoryVars, processedAt,
                 hand, seen, current, verdict, faults>>

-----------------------------------------------------------------------------
(* One iteration of the processing loop.                                   *)

(* updateLoopState for one outcome.                                        *)
LoopAfter(loop, result, code) ==
  IF result \in ProgressResults
  THEN NoLoop
  ELSE [turns  |-> loop.turns + 1,
        code   |-> code,
        cycles |-> IF loop.code = code THEN loop.cycles + 1 ELSE 1]

AutoBlocksWrongEarly(loop) == \/ loop.turns >= LoopMaxTurns
                              \/ loop.cycles + 1 >= LoopMaxRepeatedFindings
AutoBlocks(loop) == \/ loop.turns >= LoopMaxTurns
                    \/ loop.cycles >= LoopMaxRepeatedFindings

(* The tail of an iteration up to its next await: count the outcome in the *)
(* loop guard, and block the thread or record what was decided.            *)
Conclude(s, j, v) ==
  LET w == WorkerOf[s]
      loop == LoopAfter(loopState[w][ThreadOf[j]], v.result, v.code)
  IN  /\ loopState' = [loopState EXCEPT ![w][ThreadOf[j]] = loop]
      /\ \/ /\ AutoBlocks(loop)
            /\ phase' = [phase EXCEPT ![s] = "blocking"]
            /\ verdict' = [verdict EXCEPT ![s] =
                             Verdict("failed", "THREAD_AUTO_BLOCKED", "failed", 0)]
         \/ /\ ~AutoBlocks(loop)
            /\ phase' = [phase EXCEPT ![s] = "recording"]
            /\ verdict' = [verdict EXCEPT ![s] = v]

(* The time stamps of the limiter that are still in the window.            *)
RecentEventsWrongWindow(s, j) ==
  Since(rateEvents[WorkerOf[s]][RateKey(j)], processedAt[s])
RecentEvents(s, j) ==
  Since(rateEvents[WorkerOf[s]][RateKey(j)], processedAt[s] - RateWindow)

(* The jobs that may be next: claims are worked off oldest first.          *)
NextInHand(s) == {j \in hand[s] : \A i \in hand[s] : createdAt[j] <= createdAt[i]}

(* The limiter lets the attempt through: the executor is called.           *)
BeginAttempt(s) ==
  /\ phase[s] = "processing"
  /\ \E j \in NextInHand(s) :
       /\ Len(RecentEvents(s, j)) < RateLimit
       /\ rateEvents' = [rateEvents EXCEPT ![WorkerOf[s]][RateKey(j)] =
                           Append(RecentEvents(s, j), processedAt[s])]
       /\ current' = [current EXCEPT ![s] = j]
  /\ phase' = [phase EXCEPT ![s] = "executing"]
  /\ UNCHANGED <<clock, jobVars, rows, threadStatus, loopState, processedAt,
                 candidates, hand, seen, verdict, faults>>

(* The limiter refuses: the job is deferred until the first stamp leaves   *)
(* the window, without an executor call and without an await.              *)
DeferByRateLimit(s) ==
  /\ phase[s] = "processing"
  /\ \E j \in NextInHand(s), oldest \in Time :
       LET recent == RecentEvents(s, j)
           left == oldest + RateWindow - processedAt[s]
           delay == IF left > DeferRecheck THEN left ELSE DeferRecheck
       IN  /\ Len(recent) >= RateLimit
           /\ oldest = Head(recent)
           /\ rateEvents' = [rateEvents EXCEPT ![WorkerOf[s]][RateKey(j)] = recent]
           /\ current' = [current EXCEPT ![s] = j]
           /\ Conclude(s, j, Verdict("deferred", "TRIGGER_RATE_LIMITED", "deferred",
                                     processedAt[s] + delay))
  /\ UNCHANGED <<clock, jobVars, rows, threadStatus, processedAt, candidates,
                 hand, seen, faults>>

(* What RuntimeTriggerExecutor may report for job j: a busy pane defers    *)
(* until the job is MaxDefer old.                                          *)
ExecutorOutcomes(s, j) ==
  {Outcome("delivered", FALSE, "none")}
  \cup {Outcome("timeout", TRUE, c) : c \in TransientCodes}
  \cup {Outcome("failed", FALSE, c) : c \in PermanentCodes}
  \cup (IF processedAt[s] - createdAt[j] >= MaxDefer
        THEN {Outcome("timeout", FALSE, "DEFER_TIMEOUT")}
        ELSE {Outcome("deferred", TRUE, "OPERATOR_BUSY")})

ShouldRetryWrongOnceMore(outcome, attemptNo) ==
  /\ outcome.retryable
  /\ outcome.result = "deferred" \/ attemptNo <= MaxRetries + 1
ShouldRetry(outcome, attemptNo) ==
  /\ outcome.retryable
  /\ outcome.result = "deferred" \/ attemptNo <= MaxRetries

(* toTransitionStatusForRetry.                                             *)
RetryStatusWrongDeferred(result) == IF result = "failed" THEN "failed" ELSE "deferred"
RetryStatus(result) == IF result \in {"deferred", "timeout"} THEN result ELSE "failed"

RetryDelay(outcome, attemptNo) ==
  IF outcome.result = "deferred" THEN DeferRecheck ELSE Backoff(attemptNo)

(* The executor answers: deliver, retry later, or fall back.               *)
ExecutorReturns(s) ==
  LET j == current[s]
      attemptNo == seen[s][j] + 1
  IN  /\ phase[s] = "executing"
      /\ \E outcome \in ExecutorOutcomes(s, j) :
           \/ /\ outcome.result = "delivered"
              /\ Conclude(s, j, Verdict("delivered", "none", "delivered", 0))
           \/ /\ outcome.result # "delivered"
              /\ ShouldRetry(outcome, attemptNo)
              /\ Conclude(s, j, Verdict(outcome.result, outcome.code,
                            RetryStatus(outcome.result),
                            processedAt[s] + RetryDelay(outcome, attemptNo)))
           \/ /\ outcome.result # "delivered"
              /\ ~ShouldRetry(outcome, attemptNo)
              /\ phase' = [phase EXCEPT ![s] = "falling_back"]
              /\ UNCHANGED <<loopState, verdict>>
      /\ UNCHANGED <<clock, jobVars, rows, threadStatus, rateEvents, processedAt,
                     candidates, hand, seen, current, faults>>

FallbackVerdictsWrongStatus ==
  {Verdict("fallback_resume_succeeded", "none", "fallback_resume_succeeded", 0),
   Verdict("fallback_spawned", "none", "fallback_spawned", 0),
   Verdict("fallback_resume_failed", "FALLBACK_SPAWN_FAILED", "failed", 0)}
FallbackVerdicts ==
  {Verdict("fallback_resume_succeeded", "none", "fallback_resume", 0),
   Verdict("fallback_spawned", "none", "fallback_spawn", 0),
   Verdict("fallback_resume_failed", "FALLBACK_SPAWN_FAILED", "failed", 0)}

FallbackReturns(s) ==
  /\ phase[s] = "falling_back"
  /\ \E v \in FallbackVerdicts : Conclude(s, current[s], v)
  /\ UNCHANGED <<clock, jobVars, rows, threadStatus, rateEvents, processedAt,
                 candidates, hand, seen, current, faults>>

(* markThreadBlocked: an active thread becomes blocked, any other is left. *)
MarkThreadBlocked(s) ==
  LET t == ThreadOf[current[s]]
  IN  /\ phase[s] = "blocking"
      /\ threadStatus' = [threadStatus EXCEPT ![t] =
                            IF @ = "active" THEN "blocked" ELSE @]
      /\ phase' = [phase EXCEPT ![s] = "recording"]
      /\ UNCHANGED <<clock, jobVars, rows, memoryVars, processedAt, candidates,
                     hand, seen, current, verdict, faults>>

(* recordAttemptAndTransition: one transaction inserts the attempt and     *)
(* updates the job if it is still triggering.                              *)
RecordAttempt(s) ==
  LET j == current[s]
      v == verdict[s]
      attemptNo == seen[s][j] + 1
  IN  /\ phase[s] = "recording"
      /\ rows' = [rows EXCEPT ![j] = @ \cup
                            {Row(attemptNo, v.result, v.code, processedAt[s])}]
      /\ IF status[j] = "triggering"
         THEN /\ attempts' = [attempts EXCEPT ![j] = attemptNo]
              /\ status' = [status EXCEPT ![j] = v.status]
              /\ nextRetryAt' = [nextRetryAt EXCEPT ![j] = v.retryAt]
              /\ updatedAt' = [updatedAt EXCEPT ![j] = processedAt[s]]
         ELSE UNCHANGED <<attempts, status, nextRetryAt, updatedAt>>
      /\ hand' = [hand EXCEPT ![s] = @ \ {j}]
      /\ seen' = [seen EXCEPT ![s][j] = 0]
      /\ current' = [current EXCEPT ![s] = NoJob]
      /\ verdict' = [verdict EXCEPT ![s] = NoVerdict]
      /\ phase' = [phase EXCEPT ![s] = "processing"]
      /\ UNCHANGED <<clock, createdAt, threadStatus, memoryVars, processedAt,
                     candidates, faults>>

-----------------------------------------------------------------------------
(* The end of a tick.                                                      *)

(* The ticks of Ended are over; what they held in memory is gone.          *)
EndTicks(Ended) ==
  /\ phase' = [s \in Ticks |-> IF s \in Ended THEN "idle" ELSE phase[s]]
  /\ processedAt' = [s \in Ticks |-> IF s \in Ended THEN 0 ELSE processedAt[s]]
  /\ candidates' = [s \in Ticks |-> IF s \in Ended THEN {} ELSE candidates[s]]
  /\ hand' = [s \in Ticks |-> IF s \in Ended THEN {} ELSE hand[s]]
  /\ seen' = [s \in Ticks |-> IF s \in Ended THEN [j \in Jobs |-> 0] ELSE seen[s]]
  /\ current' = [s \in Ticks |-> IF s \in Ended THEN NoJob ELSE current[s]]
  /\ verdict' = [s \in Ticks |-> IF s \in Ended THEN NoVerdict ELSE verdict[s]]

(* The loop ends when every claimed job has been worked off.               *)
BatchDone(s) == hand[s] = {}

FinishTick(s) ==
  /\ phase[s] = "processing"
  /\ BatchDone(s)
  /\ EndTicks({s})
  /\ UNCHANGED <<clock, jobVars, rows, threadStatus, memoryVars, faults>>

(* A query, the executor or the fallback throws: the tick is rejected and  *)
(* logged, and the rest of its batch is not touched again.                 *)
TickFails(s) ==
  /\ phase[s] # "idle"
  /\ faults < MaxFaults
  /\ faults' = faults + 1
  /\ EndTicks({s})
  /\ UNCHANGED <<clock, jobVars, rows, threadStatus, memoryVars>>

(* A worker stops, and is started again with empty memory.                 *)
Restart(w) ==
  /\ faults < MaxFaults
  /\ faults' = faults + 1
  /\ loopState' = [loopState EXCEPT ![w] = [t \in Threads |-> NoLoop]]
  /\ rateEvents' = [rateEvents EXCEPT ![w] = [k \in RateKeys |-> <<>>]]
  /\ EndTicks({s \in Ticks : WorkerOf[s] = w})
  /\ UNCHANGED <<clock, jobVars, rows, threadStatus>>

-----------------------------------------------------------------------------
TickStep(s) ==
  \/ StartTick(s) \/ ReadCandidates(s) \/ ClaimNext(s) \/ ClaimDone(s)
  \/ BeginAttempt(s) \/ DeferByRateLimit(s) \/ ExecutorReturns(s)
  \/ FallbackReturns(s) \/ MarkThreadBlocked(s) \/ RecordAttempt(s)
  \/ FinishTick(s)

Environment ==
  \/ \E j \in Jobs : Submit(j)
  \/ \E t \in Threads : UpdateThreadStatus(t)
  \/ \E s \in Ticks : TickFails(s)
  \/ \E w \in Workers : Restart(w)

Next ==
  \/ \E s \in Ticks : TickStep(s)
  \/ Environment
  \/ AdvanceClock

Spec == Init /\ [][Next]_vars

(* For liveness time passes only when the workers have nothing to do: no   *)
(* job is claimed, about to be claimed, or due.  A batch is then never      *)
(* slower than a unit of the clock, and the bound MaxTime cuts no retry off.*)
Quiet == /\ \A s \in Ticks : candidates[s] = {} /\ hand[s] = {}
         /\ Due(clock) = {}

PromptNext ==
  \/ \E s \in Ticks : TickStep(s)
  \/ Environment
  \/ Quiet /\ AdvanceClock

(* setInterval keeps starting ticks and every awaited call returns.        *)
PromptSpec ==
  /\ Init /\ [][PromptNext]_vars
  /\ \A s \in Ticks : WF_vars(TickStep(s))
  /\ WF_vars(Quiet /\ AdvanceClock)
=============================================================================
