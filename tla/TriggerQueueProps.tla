------------------------- MODULE TriggerQueueProps --------------------------
(***************************************************************************)
(* What the trigger queue must guarantee, over module TriggerQueue.        *)
(***************************************************************************)
EXTENDS TriggerQueue

CONSTANT NoTick     \* the holder of a job that no tick holds

ASSUME NoTickAssumption == NoTick \notin Ticks

RowType == [no : Nat \ {0}, result : AttemptResults, code : Codes, at : Time]
VerdictType == [result : AttemptResults, code : Codes,
                status : JobStatuses \ {"queued", "triggering"}, retryAt : Nat]
CandidateType == [job : Jobs, status : DueStatuses, updatedAt : Nat]

(* The shape of the tables and of the ticks: a settled or waiting job      *)
(* never holds an attempt's result for its status.  The limiter's time     *)
(* stamps are not typed here; AdmittedWithinLimit bounds their number.     *)
TypeOK ==
  /\ clock \in Time /\ faults \in 0 .. MaxFaults
  /\ status \in [Jobs -> JobStatuses \cup {NotCreated}]
  /\ attempts \in [Jobs -> Nat]
  /\ nextRetryAt \in [Jobs -> Nat]
  /\ createdAt \in [Jobs -> Time] /\ updatedAt \in [Jobs -> Time]
  /\ rows \in [Jobs -> SUBSET RowType]
  /\ threadStatus \in [Threads -> ThreadStatuses]
  /\ loopState \in [Workers -> [Threads -> [turns : Nat, code : Codes, cycles : Nat]]]
  /\ phase \in [Ticks -> Phases]
  /\ processedAt \in [Ticks -> Time]
  /\ candidates \in [Ticks -> SUBSET CandidateType]
  /\ hand \in [Ticks -> SUBSET Jobs]
  /\ seen \in [Ticks -> [Jobs -> Nat]]
  /\ current \in [Ticks -> Jobs \cup {NoJob}]
  /\ verdict \in [Ticks -> VerdictType]

-----------------------------------------------------------------------------
(* Concurrency: claims and attempts.                                       *)

(* However the ticks of however many workers interleave, no two of them    *)
(* hold the same job, and what a tick holds is still triggering and has    *)
(* the attempt count the tick will number its attempt from.                *)
ExclusiveClaim ==
  /\ \A s, q \in Ticks : s # q => hand[s] \cap hand[q] = {}
  /\ \A s \in Ticks : \A j \in hand[s] :
       status[j] = "triggering" /\ seen[s][j] = attempts[j]

(* The attempts of a job are numbered 1 to its attempts column, one row    *)
(* for each number: the insertion in recordAttemptAndTransition never      *)
(* meets the unique index on (trigger_id, attempt_no), which would reject  *)
(* the tick and strand the rest of its batch.                              *)
AttemptsContiguous ==
  \A j \in Jobs :
    /\ {r.no : r \in rows[j]} = 1 .. attempts[j]
    /\ \A r, q \in rows[j] : r.no = q.no => r = q

(* A job is claimed only when its retry time has come, although a tick     *)
(* decides from rows it read earlier: the comparison of updated_at rejects *)
(* a row that another tick claimed and put back in the meantime.           *)
NoEarlyClaim ==
  [][\A s \in Ticks : \A j \in hand'[s] \ hand[s] :
       nextRetryAt[j] <= processedAt[s]]_vars

(* Only an attempt that ends the job is its last: every earlier row is a   *)
(* deferral or a timeout, and the last row explains the job's status.      *)
StatusAfter(result) ==
  CASE result = "delivered"                 -> "delivered"
    [] result = "deferred"                  -> "deferred"
    [] result = "timeout"                   -> "timeout"
    [] result = "fallback_resume_succeeded" -> "fallback_resume"
    [] result = "fallback_spawned"          -> "fallback_spawn"
    [] OTHER                                -> "failed"

LastAttemptExplainsStatus ==
  \A j \in Jobs : \A r \in rows[j] :
    IF r.no = attempts[j] /\ status[j] # "triggering"
    THEN status[j] = StatusAfter(r.result)
    ELSE r.result \in {"deferred", "timeout"}

(* A job whose outcome is settled is never claimed, attempted or changed   *)
(* again, whatever a slow tick still has in memory.                        *)
SettledIsFinal ==
  [][\A j \in Jobs : status[j] \in SettledStatuses =>
       status'[j] = status[j] /\ rows'[j] = rows[j]]_vars

-----------------------------------------------------------------------------
(* Budgets and the loop guard.                                             *)

(* At most MaxRetries attempts of a job are answered by a retry after a    *)
(* timeout; deferrals between them do not stretch the budget.              *)
RetryBudget ==
  \A j \in Jobs : Cardinality({r \in rows[j] : r.result = "timeout"}) <= MaxRetries

ThreadRows(t) == UNION {{<<j, r>> : r \in rows[j]} : j \in {i \in Jobs : ThreadOf[i] = t}}
Unrecorded(w, t) == {s \in Ticks : /\ phase[s] \in {"blocking", "recording"}
                                   /\ WorkerOf[s] = w /\ ThreadOf[current[s]] = t}
Smaller(a, b) == IF a < b THEN a ELSE b

(* A thread is auto-blocked only on evidence: when a tick is about to block *)
(* it, as many outcomes as the lower threshold of the guard were recorded  *)
(* for the thread's jobs, are about to be recorded by ticks of the same    *)
(* worker, or were lost with a failed tick.                                *)
AutoBlockEarned ==
  \A s \in Ticks : phase[s] = "blocking" =>
    LET t == ThreadOf[current[s]]
    IN  Cardinality(ThreadRows(t)) + Cardinality(Unrecorded(WorkerOf[s], t)) + faults
          >= Smaller(LoopMaxTurns, LoopMaxRepeatedFindings)

(* The rows that report what the executor or the fallback answered: not a  *)
(* refusal of the limiter, and not a job that the loop guard failed, which *)
(* may have been refused before.                                           *)
Admitted(k) ==
  {e \in UNION {{<<j, r>> : r \in rows[j]} : j \in {i \in Jobs : RateKey(i) = k}} :
     e[2].code \notin {"TRIGGER_RATE_LIMITED", "THREAD_AUTO_BLOCKED"}}

(* Within every window of the time stamps that ticks take at their start,  *)
(* at most RateLimit attempts per thread and agent are answered, whatever  *)
(* the mix of jobs, retries and refusals that led to them: for one worker  *)
(* process whose ticks do not overlap and that did not forget what it let  *)
(* through.                                                                *)
AdmittedWithinLimit ==
  faults = 0 =>
    \A k \in RateKeys : \A e \in Admitted(k) :
      Cardinality({d \in Admitted(k) : d[2].at \in (e[2].at - RateWindow) .. e[2].at})
        <= RateLimit

-----------------------------------------------------------------------------
(* Loss and progress.                                                      *)

Orphan(j) == status[j] = "triggering" /\ \A s \in Ticks : j \notin hand[s]

(* Every queued job is settled in the end, however often the pane is busy, *)
(* the limiter defers or the runtime times out: retries are bounded, the   *)
(* loop guard ends endless deferrals, and the ticks after a fault work off *)
(* what it did not touch.  Only a fault leaves a job triggering without a  *)
(* tick to finish it; no interleaving of healthy ticks drops one.          *)
OthersSettle == \A j \in Jobs :
  status[j] = "queued" ~> (status[j] \in SettledStatuses \/ (faults > 0 /\ Orphan(j)))

-----------------------------------------------------------------------------
(* The lifecycle of module TriggerLifecycle, as the columns and the ticks'  *)
(* memory show it.                                                         *)

LifeState(j) ==
  CASE status[j] = NotCreated   -> "absent"
    [] status[j] = "triggering" -> "held"
    [] status[j] \in SettledStatuses -> "settled"
    [] OTHER                    -> "waiting"

LifeHolder(j) ==
  IF \E s \in Ticks : j \in hand[s] THEN CHOOSE s \in Ticks : j \in hand[s] ELSE NoTick

Life == INSTANCE TriggerLifecycle WITH
  state  <- [j \in Jobs |-> LifeState(j)],
  holder <- [j \in Jobs |-> LifeHolder(j)],
  tries  <- attempts

(* Every step of the queue is a step of the lifecycle: a job is claimed by *)
(* one tick at a time, only its holder returns it, each return counts one  *)
(* attempt, and a fault takes holders away without changing the row.       *)
Lifecycle == Life!Spec

-----------------------------------------------------------------------------
(* What the documents say of the queue and the code does not do.           *)

(* docs/proposal/03-runtime/process_level_trigger_design.md, 12: requests  *)
(* are queued with "At-least-once delivery attempts."                      *)
AttemptedAtLeastOnce == \A j \in Jobs : status[j] = "queued" ~> attempts[j] > 0

(* docs/proposal/03-runtime/process_level_trigger_design.md, 9.2: "If      *)
(* runtime is unmanaged, skip process trigger and execute fallback path    *)
(* directly."  Such a job is inserted with a fallback status.              *)
FallbackJobsAttempted == \A j \in Jobs :
  status[j] \in {"fallback_resume", "fallback_spawn"} ~> attempts[j] > 0

(* docs/runbooks/mvp_incident_runbooks.md: "Collision handling does not    *)
(* drop trigger intent."  A job fails only after an attempt that met       *)
(* something other than a busy operator.                                   *)
CollisionKeepsIntent ==
  \A j \in Jobs : status[j] = "failed" =>
    \E r \in rows[j] : r.code \notin {"OPERATOR_BUSY", "THREAD_AUTO_BLOCKED"}
=============================================================================
