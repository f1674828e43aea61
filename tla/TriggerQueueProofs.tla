------------------------ MODULE TriggerQueueProofs --------------------------
(***************************************************************************)
(* Proofs about the trigger queue, for any jobs, ticks, workers, limits    *)
(* and bounds: types, claims, the numbering and the meaning of attempts,   *)
(* the budget of retries, that the queue implements TriggerLifecycle, how  *)
(* statuses move and what a fault leaves, that the loop guard blocks on    *)
(* evidence, and what the limiter lets through.                            *)
(***************************************************************************)
EXTENDS TriggerQueueProps, StampLemmas

(* The statuses and codes as sets, with the bound constants typed.         *)
LEMMA ConstantTypes ==
  /\ \A j \in Jobs : ThreadOf[j] \in Threads /\ RateKey(j) \in RateKeys
  /\ \A s \in Ticks : WorkerOf[s] \in Workers
  /\ NoVerdict \in VerdictType
  /\ FallbackVerdicts \subseteq VerdictType
  /\ \A t \in ThreadStatuses : ThreadTransitions[t] \subseteq ThreadStatuses
  <1>1. \A j \in Jobs : ThreadOf[j] \in Threads /\ RateKey(j) \in RateKeys
    BY QueueAssumption DEF RateKey, RateKeys
  <1>2. \A s \in Ticks : WorkerOf[s] \in Workers
    BY QueueAssumption
  <1>3. NoVerdict \in VerdictType
    BY DEF NoVerdict, VerdictType, Verdict, AttemptResults, ProgressResults, Codes,
           CodesOfQueue, JobStatuses, DueStatuses, SettledStatuses
  <1>4. FallbackVerdicts \subseteq VerdictType
    BY DEF FallbackVerdicts, VerdictType, Verdict, AttemptResults, ProgressResults,
           Codes, CodesOfQueue, JobStatuses, DueStatuses, SettledStatuses
  <1>5. \A t \in ThreadStatuses : ThreadTransitions[t] \subseteq ThreadStatuses
    BY DEF ThreadStatuses, ThreadTransitions
  <1> QED
    BY <1>1, <1>2, <1>3, <1>4, <1>5

(* Counting an outcome leaves a well-formed loop state, and what is then   *)
(* recorded is a well-formed verdict.                                      *)
LEMMA ConcludeTypes ==
  ASSUME TypeOK, NEW s \in Ticks, NEW j \in Jobs, NEW v \in VerdictType,
         Conclude(s, j, v)
  PROVE  /\ loopState' \in [Workers -> [Threads -> [turns : Nat, code : Codes, cycles : Nat]]]
         /\ phase' \in [Ticks -> Phases]
         /\ verdict' \in [Ticks -> VerdictType]
  <1> DEFINE Loop == [turns : Nat, code : Codes, cycles : Nat]
             w == WorkerOf[s]
             t == ThreadOf[j]
             loop == LoopAfter(loopState[w][t], v.result, v.code)
  <1>1. w \in Workers /\ t \in Threads
    BY ConstantTypes
  <1>2. loopState[w][t] \in Loop
    BY <1>1 DEF TypeOK
  <1>3. loop \in Loop
    BY <1>2 DEF LoopAfter, NoLoop, VerdictType, Codes, CodesOfQueue
  <1>4. loopState' = [loopState EXCEPT ![w][t] = loop]
    BY DEF Conclude
  <1>5. loopState' \in [Workers -> [Threads -> Loop]]
    BY <1>1, <1>3, <1>4 DEF TypeOK
  <1>6. phase' \in [Ticks -> Phases]
    BY DEF Conclude, TypeOK, Phases
  <1>7. Verdict("failed", "THREAD_AUTO_BLOCKED", "failed", 0) \in VerdictType
    BY DEF VerdictType, Verdict, AttemptResults, ProgressResults, Codes, CodesOfQueue,
           JobStatuses, DueStatuses, SettledStatuses
  <1>8. verdict' \in [Ticks -> VerdictType]
    BY <1>7 DEF Conclude, TypeOK
  <1> QED
    BY <1>5, <1>6, <1>8

(* A retried outcome is recorded with a due status and a time to come.     *)
LEMMA RetryVerdict ==
  ASSUME TypeOK, NEW s \in Ticks, NEW j \in Jobs,
         NEW outcome \in ExecutorOutcomes(s, j), outcome.result # "delivered",
         NEW n \in Nat \ {0}, ShouldRetry(outcome, n)
  PROVE  /\ RetryDelay(outcome, n) \in Nat \ {0}
         /\ RetryStatus(outcome.result) \in {"deferred", "timeout"}
         /\ Verdict(outcome.result, outcome.code, RetryStatus(outcome.result),
                    processedAt[s] + RetryDelay(outcome, n)) \in VerdictType
  <1>1. /\ outcome.result \in {"timeout", "deferred"}
        /\ outcome.code \in Codes
    BY DEF ExecutorOutcomes, ShouldRetry, Outcome, Codes, CodesOfQueue
  <1>2. RetryDelay(outcome, n) \in Nat \ {0}
    BY <1>1, QueueAssumption, BackoffAssumption DEF RetryDelay, ShouldRetry
  <1>3. processedAt[s] + RetryDelay(outcome, n) \in Nat
    BY <1>2, QueueAssumption DEF TypeOK, Time
  <1>4. RetryStatus(outcome.result) \in {"deferred", "timeout"}
    BY <1>1 DEF RetryStatus
  <1> QED
    BY <1>1, <1>2, <1>3, <1>4
    DEF VerdictType, Verdict, AttemptResults, ProgressResults, JobStatuses,
        DueStatuses, SettledStatuses

LEMMA InitTypeOK == Init => TypeOK
  <1> SUFFICES ASSUME Init PROVE TypeOK
    OBVIOUS
  <1>1. NoVerdict \in VerdictType
    BY ConstantTypes
  <1>2. NoLoop \in [turns : Nat, code : Codes, cycles : Nat]
    BY DEF NoLoop, Codes, CodesOfQueue
  <1> QED
    BY <1>1, <1>2, QueueAssumption
    DEF Init, TypeOK, Time, NotCreated, Phases, ThreadStatuses

(* Ending ticks resets what they hold.                                     *)
LEMMA EndTicksTypes ==
  ASSUME TypeOK, NEW Ended, EndTicks(Ended)
  PROVE  /\ phase' \in [Ticks -> Phases]
         /\ processedAt' \in [Ticks -> Time]
         /\ candidates' \in [Ticks -> SUBSET CandidateType]
         /\ hand' \in [Ticks -> SUBSET Jobs]
         /\ seen' \in [Ticks -> [Jobs -> Nat]]
         /\ current' \in [Ticks -> Jobs \cup {NoJob}]
         /\ verdict' \in [Ticks -> VerdictType]
  <1>1. NoVerdict \in VerdictType
    BY ConstantTypes
  <1>2. phase' \in [Ticks -> Phases]
    BY DEF EndTicks, TypeOK, Phases
  <1>3. processedAt' \in [Ticks -> Time]
    BY QueueAssumption DEF EndTicks, TypeOK, Time
  <1>4. candidates' \in [Ticks -> SUBSET CandidateType] /\ hand' \in [Ticks -> SUBSET Jobs]
    BY DEF EndTicks, TypeOK
  <1>5. seen' \in [Ticks -> [Jobs -> Nat]]
    BY DEF EndTicks, TypeOK
  <1>6. current' \in [Ticks -> Jobs \cup {NoJob}] /\ verdict' \in [Ticks -> VerdictType]
    BY <1>1 DEF EndTicks, TypeOK
  <1> QED
    BY <1>2, <1>3, <1>4, <1>5, <1>6

(* The phase of a tick says what it holds: nothing before it claims, and   *)
(* the job of its iteration while one is under way.                        *)
PhaseOK ==
  \A s \in Ticks :
    /\ phase[s] \in {"idle", "reading"} => hand[s] = {}
    /\ phase[s] \in AttemptPhases => current[s] \in hand[s]

LEMMA NextTypeOK == TypeOK /\ PhaseOK /\ [Next]_vars => TypeOK'
  <1> SUFFICES ASSUME TypeOK, PhaseOK, [Next]_vars PROVE TypeOK'
    OBVIOUS
  <1> USE DEF jobVars, memoryVars, tickVars
  <1>1. ASSUME NEW j \in Jobs, Submit(j) PROVE TypeOK'
    BY <1>1 DEF Submit, TypeOK, JobStatuses, DueStatuses, SettledStatuses
  <1>2. ASSUME NEW t \in Threads, UpdateThreadStatus(t) PROVE TypeOK'
    <2>1. threadStatus' \in [Threads -> ThreadStatuses]
      BY <1>2, ConstantTypes DEF UpdateThreadStatus, TypeOK
    <2> QED
      BY <1>2, <2>1 DEF UpdateThreadStatus, TypeOK
  <1>3. CASE AdvanceClock
    BY <1>3, QueueAssumption DEF AdvanceClock, TypeOK, Time
  <1>4. ASSUME NEW s \in Ticks, StartTick(s) PROVE TypeOK'
    BY <1>4 DEF StartTick, TypeOK, Phases
  <1>5. ASSUME NEW s \in Ticks, ReadCandidates(s) PROVE TypeOK'
    <2>1. PICK chosen \in SUBSET Due(processedAt[s]) :
            candidates' = [candidates EXCEPT ![s] =
              {[job |-> j, status |-> status[j], updatedAt |-> updatedAt[j]] : j \in chosen}]
      BY <1>5 DEF ReadCandidates
    <2>2. {[job |-> j, status |-> status[j], updatedAt |-> updatedAt[j]] : j \in chosen}
            \subseteq CandidateType
      BY QueueAssumption DEF Due, TypeOK, CandidateType, Time
    <2>3. candidates' \in [Ticks -> SUBSET CandidateType]
      BY <2>1, <2>2 DEF TypeOK
    <2>4. phase' \in [Ticks -> Phases]
      BY <1>5 DEF ReadCandidates, TypeOK, Phases
    <2> QED
      BY <1>5, <2>3, <2>4 DEF ReadCandidates, TypeOK
  <1>6. ASSUME NEW s \in Ticks, ClaimNext(s) PROVE TypeOK'
    <2>1. PICK c \in candidates[s] :
            /\ candidates' = [candidates EXCEPT ![s] = @ \ {c}]
            /\ \/ /\ status' = [status EXCEPT ![c.job] = "triggering"]
                  /\ updatedAt' = [updatedAt EXCEPT ![c.job] = processedAt[s]]
                  /\ hand' = [hand EXCEPT ![s] = @ \cup {c.job}]
                  /\ seen' = [seen EXCEPT ![s][c.job] = attempts[c.job]]
               \/ UNCHANGED <<status, updatedAt, hand, seen>>
      BY <1>6 DEF ClaimNext
    <2>2. c \in CandidateType /\ c.job \in Jobs
      BY DEF TypeOK, CandidateType
    <2>3. candidates' \in [Ticks -> SUBSET CandidateType]
      BY <2>1 DEF TypeOK
    <2>4. status' \in [Jobs -> JobStatuses \cup {NotCreated}] /\ updatedAt' \in [Jobs -> Time]
      BY <2>1, <2>2 DEF TypeOK, JobStatuses
    <2>5. hand' \in [Ticks -> SUBSET Jobs]
      BY <2>1, <2>2 DEF TypeOK
    <2>6. seen' \in [Ticks -> [Jobs -> Nat]]
      <3>1. attempts[c.job] \in Nat /\ seen[s] \in [Jobs -> Nat]
        BY <2>2 DEF TypeOK
      <3>2. [seen[s] EXCEPT ![c.job] = attempts[c.job]] \in [Jobs -> Nat]
        BY <3>1
      <3> QED
        BY <2>1, <3>2 DEF TypeOK
    <2> QED
      BY <1>6, <2>3, <2>4, <2>5, <2>6 DEF ClaimNext, TypeOK
  <1>7. ASSUME NEW s \in Ticks, ClaimDone(s) PROVE TypeOK'
    BY <1>7 DEF ClaimDone, TypeOK, Phases
  <1>8. ASSUME NEW s \in Ticks, BeginAttempt(s) PROVE TypeOK'
    BY <1>8 DEF BeginAttempt, NextInHand, TypeOK, Phases
  <1>9. ASSUME NEW s \in Ticks, DeferByRateLimit(s) PROVE TypeOK'
    <2>1. PICK j \in NextInHand(s), oldest \in Time :
            LET left == oldest + RateWindow - processedAt[s]
                delay == IF left > DeferRecheck THEN left ELSE DeferRecheck
            IN  /\ current' = [current EXCEPT ![s] = j]
                /\ Conclude(s, j, Verdict("deferred", "TRIGGER_RATE_LIMITED",
                                          "deferred", processedAt[s] + delay))
      BY <1>9 DEF DeferByRateLimit
    <2> DEFINE left == oldest + RateWindow - processedAt[s]
               delay == IF left > DeferRecheck THEN left ELSE DeferRecheck
               v == Verdict("deferred", "TRIGGER_RATE_LIMITED", "deferred",
                            processedAt[s] + delay)
    <2>2. j \in Jobs /\ processedAt[s] + delay \in Nat
      BY QueueAssumption DEF NextInHand, TypeOK, Time
    <2>3. v \in VerdictType
      BY <2>2 DEF Verdict, VerdictType, AttemptResults, Codes, CodesOfQueue, JobStatuses,
                  DueStatuses
    <2>4. /\ loopState' \in [Workers -> [Threads -> [turns : Nat, code : Codes, cycles : Nat]]]
          /\ phase' \in [Ticks -> Phases]
          /\ verdict' \in [Ticks -> VerdictType]
      <3>1. Conclude(s, j, v)
        BY <2>1
      <3> HIDE DEF v
      <3> QED
        BY <2>2, <2>3, <3>1, ConcludeTypes
    <2>5. current' \in [Ticks -> Jobs \cup {NoJob}]
      BY <2>1, <2>2 DEF TypeOK
    <2> QED
      BY <1>9, <2>4, <2>5 DEF DeferByRateLimit, TypeOK
  <1>10. ASSUME NEW s \in Ticks, ExecutorReturns(s) PROVE TypeOK'
    <2> DEFINE j == current[s]
               n == seen[s][j] + 1
    <2>1. phase[s] = "executing" /\ j \in Jobs /\ n \in Nat \ {0}
      <3>1. phase[s] = "executing"
        BY <1>10 DEF ExecutorReturns
      <3>2. j \in Jobs
        BY <3>1 DEF PhaseOK, AttemptPhases, TypeOK
      <3> QED
        BY <3>1, <3>2 DEF TypeOK
    <2>2. PICK outcome \in ExecutorOutcomes(s, j) :
            \/ Conclude(s, j, Verdict("delivered", "none", "delivered", 0))
            \/ /\ outcome.result # "delivered"
               /\ ShouldRetry(outcome, n)
               /\ Conclude(s, j, Verdict(outcome.result, outcome.code,
                             RetryStatus(outcome.result),
                             processedAt[s] + RetryDelay(outcome, n)))
            \/ /\ phase' = [phase EXCEPT ![s] = "falling_back"]
               /\ UNCHANGED <<loopState, verdict>>
      BY <1>10 DEF ExecutorReturns
    <2>3. Verdict("delivered", "none", "delivered", 0) \in VerdictType
      BY DEF Verdict, VerdictType, AttemptResults, ProgressResults, Codes, CodesOfQueue,
             JobStatuses, SettledStatuses
    <2>4. /\ loopState' \in [Workers -> [Threads -> [turns : Nat, code : Codes, cycles : Nat]]]
          /\ phase' \in [Ticks -> Phases]
          /\ verdict' \in [Ticks -> VerdictType]
      <3>1. CASE Conclude(s, j, Verdict("delivered", "none", "delivered", 0))
        BY <2>1, <2>3, <3>1, ConcludeTypes
      <3>2. CASE /\ outcome.result # "delivered"
                 /\ ShouldRetry(outcome, n)
                 /\ Conclude(s, j, Verdict(outcome.result, outcome.code,
                               RetryStatus(outcome.result),
                               processedAt[s] + RetryDelay(outcome, n)))
        <4> HIDE DEF j, n
        <4> QED
          BY <2>1, <3>2, RetryVerdict, ConcludeTypes
      <3>3. CASE /\ phase' = [phase EXCEPT ![s] = "falling_back"]
                 /\ UNCHANGED <<loopState, verdict>>
        BY <3>3 DEF TypeOK, Phases
      <3> QED
        BY <2>2, <3>1, <3>2, <3>3
    <2> QED
      BY <1>10, <2>4 DEF ExecutorReturns, TypeOK
  <1>11. ASSUME NEW s \in Ticks, FallbackReturns(s) PROVE TypeOK'
    <2>1. PICK v \in FallbackVerdicts : Conclude(s, current[s], v)
      BY <1>11 DEF FallbackReturns
    <2>2. current[s] \in Jobs /\ v \in VerdictType
      BY <1>11, ConstantTypes DEF FallbackReturns, PhaseOK, AttemptPhases, TypeOK
    <2>3. /\ loopState' \in [Workers -> [Threads -> [turns : Nat, code : Codes, cycles : Nat]]]
          /\ phase' \in [Ticks -> Phases]
          /\ verdict' \in [Ticks -> VerdictType]
      BY <2>1, <2>2, ConcludeTypes
    <2> QED
      BY <1>11, <2>3 DEF FallbackReturns, TypeOK
  <1>12. ASSUME NEW s \in Ticks, MarkThreadBlocked(s) PROVE TypeOK'
    BY <1>12 DEF MarkThreadBlocked, TypeOK, Phases, ThreadStatuses
  <1>13. ASSUME NEW s \in Ticks, RecordAttempt(s) PROVE TypeOK'
    <2> DEFINE j == current[s]
               v == verdict[s]
               n == seen[s][j] + 1
    <2>1. j \in Jobs /\ n \in Nat \ {0} /\ v \in VerdictType
      <3>1. j \in Jobs
        BY <1>13 DEF RecordAttempt, PhaseOK, AttemptPhases, TypeOK
      <3> QED
        BY <3>1 DEF TypeOK
    <2>2. rows' \in [Jobs -> SUBSET RowType]
      <3>1. Row(n, v.result, v.code, processedAt[s]) \in RowType
        BY <2>1 DEF Row, RowType, VerdictType, TypeOK
      <3>2. rows' = [rows EXCEPT ![j] = @ \cup {Row(n, v.result, v.code, processedAt[s])}]
        BY <1>13 DEF RecordAttempt
      <3> QED
        BY <3>1, <3>2 DEF TypeOK
    <2>3. /\ attempts' \in [Jobs -> Nat]
          /\ nextRetryAt' \in [Jobs -> Nat]
          /\ updatedAt' \in [Jobs -> Time]
      <3>1. n \in Nat /\ v.retryAt \in Nat /\ processedAt[s] \in Time
        BY <2>1 DEF VerdictType, TypeOK
      <3>2. CASE status[j] = "triggering"
        <4>1. /\ attempts' = [attempts EXCEPT ![j] = n]
              /\ nextRetryAt' = [nextRetryAt EXCEPT ![j] = v.retryAt]
              /\ updatedAt' = [updatedAt EXCEPT ![j] = processedAt[s]]
          BY <1>13, <3>2 DEF RecordAttempt
        <4> HIDE DEF n, v, j
        <4> QED
          BY <3>1, <4>1 DEF TypeOK
      <3>3. CASE status[j] # "triggering"
        BY <1>13, <3>3 DEF RecordAttempt, TypeOK
      <3> QED
        BY <3>2, <3>3
    <2>4. status' \in [Jobs -> JobStatuses \cup {NotCreated}]
      BY <1>13, <2>1 DEF RecordAttempt, TypeOK, VerdictType
    <2>5. NoVerdict \in VerdictType
      BY ConstantTypes
    <2> QED
      BY <1>13, <2>2, <2>3, <2>4, <2>5 DEF RecordAttempt, TypeOK, Phases
  <1>14. ASSUME NEW s \in Ticks, FinishTick(s) PROVE TypeOK'
    BY <1>14, EndTicksTypes DEF FinishTick, TypeOK
  <1>15. ASSUME NEW s \in Ticks, TickFails(s) PROVE TypeOK'
    <2>1. faults' \in 0 .. MaxFaults
      BY <1>15, QueueAssumption DEF TickFails, TypeOK
    <2> QED
      BY <1>15, <2>1, EndTicksTypes DEF TickFails, TypeOK
  <1>16. ASSUME NEW w \in Workers, Restart(w) PROVE TypeOK'
    <2>1. faults' \in 0 .. MaxFaults
      BY <1>16, QueueAssumption DEF Restart, TypeOK
    <2>2. NoLoop \in [turns : Nat, code : Codes, cycles : Nat]
      BY DEF NoLoop, Codes, CodesOfQueue
    <2>3. loopState' \in [Workers -> [Threads -> [turns : Nat, code : Codes, cycles : Nat]]]
      BY <1>16, <2>2 DEF Restart, TypeOK
    <2> QED
      BY <1>16, <2>1, <2>3, EndTicksTypes DEF Restart, TypeOK
  <1>17. CASE UNCHANGED vars
    BY <1>17 DEF vars, TypeOK
  <1> QED
    BY <1>1, <1>2, <1>3, <1>4, <1>5, <1>6, <1>7, <1>8, <1>9, <1>10, <1>11, <1>12,
       <1>13, <1>14, <1>15, <1>16, <1>17
    DEF Next, TickStep, Environment
-----------------------------------------------------------------------------
LEMMA ConcludePhase ==
  ASSUME TypeOK, NEW s \in Ticks, NEW j, NEW v, Conclude(s, j, v)
  PROVE  /\ phase' = [phase EXCEPT ![s] = phase'[s]]
         /\ phase'[s] \in {"blocking", "recording"}
  BY DEF Conclude, TypeOK

LEMMA NextPhaseOK == TypeOK /\ PhaseOK /\ [Next]_vars => PhaseOK'
  <1> SUFFICES ASSUME TypeOK, PhaseOK, [Next]_vars PROVE PhaseOK'
    OBVIOUS
  <1> USE DEF jobVars, memoryVars, tickVars, PhaseOK, AttemptPhases
  <1>1. CASE UNCHANGED <<phase, hand, current>>
    BY <1>1
  <1>2. ASSUME NEW s \in Ticks, StartTick(s) \/ ReadCandidates(s) \/ ClaimDone(s)
        PROVE  PhaseOK'
    BY <1>2 DEF StartTick, ReadCandidates, ClaimDone, TypeOK
  <1>3. ASSUME NEW s \in Ticks, ClaimNext(s) PROVE PhaseOK'
    <2>1. /\ UNCHANGED <<phase, current>> /\ phase[s] = "claiming"
          /\ hand' = [hand EXCEPT ![s] = hand'[s]] /\ hand[s] \subseteq hand'[s]
      BY <1>3 DEF ClaimNext, TypeOK
    <2> QED
      BY <2>1 DEF TypeOK
  <1>4. ASSUME NEW s \in Ticks, BeginAttempt(s) \/ DeferByRateLimit(s) PROVE PhaseOK'
    <2>1. /\ UNCHANGED hand
          /\ \E j \in hand[s] : current' = [current EXCEPT ![s] = j]
          /\ phase' = [phase EXCEPT ![s] = phase'[s]]
          /\ phase'[s] \in AttemptPhases
      <3>1. CASE BeginAttempt(s)
        BY <3>1 DEF BeginAttempt, NextInHand, TypeOK
      <3>2. CASE DeferByRateLimit(s)
        BY <3>2, ConcludePhase DEF DeferByRateLimit, NextInHand
      <3> QED
        BY <1>4, <3>1, <3>2
    <2> QED
      BY <2>1 DEF TypeOK
  <1>5. ASSUME NEW s \in Ticks,
               ExecutorReturns(s) \/ FallbackReturns(s) \/ MarkThreadBlocked(s)
        PROVE  PhaseOK'
    <2>1. /\ UNCHANGED <<hand, current>>
          /\ phase[s] \in AttemptPhases
          /\ phase' = [phase EXCEPT ![s] = phase'[s]]
          /\ phase'[s] \in AttemptPhases
      <3>1. CASE ExecutorReturns(s)
        BY <3>1, ConcludePhase DEF ExecutorReturns, TypeOK
      <3>2. CASE FallbackReturns(s)
        BY <3>2, ConcludePhase DEF FallbackReturns
      <3>3. CASE MarkThreadBlocked(s)
        BY <3>3 DEF MarkThreadBlocked, TypeOK
      <3> QED
        BY <1>5, <3>1, <3>2, <3>3
    <2> QED
      BY <2>1 DEF TypeOK
  <1>6. ASSUME NEW s \in Ticks, RecordAttempt(s) PROVE PhaseOK'
    BY <1>6 DEF RecordAttempt, TypeOK
  <1>7. ASSUME NEW Ended \in SUBSET Ticks, EndTicks(Ended) PROVE PhaseOK'
    BY <1>7 DEF EndTicks, TypeOK
  <1> QED
    BY <1>1, <1>2, <1>3, <1>4, <1>5, <1>6, <1>7
    DEF Next, TickStep, Environment, vars, Submit, UpdateThreadStatus, AdvanceClock,
        FinishTick, TickFails, Restart

LEMMA NextExclusiveClaim ==
  TypeOK /\ PhaseOK /\ ExclusiveClaim /\ [Next]_vars => ExclusiveClaim'
  <1> SUFFICES ASSUME TypeOK, PhaseOK, ExclusiveClaim, [Next]_vars
               PROVE  ExclusiveClaim'
    OBVIOUS
  <1> USE DEF jobVars, memoryVars, tickVars
  <1>1. CASE UNCHANGED <<status, attempts, hand, seen>>
    BY <1>1 DEF ExclusiveClaim
  <1>2. ASSUME NEW j \in Jobs, Submit(j) PROVE ExclusiveClaim'
    BY <1>2 DEF Submit, ExclusiveClaim, TypeOK, NotCreated
  <1>3. ASSUME NEW s \in Ticks, ClaimNext(s) PROVE ExclusiveClaim'
    <2>1. PICK c \in candidates[s] :
            \/ /\ Unchanged(c)
               /\ status' = [status EXCEPT ![c.job] = "triggering"]
               /\ hand' = [hand EXCEPT ![s] = @ \cup {c.job}]
               /\ seen' = [seen EXCEPT ![s][c.job] = attempts[c.job]]
            \/ UNCHANGED <<status, hand, seen>>
      BY <1>3 DEF ClaimNext
    <2>2. UNCHANGED attempts
      BY <1>3 DEF ClaimNext
    <2>3. CASE UNCHANGED <<status, hand, seen>>
      BY <2>2, <2>3 DEF ExclusiveClaim
    <2>4. CASE /\ Unchanged(c)
               /\ status' = [status EXCEPT ![c.job] = "triggering"]
               /\ hand' = [hand EXCEPT ![s] = @ \cup {c.job}]
               /\ seen' = [seen EXCEPT ![s][c.job] = attempts[c.job]]
      <3>1. c.job \in Jobs /\ status[c.job] \in DueStatuses
        BY <2>4 DEF TypeOK, CandidateType, Unchanged
      <3>2. \A q \in Ticks : c.job \notin hand[q]
        BY <3>1 DEF ExclusiveClaim, DueStatuses
      <3>3. \A q \in Ticks : hand'[q] = IF q = s THEN hand[s] \cup {c.job} ELSE hand[q]
        BY <2>4 DEF TypeOK
      <3>4. \A q, r \in Ticks : q # r => hand'[q] \cap hand'[r] = {}
        BY <3>2, <3>3 DEF ExclusiveClaim
      <3>5. \A q \in Ticks : \A j \in hand'[q] :
              status'[j] = "triggering" /\ seen'[q][j] = attempts'[j]
        BY <2>2, <2>4, <3>1, <3>2, <3>3 DEF ExclusiveClaim, TypeOK
      <3> QED
        BY <3>4, <3>5 DEF ExclusiveClaim
    <2> QED
      BY <2>1, <2>3, <2>4
  <1>4. ASSUME NEW s \in Ticks, RecordAttempt(s) PROVE ExclusiveClaim'
    <2> DEFINE j == current[s]
    <2>1. j \in hand[s] /\ j \in Jobs
      BY <1>4 DEF RecordAttempt, PhaseOK, AttemptPhases, TypeOK
    <2>2. \A q \in Ticks : q # s => j \notin hand[q]
      BY <2>1 DEF ExclusiveClaim
    <2>3. \A q \in Ticks : hand'[q] = IF q = s THEN hand[s] \ {j} ELSE hand[q]
      BY <1>4 DEF RecordAttempt, TypeOK
    <2>4. \A q \in Ticks : \A i \in hand'[q] :
            i # j /\ i \in Jobs /\ i \in hand[q]
      BY <2>2, <2>3 DEF TypeOK
    <2>5. \A i \in Jobs : i # j =>
            status'[i] = status[i] /\ attempts'[i] = attempts[i]
      BY <1>4 DEF RecordAttempt, TypeOK
    <2>6. \A q \in Ticks, i \in Jobs : i # j => seen'[q][i] = seen[q][i]
      BY <1>4 DEF RecordAttempt, TypeOK
    <2> QED
      BY <2>3, <2>4, <2>5, <2>6 DEF ExclusiveClaim
  <1>5. ASSUME NEW Ended \in SUBSET Ticks, EndTicks(Ended), UNCHANGED <<status, attempts>>
        PROVE  ExclusiveClaim'
    BY <1>5 DEF EndTicks, ExclusiveClaim, TypeOK
  <1> QED
    BY <1>1, <1>2, <1>3, <1>4, <1>5
    DEF Next, TickStep, Environment, vars, UpdateThreadStatus, AdvanceClock, StartTick,
        ReadCandidates, ClaimDone, BeginAttempt, DeferByRateLimit, ExecutorReturns,
        FallbackReturns, MarkThreadBlocked, FinishTick, TickFails, Restart

(* The inductive invariant of the claim protocol.                          *)
ClaimInv == TypeOK /\ PhaseOK /\ ExclusiveClaim

LEMMA ClaimInvHolds == Spec => []ClaimInv
  <1>1. Init => ClaimInv
    BY InitTypeOK DEF Init, ClaimInv, PhaseOK, AttemptPhases, ExclusiveClaim
  <1>2. ClaimInv /\ [Next]_vars => ClaimInv'
    BY NextTypeOK, NextPhaseOK, NextExclusiveClaim DEF ClaimInv
  <1> QED
    BY <1>1, <1>2, PTL DEF Spec

(* The tables and the ticks keep their shape: in particular every retry    *)
(* time and every attempt number the code computes is a natural number.    *)
THEOREM TypeCorrect == Spec => []TypeOK
  BY ClaimInvHolds, PTL DEF ClaimInv

(* No two ticks of any workers ever hold one job, and a held job is        *)
(* triggering with the attempt count its holder read.                      *)
THEOREM ClaimsAreExclusive == Spec => []ExclusiveClaim
  BY ClaimInvHolds, PTL DEF ClaimInv

-----------------------------------------------------------------------------
(* Who changes a job: its insertion, a claim, or its holder's record.      *)
Columns == <<status, attempts, nextRetryAt, updatedAt, rows>>

Claims(s, c) ==
  /\ Unchanged(c)
  /\ status' = [status EXCEPT ![c.job] = "triggering"]
  /\ updatedAt' = [updatedAt EXCEPT ![c.job] = processedAt[s]]
  /\ hand' = [hand EXCEPT ![s] = @ \cup {c.job}]
  /\ UNCHANGED <<attempts, nextRetryAt, rows>>

LEMMA JobSteps ==
  ASSUME [Next]_vars
  PROVE  \/ UNCHANGED Columns
         \/ \E j \in Jobs : Submit(j)
         \/ \E s \in Ticks : \E c \in candidates[s] : Claims(s, c)
         \/ \E s \in Ticks : RecordAttempt(s)
  <1> USE DEF Columns, jobVars
  <1>1. ASSUME NEW s \in Ticks, ClaimNext(s)
        PROVE  UNCHANGED Columns \/ \E c \in candidates[s] : Claims(s, c)
    BY <1>1 DEF ClaimNext, Claims
  <1> QED
    BY <1>1
    DEF Next, TickStep, Environment, vars, UpdateThreadStatus, AdvanceClock, StartTick,
        ReadCandidates, ClaimDone, BeginAttempt, DeferByRateLimit, ExecutorReturns,
        FallbackReturns, MarkThreadBlocked, FinishTick, TickFails, Restart

LEMMA ClaimedWasDue ==
  ASSUME TypeOK, NEW s \in Ticks, NEW c \in candidates[s], Claims(s, c)
  PROVE  c.job \in Jobs /\ status[c.job] = c.status /\ c.status \in DueStatuses
  BY DEF TypeOK, CandidateType, Claims, Unchanged

(* The one who records holds the job, so the row is the one it claimed.    *)
LEMMA RecordsOwnJob ==
  ASSUME ClaimInv, NEW s \in Ticks, RecordAttempt(s)
  PROVE  LET j == current[s]
             v == verdict[s]
             r == Row(attempts[j] + 1, v.result, v.code, processedAt[s])
         IN  /\ j \in Jobs /\ j \in hand[s] /\ phase[s] = "recording"
             /\ status[j] = "triggering" /\ seen[s][j] = attempts[j]
             /\ status' = [status EXCEPT ![j] = v.status]
             /\ attempts' = [attempts EXCEPT ![j] = @ + 1]
             /\ nextRetryAt' = [nextRetryAt EXCEPT ![j] = v.retryAt]
             /\ updatedAt' = [updatedAt EXCEPT ![j] = processedAt[s]]
             /\ rows' = [rows EXCEPT ![j] = @ \cup {r}]
  <1>1. phase[s] = "recording" /\ current[s] \in hand[s]
    BY DEF RecordAttempt, ClaimInv, PhaseOK, AttemptPhases
  <1>2. current[s] \in Jobs
    BY <1>1 DEF ClaimInv, TypeOK
  <1>3. status[current[s]] = "triggering" /\ seen[s][current[s]] = attempts[current[s]]
    BY <1>1 DEF ClaimInv, ExclusiveClaim
  <1> QED
    BY <1>1, <1>2, <1>3 DEF RecordAttempt

-----------------------------------------------------------------------------
(* Attempts are numbered from the column that the holder read.             *)
LEMMA NextContiguous ==
  ASSUME ClaimInv, AttemptsContiguous, [Next]_vars
  PROVE  AttemptsContiguous'
  <1>1. CASE UNCHANGED <<attempts, rows>>
    BY <1>1 DEF AttemptsContiguous
  <1>2. ASSUME NEW s \in Ticks, RecordAttempt(s) PROVE AttemptsContiguous'
    <2> DEFINE i == current[s]
               n == attempts[i] + 1
               r == Row(n, verdict[s].result, verdict[s].code, processedAt[s])
    <2>0. r.no = n
      BY DEF Row
    <2>1. /\ i \in Jobs
          /\ attempts' = [attempts EXCEPT ![i] = n]
          /\ rows' = [rows EXCEPT ![i] = @ \cup {r}]
      BY <1>2, RecordsOwnJob
    <2> HIDE DEF r
    <2>2. attempts[i] \in Nat /\ {q.no : q \in rows[i]} = 1 .. attempts[i]
      BY <2>1 DEF ClaimInv, TypeOK, AttemptsContiguous
    <2>3. rows'[i] = rows[i] \cup {r} /\ attempts'[i] = n
      BY <2>1 DEF ClaimInv, TypeOK
    <2>4. {q.no : q \in rows[i] \cup {r}} = (1 .. attempts[i]) \cup {n}
      BY <2>2, <2>0
    <2>5. (1 .. attempts[i]) \cup {n} = 1 .. n
      BY <2>2
    <2>6. \A q \in rows[i] : q.no # n
      <3>1. \A q \in rows[i] : q.no \in 1 .. attempts[i]
        BY <2>2
      <3> QED
        BY <2>2, <3>1
    <2>7. \A a, b \in rows'[i] : a.no = b.no => a = b
      BY <2>1, <2>3, <2>6, <2>0 DEF AttemptsContiguous
    <2>8. \A j \in Jobs : j # i => rows'[j] = rows[j] /\ attempts'[j] = attempts[j]
      BY <2>1 DEF ClaimInv, TypeOK
    <2> HIDE DEF n, i
    <2> QED
      BY <2>3, <2>4, <2>5, <2>7, <2>8 DEF AttemptsContiguous
  <1> QED
    BY <1>1, <1>2, JobSteps DEF Columns, Submit, Claims

(* Every attempt of a job has its number, from 1 to the attempts column.   *)
THEOREM AttemptsAreNumbered == Spec => []AttemptsContiguous
  <1>1. Init => AttemptsContiguous
    BY DEF Init, AttemptsContiguous
  <1>2. ClaimInv /\ AttemptsContiguous /\ [Next]_vars => AttemptsContiguous'
    BY NextContiguous
  <1> QED
    BY <1>1, <1>2, ClaimInvHolds, PTL DEF Spec

(* A settled job is not due when it is claimed, and nobody holds it.       *)
THEOREM SettledJobsStay == Spec => SettledIsFinal
  <1> DEFINE Stay == \A j \in Jobs : status[j] \in SettledStatuses =>
                       status'[j] = status[j] /\ rows'[j] = rows[j]
  <1>1. ASSUME ClaimInv, [Next]_vars PROVE Stay
    <2> USE DEF SettledStatuses
    <2>1. CASE UNCHANGED Columns
      BY <2>1 DEF Columns
    <2>2. ASSUME NEW j \in Jobs, Submit(j) PROVE Stay
      BY <2>2 DEF Submit, NotCreated, ClaimInv, TypeOK
    <2>3. ASSUME NEW s \in Ticks, NEW c \in candidates[s], Claims(s, c) PROVE Stay
      BY <1>1, <2>3, ClaimedWasDue DEF Claims, DueStatuses, ClaimInv, TypeOK
    <2>4. ASSUME NEW s \in Ticks, RecordAttempt(s) PROVE Stay
      BY <1>1, <2>4, RecordsOwnJob DEF ClaimInv, TypeOK
    <2> QED
      BY <1>1, <2>1, <2>2, <2>3, <2>4, JobSteps
  <1>2. ClaimInv /\ [Next]_vars => [Stay]_vars
    BY <1>1
  <1> QED
    BY <1>2, ClaimInvHolds, PTL DEF Spec, SettledIsFinal

-----------------------------------------------------------------------------
(* What a tick is about to record.                                         *)
Proper(v, at, tried) ==
  /\ v.status = StatusAfter(v.result)
  /\ v.status \in {"timeout", "deferred"} => v.retryAt > at
  /\ v.result = "timeout" => tried + 1 <= MaxRetries

VerdictOK ==
  \A s \in Ticks : phase[s] \in {"blocking", "recording"} =>
    Proper(verdict[s], processedAt[s], seen[s][current[s]])

LEMMA ConcludeProper ==
  ASSUME TypeOK, VerdictOK, NEW s \in Ticks, NEW j \in Jobs, NEW v, Conclude(s, j, v),
         Proper(v, processedAt[s], seen[s][j]), current'[s] = j,
         \A q \in Ticks : q # s => current'[q] = current[q],
         UNCHANGED <<processedAt, seen>>
  PROVE  VerdictOK'
  <1>1. Proper(Verdict("failed", "THREAD_AUTO_BLOCKED", "failed", 0), processedAt[s],
               seen[s][j])
    BY DEF Proper, Verdict, StatusAfter
  <1>2. Proper(verdict'[s], processedAt'[s], seen'[s][current'[s]])
    BY <1>1 DEF Conclude, TypeOK
  <1>3. \A q \in Ticks : q # s => phase'[q] = phase[q] /\ verdict'[q] = verdict[q]
    BY DEF Conclude, TypeOK
  <1> QED
    BY <1>2, <1>3 DEF VerdictOK

LEMMA OutcomeProper ==
  ASSUME TypeOK, NEW s \in Ticks, NEW j \in Jobs,
         NEW outcome \in ExecutorOutcomes(s, j), outcome.result # "delivered",
         ShouldRetry(outcome, seen[s][j] + 1)
  PROVE  Proper(Verdict(outcome.result, outcome.code, RetryStatus(outcome.result),
                        processedAt[s] + RetryDelay(outcome, seen[s][j] + 1)),
                processedAt[s], seen[s][j])
  <1>1. seen[s][j] + 1 \in Nat \ {0} /\ processedAt[s] \in Nat
    BY QueueAssumption DEF TypeOK, Time
  <1>2. outcome.result \in {"timeout", "deferred"}
    BY DEF ExecutorOutcomes, ShouldRetry, Outcome
  <1>3. RetryDelay(outcome, seen[s][j] + 1) \in Nat \ {0}
    BY <1>1, RetryVerdict
  <1>4. outcome.result = "timeout" => seen[s][j] + 1 <= MaxRetries
    BY DEF ShouldRetry
  <1> HIDE DEF ShouldRetry
  <1> QED
    BY <1>1, <1>2, <1>3, <1>4 DEF Proper, Verdict, RetryStatus, StatusAfter

LEMMA NextVerdictOK == ASSUME ClaimInv, VerdictOK, [Next]_vars PROVE VerdictOK'
  <1> USE DEF jobVars, memoryVars, tickVars, ClaimInv
  <1>1. CASE UNCHANGED <<phase, processedAt, seen, current, verdict>>
    BY <1>1 DEF VerdictOK
  <1>2. ASSUME NEW s \in Ticks,
               StartTick(s) \/ ReadCandidates(s) \/ ClaimNext(s) \/ ClaimDone(s)
        PROVE  VerdictOK'
    <2>1. /\ phase[s] \in {"idle", "reading", "claiming"}
          /\ phase'[s] \in {"reading", "claiming", "processing"}
          /\ \A q \in Ticks : q # s =>
               /\ phase'[q] = phase[q] /\ verdict'[q] = verdict[q]
               /\ processedAt'[q] = processedAt[q] /\ current'[q] = current[q]
               /\ seen'[q] = seen[q]
      BY <1>2 DEF StartTick, ReadCandidates, ClaimNext, ClaimDone, TypeOK
    <2> QED
      BY <2>1 DEF VerdictOK
  <1>3. ASSUME NEW s \in Ticks, BeginAttempt(s) PROVE VerdictOK'
    <2>1. /\ phase'[s] = "executing" /\ UNCHANGED <<processedAt, seen, verdict>>
          /\ \A q \in Ticks : q # s => phase'[q] = phase[q] /\ current'[q] = current[q]
      BY <1>3 DEF BeginAttempt, TypeOK
    <2> QED
      BY <2>1 DEF VerdictOK
  <1>4. ASSUME NEW s \in Ticks, DeferByRateLimit(s) PROVE VerdictOK'
    <2>1. PICK j \in NextInHand(s), oldest \in Time :
            LET left == oldest + RateWindow - processedAt[s]
                delay == IF left > DeferRecheck THEN left ELSE DeferRecheck
            IN  /\ current' = [current EXCEPT ![s] = j]
                /\ Conclude(s, j, Verdict("deferred", "TRIGGER_RATE_LIMITED",
                                          "deferred", processedAt[s] + delay))
      BY <1>4 DEF DeferByRateLimit
    <2> DEFINE left == oldest + RateWindow - processedAt[s]
               delay == IF left > DeferRecheck THEN left ELSE DeferRecheck
               v == Verdict("deferred", "TRIGGER_RATE_LIMITED", "deferred",
                            processedAt[s] + delay)
    <2>2. j \in Jobs /\ delay \in Nat \ {0} /\ processedAt[s] \in Nat
      BY QueueAssumption DEF NextInHand, TypeOK, Time
    <2>3. Proper(v, processedAt[s], seen[s][j])
      <3> HIDE DEF delay
      <3> QED
        BY <2>2 DEF Proper, Verdict, StatusAfter
    <2>4. Conclude(s, j, v) /\ current' = [current EXCEPT ![s] = j]
      BY <2>1
    <2>5. /\ current'[s] = j /\ UNCHANGED <<processedAt, seen>>
          /\ \A q \in Ticks : q # s => current'[q] = current[q]
      BY <1>4, <2>4 DEF DeferByRateLimit, TypeOK
    <2> HIDE DEF v
    <2> QED
      BY <2>2, <2>3, <2>4, <2>5, ConcludeProper
  <1>5. ASSUME NEW s \in Ticks, ExecutorReturns(s) PROVE VerdictOK'
    <2> DEFINE j == current[s]
               n == seen[s][j] + 1
    <2>1. phase[s] = "executing" /\ j \in Jobs /\ UNCHANGED <<processedAt, seen, current>>
      BY <1>5 DEF ExecutorReturns, PhaseOK, AttemptPhases, TypeOK
    <2>2. CASE Conclude(s, j, Verdict("delivered", "none", "delivered", 0))
      <3>1. Proper(Verdict("delivered", "none", "delivered", 0), processedAt[s], seen[s][j])
        BY DEF Proper, Verdict, StatusAfter
      <3> QED
        BY <2>1, <2>2, <3>1, ConcludeProper
    <2>3. ASSUME NEW outcome \in ExecutorOutcomes(s, j),
                 outcome.result # "delivered", ShouldRetry(outcome, n),
                 Conclude(s, j, Verdict(outcome.result, outcome.code,
                            RetryStatus(outcome.result),
                            processedAt[s] + RetryDelay(outcome, n)))
          PROVE  VerdictOK'
      BY <2>1, <2>3, OutcomeProper, ConcludeProper
    <2>4. CASE phase' = [phase EXCEPT ![s] = "falling_back"] /\ UNCHANGED verdict
      BY <2>1, <2>4 DEF VerdictOK, TypeOK
    <2> QED
      BY <1>5, <2>2, <2>3, <2>4 DEF ExecutorReturns
  <1>6. ASSUME NEW s \in Ticks, FallbackReturns(s) PROVE VerdictOK'
    <2>1. PICK v \in FallbackVerdicts : Conclude(s, current[s], v)
      BY <1>6 DEF FallbackReturns
    <2>2. current[s] \in Jobs /\ UNCHANGED <<processedAt, seen, current>>
      BY <1>6 DEF FallbackReturns, PhaseOK, AttemptPhases, TypeOK
    <2>3. Proper(v, processedAt[s], seen[s][current[s]])
      BY DEF Proper, FallbackVerdicts, Verdict, StatusAfter
    <2> QED
      BY <2>1, <2>2, <2>3, ConcludeProper
  <1>7. ASSUME NEW s \in Ticks, MarkThreadBlocked(s) PROVE VerdictOK'
    BY <1>7 DEF MarkThreadBlocked, VerdictOK, TypeOK
  <1>8. ASSUME NEW s \in Ticks, RecordAttempt(s) PROVE VerdictOK'
    <2>1. /\ phase'[s] = "processing" /\ UNCHANGED processedAt
          /\ \A q \in Ticks : q # s =>
               /\ phase'[q] = phase[q] /\ verdict'[q] = verdict[q]
               /\ current'[q] = current[q] /\ seen'[q] = seen[q]
      BY <1>8 DEF RecordAttempt, TypeOK
    <2> QED
      BY <2>1 DEF VerdictOK
  <1>9. ASSUME NEW Ended \in SUBSET Ticks, EndTicks(Ended) PROVE VerdictOK'
    BY <1>9 DEF EndTicks, VerdictOK
  <1> QED
    BY <1>1, <1>2, <1>3, <1>4, <1>5, <1>6, <1>7, <1>8, <1>9
    DEF Next, TickStep, Environment, vars, Submit, UpdateThreadStatus, AdvanceClock,
        FinishTick, TickFails, Restart

(* The numbered attempts and what is going to be added to them.            *)
RecordInv == ClaimInv /\ AttemptsContiguous /\ VerdictOK

LEMMA RecordInvHolds == Spec => []RecordInv
  <1>1. Init => AttemptsContiguous /\ VerdictOK
    BY DEF Init, AttemptsContiguous, VerdictOK
  <1>2. RecordInv /\ [Next]_vars => AttemptsContiguous' /\ VerdictOK'
    BY NextContiguous, NextVerdictOK DEF RecordInv
  <1> QED
    BY <1>1, <1>2, ClaimInvHolds, PTL DEF Spec, RecordInv

(* What a record adds: a row with the next number, of a proper verdict.    *)
LEMMA RecordsProperly ==
  ASSUME RecordInv, NEW s \in Ticks, RecordAttempt(s)
  PROVE  LET j == current[s]
             v == verdict[s]
             r == Row(attempts[j] + 1, v.result, v.code, processedAt[s])
         IN  /\ j \in Jobs /\ status[j] = "triggering"
             /\ status'[j] = v.status /\ attempts'[j] = attempts[j] + 1
             /\ rows'[j] = rows[j] \cup {r}
             /\ Proper(v, processedAt[s], attempts[j])
             /\ \A i \in Jobs : i # j => /\ status'[i] = status[i]
                                        /\ attempts'[i] = attempts[i]
                                        /\ rows'[i] = rows[i]
  <1>1. /\ current[s] \in Jobs /\ phase[s] = "recording"
        /\ seen[s][current[s]] = attempts[current[s]]
    BY RecordsOwnJob DEF RecordInv
  <1>2. Proper(verdict[s], processedAt[s], attempts[current[s]])
    BY <1>1 DEF RecordInv, VerdictOK
  <1> QED
    BY <1>1, <1>2, RecordsOwnJob DEF RecordInv, ClaimInv, TypeOK

LEMMA NumbersOfRows ==
  ASSUME RecordInv, NEW j \in Jobs
  PROVE  attempts[j] \in Nat /\ \A r \in rows[j] : r.no \in 1 .. attempts[j]
  BY DEF RecordInv, ClaimInv, TypeOK, AttemptsContiguous

LEMMA NextExplained ==
  ASSUME RecordInv, LastAttemptExplainsStatus, [Next]_vars
  PROVE  LastAttemptExplainsStatus'
  <1> USE DEF LastAttemptExplainsStatus
  <1>1. CASE UNCHANGED Columns
    BY <1>1 DEF Columns
  <1>2. ASSUME NEW j \in Jobs, Submit(j) PROVE LastAttemptExplainsStatus'
    <2>1. /\ UNCHANGED <<attempts, rows>>
          /\ \A i \in Jobs : i # j => status'[i] = status[i]
      BY <1>2 DEF Submit, RecordInv, ClaimInv, TypeOK
    <2>2. \A r \in rows[j] : r.no # attempts[j] /\ r.result \in {"deferred", "timeout"}
      BY <1>2 DEF Submit, StatusAfter, NotCreated
    <2> QED
      BY <2>1, <2>2
  <1>3. ASSUME NEW s \in Ticks, NEW c \in candidates[s], Claims(s, c)
        PROVE  LastAttemptExplainsStatus'
    <2> DEFINE j == c.job
    <2>1. /\ j \in Jobs /\ status[j] \in DueStatuses /\ UNCHANGED <<attempts, rows>>
          /\ status'[j] = "triggering"
          /\ \A i \in Jobs : i # j => status'[i] = status[i]
      BY <1>3, ClaimedWasDue DEF Claims, RecordInv, ClaimInv, TypeOK
    <2>2. \A r \in rows[j] : r.result \in {"deferred", "timeout"}
      BY <2>1 DEF StatusAfter, DueStatuses
    <2> QED
      BY <2>1, <2>2
  <1>4. ASSUME NEW s \in Ticks, RecordAttempt(s) PROVE LastAttemptExplainsStatus'
    <2> DEFINE j == current[s]
               v == verdict[s]
               r == Row(attempts[j] + 1, v.result, v.code, processedAt[s])
    <2>1. /\ j \in Jobs /\ status[j] = "triggering" /\ status'[j] = v.status
          /\ attempts'[j] = attempts[j] + 1 /\ rows'[j] = rows[j] \cup {r}
          /\ v.status = StatusAfter(v.result)
          /\ \A i \in Jobs : i # j => /\ status'[i] = status[i] /\ rows'[i] = rows[i]
                                     /\ attempts'[i] = attempts[i]
      BY <1>4, RecordsProperly DEF Proper
    <2>2. r.no = attempts[j] + 1 /\ r.result = v.result
      BY DEF Row
    <2>3. attempts[j] \in Nat /\ \A q \in rows[j] : q.no \in 1 .. attempts[j]
      BY <2>1, NumbersOfRows
    <2>4. \A q \in rows[j] : q.no # attempts'[j] /\ q.result \in {"deferred", "timeout"}
      BY <2>1, <2>3
    <2>5. v.status # "triggering"
      BY <2>1 DEF StatusAfter
    <2> HIDE DEF r, v, j
    <2> QED
      BY <2>1, <2>2, <2>4, <2>5
  <1> QED
    BY <1>1, <1>2, <1>3, <1>4, JobSteps

(* Only the last attempt may end a job, and it explains the status.        *)
THEOREM StatusIsExplained == Spec => []LastAttemptExplainsStatus
  <1>1. Init => LastAttemptExplainsStatus
    BY DEF Init, LastAttemptExplainsStatus
  <1>2. RecordInv /\ LastAttemptExplainsStatus /\ [Next]_vars => LastAttemptExplainsStatus'
    BY NextExplained
  <1> QED
    BY <1>1, <1>2, RecordInvHolds, PTL DEF Spec

-----------------------------------------------------------------------------
(* A timeout is recorded only for an attempt that may be retried.          *)
TimeoutsInBudget ==
  \A j \in Jobs : \A r \in rows[j] : r.result = "timeout" => r.no <= MaxRetries

LEMMA NextTimeouts ==
  ASSUME RecordInv, TimeoutsInBudget, [Next]_vars
  PROVE  TimeoutsInBudget'
  <1> USE DEF TimeoutsInBudget
  <1>1. CASE UNCHANGED rows
    BY <1>1
  <1>2. ASSUME NEW s \in Ticks, RecordAttempt(s) PROVE TimeoutsInBudget'
    BY <1>2, RecordsProperly DEF Proper, Row
  <1> QED
    BY <1>1, <1>2, JobSteps DEF Columns, Submit, Claims

(* Their numbers tell them apart, so there are no more than MaxRetries.    *)
LEMMA BudgetKept ==
  ASSUME RecordInv, TimeoutsInBudget PROVE RetryBudget
  <1> SUFFICES ASSUME NEW j \in Jobs
               PROVE  Cardinality({r \in rows[j] : r.result = "timeout"}) <= MaxRetries
    BY DEF RetryBudget
  <1> DEFINE S == {r \in rows[j] : r.result = "timeout"}
             f == [r \in S |-> r.no]
  <1>1. \A r \in S : r.no \in 1 .. MaxRetries
    BY NumbersOfRows, QueueAssumption DEF TimeoutsInBudget
  <1>2. \A r, q \in S : r.no = q.no => r = q
    BY DEF RecordInv, AttemptsContiguous
  <1>3. f \in Injection(S, 1 .. MaxRetries)
    BY <1>1, <1>2 DEF Injection, IsInjective
  <1>4. IsFiniteSet(1 .. MaxRetries) /\ Cardinality(1 .. MaxRetries) = MaxRetries
    BY FS_Interval, QueueAssumption
  <1>5. Cardinality(S) <= Cardinality(1 .. MaxRetries)
    BY <1>3, <1>4, FS_Injection
  <1> QED
    BY <1>4, <1>5

(* The retries after timeouts stay within max_retries.                     *)
THEOREM RetriesAreBounded == Spec => []RetryBudget
  <1>1. Init => TimeoutsInBudget
    BY DEF Init, TimeoutsInBudget
  <1>2. RecordInv /\ TimeoutsInBudget /\ [Next]_vars => TimeoutsInBudget'
    BY NextTimeouts
  <1>3. RecordInv /\ TimeoutsInBudget => RetryBudget
    BY BudgetKept
  <1> QED
    BY <1>1, <1>2, <1>3, RecordInvHolds, PTL DEF Spec

-----------------------------------------------------------------------------
(* Claims are not early: updated_at grows with every claim of a waiting    *)
(* job, so it tells a tick that read the row before from one that did not. *)
Waiting == {"timeout", "deferred"}

(* A retry is due after the attempt that it repeats, and a held job has    *)
(* the time stamp of its holder.                                           *)
Stamped ==
  /\ \A j \in Jobs : status[j] \in Waiting => updatedAt[j] < nextRetryAt[j]
  /\ \A s \in Ticks : \A j \in hand[s] : updatedAt[j] = processedAt[s]

(* What a tick read is the row, which is due for it, or behind the row.    *)
Behind(c) ==
  /\ status[c.job] \notin {"queued", NotCreated}
  /\ c.status # "queued" => c.updatedAt < updatedAt[c.job]
Readings ==
  \A s \in Ticks : \A c \in candidates[s] :
    \/ Unchanged(c) /\ nextRetryAt[c.job] <= processedAt[s]
    \/ Behind(c)
NothingReadYet ==
  \A s \in Ticks : phase[s] \in {"idle", "reading"} => candidates[s] = {}
ClaimsInTime == Stamped /\ Readings /\ NothingReadYet

(* A claim in time.                                                        *)
LEMMA ClaimIsDue ==
  ASSUME RecordInv, ClaimsInTime, NEW s \in Ticks, NEW c \in candidates[s], Claims(s, c)
  PROVE  /\ c.job \in Jobs /\ status[c.job] \in DueStatuses
         /\ nextRetryAt[c.job] <= processedAt[s]
         /\ status[c.job] # "queued" => updatedAt[c.job] < processedAt[s]
  <1>1. c.job \in Jobs /\ status[c.job] = c.status /\ c.status \in DueStatuses
    BY ClaimedWasDue DEF RecordInv, ClaimInv
  <1>2. updatedAt[c.job] = c.updatedAt /\ updatedAt[c.job] \in Nat
    BY <1>1, QueueAssumption DEF Claims, Unchanged, RecordInv, ClaimInv, TypeOK, Time
  <1>3. nextRetryAt[c.job] <= processedAt[s]
    BY <1>1, <1>2 DEF ClaimsInTime, Readings, Behind
  <1>4. nextRetryAt[c.job] \in Nat /\ processedAt[s] \in Nat
    BY <1>1, QueueAssumption DEF RecordInv, ClaimInv, TypeOK, Time
  <1> QED
    BY <1>1, <1>2, <1>3, <1>4 DEF ClaimsInTime, Stamped, Waiting, DueStatuses

(* What a step adds to the candidates of a tick was just read and due.     *)
LEMMA CandidateSteps ==
  ASSUME ClaimInv, [Next]_vars, NEW s \in Ticks
  PROVE  \/ candidates'[s] \subseteq candidates[s] /\ processedAt'[s] = processedAt[s]
         \/ /\ candidates'[s] \subseteq candidates[s]
            /\ phase[s] = "idle" \/ candidates'[s] = {}
         \/ /\ UNCHANGED <<Columns, processedAt, hand>>
            /\ \A c \in candidates'[s] : Unchanged(c) /\ nextRetryAt[c.job] <= processedAt[s]
  <1> USE DEF ClaimInv, jobVars, memoryVars, tickVars
  <1>1. CASE UNCHANGED <<candidates, processedAt>>
    BY <1>1
  <1>2. ASSUME NEW q \in Ticks, StartTick(q)
        PROVE  UNCHANGED candidates /\ (processedAt'[s] = processedAt[s] \/ phase[s] = "idle")
    BY <1>2 DEF StartTick, TypeOK
  <1>3. ASSUME NEW q \in Ticks, ReadCandidates(q), q = s
        PROVE  /\ UNCHANGED <<Columns, processedAt, hand>>
               /\ \A c \in candidates'[s] :
                    Unchanged(c) /\ nextRetryAt[c.job] <= processedAt[s]
    BY <1>3 DEF ReadCandidates, Columns, Unchanged, Due, TypeOK
  <1>4. ASSUME NEW q \in Ticks, ReadCandidates(q), q # s
        PROVE  candidates'[s] = candidates[s] /\ processedAt'[s] = processedAt[s]
    BY <1>4 DEF ReadCandidates, TypeOK
  <1>5. ASSUME NEW q \in Ticks, ClaimNext(q) \/ ClaimDone(q)
        PROVE  candidates'[s] \subseteq candidates[s] /\ processedAt'[s] = processedAt[s]
    BY <1>5 DEF ClaimNext, ClaimDone, TypeOK
  <1>6. ASSUME NEW Ended \in SUBSET Ticks, EndTicks(Ended)
        PROVE  /\ candidates'[s] \subseteq candidates[s]
               /\ processedAt'[s] = processedAt[s] \/ candidates'[s] = {}
    BY <1>6 DEF EndTicks
  <1> QED
    BY <1>1, <1>2, <1>3, <1>4, <1>5, <1>6
    DEF Next, TickStep, Environment, vars, Submit, UpdateThreadStatus, AdvanceClock,
        BeginAttempt, DeferByRateLimit, ExecutorReturns, FallbackReturns,
        MarkThreadBlocked, RecordAttempt, FinishTick, TickFails, Restart

LEMMA HandSteps ==
  ASSUME ClaimInv, [Next]_vars, NEW s \in Ticks
  PROVE  \/ hand'[s] = {}
         \/ /\ processedAt'[s] = processedAt[s]
            /\ \/ hand'[s] \subseteq hand[s]
               \/ \E c \in candidates[s] : Claims(s, c) /\ hand'[s] = hand[s] \cup {c.job}
  <1> USE DEF ClaimInv, jobVars, memoryVars, tickVars
  <1>1. CASE UNCHANGED <<hand, processedAt>>
    BY <1>1
  <1>2. ASSUME NEW q \in Ticks, StartTick(q)
        PROVE  UNCHANGED hand /\ (processedAt'[s] = processedAt[s] \/ hand[s] = {})
    BY <1>2 DEF StartTick, PhaseOK, TypeOK
  <1>3. ASSUME NEW q \in Ticks, ClaimNext(q)
        PROVE  /\ processedAt'[s] = processedAt[s]
               /\ \/ hand'[s] = hand[s]
                  \/ \E c \in candidates[s] : Claims(s, c) /\ hand'[s] = hand[s] \cup {c.job}
    <2>1. UNCHANGED processedAt
      BY <1>3 DEF ClaimNext
    <2>2. UNCHANGED hand \/ \E c \in candidates[q] : Claims(q, c)
      BY <1>3 DEF ClaimNext, Claims
    <2>3. ASSUME NEW c \in candidates[q], Claims(q, c)
          PROVE  hand'[s] = IF s = q THEN hand[s] \cup {c.job} ELSE hand[s]
      BY <2>3 DEF Claims, TypeOK
    <2> QED
      BY <2>1, <2>2, <2>3
  <1>4. ASSUME NEW q \in Ticks, RecordAttempt(q)
        PROVE  hand'[s] \subseteq hand[s] /\ processedAt'[s] = processedAt[s]
    BY <1>4 DEF RecordAttempt, TypeOK
  <1>5. ASSUME NEW Ended \in SUBSET Ticks, EndTicks(Ended)
        PROVE  hand'[s] = {} \/ (hand'[s] = hand[s] /\ processedAt'[s] = processedAt[s])
    BY <1>5 DEF EndTicks
  <1> QED
    BY <1>1, <1>2, <1>3, <1>4, <1>5
    DEF Next, TickStep, Environment, vars, Submit, UpdateThreadStatus, AdvanceClock,
        ReadCandidates, ClaimDone, BeginAttempt, DeferByRateLimit, ExecutorReturns,
        FallbackReturns, MarkThreadBlocked, FinishTick, TickFails, Restart

LEMMA NextNothingRead ==
  ASSUME ClaimInv, NothingReadYet, [Next]_vars PROVE NothingReadYet'
  <1> USE DEF ClaimInv, NothingReadYet, jobVars, memoryVars, tickVars
  <1>1. CASE UNCHANGED <<candidates, phase>>
    BY <1>1
  <1>2. ASSUME NEW s \in Ticks, StartTick(s) \/ ReadCandidates(s) \/ ClaimDone(s)
        PROVE  NothingReadYet'
    BY <1>2 DEF StartTick, ReadCandidates, ClaimDone, TypeOK
  <1>3. ASSUME NEW s \in Ticks, ClaimNext(s) PROVE NothingReadYet'
    BY <1>3 DEF ClaimNext, TypeOK
  <1>4. ASSUME NEW s \in Ticks,
               BeginAttempt(s) \/ MarkThreadBlocked(s) \/ RecordAttempt(s)
        PROVE  NothingReadYet'
    BY <1>4 DEF BeginAttempt, MarkThreadBlocked, RecordAttempt, TypeOK
  <1>5. ASSUME NEW s \in Ticks,
               DeferByRateLimit(s) \/ ExecutorReturns(s) \/ FallbackReturns(s)
        PROVE  NothingReadYet'
    <2>1. UNCHANGED candidates /\ phase[s] \in {"processing", "executing", "falling_back"}
      BY <1>5 DEF DeferByRateLimit, ExecutorReturns, FallbackReturns
    <2>2. /\ phase' = [phase EXCEPT ![s] = phase'[s]]
          /\ phase'[s] \in {"blocking", "recording", "falling_back"}
      <3>1. CASE DeferByRateLimit(s)
        BY <3>1, ConcludePhase DEF DeferByRateLimit, NextInHand
      <3>2. CASE ExecutorReturns(s)
        BY <3>2, ConcludePhase DEF ExecutorReturns, TypeOK
      <3>3. CASE FallbackReturns(s)
        BY <3>3, ConcludePhase DEF FallbackReturns
      <3> QED
        BY <1>5, <3>1, <3>2, <3>3
    <2> QED
      BY <2>1, <2>2 DEF TypeOK
  <1>6. ASSUME NEW Ended \in SUBSET Ticks, EndTicks(Ended) PROVE NothingReadYet'
    BY <1>6 DEF EndTicks
  <1> QED
    BY <1>1, <1>2, <1>3, <1>4, <1>5, <1>6
    DEF Next, TickStep, Environment, vars, Submit, UpdateThreadStatus, AdvanceClock,
        FinishTick, TickFails, Restart

LEMMA NextStamped ==
  ASSUME RecordInv, ClaimsInTime, [Next]_vars PROVE Stamped'
  <1> USE DEF RecordInv, ClaimInv
  <1>1. ASSUME NEW j \in Jobs, status'[j] \in Waiting
        PROVE  updatedAt'[j] < nextRetryAt'[j]
    <2> USE DEF ClaimsInTime, Stamped, Waiting
    <2>1. CASE UNCHANGED Columns
      BY <1>1, <2>1 DEF Columns
    <2>2. ASSUME NEW i \in Jobs, Submit(i) PROVE updatedAt'[j] < nextRetryAt'[j]
      BY <1>1, <2>2 DEF Submit, TypeOK
    <2>3. ASSUME NEW s \in Ticks, NEW c \in candidates[s], Claims(s, c)
          PROVE  updatedAt'[j] < nextRetryAt'[j]
      <3>1. j # c.job /\ status'[j] = status[j]
        BY <1>1, <2>3, ClaimedWasDue DEF Claims, TypeOK
      <3> QED
        BY <1>1, <2>3, <3>1 DEF Claims, TypeOK
    <2>4. ASSUME NEW s \in Ticks, RecordAttempt(s)
          PROVE  updatedAt'[j] < nextRetryAt'[j]
      <3>1. CASE j = current[s]
        <4>1. /\ status'[j] = verdict[s].status /\ updatedAt'[j] = processedAt[s]
              /\ nextRetryAt'[j] = verdict[s].retryAt
          BY <2>4, <3>1, RecordsOwnJob DEF TypeOK
        <4>2. Proper(verdict[s], processedAt[s], attempts[j])
          BY <2>4, <3>1, RecordsProperly
        <4>3. verdict[s].retryAt \in Nat /\ processedAt[s] \in Nat
          BY QueueAssumption DEF TypeOK, VerdictType, Time
        <4> QED
          BY <1>1, <4>1, <4>2, <4>3 DEF Proper
      <3>2. CASE j # current[s]
        BY <1>1, <2>4, <3>2, RecordsOwnJob DEF TypeOK
      <3> QED
        BY <3>1, <3>2
    <2> QED
      BY <2>1, <2>2, <2>3, <2>4, JobSteps
  <1>2. ASSUME NEW s \in Ticks, NEW j \in hand'[s]
        PROVE  updatedAt'[j] = processedAt'[s]
    <2>1. processedAt'[s] = processedAt[s]
      BY <1>2, HandSteps
    <2>2. CASE \E c \in candidates[s] : Claims(s, c) /\ j = c.job
      BY <2>1, <2>2, ClaimedWasDue DEF Claims, TypeOK
    <2>3. CASE j \in hand[s]
      <3>1. j \in Jobs /\ status[j] = "triggering" /\ updatedAt[j] = processedAt[s]
        BY <2>3 DEF TypeOK, ExclusiveClaim, ClaimsInTime, Stamped
      <3>2. CASE UNCHANGED Columns
        BY <2>1, <3>1, <3>2 DEF Columns
      <3>3. ASSUME NEW i \in Jobs, Submit(i) PROVE updatedAt'[j] = updatedAt[j]
        BY <3>1, <3>3 DEF Submit, NotCreated, TypeOK
      <3>4. ASSUME NEW q \in Ticks, NEW c \in candidates[q], Claims(q, c)
            PROVE  updatedAt'[j] = updatedAt[j]
        BY <3>1, <3>4, ClaimedWasDue DEF Claims, DueStatuses, TypeOK
      <3>5. ASSUME NEW q \in Ticks, RecordAttempt(q) PROVE updatedAt'[j] = processedAt[s]
        <4>1. /\ current[q] \in Jobs /\ current[q] \in hand[q]
              /\ updatedAt' = [updatedAt EXCEPT ![current[q]] = processedAt[q]]
          BY <3>5, RecordsOwnJob
        <4>2. j = current[q] => q = s
          BY <2>3, <4>1 DEF ExclusiveClaim
        <4> QED
          BY <3>1, <4>1, <4>2 DEF TypeOK
      <3> QED
        BY <2>1, <3>1, <3>2, <3>3, <3>4, <3>5, JobSteps
    <2> QED
      BY <1>2, <2>2, <2>3, HandSteps
  <1> QED
    BY <1>1, <1>2 DEF Stamped

(* A reading of a row stays what it is: the row, or behind it.             *)
LEMMA ReadingKept ==
  ASSUME RecordInv, ClaimsInTime, [Next]_vars, NEW s \in Ticks, NEW c \in candidates[s]
  PROVE  \/ Unchanged(c)' /\ nextRetryAt'[c.job] <= processedAt[s]
         \/ Behind(c)'
  <1> USE DEF RecordInv, ClaimInv
  <1>1. /\ c.job \in Jobs /\ c.status \in DueStatuses
        /\ c.updatedAt \in Nat /\ updatedAt[c.job] \in Nat
    BY QueueAssumption DEF TypeOK, CandidateType, Time
  <1>2. \/ Unchanged(c) /\ nextRetryAt[c.job] <= processedAt[s]
        \/ Behind(c)
    BY DEF ClaimsInTime, Readings
  <1>3. status[c.job] # NotCreated
    BY <1>1, <1>2 DEF Unchanged, Behind, DueStatuses, NotCreated
  <1>4. CASE UNCHANGED <<status[c.job], nextRetryAt[c.job], updatedAt[c.job]>>
    BY <1>2, <1>4 DEF Unchanged, Behind
  <1>5. ASSUME NEW i \in Jobs, Submit(i)
        PROVE  UNCHANGED <<status[c.job], nextRetryAt[c.job], updatedAt[c.job]>>
    BY <1>1, <1>3, <1>5 DEF Submit, TypeOK
  <1>6. ASSUME NEW q \in Ticks, NEW d \in candidates[q], Claims(q, d), d.job = c.job
        PROVE  Behind(c)'
    <2>1. /\ nextRetryAt[c.job] <= processedAt[q] /\ processedAt[q] \in Nat
          /\ status[c.job] # "queued" => updatedAt[c.job] < processedAt[q]
      BY <1>6, ClaimIsDue, QueueAssumption DEF TypeOK, Time
    <2>2. status'[c.job] = "triggering" /\ updatedAt'[c.job] = processedAt[q]
      BY <1>1, <1>6 DEF Claims, TypeOK
    <2>3. c.status # "queued" => status[c.job] # "queued" /\ c.updatedAt <= updatedAt[c.job]
      BY <1>1, <1>2 DEF Unchanged, Behind
    <2> QED
      BY <1>1, <2>1, <2>2, <2>3 DEF Behind, NotCreated
  <1>7. ASSUME NEW q \in Ticks, NEW d \in candidates[q], Claims(q, d), d.job # c.job
        PROVE  UNCHANGED <<status[c.job], nextRetryAt[c.job], updatedAt[c.job]>>
    BY <1>1, <1>7, ClaimedWasDue DEF Claims, TypeOK
  <1>8. ASSUME NEW q \in Ticks, RecordAttempt(q), current[q] # c.job
        PROVE  UNCHANGED <<status[c.job], nextRetryAt[c.job], updatedAt[c.job]>>
    BY <1>1, <1>8, RecordsOwnJob DEF TypeOK
  <1>9. ASSUME NEW q \in Ticks, RecordAttempt(q), current[q] = c.job
        PROVE  Behind(c)'
    <2>1. /\ status[c.job] = "triggering" /\ c.job \in hand[q]
          /\ status'[c.job] = verdict[q].status /\ updatedAt'[c.job] = processedAt[q]
      BY <1>1, <1>9, RecordsOwnJob DEF TypeOK
    <2>2. Behind(c)
      BY <1>1, <1>2, <2>1 DEF Unchanged, DueStatuses
    <2>3. processedAt[q] = updatedAt[c.job]
      BY <2>1 DEF ClaimsInTime, Stamped
    <2>4. verdict[q].status \notin {"queued", NotCreated}
      BY DEF TypeOK, VerdictType, JobStatuses, DueStatuses, SettledStatuses, NotCreated
    <2> QED
      BY <2>1, <2>2, <2>3, <2>4 DEF Behind
  <1> QED
    BY <1>4, <1>5, <1>6, <1>7, <1>8, <1>9, JobSteps DEF Columns

LEMMA NextReadings ==
  ASSUME RecordInv, ClaimsInTime, [Next]_vars PROVE Readings'
  <1> SUFFICES ASSUME NEW s \in Ticks, NEW c \in candidates'[s]
               PROVE  \/ Unchanged(c)' /\ nextRetryAt'[c.job] <= processedAt'[s]
                      \/ Behind(c)'
    BY DEF Readings
  <1> USE DEF RecordInv
  <1>1. CASE /\ UNCHANGED <<Columns, processedAt, hand>>
             /\ Unchanged(c) /\ nextRetryAt[c.job] <= processedAt[s]
    BY <1>1 DEF Columns, Unchanged
  <1>2. CASE c \in candidates[s] /\ processedAt'[s] = processedAt[s]
    BY <1>2, ReadingKept
  <1>3. phase[s] = "idle" => candidates[s] = {}
    BY DEF ClaimsInTime, NothingReadYet
  <1> QED
    BY <1>1, <1>2, <1>3, CandidateSteps

(* A job is claimed only when its retry time has come, by any tick.        *)
THEOREM ClaimsAreDue == Spec => NoEarlyClaim
  <1> DEFINE Due1 == \A s \in Ticks : \A j \in hand'[s] \ hand[s] :
                       nextRetryAt[j] <= processedAt[s]
  <1>1. Init => ClaimsInTime
    BY DEF Init, ClaimsInTime, Stamped, Readings, NothingReadYet, Waiting, NotCreated
  <1>2. RecordInv /\ ClaimsInTime /\ [Next]_vars => ClaimsInTime'
    BY NextStamped, NextReadings, NextNothingRead DEF ClaimsInTime, RecordInv
  <1>3. RecordInv /\ ClaimsInTime /\ [Next]_vars => [Due1]_vars
    BY HandSteps, ClaimIsDue DEF RecordInv
  <1> QED
    BY <1>1, <1>2, <1>3, RecordInvHolds, PTL DEF Spec, NoEarlyClaim

-----------------------------------------------------------------------------
(* The refinement of TriggerLifecycle.                                     *)
States == [j \in Jobs |-> LifeState(j)]
Holders == [j \in Jobs |-> LifeHolder(j)]

(* The holder is the one tick that has the job in hand.                    *)
LEMMA HolderIs ==
  ASSUME ExclusiveClaim, NEW j \in Jobs
  PROVE  /\ \A s \in Ticks : j \in hand[s] => LifeHolder(j) = s
         /\ (\A s \in Ticks : j \notin hand[s]) => LifeHolder(j) = NoTick
  <1>1. ASSUME NEW s \in Ticks, j \in hand[s] PROVE LifeHolder(j) = s
    <2>1. \A q \in Ticks : j \in hand[q] <=> q = s
      BY <1>1 DEF ExclusiveClaim
    <2> QED
      BY <2>1 DEF LifeHolder
  <1> QED
    BY <1>1 DEF LifeHolder

LEMMA HolderWillBe ==
  ASSUME ExclusiveClaim', NEW j \in Jobs
  PROVE  /\ \A s \in Ticks : j \in hand'[s] => LifeHolder(j)' = s
         /\ (\A s \in Ticks : j \notin hand'[s]) => LifeHolder(j)' = NoTick
  <1>1. ASSUME NEW s \in Ticks, j \in hand'[s] PROVE LifeHolder(j)' = s
    <2>1. \A q \in Ticks : j \in hand'[q] <=> q = s
      BY <1>1 DEF ExclusiveClaim
    <2> QED
      BY <2>1 DEF LifeHolder
  <1> QED
    BY <1>1 DEF LifeHolder

(* The steps that the lifecycle tells apart.                               *)
LEMMA LifeSteps ==
  ASSUME [Next]_vars
  PROVE  \/ UNCHANGED <<Columns, hand>>
         \/ \E j \in Jobs : Submit(j)
         \/ \E s \in Ticks : \E c \in candidates[s] : Claims(s, c)
         \/ \E s \in Ticks : RecordAttempt(s)
         \/ \E Ended \in SUBSET Ticks : EndTicks(Ended) /\ UNCHANGED Columns
  <1> USE DEF Columns, jobVars, tickVars
  <1>1. ASSUME NEW s \in Ticks, ClaimNext(s)
        PROVE  UNCHANGED <<Columns, hand>> \/ \E c \in candidates[s] : Claims(s, c)
    BY <1>1 DEF ClaimNext, Claims
  <1>2. ASSUME NEW s \in Ticks, FinishTick(s) \/ TickFails(s)
        PROVE  \E Ended \in SUBSET Ticks : EndTicks(Ended) /\ UNCHANGED Columns
    BY <1>2 DEF FinishTick, TickFails
  <1>3. ASSUME NEW w \in Workers, Restart(w)
        PROVE  \E Ended \in SUBSET Ticks : EndTicks(Ended) /\ UNCHANGED Columns
    BY <1>3 DEF Restart
  <1> QED
    BY <1>1, <1>2, <1>3
    DEF Next, TickStep, Environment, vars, UpdateThreadStatus, AdvanceClock, StartTick,
        ReadCandidates, ClaimDone, BeginAttempt, DeferByRateLimit, ExecutorReturns,
        FallbackReturns, MarkThreadBlocked

(* A record returns the job: it waits, or is settled.                      *)
LEMMA ReturnStep ==
  ASSUME RecordInv, ExclusiveClaim', NEW s \in Ticks, RecordAttempt(s)
  PROVE  \E j \in Jobs : Life!Return(j)
  <1>0. ClaimInv /\ TypeOK /\ ExclusiveClaim
    BY DEF RecordInv, ClaimInv
  <1>1. PICK j \in Jobs : j = current[s]
    BY <1>0, RecordsOwnJob
  <1>2. PICK st \in DueStatuses \cup SettledStatuses :
          status' = [status EXCEPT ![j] = st]
    <2>1. verdict[s].status \in DueStatuses \cup SettledStatuses
      BY <1>0 DEF TypeOK, VerdictType, JobStatuses
    <2> QED
      BY <1>0, <1>1, <2>1, RecordsOwnJob
  <1>3. /\ j \in hand[s] /\ status[j] = "triggering"
        /\ attempts' = [attempts EXCEPT ![j] = @ + 1]
    BY <1>0, <1>1, RecordsOwnJob
  <1>4. \A q \in Ticks : hand'[q] = IF q = s THEN hand[s] \ {j} ELSE hand[q]
    BY <1>0, <1>1 DEF RecordAttempt, TypeOK
  <1>5. LifeState(j) = "held"
    BY <1>3 DEF LifeState, NotCreated, SettledStatuses
  <1>6. LifeHolder(j) = s
    BY <1>0, <1>3, HolderIs
  <1>7. PICK x \in {"waiting", "settled"} : x = LifeState(j)'
    <2>1. status'[j] = st
      BY <1>0, <1>2 DEF TypeOK
    <2> QED
      BY <2>1 DEF LifeState, DueStatuses, SettledStatuses, NotCreated
  <1>8. LifeHolder(j)' = NoTick
    <2>1. \A q \in Ticks : j \notin hand'[q]
      BY <1>0, <1>3, <1>4 DEF ExclusiveClaim
    <2> QED
      BY <2>1, HolderWillBe
  <1>9. \A i \in Jobs : i # j => LifeState(i)' = LifeState(i)
    BY <1>0, <1>2 DEF LifeState, TypeOK
  <1>10. \A i \in Jobs : i # j => LifeHolder(i)' = LifeHolder(i)
    BY <1>4 DEF LifeHolder
  <1>11. States' = [States EXCEPT ![j] = x]
    BY <1>7, <1>9 DEF States
  <1>12. Holders' = [Holders EXCEPT ![j] = NoTick]
    BY <1>8, <1>10 DEF Holders
  <1>13. States[j] = "held" /\ Holders[j] \in Ticks
    BY <1>5, <1>6 DEF States, Holders
  <1> QED
    BY <1>3, <1>11, <1>12, <1>13 DEF Life!Return, States, Holders

LEMMA TakeStep ==
  ASSUME RecordInv, ExclusiveClaim', NEW s \in Ticks, NEW c \in candidates[s], Claims(s, c)
  PROVE  Life!Take(c.job, s)
  <1> DEFINE j == c.job
  <1> USE DEF RecordInv, ClaimInv
  <1>1. /\ j \in Jobs /\ status[j] \in DueStatuses
        /\ status' = [status EXCEPT ![j] = "triggering"] /\ UNCHANGED attempts
    BY ClaimedWasDue DEF Claims
  <1>2. \A q \in Ticks : hand'[q] = IF q = s THEN hand[s] \cup {j} ELSE hand[q]
    BY DEF Claims, TypeOK
  <1>3. LifeState(j) = "waiting" /\ LifeState(j)' = "held" /\ LifeHolder(j)' = s
    BY <1>1, <1>2, HolderWillBe
       DEF LifeState, TypeOK, DueStatuses, SettledStatuses, NotCreated
  <1>4. ASSUME NEW i \in Jobs, i # j
        PROVE  LifeState(i)' = LifeState(i) /\ LifeHolder(i)' = LifeHolder(i)
    <2>1. status'[i] = status[i] /\ \A q \in Ticks : i \in hand'[q] <=> i \in hand[q]
      BY <1>1, <1>2, <1>4 DEF TypeOK
    <2> QED
      BY <2>1, HolderIs, HolderWillBe DEF LifeState
  <1>5. States' = [States EXCEPT ![j] = "held"] /\ Holders' = [Holders EXCEPT ![j] = s]
    BY <1>1, <1>3, <1>4 DEF States, Holders
  <1>6. States[j] = "waiting"
    BY <1>1, <1>3 DEF States
  <1> QED
    BY <1>1, <1>5, <1>6 DEF Life!Take, States, Holders

LEMMA SubmitStep ==
  ASSUME RecordInv, NEW j \in Jobs, Submit(j)
  PROVE  Life!Submit(j)
  <1> USE DEF RecordInv, ClaimInv
  <1>1. PICK st \in {"queued", "fallback_resume", "fallback_spawn"} :
          status' = [status EXCEPT ![j] = st]
    BY DEF Submit
  <1>2. status[j] = NotCreated /\ UNCHANGED <<hand, attempts>>
    BY DEF Submit, tickVars
  <1>3. PICK x \in {"waiting", "settled"} : x = LifeState(j)'
    BY <1>1 DEF LifeState, TypeOK, SettledStatuses, NotCreated
  <1>4. \A i \in Jobs : i # j => LifeState(i)' = LifeState(i)
    BY <1>1 DEF LifeState, TypeOK
  <1>5. \A i \in Jobs : LifeHolder(i)' = LifeHolder(i)
    BY <1>2 DEF LifeHolder
  <1>6. States' = [States EXCEPT ![j] = x]
    BY <1>3, <1>4 DEF States
  <1>7. Holders' = Holders
    BY <1>5 DEF Holders
  <1>8. States[j] = "absent"
    BY <1>2 DEF States, LifeState, NotCreated, SettledStatuses
  <1> QED
    BY <1>2, <1>6, <1>7, <1>8 DEF Life!Submit, States, Holders

LEMMA AbandonStep ==
  ASSUME RecordInv, ExclusiveClaim', NEW Ended \in SUBSET Ticks, EndTicks(Ended),
         UNCHANGED Columns
  PROVE  Life!Abandon(Ended)
  <1> USE DEF RecordInv, ClaimInv
  <1>1. \A q \in Ticks : hand'[q] = IF q \in Ended THEN {} ELSE hand[q]
    BY DEF EndTicks
  <1>2. ASSUME NEW j \in Jobs
        PROVE  LifeHolder(j)' = IF LifeHolder(j) \in Ended THEN NoTick ELSE LifeHolder(j)
    <2>1. CASE \A s \in Ticks : j \notin hand[s]
      BY <1>1, <2>1, HolderIs, HolderWillBe, NoTickAssumption
    <2>2. ASSUME NEW s \in Ticks, j \in hand[s], s \notin Ended
          PROVE  LifeHolder(j)' = s /\ LifeHolder(j) = s
      BY <1>1, <2>2, HolderIs, HolderWillBe
    <2>3. ASSUME NEW s \in Ticks, j \in hand[s], s \in Ended
          PROVE  LifeHolder(j)' = NoTick /\ LifeHolder(j) = s
      <3>1. \A q \in Ticks : j \notin hand'[q]
        BY <1>1, <2>3 DEF ExclusiveClaim
      <3> QED
        BY <2>3, <3>1, HolderIs, HolderWillBe
    <2> QED
      BY <2>1, <2>2, <2>3
  <1>3. \A j \in Jobs : LifeState(j)' = LifeState(j)
    BY DEF Columns, LifeState
  <1>4. States' = States
    BY <1>3 DEF States
  <1>5. Holders' = [j \in Jobs |-> IF Holders[j] \in Ended THEN NoTick ELSE Holders[j]]
    BY <1>2 DEF Holders
  <1>6. UNCHANGED attempts
    BY DEF Columns
  <1> QED
    BY <1>4, <1>5, <1>6 DEF Life!Abandon, States, Holders

(* Every step of the queue is one of the lifecycle, or changes nothing of  *)
(* it: the refinement that the claim protocol is for.                      *)
THEOREM QueueIsALifecycle == Spec => Lifecycle
  <1>1. Init => Life!Init
    <2> SUFFICES ASSUME Init PROVE Life!Init
      OBVIOUS
    <2>1. \A j \in Jobs : LifeState(j) = "absent"
      BY DEF Init, LifeState, NotCreated, SettledStatuses
    <2>2. \A s \in Ticks : hand[s] = {}
      BY DEF Init
    <2>3. \A j \in Jobs : LifeHolder(j) = NoTick
      BY <2>2 DEF LifeHolder
    <2> QED
      BY <2>1, <2>3 DEF Init, Life!Init
  <1>2. ASSUME RecordInv, ExclusiveClaim', [Next]_vars PROVE [Life!Next]_(Life!lifeVars)
    <2>1. CASE UNCHANGED <<Columns, hand>>
      BY <2>1 DEF Columns, Life!lifeVars, LifeState, LifeHolder
    <2>2. ASSUME NEW j \in Jobs, Submit(j) PROVE Life!Next
      BY <1>2, <2>2, SubmitStep DEF Life!Next
    <2>3. ASSUME NEW s \in Ticks, NEW c \in candidates[s], Claims(s, c) PROVE Life!Next
      BY <1>2, <2>3, TakeStep, ClaimedWasDue DEF Life!Next, RecordInv, ClaimInv
    <2>4. ASSUME NEW s \in Ticks, RecordAttempt(s) PROVE Life!Next
      BY <1>2, <2>4, ReturnStep DEF Life!Next
    <2>5. ASSUME NEW Ended \in SUBSET Ticks, EndTicks(Ended), UNCHANGED Columns
          PROVE  Life!Next
      BY <1>2, <2>5, AbandonStep DEF Life!Next
    <2> QED
      BY <1>2, <2>1, <2>2, <2>3, <2>4, <2>5, LifeSteps
  <1>3. RecordInv => ExclusiveClaim
    BY DEF RecordInv, ClaimInv
  <1>4. RecordInv /\ RecordInv' /\ [Next]_vars => [Life!Next]_(Life!lifeVars)
    BY <1>2, <1>3 DEF RecordInv, ClaimInv
  <1> QED
    BY <1>1, <1>4, RecordInvHolds, PTL DEF Spec, Lifecycle, Life!Spec

-----------------------------------------------------------------------------
(* What a job's status does, as TriggerIntake takes it of the worker.      *)
Created(j) ==
  /\ status[j] = NotCreated
  /\ \E st \in {"queued", "fallback_resume", "fallback_spawn"} :
       status' = [status EXCEPT ![j] = st]
Claimed(j) ==
  /\ status[j] \in DueStatuses
  /\ status' = [status EXCEPT ![j] = "triggering"]
Recorded(j) ==
  /\ status[j] = "triggering"
  /\ \E st \in {"timeout", "deferred"} \cup SettledStatuses :
       status' = [status EXCEPT ![j] = st]
StatusSteps == [][\E j \in Jobs : Created(j) \/ Claimed(j) \/ Recorded(j)]_status

(* The status of a job changes by its insertion, by a claim of a due job   *)
(* and by a record of a triggering one, of one job at a time, and is never *)
(* queued again.  These are the steps that ClaimJob and RecordJob of       *)
(* TriggerIntake allow the worker beside the requests, for any set of      *)
(* statuses that attempts leave.                                           *)
THEOREM StatusesMoveByTheWorker == Spec => StatusSteps
  <1>1. ASSUME RecordInv, [Next]_vars
        PROVE  [\E j \in Jobs : Created(j) \/ Claimed(j) \/ Recorded(j)]_status
    <2>0. ClaimInv /\ TypeOK
      BY <1>1 DEF RecordInv, ClaimInv
    <2>1. CASE UNCHANGED Columns
      BY <2>1 DEF Columns
    <2>2. ASSUME NEW j \in Jobs, Submit(j) PROVE Created(j)
      BY <2>2 DEF Submit, Created
    <2>3. ASSUME NEW s \in Ticks, NEW c \in candidates[s], Claims(s, c)
          PROVE  \E j \in Jobs : Claimed(j)
      BY <2>0, <2>3, ClaimedWasDue DEF Claims, Claimed
    <2>4. ASSUME NEW s \in Ticks, RecordAttempt(s)
          PROVE  \E j \in Jobs : Recorded(j)
      <3>1. PICK j \in Jobs : j = current[s]
        BY <2>0, <2>4, RecordsOwnJob
      <3>2. verdict[s].status \in {"timeout", "deferred"} \cup SettledStatuses
        BY <2>0 DEF TypeOK, VerdictType, JobStatuses, DueStatuses
      <3>3. status[j] = "triggering" /\ status' = [status EXCEPT ![j] = verdict[s].status]
        BY <2>0, <2>4, <3>1, RecordsOwnJob
      <3> QED
        BY <3>2, <3>3 DEF Recorded
    <2> QED
      BY <1>1, <2>1, <2>2, <2>3, <2>4, JobSteps
  <1>2. RecordInv /\ [Next]_vars =>
          [\E j \in Jobs : Created(j) \/ Claimed(j) \/ Recorded(j)]_status
    BY <1>1
  <1> QED
    BY <1>2, RecordInvHolds, PTL DEF Spec, StatusSteps

-----------------------------------------------------------------------------
(* What is lost.                                                           *)
OrphansByFault == \A j \in Jobs : Orphan(j) => faults > 0

LEMMA NextOrphans == ASSUME RecordInv, OrphansByFault, [Next]_vars PROVE OrphansByFault'
  <1>0. TypeOK /\ faults \in Nat
    BY DEF RecordInv, ClaimInv, TypeOK
  <1>1. SUFFICES ASSUME faults' = faults PROVE OrphansByFault'
    <2>1. faults' = faults \/ faults' = faults + 1
      BY DEF Next, TickStep, Environment, vars, Submit, UpdateThreadStatus, AdvanceClock,
         StartTick, ReadCandidates, ClaimNext, ClaimDone, BeginAttempt, DeferByRateLimit,
         ExecutorReturns, FallbackReturns, MarkThreadBlocked, RecordAttempt, FinishTick,
         TickFails, Restart
    <2> QED
      BY <1>0, <2>1 DEF OrphansByFault
  <1>2. SUFFICES ASSUME NEW j \in Jobs, status'[j] = "triggering",
                        \A s \in Ticks : j \notin hand'[s]
                 PROVE  status[j] = "triggering" /\ \A s \in Ticks : j \notin hand[s]
    BY <1>1 DEF OrphansByFault, Orphan
  <1>3. CASE UNCHANGED <<Columns, hand>>
    BY <1>2, <1>3 DEF Columns
  <1>4. ASSUME NEW i \in Jobs, Submit(i)
        PROVE  status[j] = "triggering" /\ \A s \in Ticks : j \notin hand[s]
    BY <1>0, <1>2, <1>4 DEF Submit, TypeOK, tickVars
  <1>5. ASSUME NEW s \in Ticks, NEW c \in candidates[s], Claims(s, c)
        PROVE  status[j] = "triggering" /\ \A q \in Ticks : j \notin hand[q]
    <2>1. hand' = [hand EXCEPT ![s] = @ \cup {c.job}]
          /\ status' = [status EXCEPT ![c.job] = "triggering"]
      BY <1>5 DEF Claims
    <2>2. j # c.job
      BY <1>0, <1>2, <2>1 DEF TypeOK
    <2> QED
      BY <1>0, <1>2, <2>1, <2>2 DEF TypeOK
  <1>6. ASSUME NEW s \in Ticks, RecordAttempt(s)
        PROVE  status[j] = "triggering" /\ \A q \in Ticks : j \notin hand[q]
    <2>1. current[s] \in hand[s]
          /\ status' = [status EXCEPT ![current[s]] = verdict[s].status]
          /\ verdict[s].status # "triggering"
      BY <1>0, <1>6, RecordsOwnJob DEF RecordInv, ClaimInv, TypeOK, VerdictType
    <2>2. hand' = [hand EXCEPT ![s] = @ \ {current[s]}]
      BY <1>6 DEF RecordAttempt
    <2>3. j # current[s]
      BY <1>0, <1>2, <2>1 DEF TypeOK
    <2> QED
      BY <1>0, <1>2, <2>1, <2>2, <2>3 DEF TypeOK
  <1>7. ASSUME NEW s \in Ticks, FinishTick(s)
        PROVE  status[j] = "triggering" /\ \A q \in Ticks : j \notin hand[q]
    <2>1. hand[s] = {} /\ EndTicks({s}) /\ UNCHANGED status
      BY <1>7 DEF FinishTick, BatchDone, jobVars
    <2> QED
      BY <1>2, <2>1 DEF EndTicks
  <1>8. ASSUME NEW s \in Ticks, TickFails(s) PROVE FALSE
    BY <1>0, <1>1, <1>8 DEF TickFails
  <1>9. ASSUME NEW w \in Workers, Restart(w) PROVE FALSE
    BY <1>0, <1>1, <1>9 DEF Restart
  <1>10. ASSUME NEW s \in Ticks, ClaimNext(s)
         PROVE  UNCHANGED <<Columns, hand>> \/ \E c \in candidates[s] : Claims(s, c)
    BY <1>10 DEF ClaimNext, Claims, Columns
  <1> QED
    BY <1>3, <1>4, <1>5, <1>6, <1>7, <1>8, <1>9, <1>10
    DEF Next, TickStep, Environment, vars, Columns, jobVars, tickVars, UpdateThreadStatus,
        AdvanceClock, StartTick, ReadCandidates, ClaimDone, BeginAttempt,
        DeferByRateLimit, ExecutorReturns, FallbackReturns, MarkThreadBlocked

(* Only a fault takes a claimed job away from its tick: no interleaving of *)
(* healthy ticks leaves a row triggering that no tick is going to record.  *)
(* It is what OthersSettle takes for granted of a job that is not settled. *)
THEOREM OnlyFaultsStrand == Spec => []OrphansByFault
  <1>1. Init => OrphansByFault
    BY DEF Init, OrphansByFault, Orphan, NotCreated
  <1>2. RecordInv /\ OrphansByFault /\ [Next]_vars => OrphansByFault'
    BY NextOrphans
  <1> QED
    BY <1>1, <1>2, RecordInvHolds, PTL DEF Spec

-----------------------------------------------------------------------------
(* The loop guard.                                                         *)
(* The outcomes of a thread that a worker's loop guard may have counted.   *)
Evidence(w, t) ==
  Cardinality(ThreadRows(t)) + Cardinality(Unrecorded(w, t)) + faults

FiniteEvidence ==
  \A w \in Workers, t \in Threads :
    IsFiniteSet(ThreadRows(t)) /\ IsFiniteSet(Unrecorded(w, t))

(* No worker counted more outcomes of a thread than there is evidence of.  *)
LoopsCounted ==
  \A w \in Workers, t \in Threads :
    /\ loopState[w][t].cycles <= loopState[w][t].turns
    /\ loopState[w][t].turns <= Evidence(w, t)

(* AutoBlockEarned, for the worker and the thread by name.                 *)
Blocks(s, w, t) == phase[s] = "blocking" /\ WorkerOf[s] = w /\ ThreadOf[current[s]] = t
BlocksEarned ==
  \A s \in Ticks, w \in Workers, t \in Threads :
    Blocks(s, w, t) => Evidence(w, t) >= Smaller(LoopMaxTurns, LoopMaxRepeatedFindings)

LoopGuard == FiniteEvidence /\ LoopsCounted /\ BlocksEarned

(* What is counted is a number.                                            *)
LEMMA EvidenceTypes ==
  ASSUME TypeOK, FiniteEvidence, NEW w \in Workers, NEW t \in Threads
  PROVE  /\ Cardinality(ThreadRows(t)) \in Nat
         /\ Cardinality(Unrecorded(w, t)) \in Nat
         /\ faults \in Nat /\ Evidence(w, t) \in Nat
         /\ loopState[w][t].turns \in Nat /\ loopState[w][t].cycles \in Nat
  <1>1. Cardinality(ThreadRows(t)) \in Nat /\ Cardinality(Unrecorded(w, t)) \in Nat
    BY FS_CardinalityType DEF FiniteEvidence
  <1>2. faults \in Nat
    BY QueueAssumption DEF TypeOK
  <1>3. loopState[w][t] \in [turns : Nat, code : Codes, cycles : Nat]
    BY DEF TypeOK
  <1> QED
    BY <1>1, <1>2, <1>3 DEF Evidence

(* A step that counts nothing and loses no evidence keeps the invariant.   *)
LEMMA EvidenceKept ==
  ASSUME LoopGuard, UNCHANGED <<rows, loopState, faults>>,
         \A w \in Workers, t \in Threads : Unrecorded(w, t)' = Unrecorded(w, t),
         \A s \in Ticks, w \in Workers, t \in Threads : Blocks(s, w, t)' => Blocks(s, w, t)
  PROVE  LoopGuard'
  <1>1. \A t \in Threads : ThreadRows(t)' = ThreadRows(t)
    BY DEF ThreadRows
  <1>2. FiniteEvidence'
    BY <1>1 DEF LoopGuard, FiniteEvidence
  <1>3. \A w \in Workers, t \in Threads : Evidence(w, t)' = Evidence(w, t)
    BY <1>1 DEF Evidence
  <1>4. LoopsCounted'
    BY <1>3 DEF LoopGuard, LoopsCounted
  <1>5. BlocksEarned'
    BY <1>3 DEF LoopGuard, BlocksEarned
  <1> QED
    BY <1>2, <1>4, <1>5 DEF LoopGuard

(* Counting an outcome: the tick of the worker is one more with something  *)
(* to record, and the guard blocks only on what it has counted.            *)
LEMMA OutcomeCounted ==
  ASSUME TypeOK, LoopGuard, NEW s \in Ticks, NEW j \in Jobs, NEW v, Conclude(s, j, v),
         phase[s] \notin {"blocking", "recording"}, current'[s] = j,
         \A q \in Ticks : q # s => current'[q] = current[q],
         UNCHANGED <<rows, faults>>
  PROVE  LoopGuard'
  <1> DEFINE x == WorkerOf[s]
             y == ThreadOf[j]
             loop == LoopAfter(loopState[x][y], v.result, v.code)
  <1>1. x \in Workers /\ y \in Threads
    BY ConstantTypes
  <1>2. /\ phase'[s] \in {"blocking", "recording"}
        /\ phase'[s] = "blocking" => AutoBlocks(loop)
        /\ \A q \in Ticks : q # s => phase'[q] = phase[q]
    BY DEF Conclude, TypeOK
  <1>3. \A w \in Workers, t \in Threads :
          loopState'[w][t] = IF w = x /\ t = y THEN loop ELSE loopState[w][t]
    BY <1>1 DEF Conclude, TypeOK
  <1> HIDE DEF loop
  <1>4. \A t \in Threads : ThreadRows(t)' = ThreadRows(t)
    BY DEF ThreadRows
  <1>5. /\ Unrecorded(x, y)' = Unrecorded(x, y) \cup {s} /\ s \notin Unrecorded(x, y)
        /\ \A w \in Workers, t \in Threads :
             w # x \/ t # y => Unrecorded(w, t)' = Unrecorded(w, t)
    BY <1>2 DEF Unrecorded
  <1>6. FiniteEvidence'
    BY <1>4, <1>5, FS_AddElement DEF LoopGuard, FiniteEvidence
  <1>7. /\ Evidence(x, y)' = Evidence(x, y) + 1
        /\ \A w \in Workers, t \in Threads :
             w # x \/ t # y => Evidence(w, t)' = Evidence(w, t)
    <2>1. Cardinality(Unrecorded(x, y)') = Cardinality(Unrecorded(x, y)) + 1
      BY <1>1, <1>5, FS_AddElement DEF LoopGuard, FiniteEvidence
    <2>2. \A a, b, c \in Nat : a + (b + 1) + c = a + b + c + 1
      OBVIOUS
    <2> QED
      BY <1>1, <1>4, <1>5, <2>1, <2>2, EvidenceTypes DEF Evidence, LoopGuard
  <1>8. /\ loop.cycles <= loop.turns /\ loop.turns <= Evidence(x, y) + 1
        /\ loop.turns \in Nat /\ loop.cycles \in Nat
    BY <1>1, EvidenceTypes DEF loop, LoopAfter, NoLoop, LoopGuard, LoopsCounted
  <1>9. LoopsCounted'
    BY <1>3, <1>7, <1>8 DEF LoopGuard, LoopsCounted
  <1>10. BlocksEarned'
    <2> SUFFICES ASSUME NEW q \in Ticks, NEW w \in Workers, NEW t \in Threads,
                        Blocks(q, w, t)'
                 PROVE  Evidence(w, t)' >= Smaller(LoopMaxTurns, LoopMaxRepeatedFindings)
      BY DEF BlocksEarned
    <2>1. CASE q = s
      <3>1. w = x /\ t = y /\ AutoBlocks(loop)
        BY <1>2, <2>1 DEF Blocks
      <3>2. loop.turns >= LoopMaxTurns \/ loop.turns >= LoopMaxRepeatedFindings
        BY <1>8, <3>1, QueueAssumption DEF AutoBlocks
      <3> QED
        BY <1>1, <1>7, <1>8, <3>1, <3>2, QueueAssumption, EvidenceTypes
        DEF Smaller, LoopGuard
    <2>2. CASE q # s
      <3>1. Blocks(q, w, t)
        BY <1>2, <2>2 DEF Blocks
      <3>2. Evidence(w, t) >= Smaller(LoopMaxTurns, LoopMaxRepeatedFindings)
        BY <3>1 DEF LoopGuard, BlocksEarned
      <3>3. Evidence(w, t) \in Nat /\ Evidence(w, t)' \in {Evidence(w, t), Evidence(w, t) + 1}
        BY <1>7, EvidenceTypes DEF LoopGuard
      <3> QED
        BY <3>2, <3>3, QueueAssumption DEF Smaller
    <2> QED
      BY <2>1, <2>2
  <1> QED
    BY <1>6, <1>9, <1>10 DEF LoopGuard

(* A record turns an outcome that was to be recorded into a new row.       *)
LEMMA OutcomeRecorded ==
  ASSUME RecordInv, LoopGuard, NEW s \in Ticks, RecordAttempt(s)
  PROVE  LoopGuard'
  <1>1. PICK i, r :
          /\ i \in Jobs /\ i = current[s]
          /\ phase[s] = "recording" /\ r.no = attempts[i] + 1
          /\ rows' = [rows EXCEPT ![i] = @ \cup {r}]
    <2> DEFINE j == current[s]
               q == Row(attempts[j] + 1, verdict[s].result, verdict[s].code,
                        processedAt[s])
    <2>1. /\ j \in Jobs /\ phase[s] = "recording"
          /\ rows' = [rows EXCEPT ![j] = @ \cup {q}]
      BY RecordsOwnJob DEF RecordInv
    <2>2. q.no = attempts[j] + 1
      BY DEF Row
    <2> HIDE DEF j, q
    <2> QED
      BY <2>1, <2>2 DEF j
  <1> i \in Jobs
    BY <1>1
  <1> DEFINE x == WorkerOf[s]
             y == ThreadOf[i]
  <1>2. /\ UNCHANGED <<loopState, faults>>
        /\ phase'[s] = "processing"
        /\ \A q \in Ticks : q # s => phase'[q] = phase[q] /\ current'[q] = current[q]
    BY DEF RecordAttempt, memoryVars, RecordInv, ClaimInv, TypeOK
  <1>3. x \in Workers /\ y \in Threads
    BY <1>1, ConstantTypes
  <1>4. r \notin rows[i]
    <2>1. attempts[i] \in Nat /\ \A q \in rows[i] : q.no \in 1 .. attempts[i]
      BY NumbersOfRows
    <2> QED
      BY <1>1, <2>1
  <1>5. /\ \A j \in Jobs : rows'[j] = IF j = i THEN rows[i] \cup {r} ELSE rows[j]
        /\ ThreadRows(y)' = ThreadRows(y) \cup {<<i, r>>} /\ <<i, r>> \notin ThreadRows(y)
        /\ \A t \in Threads : t # y => ThreadRows(t)' = ThreadRows(t)
    <2>1. \A j \in Jobs : rows'[j] = IF j = i THEN rows[i] \cup {r} ELSE rows[j]
      BY <1>1 DEF RecordInv, ClaimInv, TypeOK
    <2>2. \A t \in Threads : t # y => ThreadRows(t)' = ThreadRows(t)
      BY <2>1 DEF ThreadRows
    <2>3. ThreadRows(y)' = ThreadRows(y) \cup {<<i, r>>}
      <3>1. ThreadRows(y)' \subseteq ThreadRows(y) \cup {<<i, r>>}
        BY <1>1, <2>1 DEF ThreadRows
      <3>2. ThreadRows(y) \cup {<<i, r>>} \subseteq ThreadRows(y)'
        BY <1>1, <2>1 DEF ThreadRows
      <3> QED
        BY <3>1, <3>2
    <2>4. <<i, r>> \notin ThreadRows(y)
      BY <1>4 DEF ThreadRows
    <2> QED
      BY <2>1, <2>2, <2>3, <2>4
  <1>6. /\ s \in Unrecorded(x, y) /\ Unrecorded(x, y)' = Unrecorded(x, y) \ {s}
        /\ \A w \in Workers, t \in Threads :
             w # x \/ t # y => Unrecorded(w, t)' = Unrecorded(w, t)
    BY <1>1, <1>2 DEF Unrecorded
  <1>7. /\ Cardinality(ThreadRows(y)') = Cardinality(ThreadRows(y)) + 1
        /\ Cardinality(Unrecorded(x, y)') = Cardinality(Unrecorded(x, y)) - 1
        /\ IsFiniteSet(ThreadRows(y)') /\ IsFiniteSet(Unrecorded(x, y)')
    BY <1>3, <1>5, <1>6, FS_AddElement, FS_RemoveElement DEF LoopGuard, FiniteEvidence
  <1>8. FiniteEvidence'
    BY <1>5, <1>6, <1>7 DEF LoopGuard, FiniteEvidence
  <1>9. \A w \in Workers, t \in Threads :
          Evidence(w, t) \in Nat /\ Evidence(w, t)' \in {Evidence(w, t), Evidence(w, t) + 1}
    <2> SUFFICES ASSUME NEW w \in Workers, NEW t \in Threads
                 PROVE  /\ Evidence(w, t) \in Nat
                        /\ Evidence(w, t)' \in {Evidence(w, t), Evidence(w, t) + 1}
      OBVIOUS
    <2>1. /\ Cardinality(ThreadRows(t)) \in Nat /\ Cardinality(Unrecorded(w, t)) \in Nat
          /\ faults \in Nat /\ Evidence(w, t) \in Nat
      BY EvidenceTypes DEF LoopGuard, RecordInv, ClaimInv
    <2>2. /\ Cardinality(ThreadRows(t)') =
               IF t = y THEN Cardinality(ThreadRows(t)) + 1 ELSE Cardinality(ThreadRows(t))
          /\ Cardinality(Unrecorded(w, t)') =
               IF w = x /\ t = y THEN Cardinality(Unrecorded(w, t)) - 1
                                 ELSE Cardinality(Unrecorded(w, t))
      BY <1>5, <1>6, <1>7
    <2>3. faults' = faults
      BY <1>2
    <2> QED
      BY <2>1, <2>2, <2>3 DEF Evidence
  <1>10. LoopsCounted'
    <2> SUFFICES ASSUME NEW w \in Workers, NEW t \in Threads
                 PROVE  /\ loopState'[w][t].cycles <= loopState'[w][t].turns
                        /\ loopState'[w][t].turns <= Evidence(w, t)'
      BY DEF LoopsCounted
    <2>1. loopState[w][t].turns \in Nat
      BY EvidenceTypes DEF LoopGuard, RecordInv, ClaimInv
    <2> QED
      BY <1>2, <1>9, <2>1 DEF LoopGuard, LoopsCounted
  <1>11. BlocksEarned'
    <2> SUFFICES ASSUME NEW q \in Ticks, NEW w \in Workers, NEW t \in Threads,
                        Blocks(q, w, t)'
                 PROVE  Evidence(w, t)' >= Smaller(LoopMaxTurns, LoopMaxRepeatedFindings)
      BY DEF BlocksEarned
    <2>1. Blocks(q, w, t)
      BY <1>2 DEF Blocks
    <2>2. Evidence(w, t) >= Smaller(LoopMaxTurns, LoopMaxRepeatedFindings)
      BY <2>1 DEF LoopGuard, BlocksEarned
    <2> QED
      BY <1>9, <2>2, QueueAssumption DEF Smaller
  <1> QED
    BY <1>8, <1>10, <1>11 DEF LoopGuard

(* A failed tick loses what it had to record, and counts as a fault.       *)
LEMMA OutcomeLost ==
  ASSUME TypeOK, LoopGuard, NEW s \in Ticks, TickFails(s)
  PROVE  LoopGuard'
  <1>1. /\ faults' = faults + 1 /\ UNCHANGED <<rows, loopState>>
        /\ phase'[s] = "idle"
        /\ \A q \in Ticks : q # s => phase'[q] = phase[q] /\ current'[q] = current[q]
    BY DEF TickFails, EndTicks, memoryVars
  <1>2. \A t \in Threads : ThreadRows(t)' = ThreadRows(t)
    BY <1>1 DEF ThreadRows
  <1>3. \A w \in Workers, t \in Threads : Unrecorded(w, t)' = Unrecorded(w, t) \ {s}
    BY <1>1 DEF Unrecorded
  <1>4. FiniteEvidence'
    BY <1>2, <1>3, FS_RemoveElement DEF LoopGuard, FiniteEvidence
  <1>5. \A w \in Workers, t \in Threads :
          Evidence(w, t) \in Nat /\ Evidence(w, t)' \in {Evidence(w, t), Evidence(w, t) + 1}
    <2> SUFFICES ASSUME NEW w \in Workers, NEW t \in Threads
                 PROVE  /\ Evidence(w, t) \in Nat
                        /\ Evidence(w, t)' \in {Evidence(w, t), Evidence(w, t) + 1}
      OBVIOUS
    <2>1. /\ Cardinality(ThreadRows(t)) \in Nat /\ Cardinality(Unrecorded(w, t)) \in Nat
          /\ faults \in Nat /\ Evidence(w, t) \in Nat
      BY EvidenceTypes DEF LoopGuard
    <2>2. Cardinality(ThreadRows(t)') = Cardinality(ThreadRows(t))
      BY <1>2
    <2>3. Cardinality(Unrecorded(w, t)')
            \in {Cardinality(Unrecorded(w, t)), Cardinality(Unrecorded(w, t)) - 1}
      BY <1>3, FS_RemoveElement DEF LoopGuard, FiniteEvidence
    <2> QED
      BY <1>1, <2>1, <2>2, <2>3 DEF Evidence
  <1>6. LoopsCounted'
    <2> SUFFICES ASSUME NEW w \in Workers, NEW t \in Threads
                 PROVE  /\ loopState'[w][t].cycles <= loopState'[w][t].turns
                        /\ loopState'[w][t].turns <= Evidence(w, t)'
      BY DEF LoopsCounted
    <2>1. loopState[w][t].turns \in Nat
      BY EvidenceTypes DEF LoopGuard
    <2> QED
      BY <1>1, <1>5, <2>1 DEF LoopGuard, LoopsCounted
  <1>7. BlocksEarned'
    <2> SUFFICES ASSUME NEW q \in Ticks, NEW w \in Workers, NEW t \in Threads,
                        Blocks(q, w, t)'
                 PROVE  Evidence(w, t)' >= Smaller(LoopMaxTurns, LoopMaxRepeatedFindings)
      BY DEF BlocksEarned
    <2>1. Blocks(q, w, t)
      BY <1>1 DEF Blocks
    <2>2. Evidence(w, t) >= Smaller(LoopMaxTurns, LoopMaxRepeatedFindings)
      BY <2>1 DEF LoopGuard, BlocksEarned
    <2> QED
      BY <1>5, <2>2, QueueAssumption DEF Smaller
  <1> QED
    BY <1>4, <1>6, <1>7 DEF LoopGuard

(* A restarted worker has counted nothing and blocks nothing; the others   *)
(* keep their evidence.                                                    *)
LEMMA LoopForgotten ==
  ASSUME TypeOK, LoopGuard, NEW x \in Workers, Restart(x)
  PROVE  LoopGuard'
  <1>1. /\ faults' = faults + 1 /\ UNCHANGED rows
        /\ \A w \in Workers, t \in Threads :
             loopState'[w][t] = IF w = x THEN NoLoop ELSE loopState[w][t]
        /\ \A s \in Ticks : IF WorkerOf[s] = x THEN phase'[s] = "idle"
                            ELSE phase'[s] = phase[s] /\ current'[s] = current[s]
    BY DEF Restart, EndTicks, TypeOK
  <1>2. \A t \in Threads : ThreadRows(t)' = ThreadRows(t)
    BY <1>1 DEF ThreadRows
  <1>3. \A w \in Workers, t \in Threads :
          Unrecorded(w, t)' = IF w = x THEN {} ELSE Unrecorded(w, t)
    BY <1>1 DEF Unrecorded
  <1>4. FiniteEvidence'
    BY <1>2, <1>3, FS_EmptySet DEF LoopGuard, FiniteEvidence
  <1>5. \A w \in Workers, t \in Threads :
          /\ Evidence(w, t) \in Nat /\ Evidence(w, t)' \in Nat
          /\ w # x => Evidence(w, t)' = Evidence(w, t) + 1
    <2> SUFFICES ASSUME NEW w \in Workers, NEW t \in Threads
                 PROVE  /\ Evidence(w, t) \in Nat /\ Evidence(w, t)' \in Nat
                        /\ w # x => Evidence(w, t)' = Evidence(w, t) + 1
      OBVIOUS
    <2>1. /\ Cardinality(ThreadRows(t)) \in Nat /\ Cardinality(Unrecorded(w, t)) \in Nat
          /\ faults \in Nat /\ Evidence(w, t) \in Nat
      BY EvidenceTypes DEF LoopGuard
    <2>2. Cardinality(ThreadRows(t)') = Cardinality(ThreadRows(t))
      BY <1>2
    <2>3. Cardinality(Unrecorded(w, t)') = IF w = x THEN 0 ELSE Cardinality(Unrecorded(w, t))
      BY <1>3, FS_EmptySet
    <2> QED
      BY <1>1, <2>1, <2>2, <2>3 DEF Evidence
  <1>6. LoopsCounted'
    <2> SUFFICES ASSUME NEW w \in Workers, NEW t \in Threads
                 PROVE  /\ loopState'[w][t].cycles <= loopState'[w][t].turns
                        /\ loopState'[w][t].turns <= Evidence(w, t)'
      BY DEF LoopsCounted
    <2>1. loopState[w][t].turns \in Nat
      BY EvidenceTypes DEF LoopGuard
    <2> QED
      BY <1>1, <1>5, <2>1 DEF LoopGuard, LoopsCounted, NoLoop
  <1>7. BlocksEarned'
    <2> SUFFICES ASSUME NEW q \in Ticks, NEW w \in Workers, NEW t \in Threads,
                        Blocks(q, w, t)'
                 PROVE  Evidence(w, t)' >= Smaller(LoopMaxTurns, LoopMaxRepeatedFindings)
      BY DEF BlocksEarned
    <2>1. w # x /\ Blocks(q, w, t)
      BY <1>1 DEF Blocks
    <2>2. Evidence(w, t) >= Smaller(LoopMaxTurns, LoopMaxRepeatedFindings)
      BY <2>1 DEF LoopGuard, BlocksEarned
    <2> QED
      BY <1>5, <2>1, <2>2, QueueAssumption DEF Smaller
  <1> QED
    BY <1>4, <1>6, <1>7 DEF LoopGuard

LEMMA NextLoopGuard == ASSUME RecordInv, LoopGuard, [Next]_vars PROVE LoopGuard'
  <1>0. TypeOK /\ PhaseOK
    BY DEF RecordInv, ClaimInv
  <1> USE DEF jobVars, memoryVars, tickVars
  <1>1. CASE UNCHANGED <<rows, loopState, faults, phase, current>>
    BY <1>1, EvidenceKept DEF Unrecorded, Blocks
  <1>2. ASSUME NEW s \in Ticks, UNCHANGED <<rows, loopState, faults>>,
               phase[s] # "recording", phase[s] # "blocking",
               phase'[s] # "recording", phase'[s] # "blocking",
               \A q \in Ticks : q # s => phase'[q] = phase[q] /\ current'[q] = current[q]
        PROVE  LoopGuard'
    <2>1. \A w \in Workers, t \in Threads : Unrecorded(w, t)' = Unrecorded(w, t)
      BY <1>2 DEF Unrecorded
    <2>2. \A q \in Ticks, w \in Workers, t \in Threads : Blocks(q, w, t)' => Blocks(q, w, t)
      BY <1>2 DEF Blocks
    <2> QED
      BY <1>2, <2>1, <2>2, EvidenceKept
  <1>3. ASSUME NEW s \in Ticks,
               StartTick(s) \/ ReadCandidates(s) \/ ClaimDone(s) \/ BeginAttempt(s)
                 \/ FinishTick(s)
        PROVE  LoopGuard'
    <2>1. /\ UNCHANGED <<rows, loopState, faults>>
          /\ phase[s] \in {"idle", "reading", "claiming", "processing"}
          /\ phase'[s] \in {"idle", "reading", "claiming", "processing", "executing"}
          /\ \A q \in Ticks : q # s => phase'[q] = phase[q] /\ current'[q] = current[q]
      BY <1>0, <1>3 DEF StartTick, ReadCandidates, ClaimDone, BeginAttempt, FinishTick,
                        EndTicks, TypeOK
    <2> QED
      BY <1>2, <2>1
  <1>4. ASSUME NEW s \in Ticks, DeferByRateLimit(s) PROVE LoopGuard'
    <2>1. PICK j, v :
            /\ j \in NextInHand(s) /\ current' = [current EXCEPT ![s] = j]
            /\ Conclude(s, j, v)
      BY <1>4 DEF DeferByRateLimit
    <2>2. /\ j \in Jobs /\ phase[s] = "processing" /\ UNCHANGED <<rows, faults>>
          /\ current'[s] = j /\ \A q \in Ticks : q # s => current'[q] = current[q]
      BY <1>0, <1>4, <2>1 DEF DeferByRateLimit, NextInHand, TypeOK
    <2> QED
      BY <1>0, <2>1, <2>2, OutcomeCounted
  <1>5. ASSUME NEW s \in Ticks, ExecutorReturns(s) \/ FallbackReturns(s) PROVE LoopGuard'
    <2>1. /\ current[s] \in Jobs /\ phase[s] \in {"executing", "falling_back"}
          /\ UNCHANGED <<rows, faults, current>>
      BY <1>0, <1>5 DEF ExecutorReturns, FallbackReturns, PhaseOK, AttemptPhases, TypeOK
    <2>2. CASE \E v : Conclude(s, current[s], v)
      BY <1>0, <2>1, <2>2, OutcomeCounted
    <2>3. CASE phase' = [phase EXCEPT ![s] = "falling_back"] /\ UNCHANGED loopState
      BY <1>0, <1>2, <2>1, <2>3 DEF TypeOK
    <2> QED
      BY <1>5, <2>2, <2>3 DEF ExecutorReturns, FallbackReturns
  <1>6. ASSUME NEW s \in Ticks, MarkThreadBlocked(s) PROVE LoopGuard'
    <2>1. /\ UNCHANGED <<rows, loopState, faults, current>>
          /\ phase[s] = "blocking" /\ phase'[s] = "recording"
          /\ \A q \in Ticks : q # s => phase'[q] = phase[q]
      BY <1>0, <1>6 DEF MarkThreadBlocked, TypeOK
    <2>2. \A w \in Workers, t \in Threads : Unrecorded(w, t)' = Unrecorded(w, t)
      BY <2>1 DEF Unrecorded
    <2>3. \A q \in Ticks, w \in Workers, t \in Threads : Blocks(q, w, t)' => Blocks(q, w, t)
      BY <2>1 DEF Blocks
    <2> QED
      BY <2>1, <2>2, <2>3, EvidenceKept
  <1> QED
    BY <1>0, <1>1, <1>3, <1>4, <1>5, <1>6, OutcomeRecorded, OutcomeLost, LoopForgotten
    DEF Next, TickStep, Environment, vars, Submit, UpdateThreadStatus, AdvanceClock,
        ClaimNext

LEMMA LoopGuardHolds == Spec => []LoopGuard
  <1>1. Init => LoopGuard
    <2> SUFFICES ASSUME Init PROVE LoopGuard
      OBVIOUS
    <2>1. \A w \in Workers, t \in Threads :
            /\ ThreadRows(t) = {} /\ Unrecorded(w, t) = {} /\ loopState[w][t] = NoLoop
      BY DEF Init, ThreadRows, Unrecorded
    <2>2. \A s \in Ticks : phase[s] = "idle"
      BY DEF Init
    <2>3. faults = 0
      BY DEF Init
    <2>4. \A w \in Workers, t \in Threads : Evidence(w, t) = 0
      BY <2>1, <2>3, FS_EmptySet DEF Evidence
    <2> QED
      BY <2>1, <2>2, <2>4, FS_EmptySet
      DEF LoopGuard, FiniteEvidence, LoopsCounted, BlocksEarned, Blocks, NoLoop
  <1>2. RecordInv /\ LoopGuard /\ [Next]_vars => LoopGuard'
    BY NextLoopGuard
  <1> QED
    BY <1>1, <1>2, RecordInvHolds, PTL DEF Spec

(* A worker that blocks a thread has counted that many outcomes of it, and *)
(* no worker counts an outcome twice: each one counted is a row, is about  *)
(* to be one, or was lost with a failed tick.                              *)
THEOREM BlocksAreEarned == Spec => []AutoBlockEarned
  <1>1. RecordInv /\ LoopGuard => AutoBlockEarned
    <2> SUFFICES ASSUME RecordInv, LoopGuard, NEW s \in Ticks, phase[s] = "blocking"
                 PROVE  Evidence(WorkerOf[s], ThreadOf[current[s]])
                          >= Smaller(LoopMaxTurns, LoopMaxRepeatedFindings)
      BY DEF AutoBlockEarned, Evidence
    <2>1. current[s] \in Jobs
      BY DEF RecordInv, ClaimInv, PhaseOK, AttemptPhases, TypeOK
    <2>2. WorkerOf[s] \in Workers /\ ThreadOf[current[s]] \in Threads
      BY <2>1, ConstantTypes
    <2> QED
      BY <2>2 DEF LoopGuard, BlocksEarned, Blocks
  <1> QED
    BY <1>1, RecordInvHolds, LoopGuardHolds, PTL

-----------------------------------------------------------------------------
(* The limiter, for a worker whose ticks do not overlap.  The time that a  *)
(* tick works with is its time stamp; between two ticks it is the clock.   *)
Ref(s) == IF phase[s] = "idle" THEN clock ELSE processedAt[s]
Horizon(s) == Ref(s) - RateWindow

(* An attempt was let through and its row, if it is admitted, is to come.  *)
Answered(s) ==
  \/ phase[s] \in {"executing", "falling_back"}
  \/ /\ phase[s] = "recording"
     /\ verdict[s].code \notin {"TRIGGER_RATE_LIMITED", "THREAD_AUTO_BLOCKED"}
InFlight(s, k) == IF Answered(s) /\ RateKey(current[s]) = k THEN 1 ELSE 0

AdmittedSince(k, at) == {d \in Admitted(k) : d[2].at >= at}
InWindow(k, at) == {d \in Admitted(k) : d[2].at \in (at - RateWindow) .. at}

EventsTyped == rateEvents \in [Workers -> [RateKeys -> Seq(Time)]]

InOrder(s) ==
  /\ processedAt[s] <= clock
  /\ \A j \in Jobs : \A r \in rows[j] : r.at <= Ref(s)
  /\ phase[s] = "blocking" => verdict[s].code = "THREAD_AUTO_BLOCKED"

(* Every admitted attempt that a window can still hold has its own stamp.  *)
Backed(s) ==
  \A k \in RateKeys, at \in Int : at >= Horizon(s) /\ at <= Ref(s) =>
    Cardinality(AdmittedSince(k, at)) + InFlight(s, k)
      <= CountSince(rateEvents[WorkerOf[s]][k], at)

StampsInLimit(s) ==
  \A k \in RateKeys :
    CountSince(rateEvents[WorkerOf[s]][k], Horizon(s)) <= RateLimit

WindowsInLimit ==
  \A k \in RateKeys : \A e \in Admitted(k) :
    Cardinality(InWindow(k, e[2].at)) <= RateLimit

Limiter(s) ==
  EventsTyped /\ InOrder(s) /\ Backed(s) /\ StampsInLimit(s) /\ WindowsInLimit

LEMMA TimeTypes ==
  /\ Time \in SUBSET Int /\ \A x \in Time : x \in Nat
  /\ RateWindow \in Nat /\ RateLimit \in Nat \ {0}
  BY QueueAssumption DEF Time

LEMMA RefTypes ==
  ASSUME TypeOK, NEW s \in Ticks
  PROVE  Ref(s) \in Int /\ Horizon(s) \in Int /\ Horizon(s) <= Ref(s)
  <1>1. Ref(s) \in Int
    BY TimeTypes DEF TypeOK, Ref
  <1> QED
    BY <1>1, TimeTypes DEF Horizon

LEMMA AdmittedFinite ==
  ASSUME FiniteEvidence, NEW s \in Ticks, NEW k \in RateKeys, NEW at
  PROVE  /\ IsFiniteSet(Admitted(k)) /\ IsFiniteSet(AdmittedSince(k, at))
         /\ Cardinality(AdmittedSince(k, at)) \in Nat
  <1>1. k[1] \in Threads /\ \A j \in Jobs : RateKey(j) = k => ThreadOf[j] = k[1]
    BY DEF RateKeys, RateKey
  <1>2. Admitted(k) \subseteq ThreadRows(k[1])
    BY <1>1 DEF Admitted, ThreadRows
  <1>3. WorkerOf[s] \in Workers
    BY ConstantTypes
  <1>4. IsFiniteSet(ThreadRows(k[1]))
    BY <1>1, <1>3 DEF FiniteEvidence
  <1>5. IsFiniteSet(Admitted(k))
    BY <1>2, <1>4, FS_Subset
  <1>6. IsFiniteSet(AdmittedSince(k, at))
    BY <1>5, FS_Subset DEF AdmittedSince
  <1> QED
    BY <1>5, <1>6, FS_CardinalityType

(* Admitted rows by the rows of their jobs.                                *)
LEMMA AdmittedRows ==
  ASSUME TypeOK, NEW s, InOrder(s), NEW k \in RateKeys, NEW d \in Admitted(k)
  PROVE  d[2].at \in Int /\ d[2].at \in Time /\ d[2].at <= Ref(s)
  <1>1. PICK j, r : j \in Jobs /\ r \in rows[j] /\ d = <<j, r>>
    BY DEF Admitted
  <1>2. d[2] = r
    BY <1>1
  <1>3. r.at \in Time
    BY <1>1 DEF TypeOK, RowType
  <1> QED
    BY <1>1, <1>2, <1>3, TimeTypes DEF InOrder

(* A step that neither asks the limiter nor records: time may pass while   *)
(* no attempt is under way.                                                *)
LEMMA LimiterKept ==
  ASSUME TypeOK, TypeOK', FiniteEvidence, NEW s \in Ticks, Limiter(s),
         UNCHANGED <<rows, rateEvents>>,
         Ref(s)' >= Ref(s), processedAt'[s] <= clock',
         phase'[s] = "blocking" => verdict'[s].code = "THREAD_AUTO_BLOCKED",
         \A k \in RateKeys : InFlight(s, k)' <= InFlight(s, k),
         Ref(s)' = Ref(s) \/ \A k \in RateKeys : InFlight(s, k)' = 0
  PROVE  Limiter(s)'
  <1>1. PICK r \in Int, n \in Int : r = Ref(s) /\ n = Ref(s)'
    <2>1. Ref(s) \in Int
      BY RefTypes
    <2>2. Ref(s)' \in Int
      BY TimeTypes DEF TypeOK, Ref
    <2> QED
      BY <2>1, <2>2
  <1>2. r <= n /\ Horizon(s) = r - RateWindow /\ Horizon(s)' = n - RateWindow
    BY <1>1 DEF Horizon
  <1>3. \A k \in RateKeys : \A at : /\ Admitted(k)' = Admitted(k)
                                    /\ AdmittedSince(k, at)' = AdmittedSince(k, at)
                                    /\ InWindow(k, at)' = InWindow(k, at)
    BY DEF Admitted, AdmittedSince, InWindow
  <1>4. EventsTyped'
    BY DEF Limiter, EventsTyped
  <1>5. InOrder(s)'
    <2>1. \A j \in Jobs : \A q \in rows[j] : q.at \in Int /\ q.at <= r
      <3>1. \A j \in Jobs : \A q \in rows[j] : q.at \in Time
        BY DEF TypeOK, RowType
      <3> QED
        BY <1>1, <3>1, TimeTypes DEF Limiter, InOrder
    <2>2. \A j \in Jobs : \A q \in rows[j] : q.at <= n
      BY <1>2, <2>1
    <2> QED
      BY <1>1, <2>2 DEF InOrder
  <1>6. Backed(s)'
    <2> SUFFICES ASSUME NEW k \in RateKeys, NEW at \in Int, at >= n - RateWindow, at <= n
                 PROVE  Cardinality(AdmittedSince(k, at)) + InFlight(s, k)'
                          <= CountSince(rateEvents[WorkerOf[s]][k], at)
      BY <1>1, <1>2, <1>3 DEF Backed
    <2>1. /\ Cardinality(AdmittedSince(k, at)) \in Nat
          /\ InFlight(s, k) \in {0, 1} /\ InFlight(s, k)' \in {0, 1}
      BY AdmittedFinite DEF InFlight
    <2>2. CountSince(rateEvents[WorkerOf[s]][k], at) \in Nat
      <3>1. rateEvents[WorkerOf[s]][k] \in Seq(Time)
        BY ConstantTypes DEF Limiter, EventsTyped
      <3>2. Len(rateEvents[WorkerOf[s]][k]) \in Nat
        BY <3>1
      <3> QED
        BY <3>2, LaterFinite DEF CountSince
    <2>3. CASE at <= r
      <3>1. at >= r - RateWindow
        BY <1>2, TimeTypes
      <3>2. Cardinality(AdmittedSince(k, at)) + InFlight(s, k)
              <= CountSince(rateEvents[WorkerOf[s]][k], at)
        BY <1>1, <1>2, <2>3, <3>1 DEF Limiter, Backed
      <3> QED
        BY <2>1, <2>2, <3>2
    <2>4. CASE ~(at <= r)
      <3>1. n # r /\ InFlight(s, k)' = 0
        BY <1>1, <2>4
      <3>2. AdmittedSince(k, at) = {}
        <4>1. \A d \in Admitted(k) : d[2].at \in Int /\ d[2].at <= r
          BY <1>1, AdmittedRows DEF Limiter
        <4> QED
          BY <2>4, <4>1 DEF AdmittedSince
      <3> QED
        BY <2>2, <3>1, <3>2, FS_EmptySet
    <2> QED
      BY <2>3, <2>4
  <1>7. StampsInLimit(s)'
    <2> SUFFICES ASSUME NEW k \in RateKeys
                 PROVE  CountSince(rateEvents[WorkerOf[s]][k], n - RateWindow) <= RateLimit
      BY <1>2 DEF StampsInLimit
    <2> DEFINE stamps == rateEvents[WorkerOf[s]][k]
    <2>1. stamps \in Seq(Time)
      BY ConstantTypes DEF Limiter, EventsTyped
    <2>2. stamps \in Seq(Int) /\ Len(stamps) \in Nat
      BY <2>1, TimeTypes
    <2>3. CountSince(stamps, r - RateWindow) <= RateLimit
      BY <1>2 DEF Limiter, StampsInLimit
    <2> HIDE DEF stamps
    <2>4. CountSince(stamps, n - RateWindow) <= CountSince(stamps, r - RateWindow)
      BY <1>2, <2>2, TimeTypes, CountMonotonic
    <2>5. CountSince(stamps, n - RateWindow) \in Nat /\ CountSince(stamps, r - RateWindow) \in Nat
      BY <2>2, LaterFinite DEF CountSince
    <2>6. CountSince(stamps, n - RateWindow) <= RateLimit
      BY <2>3, <2>4, <2>5, TimeTypes
    <2> QED
      BY <2>6 DEF stamps
  <1>8. WindowsInLimit'
    BY <1>3 DEF Limiter, WindowsInLimit
  <1> QED
    BY <1>4, <1>5, <1>6, <1>7, <1>8 DEF Limiter

(* The stamps of the worker that the limiter looks at.                     *)
LEMMA RecentFacts ==
  ASSUME TypeOK, EventsTyped, NEW s \in Ticks, NEW j \in Jobs
  PROVE  LET stamps == rateEvents[WorkerOf[s]][RateKey(j)]
             cut == processedAt[s] - RateWindow
         IN  /\ RecentEvents(s, j) \in Seq(Time)
             /\ Len(RecentEvents(s, j)) = CountSince(stamps, cut)
             /\ \A at \in Int : at >= cut =>
                  CountSince(RecentEvents(s, j), at) = CountSince(stamps, at)
  <1> DEFINE stamps == rateEvents[WorkerOf[s]][RateKey(j)]
             cut == processedAt[s] - RateWindow
  <1>1. stamps \in Seq(Time)
    BY ConstantTypes DEF EventsTyped
  <1>2. cut \in Int
    <2>1. processedAt[s] \in Int
      BY TimeTypes DEF TypeOK
    <2> QED
      BY <2>1, TimeTypes
  <1>3. RecentEvents(s, j) = Since(stamps, cut)
    BY DEF RecentEvents
  <1> HIDE DEF stamps, cut
  <1>4. /\ Since(stamps, cut) \in Seq(Time)
        /\ Len(Since(stamps, cut)) = CountSince(stamps, cut)
        /\ \A at \in Int : at >= cut =>
             CountSince(Since(stamps, cut), at) = CountSince(stamps, at)
    BY <1>1, <1>2, TimeTypes, SinceFacts
  <1> QED
    BY <1>3, <1>4 DEF stamps, cut

(* The limiter is asked about one key: its list becomes list, and for      *)
(* every other key nothing changes.                                        *)
LEMMA LimiterAsked ==
  ASSUME TypeOK, TypeOK', FiniteEvidence, NEW s \in Ticks, Limiter(s),
         NEW key \in RateKeys, NEW list \in Seq(Time),
         rateEvents' = [rateEvents EXCEPT ![WorkerOf[s]][key] = list],
         UNCHANGED <<clock, rows, processedAt>>, phase[s] # "idle", phase'[s] # "idle",
         phase'[s] = "blocking" => verdict'[s].code = "THREAD_AUTO_BLOCKED",
         \A k \in RateKeys : k # key => InFlight(s, k)' = 0,
         \A at \in Int : at >= Horizon(s) /\ at <= Ref(s) =>
           Cardinality(AdmittedSince(key, at)) + InFlight(s, key)' <= CountSince(list, at),
         CountSince(list, Horizon(s)) <= RateLimit
  PROVE  Limiter(s)'
  <1>1. Ref(s)' = Ref(s) /\ Horizon(s)' = Horizon(s)
    BY DEF Ref, Horizon
  <1>2. WorkerOf[s] \in Workers
    BY ConstantTypes
  <1>3. \A k \in RateKeys :
          rateEvents'[WorkerOf[s]][k] = IF k = key THEN list ELSE rateEvents[WorkerOf[s]][k]
    BY <1>2 DEF Limiter, EventsTyped
  <1>4. EventsTyped'
    <2>1. [rateEvents[WorkerOf[s]] EXCEPT ![key] = list] \in [RateKeys -> Seq(Time)]
      BY <1>2 DEF Limiter, EventsTyped
    <2> QED
      BY <1>2, <2>1 DEF Limiter, EventsTyped
  <1>5. \A k \in RateKeys : \A at : /\ Admitted(k)' = Admitted(k)
                                    /\ AdmittedSince(k, at)' = AdmittedSince(k, at)
                                    /\ InWindow(k, at)' = InWindow(k, at)
    BY DEF Admitted, AdmittedSince, InWindow
  <1>6. InOrder(s)'
    BY <1>1 DEF Limiter, InOrder
  <1>7. Backed(s)'
    <2> SUFFICES ASSUME NEW k \in RateKeys, NEW at \in Int, at >= Horizon(s), at <= Ref(s)
                 PROVE  Cardinality(AdmittedSince(k, at)) + InFlight(s, k)'
                          <= CountSince(rateEvents'[WorkerOf[s]][k], at)
      BY <1>1, <1>5 DEF Backed
    <2>1. CASE k = key
      BY <1>3, <2>1
    <2>2. CASE k # key
      <3>1. Cardinality(AdmittedSince(k, at)) + InFlight(s, k)
              <= CountSince(rateEvents[WorkerOf[s]][k], at)
        BY DEF Limiter, Backed
      <3>2. Cardinality(AdmittedSince(k, at)) \in Nat /\ InFlight(s, k) \in {0, 1}
        BY AdmittedFinite DEF InFlight
      <3>3. CountSince(rateEvents[WorkerOf[s]][k], at) \in Nat
        <4>1. rateEvents[WorkerOf[s]][k] \in Seq(Time)
          BY <1>2 DEF Limiter, EventsTyped
        <4>2. Len(rateEvents[WorkerOf[s]][k]) \in Nat
          BY <4>1
        <4> QED
          BY <4>2, LaterFinite DEF CountSince
      <3> QED
        BY <1>3, <2>2, <3>1, <3>2, <3>3
    <2> QED
      BY <2>1, <2>2
  <1>8. StampsInLimit(s)'
    BY <1>1, <1>3 DEF Limiter, StampsInLimit
  <1>9. WindowsInLimit'
    BY <1>5 DEF Limiter, WindowsInLimit
  <1> QED
    BY <1>4, <1>6, <1>7, <1>8, <1>9 DEF Limiter

LEMMA LimiterAdmits ==
  ASSUME TypeOK, TypeOK', FiniteEvidence, NEW s \in Ticks, Limiter(s), BeginAttempt(s)
  PROVE  Limiter(s)'
  <1>1. PICK j \in NextInHand(s) :
          /\ Len(RecentEvents(s, j)) < RateLimit
          /\ rateEvents' = [rateEvents EXCEPT ![WorkerOf[s]][RateKey(j)] =
                              Append(RecentEvents(s, j), processedAt[s])]
          /\ current' = [current EXCEPT ![s] = j]
    BY DEF BeginAttempt
  <1>2. /\ j \in Jobs /\ phase[s] = "processing" /\ phase'[s] = "executing"
        /\ current'[s] = j /\ UNCHANGED <<clock, rows, processedAt>>
    BY <1>1 DEF BeginAttempt, NextInHand, TypeOK
  <1>3. PICK p \in Int : p = processedAt[s] /\ p \in Time
    BY TimeTypes DEF TypeOK
  <1>4. Ref(s) = p /\ Horizon(s) = p - RateWindow
    BY <1>2, <1>3 DEF Ref, Horizon
  <1> DEFINE key == RateKey(j)
             stamps == rateEvents[WorkerOf[s]][key]
             recent == RecentEvents(s, j)
             list == Append(recent, p)
  <1>5. key \in RateKeys
    BY <1>2, ConstantTypes
  <1>6. /\ recent \in Seq(Time) /\ Len(recent) = CountSince(stamps, p - RateWindow)
        /\ \A at \in Int : at >= p - RateWindow =>
             CountSince(recent, at) = CountSince(stamps, at)
    BY <1>2, <1>3, RecentFacts DEF Limiter
  <1>7. /\ Len(recent) < RateLimit
        /\ rateEvents' = [rateEvents EXCEPT ![WorkerOf[s]][key] = list]
    BY <1>1, <1>3
  <1>8. \A k \in RateKeys : InFlight(s, k) = 0 /\ InFlight(s, k)' = IF k = key THEN 1 ELSE 0
    BY <1>2 DEF InFlight, Answered
  <1>9. \A at \in Int : at >= Horizon(s) /\ at <= Ref(s) =>
          Cardinality(AdmittedSince(key, at)) <= CountSince(stamps, at)
    <2> SUFFICES ASSUME NEW at \in Int, at >= Horizon(s), at <= Ref(s)
                 PROVE  Cardinality(AdmittedSince(key, at)) <= CountSince(stamps, at)
      OBVIOUS
    <2>1. Cardinality(AdmittedSince(key, at)) + InFlight(s, key) <= CountSince(stamps, at)
      BY <1>5 DEF Limiter, Backed
    <2>2. Cardinality(AdmittedSince(key, at)) \in Nat
      BY <1>5, AdmittedFinite
    <2> QED
      BY <1>5, <1>8, <2>1, <2>2
  <1> HIDE DEF stamps, recent, key
  <1>10. /\ list \in Seq(Time)
         /\ \A at : CountSince(list, at)
              = IF p >= at THEN CountSince(recent, at) + 1 ELSE CountSince(recent, at)
    BY <1>3, <1>6, CountAppend
  <1> HIDE DEF list
  <1>11. \A at \in Int : CountSince(recent, at) \in Nat
    <2>1. Len(recent) \in Nat
      BY <1>6
    <2> QED
      BY <2>1, LaterFinite DEF CountSince
  <1>12. \A at \in Int : at >= Horizon(s) /\ at <= Ref(s) =>
           Cardinality(AdmittedSince(key, at)) + InFlight(s, key)' <= CountSince(list, at)
    <2> SUFFICES ASSUME NEW at \in Int, at >= Horizon(s), at <= Ref(s)
                 PROVE  Cardinality(AdmittedSince(key, at)) + InFlight(s, key)'
                          <= CountSince(list, at)
      OBVIOUS
    <2>1. Cardinality(AdmittedSince(key, at)) <= CountSince(recent, at)
      BY <1>4, <1>6, <1>9
    <2>2. CountSince(list, at) = CountSince(recent, at) + 1
      BY <1>4, <1>10
    <2>3. Cardinality(AdmittedSince(key, at)) \in Nat /\ CountSince(recent, at) \in Nat
      BY <1>5, <1>11, AdmittedFinite
    <2>4. InFlight(s, key)' = 1
      BY <1>5, <1>8
    <2> QED
      BY <2>1, <2>2, <2>3, <2>4
  <1>13. CountSince(list, Horizon(s)) <= RateLimit
    <2>1. p - RateWindow \in Int /\ p >= p - RateWindow
      BY TimeTypes
    <2>2. CountSince(list, p - RateWindow) = CountSince(recent, p - RateWindow) + 1
      BY <1>10, <2>1
    <2>3. CountSince(recent, p - RateWindow) = Len(recent) /\ Len(recent) \in Nat
      BY <1>6, <2>1
    <2> QED
      BY <1>4, <1>7, <2>2, <2>3, TimeTypes
  <1> QED
    BY <1>2, <1>5, <1>7, <1>8, <1>10, <1>12, <1>13, LimiterAsked

LEMMA LimiterRefuses ==
  ASSUME TypeOK, TypeOK', FiniteEvidence, NEW s \in Ticks, Limiter(s), DeferByRateLimit(s)
  PROVE  Limiter(s)'
  <1>1. PICK j, v :
          /\ j \in NextInHand(s)
          /\ rateEvents' = [rateEvents EXCEPT ![WorkerOf[s]][RateKey(j)] = RecentEvents(s, j)]
          /\ v.code = "TRIGGER_RATE_LIMITED"
          /\ Conclude(s, j, v)
    BY DEF DeferByRateLimit, Verdict
  <1>2. /\ j \in Jobs /\ phase[s] = "processing" /\ UNCHANGED <<clock, rows, processedAt>>
    BY <1>1 DEF DeferByRateLimit, NextInHand, TypeOK
  <1>3. \/ phase'[s] = "blocking" /\ verdict'[s].code = "THREAD_AUTO_BLOCKED"
        \/ phase'[s] = "recording" /\ verdict'[s].code = "TRIGGER_RATE_LIMITED"
    BY <1>1 DEF Conclude, Verdict, TypeOK
  <1>4. PICK p \in Int : p = processedAt[s]
    BY TimeTypes DEF TypeOK
  <1>5. Ref(s) = p /\ Horizon(s) = p - RateWindow
    BY <1>2, <1>4 DEF Ref, Horizon
  <1> DEFINE key == RateKey(j)
             stamps == rateEvents[WorkerOf[s]][key]
             recent == RecentEvents(s, j)
  <1>6. key \in RateKeys
    BY <1>2, ConstantTypes
  <1>7. /\ recent \in Seq(Time)
        /\ \A at \in Int : at >= p - RateWindow =>
             CountSince(recent, at) = CountSince(stamps, at)
    BY <1>2, <1>4, RecentFacts DEF Limiter
  <1>8. \A k \in RateKeys : InFlight(s, k) = 0 /\ InFlight(s, k)' = 0
    BY <1>2, <1>3 DEF InFlight, Answered
  <1>9. \A at \in Int : at >= Horizon(s) /\ at <= Ref(s) =>
          Cardinality(AdmittedSince(key, at)) + InFlight(s, key)' <= CountSince(recent, at)
    <2> SUFFICES ASSUME NEW at \in Int, at >= Horizon(s), at <= Ref(s)
                 PROVE  Cardinality(AdmittedSince(key, at)) + InFlight(s, key)'
                          <= CountSince(recent, at)
      OBVIOUS
    <2>1. Cardinality(AdmittedSince(key, at)) + InFlight(s, key) <= CountSince(stamps, at)
      BY <1>6 DEF Limiter, Backed
    <2>2. CountSince(recent, at) = CountSince(stamps, at)
      BY <1>5, <1>7
    <2>3. InFlight(s, key) = 0 /\ InFlight(s, key)' = 0
      BY <1>6, <1>8
    <2> QED
      BY <2>1, <2>2, <2>3
  <1>10. CountSince(recent, Horizon(s)) <= RateLimit
    <2>1. CountSince(recent, p - RateWindow) = CountSince(stamps, p - RateWindow)
      BY <1>7, TimeTypes
    <2>2. CountSince(stamps, Horizon(s)) <= RateLimit
      BY <1>6 DEF Limiter, StampsInLimit
    <2> QED
      BY <1>5, <2>1, <2>2
  <1>11. rateEvents' = [rateEvents EXCEPT ![WorkerOf[s]][key] = recent]
    BY <1>1
  <1> HIDE DEF stamps, recent, key
  <1> QED
    BY <1>2, <1>3, <1>6, <1>7, <1>8, <1>9, <1>10, <1>11, LimiterAsked

(* A record: the attempt that was let through becomes a row with the time  *)
(* stamp of the tick, which no earlier row is after.                       *)
LEMMA LimiterRecords ==
  ASSUME RecordInv, TypeOK', FiniteEvidence, FiniteEvidence', NEW s \in Ticks, Limiter(s),
         RecordAttempt(s)
  PROVE  Limiter(s)'
  <1>0. TypeOK
    BY DEF RecordInv, ClaimInv
  <1>1. PICK i, r :
          /\ i \in Jobs /\ i = current[s] /\ phase[s] = "recording"
          /\ r.code = verdict[s].code /\ r.at = processedAt[s]
          /\ rows' = [rows EXCEPT ![i] = @ \cup {r}]
    <2> DEFINE j == current[s]
               q == Row(attempts[j] + 1, verdict[s].result, verdict[s].code,
                        processedAt[s])
    <2>1. /\ j \in Jobs /\ phase[s] = "recording"
          /\ rows' = [rows EXCEPT ![j] = @ \cup {q}]
      BY RecordsOwnJob DEF RecordInv
    <2>2. q.code = verdict[s].code /\ q.at = processedAt[s]
      BY DEF Row
    <2> HIDE DEF j, q
    <2> QED
      BY <2>1, <2>2 DEF j
  <1>2. /\ phase'[s] = "processing" /\ UNCHANGED <<clock, processedAt, rateEvents>>
    BY <1>0 DEF RecordAttempt, memoryVars, TypeOK
  <1>3. PICK p \in Int : p = processedAt[s]
    BY <1>0, TimeTypes DEF TypeOK
  <1>4. /\ Ref(s) = p /\ Horizon(s) = p - RateWindow
        /\ Ref(s)' = p /\ Horizon(s)' = p - RateWindow /\ r.at = p
    BY <1>1, <1>2, <1>3 DEF Ref, Horizon
  <1> DEFINE key == RateKey(i)
             counts == r.code \notin {"TRIGGER_RATE_LIMITED", "THREAD_AUTO_BLOCKED"}
             New(k) == IF k = key /\ counts THEN {<<i, r>>} ELSE {}
  <1>5. key \in RateKeys
    BY <1>1, ConstantTypes
  <1>6. \A j \in Jobs : rows'[j] = IF j = i THEN rows[i] \cup {r} ELSE rows[j]
    BY <1>0, <1>1 DEF TypeOK
  <1>7. \A k \in RateKeys : Admitted(k)' = Admitted(k) \cup New(k)
    <2> SUFFICES ASSUME NEW k \in RateKeys PROVE Admitted(k)' = Admitted(k) \cup New(k)
      OBVIOUS
    <2>1. Admitted(k)' \subseteq Admitted(k) \cup New(k)
      BY <1>1, <1>6 DEF Admitted
    <2>2. Admitted(k) \cup New(k) \subseteq Admitted(k)'
      BY <1>1, <1>6 DEF Admitted
    <2> QED
      BY <2>1, <2>2
  <1>8. \A k \in RateKeys : InFlight(s, k)' = 0
                            /\ InFlight(s, k) = IF k = key /\ counts THEN 1 ELSE 0
    BY <1>1, <1>2 DEF InFlight, Answered
  <1>9. EventsTyped'
    BY <1>2 DEF Limiter, EventsTyped
  <1>10. InOrder(s)'
    BY <1>2, <1>4, <1>6 DEF Limiter, InOrder
  <1>11. Backed(s)'
    <2> SUFFICES ASSUME NEW k \in RateKeys, NEW at \in Int, at >= p - RateWindow, at <= p
                 PROVE  Cardinality(AdmittedSince(k, at)') + InFlight(s, k)'
                          <= CountSince(rateEvents[WorkerOf[s]][k], at)
      BY <1>2, <1>4 DEF Backed
    <2>1. Cardinality(AdmittedSince(k, at)) + InFlight(s, k)
            <= CountSince(rateEvents[WorkerOf[s]][k], at)
      BY <1>4 DEF Limiter, Backed
    <2>2. IsFiniteSet(AdmittedSince(k, at)) /\ Cardinality(AdmittedSince(k, at)) \in Nat
      BY AdmittedFinite
    <2>3. CASE k = key /\ counts
      <3>1. AdmittedSince(k, at)' \subseteq AdmittedSince(k, at) \cup {<<i, r>>}
        BY <1>7, <2>3 DEF AdmittedSince
      <3>2. AdmittedSince(k, at) \cup {<<i, r>>} \subseteq AdmittedSince(k, at)'
        <4>1. <<i, r>>[2].at >= at
          BY <1>4
        <4> QED
          BY <1>7, <2>3, <4>1 DEF AdmittedSince
      <3>3. AdmittedSince(k, at)' = AdmittedSince(k, at) \cup {<<i, r>>}
        BY <3>1, <3>2
      <3>4. Cardinality(AdmittedSince(k, at) \cup {<<i, r>>})
              \in {Cardinality(AdmittedSince(k, at)), Cardinality(AdmittedSince(k, at)) + 1}
        BY <2>2, FS_AddElement, Zenon
      <3>5. InFlight(s, k) = 1 /\ InFlight(s, k)' = 0
        BY <1>8, <2>3
      <3>6. CountSince(rateEvents[WorkerOf[s]][k], at) \in Nat
        <4>1. rateEvents[WorkerOf[s]][k] \in Seq(Time)
          BY ConstantTypes DEF Limiter, EventsTyped
        <4>2. Len(rateEvents[WorkerOf[s]][k]) \in Nat
          BY <4>1
        <4> QED
          BY <4>2, LaterFinite DEF CountSince
      <3> QED
        BY <2>1, <2>2, <3>3, <3>4, <3>5, <3>6
    <2>4. CASE ~(k = key /\ counts)
      <3>1. AdmittedSince(k, at)' = AdmittedSince(k, at)
        BY <1>7, <2>4 DEF AdmittedSince
      <3>2. InFlight(s, k) = 0 /\ InFlight(s, k)' = 0
        BY <1>8, <2>4
      <3> QED
        BY <2>1, <3>1, <3>2
    <2> QED
      BY <2>3, <2>4
  <1>12. StampsInLimit(s)'
    BY <1>2, <1>4 DEF Limiter, StampsInLimit
  <1>13. WindowsInLimit'
    <2> SUFFICES ASSUME NEW k \in RateKeys, NEW e \in Admitted(k)'
                 PROVE  \A a : a = e[2].at => Cardinality(InWindow(k, a)') <= RateLimit
      BY DEF WindowsInLimit
    <2> SUFFICES ASSUME NEW a, a = e[2].at PROVE Cardinality(InWindow(k, a)') <= RateLimit
      OBVIOUS
    <2>1. \A d \in Admitted(k) : d[2].at \in Int /\ d[2].at <= p
      BY <1>0, <1>4, AdmittedRows DEF Limiter
    <2>2. \A d \in New(k) : d[2].at = p
      BY <1>4
    <2>3. a \in Int /\ a <= p
      BY <1>7, <2>1, <2>2
    <2> HIDE DEF New
    <2>4. CASE a = p
      <3>1. InWindow(k, a)' \subseteq AdmittedSince(k, p - RateWindow)'
        <4>1. \A d \in Admitted(k)' : d[2].at \in Int
          BY <1>7, <2>1, <2>2
        <4> QED
          BY <2>4, <4>1, TimeTypes DEF InWindow, AdmittedSince
      <3>2. /\ IsFiniteSet(AdmittedSince(k, p - RateWindow)')
            /\ Cardinality(AdmittedSince(k, p - RateWindow)') \in Nat
        <4>1. IsFiniteSet(AdmittedSince(k, p - RateWindow))
          BY AdmittedFinite
        <4>2. AdmittedSince(k, p - RateWindow)' \subseteq AdmittedSince(k, p - RateWindow) \cup {<<i, r>>}
          BY <1>7 DEF AdmittedSince, New
        <4>3. IsFiniteSet(AdmittedSince(k, p - RateWindow) \cup {<<i, r>>})
          BY <4>1, FS_AddElement
        <4> QED
          BY <4>2, <4>3, FS_Subset, FS_CardinalityType
      <3>3. Cardinality(InWindow(k, a)') <= Cardinality(AdmittedSince(k, p - RateWindow)')
        BY <3>1, <3>2, FS_Subset
      <3>4. Cardinality(AdmittedSince(k, p - RateWindow)') + InFlight(s, k)'
              <= CountSince(rateEvents'[WorkerOf[s]][k], p - RateWindow)
        <4>1. p - RateWindow \in Int /\ p - RateWindow <= p
          BY TimeTypes
        <4> QED
          BY <1>4, <1>11, <4>1 DEF Backed
      <3>5. CountSince(rateEvents'[WorkerOf[s]][k], p - RateWindow) <= RateLimit
        BY <1>4, <1>12 DEF StampsInLimit
      <3>6. InFlight(s, k)' = 0
        BY <1>8
      <3>7. CountSince(rateEvents'[WorkerOf[s]][k], p - RateWindow) \in Nat
        <4>1. rateEvents'[WorkerOf[s]][k] \in Seq(Time)
          BY <1>9, ConstantTypes DEF EventsTyped
        <4>2. Len(rateEvents'[WorkerOf[s]][k]) \in Nat
          BY <4>1
        <4> QED
          BY <4>2, LaterFinite DEF CountSince
      <3>8. Cardinality(InWindow(k, a)') \in Nat
        BY <3>1, <3>2, FS_Subset, FS_CardinalityType
      <3> QED
        BY <3>2, <3>3, <3>4, <3>5, <3>6, <3>7, <3>8, TimeTypes
    <2>5. CASE a # p
      <3>1. e \in Admitted(k)
        BY <1>7, <2>2, <2>5
      <3>2. InWindow(k, a)' = InWindow(k, a)
        <4>1. \A d \in New(k) : d[2].at \notin (a - RateWindow) .. a
          BY <2>2, <2>3, <2>5
        <4> QED
          BY <1>7, <4>1 DEF InWindow
      <3> QED
        BY <3>1, <3>2 DEF Limiter, WindowsInLimit
    <2> QED
      BY <2>4, <2>5
  <1> QED
    BY <1>9, <1>10, <1>11, <1>12, <1>13 DEF Limiter

LEMMA NextLimiter ==
  ASSUME RecordInv, TypeOK', FiniteEvidence, FiniteEvidence', NEW s, Ticks = {s},
         faults = 0 => Limiter(s), [Next]_vars, faults' = 0
  PROVE  Limiter(s)'
  <1> USE DEF jobVars, memoryVars, tickVars
  <1>0. TypeOK /\ PhaseOK /\ s \in Ticks /\ faults \in Nat
    BY QueueAssumption DEF RecordInv, ClaimInv, TypeOK
  <1>1. PICK c \in Int, p \in Int : c = clock /\ p = processedAt[s]
    BY <1>0, TimeTypes DEF TypeOK
  <1>2. ASSUME Limiter(s) PROVE p <= c
    BY <1>1, <1>2 DEF Limiter, InOrder
  <1>3. ASSUME Limiter(s), UNCHANGED <<rows, rateEvents, clock, phase, processedAt, current,
                                       verdict>>
        PROVE  Limiter(s)'
    <2>1. Ref(s)' = Ref(s) /\ \A k \in RateKeys : InFlight(s, k)' = InFlight(s, k)
      BY <1>3 DEF Ref, InFlight, Answered
    <2>2. \A k \in RateKeys : InFlight(s, k) \in {0, 1}
      BY DEF InFlight
    <2>3. Ref(s) \in Int
      BY <1>0, RefTypes
    <2> QED
      BY <1>0, <1>3, <2>1, <2>2, <2>3, LimiterKept DEF Limiter, InOrder
  <1>4. ASSUME Limiter(s), AdvanceClock PROVE Limiter(s)'
    <2>1. /\ clock' = clock + 1 /\ UNCHANGED <<rows, rateEvents, phase, processedAt,
                                               current, verdict>>
      BY <1>4 DEF AdvanceClock
    <2>2. clock' = c + 1 /\ c <= c + 1 /\ p <= c + 1
      BY <1>1, <1>2, <1>4, <2>1
    <2>3. \A k \in RateKeys : InFlight(s, k)' = InFlight(s, k) /\ InFlight(s, k) \in {0, 1}
      BY <2>1 DEF InFlight, Answered
    <2>4. \/ phase[s] = "idle" /\ Ref(s) = c /\ Ref(s)' = c + 1
          \/ phase[s] # "idle" /\ Ref(s) = p /\ Ref(s)' = p
      BY <1>1, <2>1, <2>2 DEF Ref
    <2>5. phase[s] = "idle" => \A k \in RateKeys : InFlight(s, k)' = 0
      BY <2>1 DEF InFlight, Answered
    <2>6. Ref(s)' >= Ref(s) /\ processedAt'[s] <= clock'
      BY <1>1, <2>1, <2>2, <2>4
    <2>7. \A k \in RateKeys : InFlight(s, k)' <= InFlight(s, k)
      BY <2>3
    <2> QED
      BY <1>0, <1>4, <2>1, <2>4, <2>5, <2>6, <2>7, LimiterKept DEF Limiter, InOrder
  <1>5. ASSUME Limiter(s), StartTick(s) \/ ReadCandidates(s) \/ ClaimDone(s) \/ FinishTick(s)
        PROVE  Limiter(s)'
    <2>1. /\ UNCHANGED <<clock, rows, rateEvents>>
          /\ phase[s] \in {"idle", "reading", "claiming", "processing"}
          /\ phase'[s] \in {"idle", "reading", "claiming", "processing"}
          /\ \/ phase[s] = "idle" /\ phase'[s] # "idle" /\ processedAt'[s] = clock
             \/ phase[s] # "idle" /\ phase'[s] # "idle" /\ processedAt'[s] = processedAt[s]
             \/ phase[s] # "idle" /\ phase'[s] = "idle" /\ processedAt'[s] = 0
      BY <1>0, <1>5 DEF StartTick, ReadCandidates, ClaimDone, FinishTick, EndTicks, TypeOK
    <2>2. \A k \in RateKeys : InFlight(s, k)' = 0 /\ InFlight(s, k) = 0
      BY <2>1 DEF InFlight, Answered
    <2>3. 0 <= c
      BY <1>0, <1>1, TimeTypes DEF TypeOK
    <2>4. Ref(s)' >= Ref(s) /\ processedAt'[s] <= clock'
      BY <1>1, <1>2, <1>5, <2>1, <2>3 DEF Ref
    <2>5. phase'[s] # "blocking" /\ \A k \in RateKeys : InFlight(s, k)' <= InFlight(s, k)
      BY <2>1, <2>2
    <2> QED
      BY <1>0, <1>5, <2>1, <2>2, <2>4, <2>5, LimiterKept
  <1>6. ASSUME Limiter(s), ExecutorReturns(s) \/ FallbackReturns(s) \/ MarkThreadBlocked(s)
        PROVE  Limiter(s)'
    <2>1. /\ UNCHANGED <<clock, rows, rateEvents, processedAt, current>>
          /\ phase[s] \in {"executing", "falling_back", "blocking"}
      BY <1>6 DEF ExecutorReturns, FallbackReturns, MarkThreadBlocked
    <2>2. \/ phase[s] # "blocking" /\ phase'[s] \in {"falling_back", "recording"}
          \/ phase'[s] = "blocking" /\ verdict'[s].code = "THREAD_AUTO_BLOCKED"
          \/ /\ phase[s] = "blocking" /\ phase'[s] = "recording"
             /\ verdict'[s] = verdict[s]
      <3>1. CASE ExecutorReturns(s)
        <4>1. \/ \E v : Conclude(s, current[s], v)
              \/ phase' = [phase EXCEPT ![s] = "falling_back"]
          BY <3>1 DEF ExecutorReturns
        <4> QED
          BY <1>0, <3>1, <4>1 DEF ExecutorReturns, Conclude, Verdict, TypeOK
      <3>2. CASE FallbackReturns(s)
        <4>1. \E v : Conclude(s, current[s], v)
          BY <3>2 DEF FallbackReturns
        <4> QED
          BY <1>0, <3>2, <4>1 DEF FallbackReturns, Conclude, Verdict, TypeOK
      <3>3. CASE MarkThreadBlocked(s)
        BY <1>0, <3>3 DEF MarkThreadBlocked, TypeOK
      <3> QED
        BY <1>6, <3>1, <3>2, <3>3
    <2>3. phase[s] = "blocking" => verdict[s].code = "THREAD_AUTO_BLOCKED"
      BY <1>6 DEF Limiter, InOrder
    <2>4. Answered(s)' => Answered(s)
      BY <2>1, <2>2, <2>3 DEF Answered
    <2>5. \A k \in RateKeys : InFlight(s, k)' <= InFlight(s, k)
      BY <2>1, <2>4 DEF InFlight
    <2>6. Ref(s)' = p /\ Ref(s) = p
      BY <1>1, <2>1, <2>2 DEF Ref
    <2>7. processedAt'[s] <= clock'
      BY <1>1, <1>2, <1>6, <2>1
    <2>8. phase'[s] = "blocking" => verdict'[s].code = "THREAD_AUTO_BLOCKED"
      BY <2>2
    <2> QED
      BY <1>0, <1>6, <2>1, <2>5, <2>6, <2>7, <2>8, LimiterKept
  <1>7. /\ \A w \in Workers : ~Restart(w)
        /\ \A q \in Ticks : ~TickFails(q)
    <2>1. faults + 1 # 0
      BY <1>0
    <2> QED
      BY <2>1 DEF Restart, TickFails
  <1>8. faults = 0
    <2>1. faults' = faults
      BY <1>7
      DEF Next, TickStep, Environment, vars, Submit, UpdateThreadStatus, AdvanceClock,
          StartTick, ReadCandidates, ClaimNext, ClaimDone, BeginAttempt, DeferByRateLimit,
          ExecutorReturns, FallbackReturns, MarkThreadBlocked, RecordAttempt, FinishTick
    <2> QED
      BY <2>1
  <1> QED
    BY <1>0, <1>3, <1>4, <1>5, <1>6, <1>7, <1>8, LimiterAdmits, LimiterRefuses, LimiterRecords
    DEF Next, TickStep, Environment, vars, Submit, UpdateThreadStatus, ClaimNext

(* At most RateLimit attempts per thread and agent are answered in any     *)
(* window, whatever the mix of jobs, retries and refusals that led to      *)
(* them, when no tick of the worker starts before the last one has ended.  *)
THEOREM AttemptsStayInLimit ==
  ASSUME NEW only, Ticks = {only}
  PROVE  Spec => []AdmittedWithinLimit
  <1> DEFINE Limited == faults = 0 => Limiter(only)
  <1>1. Init => Limited
    <2> SUFFICES ASSUME Init PROVE Limiter(only)
      OBVIOUS
    <2>1. only \in Ticks /\ WorkerOf[only] \in Workers
      BY ConstantTypes
    <2>2. /\ clock = 0 /\ phase[only] = "idle" /\ processedAt[only] = 0
          /\ \A j \in Jobs : rows[j] = {}
          /\ \A w \in Workers, k \in RateKeys : rateEvents[w][k] = <<>>
      BY <2>1 DEF Init
    <2>3. \A k \in RateKeys : \A at : Admitted(k) = {} /\ AdmittedSince(k, at) = {}
      BY <2>2 DEF Admitted, AdmittedSince
    <2>4. EventsTyped
      BY DEF Init, EventsTyped
    <2>5. \A at : CountSince(<<>>, at) = 0
      BY CountNone DEF CountSince
    <2>6. \A k \in RateKeys : InFlight(only, k) = 0
      BY <2>2 DEF InFlight, Answered
    <2>7. InOrder(only)
      BY <2>2 DEF InOrder
    <2>8. \A k \in RateKeys : rateEvents[WorkerOf[only]][k] = <<>>
      BY <2>1, <2>2
    <2>9. Backed(only)
      <3> SUFFICES ASSUME NEW k \in RateKeys, NEW at \in Int
                   PROVE  Cardinality(AdmittedSince(k, at)) + InFlight(only, k)
                            <= CountSince(rateEvents[WorkerOf[only]][k], at)
        BY DEF Backed
      <3>1. Cardinality(AdmittedSince(k, at)) = 0
        BY <2>3, FS_EmptySet
      <3>2. InFlight(only, k) = 0
        BY <2>6
      <3>3. CountSince(rateEvents[WorkerOf[only]][k], at) = 0
        BY <2>5, <2>8
      <3> QED
        BY <3>1, <3>2, <3>3
    <2>10. StampsInLimit(only)
      BY <2>5, <2>8, TimeTypes DEF StampsInLimit
    <2>11. WindowsInLimit
      BY <2>3 DEF WindowsInLimit
    <2> QED
      BY <2>4, <2>7, <2>9, <2>10, <2>11 DEF Limiter
  <1>2. RecordInv /\ LoopGuard /\ Limited /\ [Next]_vars /\ RecordInv' /\ LoopGuard' => Limited'
    BY NextLimiter DEF RecordInv, ClaimInv, LoopGuard
  <1>3. Limited => AdmittedWithinLimit
    BY DEF Limiter, WindowsInLimit, InWindow, AdmittedWithinLimit
  <1>4. Spec => [](RecordInv /\ LoopGuard)
    BY RecordInvHolds, LoopGuardHolds, PTL
  <1> QED
    BY <1>1, <1>2, <1>3, <1>4, PTL DEF Spec
=============================================================================
