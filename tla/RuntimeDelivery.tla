--------------------------- MODULE RuntimeDelivery ---------------------------
(***************************************************************************)
(* How the supervisor worker wakes an agent: ManagedRuntimeTriggerJob-     *)
(* Executor with the tmux adapter, and CodexFallbackExecutor (runtime-     *)
(* trigger-executor.ts, tmux-adapter.ts, pty-adapter.ts, runtime-          *)
(* fallback.ts), called by processDueJobs of trigger-queue.ts.             *)
(*                                                                         *)
(* Module TriggerQueue has the queue around them and takes their answers   *)
(* as choices; here the queue is only who works on which job, and the      *)
(* steps between the awaits of a delivery and of a fallback are looked at. *)
(* One worker process, one target agent with one pane; the ticks of the    *)
(* process overlap.  All jobs were created at time 0.  The limiter, which  *)
(* may put a job back before any of this, is left to TriggerQueue.         *)
(*                                                                         *)
(* wakes counts what the agent really got whole of each job (a command     *)
(* woke it if it ended with success), begun the envelopes whose first line *)
(* its pane got, crashes keeps the resume commands that failed, deaths how *)
(* often the pane's process died: histories.  A tmux command that fails,   *)
(* as it may on any pane, did nothing.                                     *)
(*                                                                         *)
(* An operator with "Wrong" in its name is the definition after it with a  *)
(* plausible mistake in the code.                                          *)
(***************************************************************************)
EXTENDS Integers, Sequences, FiniteSets, Stamps

CONSTANTS
  Jobs, Ticks, NoJob,
  Forced,                 \* jobs whose reason overrides a busy pane
  Sessions, NoSession, TargetOf,   \* the session each job was created for
  Lines,                  \* lines of an envelope
  MaxRetries,
  QuietWindow, MaxDefer,  \* a busy pane is left alone, and how long a job waits
  ResumeMaxAttempts, CrashLoopThreshold, CrashLoopWindow, StaleAfter,
  MaxTime, MaxChanges, MaxFaults   \* bounds: clock, outside changes, faults

ASSUME DeliveryAssumption ==
  /\ Forced \subseteq Jobs
  /\ NoJob \notin Jobs /\ NoSession \notin Sessions
  /\ TargetOf \in [Jobs -> Sessions \cup {NoSession}]
  /\ Lines \in Nat \ {0} /\ MaxRetries \in Nat
  /\ QuietWindow \in Nat /\ MaxDefer \in Nat
  /\ ResumeMaxAttempts \in Nat /\ CrashLoopThreshold \in Nat \ {0}
  /\ CrashLoopWindow \in Nat /\ StaleAfter \in Nat
  /\ MaxTime \in Nat /\ MaxChanges \in Nat /\ MaxFaults \in Nat

VARIABLES
  clock,
  runtime, pane, watched,     \* outside: registry row, tmux pane, operator in it
  state, tries,               \* columns of the jobs
  lastBusy, failures,         \* memory of the process
  phase, stamp, hand, current, line, left, verdict,   \* ticks
  reached,                    \* whether the pane's process got the lines so far
  wakes, begun, crashes, deaths,   \* histories
  changes, faults             \* bound counters

outsideVars == <<runtime, pane, watched, deaths, changes>>
jobVars == <<state, tries>>
memoryVars == <<lastBusy, failures>>
tickVars == <<phase, stamp, hand, current, line, left, verdict, reached>>
historyVars == <<wakes, begun, crashes>>
vars == <<clock, outsideVars, jobVars, memoryVars, tickVars, historyVars, faults>>

Time == 0 .. MaxTime
NeverBusy == 0 - 1
Panes == {"live", "dead", "gone"}
Row == [session : Sessions, managed : BOOLEAN, online : BOOLEAN, at : Time]
NoRuntime == [session |-> NoSession, managed |-> FALSE, online |-> FALSE, at |-> 0]
WokenStates == {"delivered", "fallback_resume", "fallback_spawn"}
SettledStates == WokenStates \cup {"failed"}
JobStates == SettledStates \cup {"waiting", "held"}
TypingPhases == {"text", "enter"}
Phases == {"idle", "ready", "runtime", "probe", "activity", "lookup", "resume",
           "spawn", "recording"} \cup TypingPhases

Init ==
  /\ clock = 0
  /\ runtime \in {r \in Row : r.at = 0} \cup {NoRuntime}
  /\ pane \in Panes /\ watched \in BOOLEAN
  /\ state = [j \in Jobs |-> "waiting"] /\ tries = [j \in Jobs |-> 0]
  /\ lastBusy = NeverBusy /\ failures = <<>>
  /\ phase = [s \in Ticks |-> "idle"] /\ stamp = [s \in Ticks |-> 0]
  /\ hand = [s \in Ticks |-> {}] /\ current = [s \in Ticks |-> NoJob]
  /\ line = [s \in Ticks |-> 1] /\ left = [s \in Ticks |-> 0]
  /\ verdict = [s \in Ticks |-> "failed"] /\ reached = [s \in Ticks |-> FALSE]
  /\ wakes = [j \in Jobs |-> 0] /\ begun = [j \in Jobs |-> 0]
  /\ crashes = {} /\ deaths = 0
  /\ changes = 0 /\ faults = 0

-----------------------------------------------------------------------------
(* Outside: time, the registry row, the pane and the operator in it.       *)

AdvanceClock ==
  /\ clock < MaxTime
  /\ clock' = clock + 1
  /\ UNCHANGED <<outsideVars, jobVars, memoryVars, tickVars, historyVars, faults>>

(* A heartbeat writes the row, or the reconciliation marks it offline.     *)
RuntimeChanges ==
  /\ changes < MaxChanges /\ changes' = changes + 1
  /\ \/ runtime' \in {r \in Row : r.at = clock}
     \/ runtime # NoRuntime /\ runtime' = [runtime EXCEPT !.online = FALSE]
  /\ UNCHANGED <<clock, pane, watched, deaths, jobVars, memoryVars, tickVars,
                 historyVars, faults>>

(* A process that dies, or whose pane goes, takes what it got with it.     *)
PaneChanges ==
  /\ changes < MaxChanges /\ changes' = changes + 1
  /\ pane' \in Panes /\ watched' \in BOOLEAN
  /\ IF pane' = "live"
     THEN UNCHANGED <<deaths, reached>>
     ELSE /\ deaths' = deaths + 1
          /\ reached' = [s \in Ticks |-> FALSE]
  /\ UNCHANGED <<clock, runtime, jobVars, memoryVars, phase, stamp, hand, current,
                 line, left, verdict, historyVars, faults>>

-----------------------------------------------------------------------------
(* The queue around a delivery.                                            *)

(* A tick takes its time stamp and claims waiting jobs.                    *)
StartTick(s) ==
  /\ phase[s] = "idle"
  /\ \E batch \in SUBSET {j \in Jobs : state[j] = "waiting"} :
       /\ batch = {} => \A j \in Jobs : state[j] # "waiting"
       /\ hand' = [hand EXCEPT ![s] = batch]
       /\ state' = [j \in Jobs |-> IF j \in batch THEN "held" ELSE state[j]]
  /\ stamp' = [stamp EXCEPT ![s] = clock]
  /\ phase' = [phase EXCEPT ![s] = "ready"]
  /\ UNCHANGED <<clock, outsideVars, tries, memoryVars, current, line, left, verdict,
                 reached, historyVars, faults>>

Begin(s) ==
  /\ phase[s] = "ready"
  /\ \E j \in hand[s] : current' = [current EXCEPT ![s] = j]
  /\ phase' = [phase EXCEPT ![s] = "runtime"]
  /\ UNCHANGED <<clock, outsideVars, jobVars, memoryVars, stamp, hand, line, left,
                 verdict, reached, historyVars, faults>>

(* The ticks of Ended are over, and what they held in memory is gone.      *)
EndTicks(Ended) ==
  /\ phase' = [s \in Ticks |-> IF s \in Ended THEN "idle" ELSE phase[s]]
  /\ stamp' = [s \in Ticks |-> IF s \in Ended THEN 0 ELSE stamp[s]]
  /\ hand' = [s \in Ticks |-> IF s \in Ended THEN {} ELSE hand[s]]
  /\ current' = [s \in Ticks |-> IF s \in Ended THEN NoJob ELSE current[s]]
  /\ line' = [s \in Ticks |-> IF s \in Ended THEN 1 ELSE line[s]]
  /\ left' = [s \in Ticks |-> IF s \in Ended THEN 0 ELSE left[s]]
  /\ verdict' = [s \in Ticks |-> IF s \in Ended THEN "failed" ELSE verdict[s]]
  /\ reached' = [s \in Ticks |-> IF s \in Ended THEN FALSE ELSE reached[s]]

FinishTick(s) ==
  /\ phase[s] = "ready" /\ hand[s] = {}
  /\ EndTicks({s})
  /\ UNCHANGED <<clock, outsideVars, jobVars, memoryVars, historyVars, faults>>

GoTo(s, next) ==
  /\ phase' = [phase EXCEPT ![s] = next]
  /\ UNCHANGED verdict

(* What the iteration is going to record; the loop guard of the queue may  *)
(* fail a job that was not woken.                                          *)
Decide(s, st) ==
  /\ phase' = [phase EXCEPT ![s] = "recording"]
  /\ \E v \in {st} \cup (IF st \in WokenStates THEN {} ELSE {"failed"}) :
       verdict' = [verdict EXCEPT ![s] = v]

ShouldRetryWrongOnceMore(s, result, retryable) ==
  retryable /\ (result = "deferred" \/ tries[current[s]] <= MaxRetries)
ShouldRetry(s, result, retryable) ==
  retryable /\ (result = "deferred" \/ tries[current[s]] + 1 <= MaxRetries)

(* The executor's answer, other than a delivery: retry, or fall back.      *)
Undelivered(s, result, retryable) ==
  \/ ShouldRetry(s, result, retryable) /\ Decide(s, "waiting")
  \/ ~ShouldRetry(s, result, retryable) /\ GoTo(s, "lookup")

(* Attempts are counted as far as ShouldRetry tells them apart.            *)
Record(s) ==
  LET j == current[s]
  IN  /\ phase[s] = "recording"
      /\ state' = [state EXCEPT ![j] = verdict[s]]
      /\ tries' = [tries EXCEPT ![j] = IF @ < MaxRetries THEN @ + 1 ELSE @]
      /\ hand' = [hand EXCEPT ![s] = @ \ {j}]
      /\ phase' = [phase EXCEPT ![s] = "ready"]
      /\ current' = [current EXCEPT ![s] = NoJob]
      /\ line' = [line EXCEPT ![s] = 1] /\ left' = [left EXCEPT ![s] = 0]
      /\ verdict' = [verdict EXCEPT ![s] = "failed"]
      /\ reached' = [reached EXCEPT ![s] = FALSE]
      /\ UNCHANGED <<clock, outsideVars, memoryVars, stamp, historyVars, faults>>

-----------------------------------------------------------------------------
(* ManagedRuntimeTriggerJobExecutor.execute and the adapter's deliver.     *)

(* No row, another session than the job was created for, or unmanaged.     *)
Unusable(j) ==
  \/ runtime = NoRuntime
  \/ TargetOf[j] # NoSession /\ runtime.session # TargetOf[j]
  \/ ~runtime.managed

StillBusy(s) ==
  /\ current[s] \notin Forced
  /\ lastBusy # NeverBusy
  /\ stamp[s] - lastBusy < QuietWindow

(* A busy pane defers the job until it is MaxDefer old.                    *)
Busy(s) ==
  \/ stamp[s] >= MaxDefer /\ Undelivered(s, "timeout", FALSE)
  \/ stamp[s] < MaxDefer /\ Undelivered(s, "deferred", TRUE)

(* The adapter turns a job down whose prompt is empty or too long, once    *)
(* control characters are dropped, or whose runtime names no pane.         *)
TurnedDown(s) == Undelivered(s, "failed", FALSE)

GetRuntime(s) ==
  LET j == current[s]
  IN  /\ phase[s] = "runtime"
      /\ \/ Unusable(j) /\ Undelivered(s, "failed", FALSE)
         \/ ~Unusable(j) /\ ~runtime.online /\ Undelivered(s, "timeout", TRUE)
         \/ ~Unusable(j) /\ runtime.online /\ StillBusy(s) /\ Busy(s)
         \/ /\ ~Unusable(j) /\ runtime.online /\ ~StillBusy(s)
            /\ TurnedDown(s) \/ GoTo(s, "probe")
      /\ UNCHANGED <<clock, outsideVars, jobVars, memoryVars, stamp, hand, current,
                     line, left, reached, historyVars, faults>>

(* No pane, a dead one, or a command that fails.                           *)
Probe(s) ==
  /\ phase[s] = "probe"
  /\ \/ Undelivered(s, "timeout", TRUE)
     \/ pane = "live" /\ GoTo(s, IF current[s] \in Forced THEN "text" ELSE "activity")
  /\ line' = [line EXCEPT ![s] = 1]
  /\ UNCHANGED <<clock, outsideVars, jobVars, memoryVars, stamp, hand, current, left,
                 reached, historyVars, faults>>

(* Attached and active counts as busy, unless the probe itself fails.      *)
ActivityProbe(s) ==
  /\ phase[s] = "activity"
  /\ \/ /\ watched /\ pane # "gone"
        /\ lastBusy' = stamp[s]
        /\ Busy(s)
     \/ /\ GoTo(s, "text")
        /\ UNCHANGED lastBusy
  /\ UNCHANGED <<clock, outsideVars, jobVars, failures, stamp, hand, current, line,
                 left, reached, historyVars, faults>>

(* sendLiteralLine: the text, then Enter.  Either may fail, on a live pane *)
(* too, and what was typed before stays there; on a pane that is gone both *)
(* fail.  The keys for a pane whose process is dead are dropped.           *)
SendText(s) ==
  /\ phase[s] = "text"
  /\ \/ /\ Undelivered(s, "timeout", TRUE)
        /\ UNCHANGED <<reached, begun>>
     \/ /\ pane # "gone" /\ GoTo(s, "enter")
        /\ reached' = [reached EXCEPT ![s] = pane = "live" /\ (line[s] = 1 \/ @)]
        /\ begun' = IF pane = "live" /\ line[s] = 1
                    THEN [begun EXCEPT ![current[s]] = @ + 1] ELSE begun
  /\ UNCHANGED <<clock, outsideVars, jobVars, memoryVars, stamp, hand, current, line,
                 left, wakes, crashes, faults>>

SendEnter(s) ==
  LET j == current[s]
  IN  /\ phase[s] = "enter"
      /\ \/ /\ Undelivered(s, "timeout", TRUE)
            /\ UNCHANGED <<line, lastBusy, wakes>>
         \/ /\ pane # "gone" /\ line[s] < Lines
            /\ line' = [line EXCEPT ![s] = @ + 1]
            /\ GoTo(s, "text")
            /\ UNCHANGED <<lastBusy, wakes>>
         \/ /\ pane # "gone" /\ line[s] = Lines
            /\ wakes' = IF reached[s] THEN [wakes EXCEPT ![j] = @ + 1] ELSE wakes
            /\ lastBusy' = NeverBusy
            /\ Decide(s, "delivered")
            /\ UNCHANGED line
      /\ UNCHANGED <<clock, outsideVars, jobVars, failures, stamp, hand, current, left,
                     reached, begun, crashes, faults>>

-----------------------------------------------------------------------------
(* CodexFallbackExecutor.execute.                                          *)

RecentFailuresWrongStrict(s) == Since(failures, stamp[s] - CrashLoopWindow + 1)
RecentFailures(s) == Since(failures, stamp[s] - CrashLoopWindow)

Resumable(s) ==
  /\ TargetOf[current[s]] # NoSession
  /\ runtime.session = TargetOf[current[s]]
  /\ stamp[s] - runtime.at <= StaleAfter

(* canAttemptResume: failures are looked at, and pruned, for a runtime     *)
(* that could be resumed.                                                  *)
LookUp(s) ==
  /\ phase[s] = "lookup"
  /\ failures' = IF Resumable(s) THEN RecentFailures(s) ELSE failures
  /\ GoTo(s, IF /\ Resumable(s) /\ ResumeMaxAttempts > 0
                /\ Len(RecentFailures(s)) < CrashLoopThreshold
             THEN "resume" ELSE "spawn")
  /\ left' = [left EXCEPT ![s] = ResumeMaxAttempts]
  /\ UNCHANGED <<clock, outsideVars, jobVars, lastBusy, stamp, hand, current, line,
                 reached, historyVars, faults>>

(* After a failed command the loop goes on, and then to a new session.     *)
ResumeFailsWrongOnceMore(s) ==
  /\ failures' = Append(failures, stamp[s])
  /\ crashes' = crashes \cup {[job |-> current[s], left |-> left[s], at |-> stamp[s]]}
  /\ left' = [left EXCEPT ![s] = @ - 1]
  /\ GoTo(s, IF left[s] >= 0 THEN "resume" ELSE "spawn")
  /\ UNCHANGED wakes
ResumeFails(s) ==
  /\ failures' = Append(failures, stamp[s])
  /\ crashes' = crashes \cup {[job |-> current[s], left |-> left[s], at |-> stamp[s]]}
  /\ left' = [left EXCEPT ![s] = @ - 1]
  /\ GoTo(s, IF left[s] > 1 THEN "resume" ELSE "spawn")
  /\ UNCHANGED wakes

ResumeSucceeds(s) ==
  /\ wakes' = [wakes EXCEPT ![current[s]] = @ + 1]
  /\ Decide(s, "fallback_resume")
  /\ UNCHANGED <<failures, crashes, left>>

Resume(s) ==
  /\ phase[s] = "resume"
  /\ ResumeFails(s) \/ ResumeSucceeds(s)
  /\ UNCHANGED <<clock, outsideVars, jobVars, lastBusy, stamp, hand, current, line,
                 reached, begun, faults>>

(* A new session, with a summary of the thread, or the job has failed.     *)
SpawnWrongAnyExit(s) ==
  /\ phase[s] = "spawn"
  /\ wakes' \in {wakes, [wakes EXCEPT ![current[s]] = @ + 1]}
  /\ Decide(s, "fallback_spawn")
  /\ UNCHANGED <<clock, outsideVars, jobVars, memoryVars, stamp, hand, current, line,
                 left, reached, begun, crashes, faults>>
Spawn(s) ==
  /\ phase[s] = "spawn"
  /\ \/ /\ wakes' = [wakes EXCEPT ![current[s]] = @ + 1]
        /\ Decide(s, "fallback_spawn")
     \/ /\ UNCHANGED wakes
        /\ Decide(s, "failed")
  /\ UNCHANGED <<clock, outsideVars, jobVars, memoryVars, stamp, hand, current, line,
                 left, reached, begun, crashes, faults>>

-----------------------------------------------------------------------------
(* A query fails, or a command cannot be started and its promise is        *)
(* rejected: nothing on the way up to the tick catches it.                 *)
TickFails(s) ==
  /\ phase[s] # "idle"
  /\ faults < MaxFaults /\ faults' = faults + 1
  /\ EndTicks({s})
  /\ UNCHANGED <<clock, outsideVars, jobVars, memoryVars, historyVars>>

(* The worker stops and starts again; what failed before is forgotten.     *)
Restart ==
  /\ faults < MaxFaults /\ faults' = faults + 1
  /\ EndTicks(Ticks)
  /\ lastBusy' = NeverBusy /\ failures' = <<>> /\ crashes' = {}
  /\ UNCHANGED <<clock, outsideVars, jobVars, wakes, begun>>

TickStep(s) ==
  \/ StartTick(s) \/ Begin(s) \/ FinishTick(s) \/ Record(s)
  \/ GetRuntime(s) \/ Probe(s) \/ ActivityProbe(s) \/ SendText(s) \/ SendEnter(s)
  \/ LookUp(s) \/ Resume(s) \/ Spawn(s)

Next ==
  \/ \E s \in Ticks : TickStep(s) \/ TickFails(s)
  \/ Restart \/ RuntimeChanges \/ PaneChanges \/ AdvanceClock

Spec == Init /\ [][Next]_vars

-----------------------------------------------------------------------------
TypeOK ==
  /\ clock \in Time /\ runtime \in Row \cup {NoRuntime}
  /\ pane \in Panes /\ watched \in BOOLEAN
  /\ state \in [Jobs -> JobStates] /\ tries \in [Jobs -> 0 .. MaxRetries]
  /\ lastBusy \in Time \cup {NeverBusy} /\ failures \in Seq(Time)
  /\ phase \in [Ticks -> Phases] /\ stamp \in [Ticks -> Time]
  /\ hand \in [Ticks -> SUBSET Jobs] /\ current \in [Ticks -> Jobs \cup {NoJob}]
  /\ line \in [Ticks -> 1 .. Lines] /\ left \in [Ticks -> 0 .. ResumeMaxAttempts]
  /\ verdict \in [Ticks -> JobStates \ {"held"}] /\ reached \in [Ticks -> BOOLEAN]
  /\ wakes \in [Jobs -> Nat] /\ begun \in [Jobs -> Nat] /\ deaths \in Nat
  /\ changes \in 0 .. MaxChanges /\ faults \in 0 .. MaxFaults

(* What is recorded is what the agent got whole, which is never more than  *)
(* once: a fallback that is reported took place, a delivery was received   *)
(* unless the process in the pane died, and of a job that waits or failed  *)
(* nobody got a whole envelope or a command that succeeded.  The lines of  *)
(* an envelope that broke off may be with the agent all the same.          *)
ReportsAreTrue ==
  \A j \in Jobs :
    /\ wakes[j] <= 1
    /\ state[j] \in {"fallback_resume", "fallback_spawn"} => wakes[j] = 1
    /\ state[j] \in {"waiting", "failed"} => wakes[j] = 0
    /\ state[j] = "delivered" /\ deaths = 0 => wakes[j] = 1

(* An envelope that breaks off in a live pane is typed again from its      *)
(* first line, but the agent sees it begin no more often than the retries  *)
(* of the job allow, whatever is deferred in between and by whatever ticks *)
(* (shouldRetry, sendLiteralLine).                                         *)
TypedWithinBudget == \A j \in Jobs : begun[j] <= MaxRetries + 1

(* The crash-loop shortcut: no tick starts resume commands for a job when  *)
(* as many as the threshold failed within the window, since the worker was *)
(* started; although every tick prunes the failures by a time stamp of its *)
(* own.  Of a tick that is not slower than the clock: the stamps of others *)
(* are then no later than its own.                                         *)
CrashesSince(at) == {c \in crashes : c.at >= at}
ShortcutTaken ==
  [][\A s \in Ticks :
       phase[s] = "lookup" /\ phase'[s] = "resume" /\ stamp[s] = clock
         => Cardinality(CrashesSince(stamp[s] - CrashLoopWindow)) < CrashLoopThreshold]_vars
=============================================================================
