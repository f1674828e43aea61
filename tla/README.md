# A TLA+ verification of orkiva

orkiva lets coding agents talk in shared threads and wakes those that are
dormant. It is a PostgreSQL database with three programs around it:

    agents ──HTTP──▶ bridge-api ──┐
                                  ├──▶ PostgreSQL ◀── supervisor-worker ──▶ tmux / Codex
    operator ─────▶ operator-cli ─┘

The three share nothing but the tables, and none of them uses a transaction or
a lock across two statements in the operations that matter here. What keeps the
system correct are single statements: conditional UPDATEs, unique indexes and
`ON CONFLICT`. That is where interleavings bite, and what this project models:
every `await` of a handler is a place where another request, another tick or
another process can step in.

## 1. Inventory

| Component | Code | State | Operations |
|---|---|---|---|
| Trigger queue | supervisor-worker: `trigger-queue.ts`, `worker-loop.ts`, `main.ts` | tables `trigger_jobs`, `trigger_attempts`; per process: loop guard, limiter | claim due jobs, attempt, retry with backoff, defer, fall back, auto-block the thread, record |
| Thread status | `packages/domain/src/thread.ts`, `app.ts`, `thread-store.ts`, operator-cli `service.ts` | table `threads`, `audit_events` | `update_thread_status`, the operator's escalate / unblock / override-close commands, the loop guard |
| Message log | `app.ts`, `thread-store.ts` | table `messages` | `post_message` (idempotent), `read_messages` (pages) |
| Read cursors | `app.ts`, `thread-store.ts`, `packages/domain/src/cursor.ts` | table `participant_cursors` | `ack_read` |
| Unread reconciliation | `unread-reconciliation.ts` | per process: what was notified last | snapshot, deduplicate, hand notices on |
| Session registry | `session-store.ts`, `runtime-registry.ts`, `packages/domain/src/session.ts` | table `session_registry` | `heartbeat_session`, registering and deregistering a runtime, marking stale sessions offline |
| Trigger intake | `app.ts`, `trigger-store.ts` | table `trigger_jobs` | `trigger_participant`: decide, insert or reuse by request id |
| Runtime delivery | `runtime-trigger-executor.ts`, `runtime-fallback.ts`, `tmux-adapter.ts`, `pty-adapter.ts` | busy panes, crash counters, per process | deliver an envelope, resume, spawn |
| Operator command line | `service.ts`, `commands.ts` | none | inspect and mutate a thread |
| Authentication, wire schemas, configuration, logging | `packages/*` | none that lasts | checks before a handler, parsing, counters |

How they interact: `trigger_participant` inserts a job; the worker's tick
(every `WORKER_POLL_INTERVAL_MS`, started by `setInterval` without awaiting the
tick before it) reconciles unread messages, then the session registry, then
works on the due jobs; the loop guard writes `threads`, which the API and the
command line write too; heartbeats write the registry that the tick marks.

What is hard in each of them, and what makes it correct:

- **Trigger queue.** Ticks overlap, workers may be several, and either may stop
  between a claim and its record. One holder per job, attempts numbered without
  a gap, no claim before the retry time, bounded retries, settled jobs final,
  auto-blocking only on evidence, and every job settled in the end.
- **Thread status.** A status is read twice and written once, by three kinds of
  callers. Illegal transitions must not come out of legal ones that interleave;
  closing a dispute needs an override; the audit trail tells the truth.
- **Message log.** Numbers are computed from a reading. They must have no gap
  or duplicate, repeated requests must agree, readers must miss nothing.
- **Read cursors.** Checked against readings, then overwritten.
- **Unread reconciliation.** Four queries make one snapshot; ticks overlap with
  snapshots of different age. New messages must be noticed, once.
- **Session registry.** Heartbeats overtake each other and race with the ticks
  that mark a session offline.
- **Trigger intake.** The kind of a job is decided from a session read before the
  insertion, a request may be repeated while the first is under way or after the
  worker changed its job, and its answer may be lost. One job per request id,
  answers that stay true, and a decision that what happened to the session
  explains.
- **Runtime delivery.** An envelope takes many commands, each of which may fail;
  what failed is retried, or handed to commands of another kind, by ticks that
  share a memory of busy panes and failed resumes, and what was typed stays in a
  pane. One trigger must reach its agent whole once at most, be typed no more often
  than its retries allow, and be recorded as what it was.

`PROJECT.json` lists these hazards at their lines with the properties that
look after each.

## 2. The modules

| Module | What it is |
|---|---|
| `TriggerLifecycle` | abstract: a job is absent, waiting, held by one tick, or settled |
| `TriggerQueue` | the queue, one action per await of `processDueJobs` and the store |
| `TriggerQueueProps` | its properties, and the refinement of `TriggerLifecycle` |
| `TriggerQueueProofs` | types, exclusive and timely claims, attempts, budget, finality, the refinement, the loop guard and the limiter, proved |
| `Stamps`, `StampLemmas` | the lists of time stamps that the limiter and the crash-loop shortcut filter, and facts about them |
| `ThreadLifecycle`, `ThreadLifecycleProofs` | the status of threads and its audit rows |
| `ThreadLog` | abstract: a thread is one growing sequence of messages |
| `MessageLog`, `MessageLogProps`, `MessageLogProofs` | `post_message` and `read_messages` |
| `ReadCursor` | `ack_read` |
| `UnreadReconciliation`, `UnreadReconciliationProofs` | the first stage of a tick, on top of `ReadCursor` |
| `SessionRegistry`, `SessionRegistryProofs` | heartbeats and the second stage of a tick |
| `TriggerIntake`, `TriggerIntakeProofs` | `trigger_participant`, composed with `SessionRegistry` and with the worker of `TriggerLifecycle` |
| `RuntimeDelivery`, `RuntimeDeliveryProofs` | what a tick does to wake an agent: key strokes, resume, spawn |
| `MC*` | instances for TLC |

### How state and actions correspond to the code

All modules use one scheme. A *slot* stands for one request, command or tick
under way; `phase[slot]` is the await it is at, and an action is what the code
does from one await to the next: the reading or the write of one SQL statement
and the computation after it. A statement is one step, which is what PostgreSQL
gives single statements under READ COMMITTED (an UPDATE re-evaluates its WHERE
on the row it finds). Local variables of a handler that are used after an await
are kept per slot (`seen`, `nextSeq`, `candidates`, `sawLatest`, ...); this is
where stale readings come from. Tables are functions or sets of rows. A failed query, a
lost answer, a failing tick and a restart are actions of their own, bounded by
`MaxFaults`, and restarts clear what the process keeps in memory.

- `TriggerQueue`: `Submit` is the insertion by `trigger_participant` (queued,
  or with a fallback status when the target has no managed runtime).
  `StartTick`, `ReadCandidates`, `ClaimNext`, `ClaimDone` are `claimDueJobs`:
  candidates are read once, three times as many as may be claimed, and claimed
  one by one on condition of the `updated_at` and status they were read with.
  `BeginAttempt`/`DeferByRateLimit` are the limiter, `ExecutorReturns` every
  outcome of the executor, `FallbackReturns` those of the fallback, `Conclude`
  the loop guard, `MarkThreadBlocked` and `RecordAttempt` the two writes. The
  executor's inside is a choice over `ExecutorOutcomes`: delivered, busy (a
  deferral, or a timeout that is not retried once the job waited `MaxDefer`), a
  retryable timeout with one of `TransientCodes`, a failure with one of
  `PermanentCodes`. `updated_at` is a clock value and ties are possible, as with
  the code's time stamps. `AutoBlockEarned` counts evidence while a tick is about to
  block a thread (phase `blocking`, between the guard's decision and its UPDATE):
  rows of the thread's jobs, outcomes that ticks of the same worker have decided
  and not yet recorded, and faults. A restart is one fault although it may lose
  several such outcomes, since it also empties the loop guard.
- `ThreadLifecycle`: `ApiRead`, `ApiReadAgain`, `WriteStatus`, `WriteAudit` are
  the awaits of `update_thread_status`; the command line has `CliRead` instead
  of the two readings. `MarkBlocked` is the guard's UPDATE of a thread that is
  active. `changes`, `audits` and `failed` are histories.
- `MessageLog`: `CheckParent`, `LookupKey`, `ReadLatest`, `Insert`, `Catch`
  follow `post_message`; `Clashes` are the two unique indexes.
  `InsertUnreported` is an insertion that was committed but whose answer was
  lost on the way to the handler. `Catch` has no second attempt: `post_message`
  goes round its loop after an error that `mapUnknownError` takes for a conflict,
  and the driver's error of a taken number is none by the time it gets there
  (see below). `ReadPage` is a client that pages on from
  `next_seq`. A body stands for everything a replay compares.
- `ReadCursor`: the awaits of `ack_read`. Posts are `latest' = latest + 1`,
  which module `MessageLog` shows to be what a post does to a thread.
- `UnreadReconciliation`: one action per query of the snapshot; what follows
  the last query awaits an in-memory map only and is one step. `FinishTick` is
  `main.ts`, which logs how many notices a tick had; nothing else is done with
  a notice. Sessions are abstracted to awake or not (`Flip`).
- `SessionRegistry`: `Update`, `Find`, `Insert`, `FindAgain` are the statements
  of `heartbeatSession`, and those of `upsertFromHeartbeat`, which
  `registerRuntime` and `heartbeatRuntime` call with a time of the caller's
  choice (`Register`); `ListRuntimes`, `MarkOffline` are
  `reconcileWorkspaceRuntimes`, and `Deregister` is `deregisterRuntime`. The three
  operations on runtimes have no caller outside tests today. A row is known by
  the heartbeat that wrote it.
- `TriggerIntake`: `Ask` receives a request (its time, `at`, is the
  handler's `requestTime`), `ReadSession` is the look-up that `Decision`
  (`resolveTriggerDecision`) decides from, `InsertJob` the INSERT with ON CONFLICT
  DO NOTHING, `FindJob` the SELECT after a conflict with the comparison of
  `hasTriggerReplayMatch`, `Respond` the answer after the audit row.
  `InsertUnreported` is a row that was stored by a call that did not live to
  answer, `CallFails` any other call that does not. `RegistryStep` is any step of
  `SessionRegistry`; `ClaimJob` and `RecordJob` are what `TriggerLifecycle`
  promises of the worker, with the statuses of the table. `told`, `known`, `gone`
  and `taken` are histories that the properties compare with.
- `RuntimeDelivery`: `GetRuntime` is the executor up to the call of the adapter,
  `Probe`, `ActivityProbe`, `SendText`, `SendEnter` are the tmux commands of
  `deliver`, `LookUp`, `Resume`, `Spawn` those of the fallback. A pane is live,
  dead or gone, and `watched` is what the activity probe answers; both change
  at any time. Every tmux command may fail on a live pane too: `SendText` and
  `SendEnter` then leave the lines before with the agent, and the job is retried
  or goes to the fallback. `reached` says whether the process that is in the pane
  got the lines typed so far; the histories `wakes` and `begun` say how often a job
  reached its agent whole, and how often its first line did. The queue
  around a delivery is cut down to claims, the retry decision and the record,
  with the loop guard as a choice; `TriggerQueue` has it in full, and takes the
  answers of the executor and of the fallback as choices.

Operators with `Wrong` in their name belong to no specification. Each is the
definition after it with a plausible mistake; with it in place of the right one
the property named in `PROJECT.json` is violated, which shows that the property
depends on that line of code.

## 3. The runs

### Properties that hold

| Run | Instance | What it shows |
|---|---|---|
| `TriggerQueueOverlap` | 1 worker, 2 overlapping ticks, 2 jobs of one thread and agent | claims are exclusive and never early, attempts are numbered without a gap and explain the status, retries are bounded, the guard blocks on evidence only, settled jobs are final; the queue implements `TriggerLifecycle` |
| `TriggerQueueRecovery` | 1 worker, 1 tick at a time, 2 jobs, an operator, 1 fault, fair | every queued job is settled, or a fault left it triggering without a tick to finish it; up to the fault the limiter's windows hold |
| `ThreadLifecycleRaces` | 2 API requests, 1 command, the guard, 1 fault, 3 requests in all | disputed closes are overridden, the audit trail is true and lacks a row only of a request that failed itself, nothing is reopened |
| `MessageLogRetries` | 3 posters, 2 agents, 1 key, replies, 1 reader, 1 fault, 3 requests | numbers without gaps, repeated requests agree, conflicts are earned and so is a failure on a clash, the reader misses nothing; the table implements `ThreadLog` |
| `UnreadNoticed` | 1 worker, 2 overlapping ticks, 1 participant, 1 fault, fair | cursors advance within the thread, no notice is raised twice, unread messages of a dormant participant are noticed |
| `TriggerIntakeRaces` | 2 requests of 1 id at one time, 2 payloads, heartbeats and a deregistration of the target's session, 1 tick, 3 requests and heartbeats in all | repeated requests are answered truly and never send two callers two ways, stored jobs are kept, and the kind of a job is explained by what happened to the session until it was decided |
| `RuntimeDeliveryWakes` | 1 worker, 2 overlapping ticks, 2 jobs of one agent, one with an override, 1 outside change, 1 fault | although key strokes fail in live panes, a job reaches its agent whole once at most and is begun no more often than its retries allow, the record tells what happened, and a crash loop is noticed although ticks prune it by different time stamps |
| `SessionRegistryBeats` | an agent with a row and one without, 2 heartbeats, 2 overlapping ticks, 1 fault, fair | an answered heartbeat is kept or a newer one is, an old one brings nothing back, a silent session is marked offline |

### Statements of the repository that the code does not keep

Each of these runs checks one property that a document or a test of the
repository states, and ends in a violation; `PROJECT.json` quotes the line.

| Run | What TLC finds |
|---|---|
| `TriggerQueueStranded` | a worker stops after a claim: the job stays `triggering` for ever and is never attempted |
| `TriggerQueueFallbackJobs` | a job inserted with a fallback status is not due: no fallback is ever executed |
| `TriggerQueueBusy` | three deferrals of a busy pane look like a loop: the job fails and its thread is blocked |
| `ReadCursorRace` | two acknowledgements of one agent: the lower is written last |

Other disagreements were met while modelling. The models contain the behaviour;
no run is kept for them:

- a thread that is blocked, unblocked and blocked again while a request is
  between its two readings is resolved from blocked
  (`thread-store.ts:451`, against the lifecycle in `security_and_governance.md`);
- a command of the operator changes the status and may not get to write its
  audit row (`service.ts:311`, against `rollout_and_operations.md:83`);
- deferrals are counted as attempts, so a job may fall back after fewer retried
  timeouts than `max_retries` (`trigger-queue.ts:347`, against
  `process_level_trigger_design.md:195`);
- the limiter counts a slow batch under one old time stamp, so attempts may be
  closer together than its limit (`trigger-queue.ts:235`);
- a participant that stays dormant is noticed once per new message and never
  again, and no trigger comes of a notice (`unread-reconciliation.ts:147`,
  against `solution_architecture.md:128`);
- a session that sends a heartbeat between the listing and the marking of a
  tick is marked offline (`runtime-registry.ts:331`);
- of two first heartbeats of an agent the newer one is answered and dropped when
  the older one is inserted first (`session-store.ts:141`, against
  `session-store.test.ts:6`);
- a post that meets a taken number is not tried again: drizzle-orm, in the range
  `^0.44` that is asked for, throws a `DrizzleQueryError` that has the database's
  error as its `cause` and no `code` of its own, so `hasDatabaseErrorCode`
  (`app.ts:166`) does not see 23505 and the client gets `INTERNAL` after one clash
  (`app.ts:1010`, against `runbook_drill_evidence.md:14`, whose test at
  `app.test.ts:1071` has a store that throws a bare error);
- an envelope that breaks off half way in a live pane stays there: the retry types
  it again from its first line, or a resume follows it (`tmux-adapter.ts:88`,
  `:163`). Text whose Enter failed stands in front of the next line typed;
- a caller that repeats its request after the worker fell back to a new session
  is told to spawn one (`app.ts:327`, `runtime-fallback.ts:92`), so the agent may
  be woken twice;
- a message is added to a closed thread (`app.ts:897` does not look at the
  status, against `solution_architecture.md:152`; `MessageLog` has no guard on it);
- a repeated `trigger_participant` is answered from the stored job, so it says
  `trigger_runtime` and `queued` of a job that has failed by now, or whose target
  has gone offline (`app.ts:275`, against `protocol_spec.md:346`); the columns of
  the target session come from the job, those of the runtime from the session as
  it is now;
- a session that is marked offline late is given to the fallback although its
  heartbeat is fresh, and nothing executes that fallback (see
  `TriggerQueueFallbackJobs`);
- a heartbeat that was received before a deregistration, and is written after
  it, brings the session back (`runtime-registry.ts`);
- the activity probe is made once, before the first key stroke, so an operator
  who attaches after it is typed over (`tmux-adapter.ts:146`, against FR-18 of
  `prd.md`); and overlapping ticks may type into one pane at one time.

### The bounds, and why they are enough

Slots: two ticks, posters, heartbeats or requests at one time are what the
races here need, each being between one reader and one writer; the thread
status has three kinds of writers and gets one more. Data: two jobs of *one*
thread and agent, so that loop guard, limiter and claims meet; one key that two
agents use, so that a lookup that forgot the agent would show; payloads that
differ in the message they reply to, which is enough for a conflict; an agent
with and one without a row, so that the insertion and its conflict are reached.

Counters: `MaxTime` of `TriggerQueueOverlap` is long enough for a retry to come
due and be claimed while a slow tick still holds the old reading, and that of
`TriggerQueueRecovery` for the longest chain of deferrals and retries to end
before the clock does; in the session registry a unit of time is longer than
the stale time, so that a row of time 0 is listed as stale at two times by two
ticks and a heartbeat of time 1 may refresh it in between; in `RuntimeDelivery` a
unit of time is longer than the crash-loop window and the stale time and as long
as the quiet window and the longest deferral, so that ticks of two times see each
of them on both sides of its bound. `MaxRequests` bounds what
is ever asked: three posts are two that race for one number and one that repeats
the key of either, and three posters let all of them be under way at one time. In the
trigger intake it bounds requests and heartbeats together: a heartbeat before
and one between two requests, or a repeated request after either. `Recorded`
gives the worker a status that is due again and one that is settled, and
heartbeats report one mode, a managed session: it becomes stale, offline or not
resumable by what ticks and deregistrations do to its row. One fault reaches every await; the questions about faults are about
what one fault leaves behind. Backoff, recheck, window and thresholds are small
numbers in the order they have in the configuration; `TriggerQueueBusy` takes
the documented defaults. What holds for more slots, requests and faults than
these is the subject of the proofs.

Symmetry is used in runs without liveness only, over slots and ids of one kind
that the instance does not tell apart.

`CHECK_DEADLOCK FALSE` is in the configurations where requests are the only
actors: once the bounded number of them has been made and answered, nothing is
left to do. Where ticks are modelled they go on for ever and deadlock is
checked.

### Fairness

Weak fairness of each tick's step (`PromptSpec`, `FairSpec`): `setInterval` starts
ticks as long as the process runs, and every awaited call is taken to return,
which pg's and tmux's calls do or fail. Nothing is assumed of API requests,
heartbeats, posts or the operator. In `TriggerQueue` time passes, for liveness, only when no job is claimed, about to be claimed or due, so that the
bounded clock cuts no retry off; a job always waits a finite time, so this
leaves out slow batches only. Failing ticks are bounded by `MaxFaults`: a tick
that failed every time would settle, notice and mark nothing.

## 4. What is proved

For all values of the constants (any number of slots, threads, agents, keys,
requests and faults), checked by TLAPS:

| Theorem | Argument |
|---|---|
| `TriggerQueueProofs!TypeCorrect` | with `PhaseOK`: which fields a tick's phase makes meaningful |
| `TriggerQueueProofs!ClaimsAreExclusive` | a candidate is claimed only if the row is as it was read, so it is not `triggering`, so nobody holds it; only a holder writes a `triggering` row |
| `TriggerQueueProofs!AttemptsAreNumbered` | only the holder records, from the count it claimed with, and that count is still the column's |
| `TriggerQueueProofs!SettledJobsStay` | a settled job is neither `triggering` nor due, so no tick holds it and every old reading of it fails the claim |
| `TriggerQueueProofs!StatusIsExplained`, `!RetriesAreBounded` | what a tick is about to record is a proper verdict (`VerdictOK`): result and status agree, and a timeout is retried under a number within the budget only |
| `TriggerQueueProofs!ClaimsAreDue` | although time stamps may be equal: a waiting job is due only after its `updated_at` (`BackoffAssumption`), so every claim of it moves `updated_at` on, and what a slow tick read before is `Behind` and fails the comparison |
| `TriggerQueueProofs!QueueIsALifecycle` | the refinement: with exclusive claims the holder of a job is a function of the ticks' memory, and each kind of step maps to one of `TriggerLifecycle` |
| `TriggerQueueProofs!StatusesMoveByTheWorker` | statuses move by insertions, claims and records only, which are the steps `TriggerIntake` has the worker take beside its requests |
| `TriggerQueueProofs!OnlyFaultsStrand` | the safety half of `OthersSettle`: a claim puts the job in a hand, and besides a record only a failing tick or a restart empties one |
| `TriggerQueueProofs!BlocksAreEarned` | `LoopGuard`: every turn and every repetition that a worker counted of a thread is a row, an outcome that a tick of this worker is about to record, or a fault; a record turns the second into the first, a failing tick into the third, a restart clears the count |
| `TriggerQueueProofs!AttemptsStayInLimit` | assumes one tick slot (`Ticks = {only}`), the case the property is about, and is about behaviours without faults. `Limiter`: nothing is later than the time the tick works with (`InOrder`), from any time that a window can still reach it has a stamp for every answered row and for the attempt under way (`Backed`), and no more stamps than the limit lie in one window (`StampsInLimit`); hence the rows keep to it (`WindowsInLimit`) |
| `ThreadLifecycleProofs!ChangesAreAudited` | a change without its row is, word for word, what some caller is about to audit, or its request is one that failed |
| `ThreadLifecycleProofs!TypeCorrect`, `!DisputesAreOverridden`, `!AuditIsTruthful`, `!ThreadsAreNeverReopened` | requests are numbered apart, a request is in no history before its own step, what an audit row is going to say is true already, and what a handler read of a resolved or closed thread stays true |
| `MessageLogProofs!NumbersHaveNoGap` | the numbers are `1..n` and nobody has computed more than `n + 1`; the unique index lets one through |
| `MessageLogProofs!AnswersAreStored`, `!RetriesAreAnsweredAlike`, `!ConflictsAreJustified` | every answer is true of the log, and rows stay; the key index makes the row unique |
| `MessageLogProofs!RepliesComeLater`, `!ReadersMissNothing` | the insertion goes to the end, behind every parent and every reader |
| `MessageLogProofs!LogGrowsAtTheEnd` | the refinement: there are as many rows as numbers, so the rows in order are a sequence, and an insertion appends to it |
| `MessageLogProofs!ClashesAreEarned` | a number is one more than a thread at least as long as when the request began; without a row of its own key a clash is with a row of that number, so the thread has grown, and it stays that long (`Met`) |
| `MessageLogProofs!TypeCorrect`, `UnreadReconciliationProofs!TypeCorrect` | with the phases' fields |
| `UnreadReconciliationProofs!CursorsStayWithin` | what a request was found not to exceed it never exceeds: the thread grows |
| `UnreadReconciliationProofs!PatientCursorsAdvance` | assumes `OneAtATime`: no agent has two requests under way; `ReadCursorRace` shows why |
| `UnreadReconciliationProofs!NoticesAreNotRepeated` | every notice under way or logged is at most what its process notified last, and a new one is above it |
| `SessionRegistryProofs!OldHeartbeatsAreIgnored` | an UPDATE needs an older row, an INSERT none |
| `SessionRegistryProofs!AnsweredHeartbeatsAreKept` | for agents that have a row (of two first heartbeats the newer may be dropped): a request turned down by the UPDATE met a row no older than itself, and rows only get newer |
| `TriggerIntakeProofs!RequestsKeepJobs`, `!RepliesStayTrue` | a row is inserted only where there is none, the worker changes its status only, and every answer, given or under way, holds of the row (`Answered`) |
| `TriggerIntakeProofs!CallersAreSentOneWay` | a handed-over job has a fallback status, which is not due, so the worker never claims it and its status stays what the first of the answers was composed from (`Holds`) |
| `TriggerIntakeProofs!QueuedJobsAreReachable`, `!FallbacksAreEarned` | what the call read is what the row was at some time after it was received; a row is of a heartbeat, or was taken offline, which `taken` tells; rows only get newer (`Traced`, `History`, `Decided`) |
| `SessionRegistryProofs!RegistryTypeCorrect`, `TriggerIntakeProofs!IntakeTypeCorrect` | rows and heartbeats keep their kinds; the intake's own records need `Answered`: a request that looks a job up finds one |
| `RuntimeDeliveryProofs!TypeCorrect` | with the phases' fields: the line being typed and the resumes that are left stay within their bounds |
| `RuntimeDeliveryProofs!CrashLoopsAreCut` | from any time that a window ending now can reach, the process's list has a stamp for every resume that failed, although other ticks prune it by stamps of theirs, which are no later than the clock (`CrashInv`); so when `canAttemptResume` counts few, few failed |
| `RuntimeDeliveryProofs!RecordsAreTrue` | until the attempt on a held job is decided nobody got it whole, and a decided one is not attempted further; an attempt that failed half way, in a live pane or not, completed no envelope; lines count as received while the pane's process lives |
| `RuntimeDeliveryProofs!TypingIsBounded` | an attempt begins the envelope once, and only counted attempts began one: a deferral comes before the first line and a retry after it needs a number within the budget (`Budget`) |

The properties are not inductive: each proof strengthens them with what the
slots remember (`PhaseOK`, `Checked` and `Pending`, `Bounded`, `AskedExists` and
`NotBehind`, `Kept`, `Holding`, `Truth` and `Typed`, `VerdictOK`, `ClaimsInTime`, `Met`, `Answered`, `History` and `Decided`,
`LoopGuard`, `Limiter`, `Budget`, `CrashInv`). The assumptions on constants are the `ASSUME`s of the
modules, which TLC evaluates in every run; `BackoffAssumption` (a backoff is a
positive number) follows from the configuration's checks.

The lists of time stamps are the one place where the proofs need induction over
data: what a filter keeps, and how many stamps lie after a cut. `Stamps` writes the
filter as a recursive function, and `StampLemmas` argues by the least length for
which a fact would be false (`NatMin`).

Every invariant and action property that a passing run checks is also proved. Only
model-checked is what holds under fairness (`OthersSettle`, `UnreadIsNoticed`,
`StaleExpires`): TLAPS proves no liveness. Two theorems have a hypothesis on the
slots, and need it: without `OneAtATime` cursors go back, and with two overlapping
ticks the younger one forgets stamps that still count for the older one, which may
then exceed the limit in the window of its own stamp (TLC shows it with three jobs
claimed together, a limit of 2 and a window of 1).

## 5. What is not modelled

- Authentication, schemas, configuration, logging, benchmarks: no state, or
  none that a property depends on. The models start behind the checks.
- `create_thread` (one transaction, under a random id that nobody knows before the
  answer), `get_thread`, `summarize_thread`, inspections by the command line:
  insert once, or only read.
- What tmux, Codex and the operator do: `RuntimeDelivery` takes a command that
  ends with success to have done what it says and one that fails (a key stroke, a
  resume, a spawn) to have done nothing itself, and follows each envelope by itself, so that two envelopes mixed in
  one pane are not told from clean ones.
- In the session registry, two agents that report one session id: the unique
  index then turns a row down, which `Fail` stands for.

## 6. Plan

1. Done: the trigger queue first, being the core, then threads, messages,
   cursors, reconciliation, registry; a proof module for each.
2. Done: `TriggerIntake` on top of `SessionRegistry`, with the worker as
   `TriggerLifecycle` has it; `TriggerQueue` implements that by a proved
   refinement, so that what the intake is shown beside is what the queue does.
3. Done: every safety property that a passing run checks is proved; the loop guard
   and the limiter last, by inductive invariants over rows and process memory.
4. To do: that the answers of `RuntimeDelivery` are those `TriggerQueue` chooses
   from, and panes that two ticks type into.
5. To do: the limiter for overlapping and slow ticks (what bound is left, and the
   delay taken from the front of an unordered list); the loop guard per unblocked
   period.
