------------------------- MODULE UnreadReconciliation ------------------------
(***************************************************************************)
(* The worker's poll for participants who are dormant and have unread      *)
(* messages: unread-reconciliation.ts, first stage of a tick of            *)
(* worker-loop.ts, beside the acknowledgements of module ReadCursor.       *)
(*                                                                         *)
(* One thread is modelled: notices are kept per thread and agent.  The     *)
(* snapshot is read with one query after the other; what follows the last  *)
(* one awaits an in-memory map only, and no other tick gets between.  The  *)
(* notices of a tick are handed to main.ts when all its stages are done,   *)
(* which logs how many they are: nothing else becomes of them.             *)
(*                                                                         *)
(* An operator with "Wrong" in its name is the definition after it with a  *)
(* plausible mistake in the code.                                          *)
(***************************************************************************)
EXTENDS ReadCursor

CONSTANTS
  Workers, Ticks, WorkerOf,  \* processes, concurrent tick slots, their process
  MaxFlips,                  \* bound: changes of the session registry
  MaxFaults                  \* bound: failed ticks and worker restarts

ASSUME ReconciliationAssumption ==
  /\ WorkerOf \in [Ticks -> Workers]
  /\ MaxFlips \in Nat /\ MaxFaults \in Nat

VARIABLES
  awake,         \* awake[a]: a session that is active and not stale
  closed,        \* the thread's status is closed
  phase, sawLatest, sawCursor,
  notices,       \* notices[s]: what the tick will hand on
  lastNotified,  \* lastNotified[w][a], 0 when the process has no entry
  logged,        \* logged[w]: handed on by this run of the process
  flips, faults

registryVars == <<awake, closed, flips>>
tickVars == <<phase, sawLatest, sawCursor, notices>>
workerVars == <<lastNotified, logged>>
vars == <<cursorVars, registryVars, tickVars, workerVars, faults>>

Phases == {"idle", "latest", "cursors", "sessions", "later"}
Notice(a, n) == [agent |-> a, latest |-> n]
NoCursors == [a \in Agents |-> 0]

Init ==
  /\ CursorInit
  /\ awake \in [Agents -> BOOLEAN]
  /\ closed = FALSE
  /\ phase = [s \in Ticks |-> "idle"]
  /\ sawLatest = [s \in Ticks |-> 0]
  /\ sawCursor = [s \in Ticks |-> NoCursors]
  /\ notices = [s \in Ticks |-> {}]
  /\ lastNotified = [w \in Workers |-> NoCursors]
  /\ logged = [w \in Workers |-> {}]
  /\ flips = 0 /\ faults = 0

-----------------------------------------------------------------------------
(* A heartbeat wakes a session, or it goes idle, offline or stale.         *)
Flip(a) ==
  /\ flips < MaxFlips
  /\ flips' = flips + 1
  /\ awake' = [awake EXCEPT ![a] = ~@]
  /\ UNCHANGED <<cursorVars, closed, tickVars, workerVars, faults>>

CloseThread ==
  /\ ~closed
  /\ flips < MaxFlips
  /\ flips' = flips + 1
  /\ closed' = TRUE
  /\ UNCHANGED <<cursorVars, awake, tickVars, workerVars, faults>>

Reading == CursorNext /\ UNCHANGED <<registryVars, tickVars, workerVars, faults>>

-----------------------------------------------------------------------------
(* The threads that are not closed; with none there is nothing to notice.  *)
(* Participants never change.                                              *)
ReadThread(s) ==
  /\ phase[s] = "idle"
  /\ phase' = [phase EXCEPT ![s] = IF closed THEN "later" ELSE "latest"]
  /\ UNCHANGED <<cursorVars, registryVars, sawLatest, sawCursor, notices,
                 workerVars, faults>>

ReadLatest(s) ==
  /\ phase[s] = "latest"
  /\ phase' = [phase EXCEPT ![s] = "cursors"]
  /\ sawLatest' = [sawLatest EXCEPT ![s] = latest]
  /\ UNCHANGED <<cursorVars, registryVars, sawCursor, notices, workerVars, faults>>

ReadCursors(s) ==
  /\ phase[s] = "cursors"
  /\ phase' = [phase EXCEPT ![s] = "sessions"]
  /\ sawCursor' = [sawCursor EXCEPT ![s] = cursor]
  /\ UNCHANGED <<cursorVars, registryVars, sawLatest, notices, workerVars, faults>>

(* An agent's unread messages were notified before, by this process.       *)
DeduplicatedWrongOlder(s, a) == lastNotified[WorkerOf[s]][a] > sawLatest[s]
DeduplicatedWrongEver(s, a) == lastNotified[WorkerOf[s]][a] # 0
Deduplicated(s, a) == lastNotified[WorkerOf[s]][a] >= sawLatest[s]

(* The participants to notify, when the sessions are read last.            *)
Candidates(s) ==
  {a \in Agents : sawLatest[s] > sawCursor[s][a] /\ ~awake[a] /\ ~Deduplicated(s, a)}

Reconcile(s) ==
  /\ phase[s] = "sessions"
  /\ phase' = [phase EXCEPT ![s] = "later"]
  /\ lastNotified' = [lastNotified EXCEPT ![WorkerOf[s]] =
       [a \in Agents |-> IF a \in Candidates(s) THEN sawLatest[s] ELSE @[a]]]
  /\ notices' = [notices EXCEPT ![s] = {Notice(a, sawLatest[s]) : a \in Candidates(s)}]
  /\ UNCHANGED <<cursorVars, registryVars, sawLatest, sawCursor, logged, faults>>

(* Runtimes and the trigger queue follow; then the tick is logged.         *)
EndTicks(Ended) ==
  /\ phase' = [s \in Ticks |-> IF s \in Ended THEN "idle" ELSE phase[s]]
  /\ sawLatest' = [s \in Ticks |-> IF s \in Ended THEN 0 ELSE sawLatest[s]]
  /\ sawCursor' = [s \in Ticks |-> IF s \in Ended THEN NoCursors ELSE sawCursor[s]]
  /\ notices' = [s \in Ticks |-> IF s \in Ended THEN {} ELSE notices[s]]

FinishTick(s) ==
  /\ phase[s] = "later"
  /\ logged' = [logged EXCEPT ![WorkerOf[s]] = @ \cup notices[s]]
  /\ EndTicks({s})
  /\ UNCHANGED <<cursorVars, registryVars, lastNotified, faults>>

(* A query of any stage fails: the tick is rejected and hands nothing on.  *)
TickFails(s) ==
  /\ phase[s] # "idle"
  /\ faults < MaxFaults
  /\ faults' = faults + 1
  /\ EndTicks({s})
  /\ UNCHANGED <<cursorVars, registryVars, workerVars>>

Restart(w) ==
  /\ faults < MaxFaults
  /\ faults' = faults + 1
  /\ lastNotified' = [lastNotified EXCEPT ![w] = NoCursors]
  /\ logged' = [logged EXCEPT ![w] = {}]
  /\ EndTicks({s \in Ticks : WorkerOf[s] = w})
  /\ UNCHANGED <<cursorVars, registryVars>>

-----------------------------------------------------------------------------
TickStep(s) ==
  \/ ReadThread(s) \/ ReadLatest(s) \/ ReadCursors(s) \/ Reconcile(s) \/ FinishTick(s)

Next ==
  \/ \E s \in Ticks : TickStep(s) \/ TickFails(s)
  \/ \E w \in Workers : Restart(w)
  \/ \E a \in Agents : Flip(a)
  \/ CloseThread
  \/ Reading

Spec == Init /\ [][Next]_vars

(* setInterval keeps starting ticks and every query returns.               *)
FairSpec == Spec /\ \A s \in Ticks : WF_vars(TickStep(s))

-----------------------------------------------------------------------------
TypeOK ==
  /\ CursorTypeOK
  /\ awake \in [Agents -> BOOLEAN] /\ closed \in BOOLEAN
  /\ phase \in [Ticks -> Phases]
  /\ sawLatest \in [Ticks -> 0 .. MaxSeq]
  /\ sawCursor \in [Ticks -> [Agents -> 0 .. MaxSeq]]
  /\ notices \in [Ticks -> SUBSET [agent : Agents, latest : 1 .. MaxSeq]]
  /\ lastNotified \in [Workers -> [Agents -> 0 .. MaxSeq]]
  /\ logged \in [Workers -> SUBSET [agent : Agents, latest : 1 .. MaxSeq]]
  /\ flips \in 0 .. MaxFlips /\ faults \in 0 .. MaxFaults

(* One process raises no notice twice: not in two ticks that overlap with  *)
(* readings of different age, and not again after it was logged.           *)
NotifiedOnce ==
  \A s, q \in Ticks : WorkerOf[s] = WorkerOf[q] =>
    /\ s # q => notices[s] \cap notices[q] = {}
    /\ notices[s] \cap logged[WorkerOf[s]] = {}

Waits(a, n) == latest >= n /\ cursor[a] < n /\ ~awake[a] /\ ~closed
Noticed(a, n) == \E w \in Workers : \E m \in logged[w] : m.agent = a /\ m.latest >= n

(* A participant who stays dormant with unread messages is noticed, unless *)
(* somebody wakes it, it reads, or the thread is closed: no interleaving   *)
(* of posts, readings and overlapping ticks hides new messages.  A notice  *)
(* may be lost with a fault.                                               *)
UnreadIsNoticed ==
  \A a \in Agents : \A n \in 1 .. MaxSeq :
    Waits(a, n) ~> (Noticed(a, n) \/ ~Waits(a, n) \/ faults > 0)
=============================================================================
