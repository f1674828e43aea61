--------------------- MODULE UnreadReconciliationProofs ----------------------
(***************************************************************************)
(* Proofs about ReadCursor and UnreadReconciliation, for every number of   *)
(* participants, requests, worker processes and ticks.                     *)
(***************************************************************************)
EXTENDS UnreadReconciliation, TLAPS

-----------------------------------------------------------------------------
(* Acknowledgements.  What a request was found not to exceed, it does not  *)
(* exceed later: the thread only grows.                                    *)
AskedExists ==
  \A k \in Acks : ackPhase[k] \in {"cursor", "write"} => asked[k] <= latest

CursorInv == CursorTypeOK /\ AskedExists /\ CursorWithinThread

LEMMA CursorInitially == CursorInit => CursorInv
  BY CursorAssumption
     DEF CursorInit, CursorInv, CursorTypeOK, AskedExists, CursorWithinThread, AckPhases

LEMMA CursorKept == CursorInv /\ [CursorNext]_cursorVars => CursorInv'
<1> SUFFICES ASSUME CursorInv, [CursorNext]_cursorVars PROVE CursorInv'
  OBVIOUS
<1> USE CursorAssumption DEF CursorInv, CursorTypeOK, AskedExists,
                             CursorWithinThread, AckPhases
<1>1. CASE Post
  BY <1>1 DEF Post, ackVars
<1>2. ASSUME NEW k \in Acks, AckReceive(k) PROVE CursorInv'
  BY <1>2 DEF AckReceive
<1>3. ASSUME NEW k \in Acks, AckLatest(k) PROVE CursorInv'
  BY <1>3 DEF AckLatest, Exceeds, AckGoTo, AckAnswer
<1>4. ASSUME NEW k \in Acks, AckCursor(k) PROVE CursorInv'
  BY <1>4 DEF AckCursor, Regresses, AckGoTo, AckAnswer
<1>5. ASSUME NEW k \in Acks, AckWrite(k) PROVE CursorInv'
  BY <1>5 DEF AckWrite, AckAnswer
<1>6. ASSUME NEW k \in Acks, AckFails(k) PROVE CursorInv'
  BY <1>6 DEF AckFails, AckAnswer
<1>7. CASE UNCHANGED cursorVars
  BY <1>7 DEF cursorVars, ackVars
<1> QED
  BY <1>1, <1>2, <1>3, <1>4, <1>5, <1>6, <1>7 DEF CursorNext, AckStep

(* A cursor never points behind the end of the thread, whatever requests   *)
(* of however many agents interleave with posts.                           *)
THEOREM CursorsStayWithin == CursorSpec => []CursorWithinThread
<1>1. CursorInv => CursorWithinThread
  BY DEF CursorInv
<1> QED
  BY CursorInitially, CursorKept, <1>1, PTL DEF CursorSpec

(* What a request was found not to fall behind, it does not fall behind    *)
(* when it writes, if no other request of its agent writes in between.     *)
OneAtATime == \A k, l \in Acks : AgentOf[k] = AgentOf[l] => k = l
NotBehind == \A k \in Acks : ackPhase[k] = "write" => asked[k] >= cursor[AgentOf[k]]

LEMMA NotBehindKept ==
  ASSUME OneAtATime, CursorInv, NotBehind, [CursorNext]_cursorVars
  PROVE  NotBehind'
<1> USE CursorAssumption DEF CursorInv, CursorTypeOK, NotBehind, AckPhases
<1>1. CASE Post
  BY <1>1 DEF Post, ackVars
<1>2. ASSUME NEW k \in Acks, AckReceive(k) PROVE NotBehind'
  BY <1>2 DEF AckReceive
<1>3. ASSUME NEW k \in Acks, AckLatest(k) PROVE NotBehind'
  BY <1>3 DEF AckLatest, AckGoTo, AckAnswer
<1>4. ASSUME NEW k \in Acks, AckCursor(k) PROVE NotBehind'
  BY <1>4 DEF AckCursor, Regresses, AckGoTo, AckAnswer
<1>5. ASSUME NEW k \in Acks, AckWrite(k) PROVE NotBehind'
  BY <1>5 DEF AckWrite, AckAnswer, OneAtATime
<1>6. ASSUME NEW k \in Acks, AckFails(k) PROVE NotBehind'
  BY <1>6 DEF AckFails, AckAnswer
<1>7. CASE UNCHANGED cursorVars
  BY <1>7 DEF cursorVars, ackVars
<1> QED
  BY <1>1, <1>2, <1>3, <1>4, <1>5, <1>6, <1>7 DEF CursorNext, AckStep

LEMMA MonotoneStep ==
  ASSUME CursorInv, NotBehind, [CursorNext]_cursorVars
  PROVE  [\A a \in Agents : cursor'[a] >= cursor[a]]_cursorVars
<1> USE CursorAssumption DEF CursorInv, CursorTypeOK
<1>1. ASSUME NEW k \in Acks, AckWrite(k)
      PROVE  \A a \in Agents : cursor'[a] >= cursor[a]
  BY <1>1 DEF AckWrite, NotBehind
<1>2. ASSUME cursor' = cursor PROVE \A a \in Agents : cursor'[a] >= cursor[a]
  BY <1>2
<1> QED
  BY <1>1, <1>2 DEF CursorNext, AckStep, Post, AckReceive, AckLatest, AckCursor, AckFails

(* An agent that waits for each answer never sees its cursor go back.      *)
THEOREM PatientCursorsAdvance ==
  ASSUME OneAtATime
  PROVE  CursorSpec => CursorMonotone
<1>1. CursorInit => NotBehind
  BY CursorAssumption DEF CursorInit, NotBehind
<1>2. CursorInv /\ NotBehind /\ [CursorNext]_cursorVars => NotBehind'
  BY NotBehindKept
<1>3. CursorInv /\ NotBehind /\ [CursorNext]_cursorVars
        => [\A a \in Agents : cursor'[a] >= cursor[a]]_cursorVars
  BY MonotoneStep
<1> QED
  BY CursorInitially, CursorKept, <1>1, <1>2, <1>3, PTL DEF CursorSpec, CursorMonotone

-----------------------------------------------------------------------------
(* Notices.  The memory of a process covers all the notices it raised, so  *)
(* a notice that is not deduplicated differs from every one before it.     *)
Covered ==
  /\ \A s \in Ticks : \A n \in notices[s] : n.latest <= lastNotified[WorkerOf[s]][n.agent]
  /\ \A w \in Workers : \A n \in logged[w] : n.latest <= lastNotified[w][n.agent]

NoticeInv == CursorInv /\ TypeOK /\ Covered /\ NotifiedOnce

LEMMA NoticeInitially == Init => NoticeInv
<1> SUFFICES ASSUME Init PROVE NoticeInv
  OBVIOUS
<1>1. CursorInv
  BY CursorInitially DEF Init
<1>2. NoCursors \in [Agents -> 0 .. MaxSeq]
  BY CursorAssumption DEF NoCursors
<1>3. TypeOK
  <2>1. CursorTypeOK /\ awake \in [Agents -> BOOLEAN] /\ closed \in BOOLEAN
    BY <1>1 DEF Init, CursorInv
  <2>2. phase \in [Ticks -> Phases]
    BY DEF Init, Phases
  <2>3. /\ sawLatest \in [Ticks -> 0 .. MaxSeq]
        /\ sawCursor \in [Ticks -> [Agents -> 0 .. MaxSeq]]
        /\ lastNotified \in [Workers -> [Agents -> 0 .. MaxSeq]]
    BY <1>2, CursorAssumption DEF Init
  <2>4. /\ notices \in [Ticks -> SUBSET [agent : Agents, latest : 1 .. MaxSeq]]
        /\ logged \in [Workers -> SUBSET [agent : Agents, latest : 1 .. MaxSeq]]
    BY DEF Init
  <2>5. flips \in 0 .. MaxFlips /\ faults \in 0 .. MaxFaults
    BY ReconciliationAssumption DEF Init
  <2> QED
    BY <2>1, <2>2, <2>3, <2>4, <2>5 DEF TypeOK
<1>4. Covered
  BY ReconciliationAssumption DEF Init, Covered
<1>5. NotifiedOnce
  BY ReconciliationAssumption DEF Init, NotifiedOnce
<1> QED
  BY <1>1, <1>3, <1>4, <1>5 DEF NoticeInv

(* The steps that leave the ticks and the workers alone.                   *)
LEMMA OutsideKept ==
  ASSUME NoticeInv, UNCHANGED <<tickVars, workerVars>>, CursorInv',
         awake' \in [Agents -> BOOLEAN], closed' \in BOOLEAN,
         flips' \in 0 .. MaxFlips, faults' \in 0 .. MaxFaults
  PROVE  NoticeInv'
  BY DEF NoticeInv, CursorInv, TypeOK, Covered, NotifiedOnce, tickVars, workerVars

LEMMA EndingKept ==
  ASSUME NoticeInv, NEW Ended \in SUBSET Ticks, EndTicks(Ended),
         UNCHANGED <<cursorVars, registryVars, workerVars>>, faults' \in 0 .. MaxFaults
  PROVE  NoticeInv'
<1> USE DEF NoticeInv, cursorVars, ackVars, registryVars, workerVars
<1>1. CursorInv'
  BY DEF CursorInv, CursorTypeOK, AskedExists, CursorWithinThread
<1>2. TypeOK'
  BY <1>1, CursorAssumption DEF TypeOK, CursorInv, EndTicks, NoCursors, Phases
<1>3. \A s \in Ticks : notices'[s] \in {notices[s], {}}
  BY DEF EndTicks
<1>4. Covered'
  BY <1>3 DEF Covered
<1>5. NotifiedOnce'
  BY <1>3 DEF NotifiedOnce
<1> QED
  BY <1>1, <1>2, <1>4, <1>5

LEMMA ReadingKept ==
  ASSUME NoticeInv, UNCHANGED <<cursorVars, registryVars, notices, workerVars, faults>>,
         phase' \in [Ticks -> Phases], sawLatest' \in [Ticks -> 0 .. MaxSeq],
         sawCursor' \in [Ticks -> [Agents -> 0 .. MaxSeq]]
  PROVE  NoticeInv'
  BY DEF NoticeInv, CursorInv, CursorTypeOK, AskedExists, CursorWithinThread, TypeOK,
         Covered, NotifiedOnce, cursorVars, ackVars, registryVars, workerVars

LEMMA ReconcileKept ==
  ASSUME NoticeInv, NEW s \in Ticks, Reconcile(s)
  PROVE  NoticeInv'
<1> DEFINE w == WorkerOf[s]
           new == {Notice(a, sawLatest[s]) : a \in Candidates(s)}
<1> USE DEF NoticeInv
<1>1. w \in Workers /\ WorkerOf \in [Ticks -> Workers]
  BY ReconciliationAssumption
<1>2. /\ notices' = [notices EXCEPT ![s] = new]
      /\ lastNotified' = [lastNotified EXCEPT ![w] =
           [a \in Agents |-> IF a \in Candidates(s) THEN sawLatest[s] ELSE @[a]]]
      /\ phase' = [phase EXCEPT ![s] = "later"]
      /\ UNCHANGED <<cursorVars, registryVars, sawLatest, sawCursor, logged, faults>>
  BY DEF Reconcile
<1>3. CursorInv'
  BY <1>2 DEF CursorInv, CursorTypeOK, AskedExists, CursorWithinThread, cursorVars, ackVars
<1>4. \A a \in Candidates(s) : a \in Agents /\ sawLatest[s] \in 1 .. MaxSeq
                               /\ sawLatest[s] > lastNotified[w][a]
  BY <1>1, CursorAssumption DEF Candidates, Deduplicated, TypeOK
<1>5. new \subseteq [agent : Agents, latest : 1 .. MaxSeq]
  BY <1>4 DEF Notice
<1>6. lastNotified' \in [Workers -> [Agents -> 0 .. MaxSeq]]
  BY <1>1, <1>2, <1>4 DEF TypeOK
<1>7. TypeOK'
  BY <1>2, <1>3, <1>5, <1>6 DEF TypeOK, CursorInv, Phases, registryVars
<1>8. \A v \in Workers, a \in Agents : lastNotified[v][a] <= lastNotified'[v][a]
  BY <1>1, <1>2, <1>4, CursorAssumption DEF TypeOK
<1>9. \A n \in new : /\ n.latest <= lastNotified'[w][n.agent]
                     /\ n.latest > lastNotified[w][n.agent]
                     /\ n.agent \in Agents
  BY <1>1, <1>2, <1>4, CursorAssumption DEF TypeOK, Notice
<1>10. \A q \in Ticks : notices'[q] = IF q = s THEN new ELSE notices[q]
  BY <1>2 DEF TypeOK
<1>11. Covered'
  <2>1. ASSUME NEW q \in Ticks, NEW n \in notices'[q]
        PROVE  n.latest <= lastNotified'[WorkerOf[q]][n.agent]
    <3>1. CASE q = s
      BY <3>1, <1>9, <1>10, <2>1
    <3>2. CASE q # s
      <4>1. n \in notices[q] /\ WorkerOf[q] \in Workers
        BY <3>2, <1>1, <1>10, <2>1
      <4>2. n.agent \in Agents /\ n.latest \in 1 .. MaxSeq
        BY <4>1 DEF TypeOK
      <4>3. /\ n.latest <= lastNotified[WorkerOf[q]][n.agent]
            /\ lastNotified[WorkerOf[q]][n.agent] <= lastNotified'[WorkerOf[q]][n.agent]
            /\ lastNotified[WorkerOf[q]][n.agent] \in Nat
            /\ lastNotified'[WorkerOf[q]][n.agent] \in Nat
        BY <4>1, <4>2, <1>8, <1>6, CursorAssumption DEF Covered, TypeOK
      <4> QED
        BY <4>2, <4>3, CursorAssumption
    <3> QED
      BY <3>1, <3>2
  <2>2. ASSUME NEW v \in Workers, NEW n \in logged'[v]
        PROVE  n.latest <= lastNotified'[v][n.agent]
    <3>1. n \in logged[v]
      BY <1>2, <2>2
    <3>2. n.agent \in Agents /\ n.latest \in 1 .. MaxSeq
      BY <3>1 DEF TypeOK
    <3>3. /\ n.latest <= lastNotified[v][n.agent]
          /\ lastNotified[v][n.agent] <= lastNotified'[v][n.agent]
          /\ lastNotified[v][n.agent] \in Nat
          /\ lastNotified'[v][n.agent] \in Nat
      BY <3>1, <3>2, <1>8, <1>6, CursorAssumption DEF Covered, TypeOK
    <3> QED
      BY <3>2, <3>3, CursorAssumption
  <2> QED
    BY <2>1, <2>2 DEF Covered
<1>12. \A q \in Ticks : q # s /\ WorkerOf[q] = w => notices[q] \cap new = {}
  <2> SUFFICES ASSUME NEW q \in Ticks, WorkerOf[q] = w, NEW n \in new, n \in notices[q]
               PROVE  FALSE
    OBVIOUS
  <2>1. n.latest <= lastNotified[w][n.agent] /\ n.latest > lastNotified[w][n.agent]
    BY <1>9 DEF Covered
  <2>2. n.latest \in Nat /\ lastNotified[w][n.agent] \in Nat
    BY <1>1, <1>9, CursorAssumption DEF TypeOK
  <2> QED
    BY <2>1, <2>2
<1>13. logged[w] \cap new = {}
  <2> SUFFICES ASSUME NEW n \in new, n \in logged[w] PROVE FALSE
    OBVIOUS
  <2>1. n.latest <= lastNotified[w][n.agent] /\ n.latest > lastNotified[w][n.agent]
    BY <1>1, <1>9 DEF Covered
  <2>2. n.latest \in Nat /\ lastNotified[w][n.agent] \in Nat
    BY <1>1, <1>9, CursorAssumption DEF TypeOK
  <2> QED
    BY <2>1, <2>2
<1>14. NotifiedOnce'
  <2> SUFFICES ASSUME NEW p \in Ticks, NEW q \in Ticks, WorkerOf[p] = WorkerOf[q]
               PROVE  /\ p # q => notices'[p] \cap notices'[q] = {}
                      /\ notices'[p] \cap logged[WorkerOf[p]] = {}
    BY <1>2 DEF NotifiedOnce
  <2>1. CASE p = s
    BY <2>1, <1>10, <1>12, <1>13
  <2>2. CASE p # s
    BY <2>2, <1>10, <1>12 DEF NotifiedOnce
  <2> QED
    BY <2>1, <2>2
<1> QED
  BY <1>3, <1>7, <1>11, <1>14

LEMMA FinishKept ==
  ASSUME NoticeInv, NEW s \in Ticks, FinishTick(s)
  PROVE  NoticeInv'
<1> DEFINE w == WorkerOf[s]
<1> USE DEF NoticeInv
<1>1. w \in Workers /\ WorkerOf \in [Ticks -> Workers]
  BY ReconciliationAssumption
<1>2. /\ logged' = [logged EXCEPT ![w] = @ \cup notices[s]]
      /\ EndTicks({s})
      /\ UNCHANGED <<cursorVars, registryVars, lastNotified, faults>>
  BY DEF FinishTick
<1>3. CursorInv'
  BY <1>2 DEF CursorInv, CursorTypeOK, AskedExists, CursorWithinThread, cursorVars, ackVars
<1>4. \A q \in Ticks : notices'[q] = IF q = s THEN {} ELSE notices[q]
  BY <1>2 DEF EndTicks
<1>5. \A v \in Workers : logged'[v] = IF v = w THEN logged[w] \cup notices[s] ELSE logged[v]
  BY <1>1, <1>2 DEF TypeOK
<1>6. TypeOK'
  <2>1. logged' \in [Workers -> SUBSET [agent : Agents, latest : 1 .. MaxSeq]]
    BY <1>1, <1>2 DEF TypeOK
  <2> QED
    BY <2>1, <1>2, <1>3, CursorAssumption
       DEF TypeOK, CursorInv, EndTicks, NoCursors, Phases, registryVars
<1>7. Covered'
  BY <1>1, <1>2, <1>4, <1>5 DEF Covered
<1>8. NotifiedOnce'
  BY <1>1, <1>4, <1>5 DEF NotifiedOnce
<1> QED
  BY <1>3, <1>6, <1>7, <1>8

LEMMA RestartKept ==
  ASSUME NoticeInv, NEW w \in Workers, Restart(w)
  PROVE  NoticeInv'
<1> USE DEF NoticeInv
<1>1. WorkerOf \in [Ticks -> Workers]
  BY ReconciliationAssumption
<1>2. /\ lastNotified' = [lastNotified EXCEPT ![w] = NoCursors]
      /\ logged' = [logged EXCEPT ![w] = {}]
      /\ EndTicks({s \in Ticks : WorkerOf[s] = w})
      /\ faults < MaxFaults /\ faults' = faults + 1
      /\ UNCHANGED <<cursorVars, registryVars>>
  BY DEF Restart
<1>3. CursorInv'
  BY <1>2 DEF CursorInv, CursorTypeOK, AskedExists, CursorWithinThread, cursorVars, ackVars
<1>4. \A q \in Ticks : notices'[q] = IF WorkerOf[q] = w THEN {} ELSE notices[q]
  BY <1>2 DEF EndTicks
<1>5. \A v \in Workers : /\ logged'[v] = IF v = w THEN {} ELSE logged[v]
                         /\ v # w => lastNotified'[v] = lastNotified[v]
  BY <1>2 DEF TypeOK
<1>6. TypeOK'
  <2>1. /\ logged' \in [Workers -> SUBSET [agent : Agents, latest : 1 .. MaxSeq]]
        /\ lastNotified' \in [Workers -> [Agents -> 0 .. MaxSeq]]
        /\ faults' \in 0 .. MaxFaults
    BY <1>2, CursorAssumption, ReconciliationAssumption DEF TypeOK, NoCursors
  <2> QED
    BY <2>1, <1>2, <1>3, CursorAssumption
       DEF TypeOK, CursorInv, EndTicks, NoCursors, Phases, registryVars
<1>7. Covered'
  BY <1>1, <1>4, <1>5 DEF Covered
<1>8. NotifiedOnce'
  BY <1>1, <1>4, <1>5 DEF NotifiedOnce
<1> QED
  BY <1>3, <1>6, <1>7, <1>8

LEMMA NoticeKept == NoticeInv /\ [Next]_vars => NoticeInv'
<1> SUFFICES ASSUME NoticeInv, [Next]_vars PROVE NoticeInv'
  OBVIOUS
<1> USE DEF NoticeInv
<1>1. ASSUME NEW s \in Ticks, ReadThread(s) PROVE NoticeInv'
  BY <1>1, ReadingKept DEF ReadThread, TypeOK, Phases
<1>2. ASSUME NEW s \in Ticks, ReadLatest(s) PROVE NoticeInv'
  BY <1>2, ReadingKept DEF ReadLatest, TypeOK, CursorTypeOK, Phases
<1>3. ASSUME NEW s \in Ticks, ReadCursors(s) PROVE NoticeInv'
  BY <1>3, ReadingKept DEF ReadCursors, TypeOK, CursorTypeOK, Phases
<1>4. ASSUME NEW s \in Ticks, Reconcile(s) PROVE NoticeInv'
  BY <1>4, ReconcileKept
<1>5. ASSUME NEW s \in Ticks, FinishTick(s) PROVE NoticeInv'
  BY <1>5, FinishKept
<1>6. ASSUME NEW s \in Ticks, TickFails(s) PROVE NoticeInv'
  BY <1>6, EndingKept, ReconciliationAssumption DEF TickFails, TypeOK
<1>7. ASSUME NEW w \in Workers, Restart(w) PROVE NoticeInv'
  BY <1>7, RestartKept
<1>8. ASSUME NEW a \in Agents, Flip(a) PROVE NoticeInv'
  <2>1. CursorInv'
    BY <1>8 DEF Flip, CursorInv, CursorTypeOK, AskedExists, CursorWithinThread,
                cursorVars, ackVars
  <2> QED
    BY <1>8, <2>1, OutsideKept, ReconciliationAssumption DEF Flip, TypeOK
<1>9. CASE CloseThread
  <2>1. CursorInv'
    BY <1>9 DEF CloseThread, CursorInv, CursorTypeOK, AskedExists, CursorWithinThread,
                cursorVars, ackVars
  <2> QED
    BY <1>9, <2>1, OutsideKept, ReconciliationAssumption DEF CloseThread, TypeOK
<1>10. CASE Reading
  <2>1. CursorInv'
    BY <1>10, CursorKept DEF Reading
  <2> QED
    BY <1>10, <2>1, OutsideKept DEF Reading, TypeOK, registryVars
<1>11. CASE UNCHANGED vars
  <2>1. CursorInv'
    BY <1>11 DEF vars, CursorInv, CursorTypeOK, AskedExists, CursorWithinThread,
                 cursorVars, ackVars
  <2> QED
    BY <1>11, <2>1, OutsideKept DEF vars, TypeOK, registryVars
<1> QED
  BY <1>1, <1>2, <1>3, <1>4, <1>5, <1>6, <1>7, <1>8, <1>9, <1>10, <1>11
     DEF Next, TickStep

(* Cursors, sessions, ticks and the notices they raise have their types.   *)
THEOREM TypeCorrect == Spec => []TypeOK
<1>1. NoticeInv => TypeOK
  BY DEF NoticeInv
<1> QED
  BY NoticeInitially, NoticeKept, <1>1, PTL DEF Spec

(* One worker process raises no notice twice, however its ticks overlap.   *)
THEOREM NoticesAreNotRepeated == Spec => []NotifiedOnce
<1>1. NoticeInv => NotifiedOnce
  BY DEF NoticeInv
<1> QED
  BY NoticeInitially, NoticeKept, <1>1, PTL DEF Spec
=============================================================================
