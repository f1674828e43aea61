------------------------ MODULE ThreadLifecycleProofs -----------------------
(***************************************************************************)
(* The thread lifecycle for any number of threads, callers and requests:   *)
(* an inductive invariant, and from it what the audit trail tells, that a  *)
(* disputed close is overridden, and that a thread is never reopened.      *)
(***************************************************************************)
EXTENDS ThreadLifecycle, TLAPS

(* Requests are numbered apart: what is under way and what is in the       *)
(* histories is older than the counter, and no two callers share a number. *)
Numbered ==
  /\ \A c \in Callers : phase[c] # "idle" => request[c].no <= requests
  /\ \A c, d \in Callers :
       c # d /\ phase[c] # "idle" /\ phase[d] # "idle" => request[c].no # request[d].no
  /\ \A e \in changes \cup audits : e.no <= requests

(* A request that has not come to its audit row is in neither history.     *)
Early ==
  \A c \in Callers : phase[c] \in {"reading", "rereading", "writing"} =>
    \A e \in changes \cup audits : e.no # request[c].no

(* What the row about to be audited says is true already.                  *)
Pending ==
  \A c \in Callers : phase[c] = "auditing" =>
    \/ AuditedEntry(c) \in changes
    \/ /\ seen[c] = request[c].next
       /\ \A e \in changes : e.no # request[c].no

(* What a handler read stays true of a closed or resolved thread, and the  *)
(* write it is about to make has passed both of its checks.                *)
Settled == {"resolved", "closed"}
Checked ==
  \A c \in Callers :
    /\ phase[c] \in {"rereading", "writing"} =>
         /\ seen[c] = "closed" => status[request[c].thread] = "closed"
         /\ seen[c] = "resolved" => status[request[c].thread] \in Settled
         /\ ~Refused(seen[c], request[c])
    /\ phase[c] = "writing" =>
         /\ seen[c] = "closed" => request[c].next = "closed"
         /\ seen[c] = "resolved" => request[c].next \in Settled

IInv ==
  /\ TypeOK
  /\ Numbered
  /\ Early
  /\ Pending
  /\ Checked
  /\ DisputedCloseNeedsOverride
  /\ AuditTruthful

-----------------------------------------------------------------------------
(* A step answers a caller, or gives it a new phase.                       *)

LEMMA RequestTypes ==
  /\ \A r \in Request : /\ r.no \in 1 .. MaxRequests /\ r.thread \in Threads
                        /\ r.next \in Statuses /\ r.override \in BOOLEAN
  /\ NoRequest \notin Request
  /\ \A r \in Request, from \in Statuses : Entry(r, from) \in Entries
BY LifecycleAssumption DEF Request, Entry, Entries

LEMMA InitIInv == Init => IInv
BY LifecycleAssumption, RequestTypes
   DEF Init, IInv, TypeOK, Numbered, Early, Pending, Checked, Phases, Statuses,
       DisputedCloseNeedsOverride, AuditTruthful

(* The types, one step per action.                                         *)
LEMMA NextTypeOK == TypeOK /\ [Next]_vars => TypeOK'
<1> SUFFICES ASSUME TypeOK, [Next]_vars PROVE TypeOK'
  OBVIOUS
<1> USE LifecycleAssumption, RequestTypes DEF Phases, TypeOK
<1>1. ASSUME NEW c \in Callers, Receive(c) PROVE TypeOK'
  BY <1>1 DEF Receive
<1>2. ASSUME NEW c \in Callers, ApiRead(c) PROVE TypeOK'
  BY <1>2 DEF ApiRead, Answer, Statuses
<1>3. ASSUME NEW c \in Callers, ApiReadAgain(c) PROVE TypeOK'
  BY <1>3 DEF ApiReadAgain, Answer, Statuses
<1>4. ASSUME NEW c \in Callers, CliRead(c) PROVE TypeOK'
  BY <1>4 DEF CliRead, Answer, Statuses
<1>5. ASSUME NEW c \in Callers, WriteStatus(c) PROVE TypeOK'
  BY <1>5 DEF WriteStatus, Answer, Statuses
<1>6. ASSUME NEW c \in Callers, WriteAudit(c) PROVE TypeOK'
  BY <1>6 DEF WriteAudit, Answer, Statuses, AuditedEntry
<1>7. ASSUME NEW c \in Callers, Fail(c) PROVE TypeOK'
  BY <1>7 DEF Fail, Answer, Statuses
<1>8. ASSUME NEW t \in Threads, MarkBlocked(t) PROVE TypeOK'
  BY <1>8 DEF MarkBlocked, callerVars, Statuses
<1>9. CASE UNCHANGED vars
  BY <1>9 DEF vars, callerVars
<1> QED
  BY <1>1, <1>2, <1>3, <1>4, <1>5, <1>6, <1>7, <1>8, <1>9 DEF Next, Step

(* A caller that is answered no longer counts; the others are as before.   *)
LEMMA NumbersKept ==
  ASSUME TypeOK, Numbered, Early, Pending, [Next]_vars
  PROVE  Numbered' /\ Early' /\ Pending'
<1> USE LifecycleAssumption, RequestTypes DEF TypeOK, Phases
<1>1. ASSUME NEW c \in Callers, Receive(c) PROVE Numbered' /\ Early' /\ Pending'
  <2>1. /\ request'[c].no = requests + 1 /\ phase'[c] = "reading"
        /\ requests' = requests + 1
        /\ \A d \in Callers \ {c} : request'[d] = request[d] /\ phase'[d] = phase[d]
        /\ seen' = seen /\ changes' = changes /\ audits' = audits
    BY <1>1 DEF Receive
  <2>2. \A e \in changes \cup audits : e.no \in Nat /\ e.no <= requests
    BY DEF Numbered, Entries
  <2>3. \A d \in Callers : phase[d] # "idle" =>
          request[d].no \in Nat /\ request[d].no <= requests
    BY DEF Numbered
  <2>4. requests \in Nat
    OBVIOUS
  <2>5. Numbered'
    BY <2>1, <2>2, <2>3, <2>4 DEF Numbered
  <2>6. Early'
    BY <2>1, <2>2, <2>4 DEF Early
  <2>7. Pending'
    BY <2>1 DEF Pending, AuditedEntry
  <2> QED
    BY <2>5, <2>6, <2>7
<1>2. ASSUME NEW c \in Callers, ApiRead(c) PROVE Numbered' /\ Early' /\ Pending'
  BY <1>2 DEF ApiRead, Answer, Numbered, Early, Pending, AuditedEntry, Entry
<1>3. ASSUME NEW c \in Callers, ApiReadAgain(c) PROVE Numbered' /\ Early' /\ Pending'
  BY <1>3 DEF ApiReadAgain, Answer, Numbered, Early, Pending, AuditedEntry, Entry
<1>4. ASSUME NEW c \in Callers, CliRead(c) PROVE Numbered' /\ Early' /\ Pending'
  BY <1>4 DEF CliRead, Answer, Numbered, Early, Pending, AuditedEntry, Entry
<1>5. ASSUME NEW c \in Callers, WriteStatus(c) PROVE Numbered' /\ Early' /\ Pending'
  <2>1. CASE phase' = [phase EXCEPT ![c] = "auditing"]
    <3>1. /\ changes' = changes \cup {Entry(request[c], seen[c])}
          /\ request' = request /\ seen' = seen /\ audits' = audits
          /\ requests' = requests /\ phase[c] = "writing"
      BY <1>5, <2>1 DEF WriteStatus, Matches, Answer
    <3>2. Entry(request[c], seen[c]).no = request[c].no
      BY DEF Entry
    <3>3. Numbered' /\ Early'
      BY <2>1, <3>1, <3>2 DEF Numbered, Early
    <3>4. Pending'
      BY <2>1, <3>1, <3>2 DEF Numbered, Pending, AuditedEntry
    <3> QED
      BY <3>3, <3>4
  <2>2. CASE Answer(c) /\ UNCHANGED changes
    BY <1>5, <2>2 DEF WriteStatus, Answer, Numbered, Early, Pending, AuditedEntry
  <2> QED
    BY <1>5, <2>1, <2>2 DEF WriteStatus
<1>6. ASSUME NEW c \in Callers, WriteAudit(c) PROVE Numbered' /\ Early' /\ Pending'
  BY <1>6 DEF WriteAudit, Answer, Numbered, Early, Pending, AuditedEntry, Entry
<1>7. ASSUME NEW c \in Callers, Fail(c) PROVE Numbered' /\ Early' /\ Pending'
  BY <1>7 DEF Fail, Answer, Numbered, Early, Pending, AuditedEntry, Entry
<1>8. ASSUME NEW t \in Threads, MarkBlocked(t) PROVE Numbered' /\ Early' /\ Pending'
  BY <1>8 DEF MarkBlocked, callerVars, Numbered, Early, Pending, AuditedEntry, Entry
<1>9. CASE UNCHANGED vars
  BY <1>9 DEF vars, callerVars, Numbered, Early, Pending, AuditedEntry, Entry
<1> QED
  BY <1>1, <1>2, <1>3, <1>4, <1>5, <1>6, <1>7, <1>8, <1>9 DEF Next, Step
-----------------------------------------------------------------------------
(* No step leaves the closed status, and the resolved one only for it:     *)
(* a write that matches a settled thread has seen it settled, and was      *)
(* then checked against a thread that had settled already.                 *)
LEMMA StepNeverReopens ==
  ASSUME TypeOK, Checked, [Next]_vars, NEW t \in Threads
  PROVE  /\ status[t] = "closed" => status'[t] = "closed"
         /\ status[t] = "resolved" => status'[t] \in Settled
<1> USE RequestTypes DEF TypeOK, Settled
<1>1. ASSUME NEW c \in Callers, WriteStatus(c)
      PROVE  /\ status[t] = "closed" => status'[t] = "closed"
             /\ status[t] = "resolved" => status'[t] \in Settled
  BY <1>1 DEF WriteStatus, Matches, Checked
<1>2. ASSUME NEW c \in Callers,
             Receive(c) \/ ApiRead(c) \/ ApiReadAgain(c) \/ CliRead(c)
               \/ WriteAudit(c) \/ Fail(c)
      PROVE  status' = status
  BY <1>2 DEF Receive, ApiRead, ApiReadAgain, CliRead, WriteAudit, Fail
<1>3. ASSUME NEW u \in Threads, MarkBlocked(u)
      PROVE  /\ status[t] = "closed" => status'[t] = "closed"
             /\ status[t] = "resolved" => status'[t] \in Settled
  BY <1>3 DEF MarkBlocked
<1>4. CASE UNCHANGED vars
  BY <1>4 DEF vars
<1> QED
  BY <1>1, <1>2, <1>3, <1>4 DEF Next, Step

(* The caller that moves passes a check; what the others have seen of a    *)
(* settled thread stays true by the lemma above.                           *)
LEMMA CheckedKept ==
  ASSUME TypeOK, Checked, [Next]_vars
  PROVE  Checked'
<1> USE RequestTypes, LifecycleAssumption DEF TypeOK, Settled, Callers
<1>1. \A t \in Threads : /\ status[t] = "closed" => status'[t] = "closed"
                         /\ status[t] = "resolved" => status'[t] \in Settled
  BY StepNeverReopens
<1>2. ASSUME NEW c \in Callers, Receive(c) PROVE Checked'
  BY <1>1, <1>2 DEF Receive, Checked
<1>3. ASSUME NEW c \in Callers, ApiRead(c) PROVE Checked'
  BY <1>1, <1>3 DEF ApiRead, Answer, Checked
<1>4. ASSUME NEW c \in Callers, ApiReadAgain(c) PROVE Checked'
  BY <1>1, <1>4 DEF ApiReadAgain, Answer, CanTransition, Transitions, Checked
<1>5. ASSUME NEW c \in Callers, CliRead(c) PROVE Checked'
  BY <1>1, <1>5 DEF CliRead, Answer, CanTransition, Transitions, Checked
<1>6. ASSUME NEW c \in Callers, WriteStatus(c) PROVE Checked'
  BY <1>1, <1>6 DEF WriteStatus, Answer, Checked
<1>7. ASSUME NEW c \in Callers, WriteAudit(c) \/ Fail(c) PROVE Checked'
  BY <1>1, <1>7 DEF WriteAudit, Fail, Answer, Checked
<1>8. ASSUME NEW t \in Threads, MarkBlocked(t) PROVE Checked'
  BY <1>1, <1>8 DEF MarkBlocked, callerVars, Checked
<1>9. CASE UNCHANGED vars
  BY <1>9 DEF vars, callerVars, Checked
<1> QED
  BY <1>2, <1>3, <1>4, <1>5, <1>6, <1>7, <1>8, <1>9 DEF Next, Step

-----------------------------------------------------------------------------
(* A disputed close that matches a row was read as blocked, and refused    *)
(* unless it had an override.                                              *)
LEMMA DisputesKept ==
  ASSUME TypeOK, Checked, DisputedCloseNeedsOverride, [Next]_vars
  PROVE  DisputedCloseNeedsOverride'
<1> USE RequestTypes DEF TypeOK, DisputedCloseNeedsOverride
<1>1. ASSUME NEW c \in Callers, WriteStatus(c) PROVE DisputedCloseNeedsOverride'
  BY <1>1 DEF WriteStatus, Matches, Checked, Refused, NeedsOverride, Entry
<1>2. ASSUME NEW c \in Callers,
             Receive(c) \/ ApiRead(c) \/ ApiReadAgain(c) \/ CliRead(c)
               \/ WriteAudit(c) \/ Fail(c)
      PROVE  changes' = changes
  BY <1>2 DEF Receive, ApiRead, ApiReadAgain, CliRead, WriteAudit, Fail
<1>3. ASSUME NEW t \in Threads, MarkBlocked(t) PROVE changes' = changes
  BY <1>3 DEF MarkBlocked
<1>4. CASE UNCHANGED vars
  BY <1>4 DEF vars
<1> QED
  BY <1>1, <1>2, <1>3, <1>4 DEF Next, Step

(* The row that is audited is pending; a later change has another number.  *)
LEMMA TruthKept ==
  ASSUME TypeOK, Numbered, Early, Pending, AuditTruthful, [Next]_vars
  PROVE  AuditTruthful'
<1> USE RequestTypes DEF TypeOK, AuditTruthful
<1>1. ASSUME NEW c \in Callers, WriteStatus(c) PROVE AuditTruthful'
  BY <1>1 DEF WriteStatus, Early, Entry
<1>2. ASSUME NEW c \in Callers, WriteAudit(c) PROVE AuditTruthful'
  BY <1>2 DEF WriteAudit, Pending, AuditedEntry, Entry
<1>3. ASSUME NEW c \in Callers,
             Receive(c) \/ ApiRead(c) \/ ApiReadAgain(c) \/ CliRead(c) \/ Fail(c)
      PROVE  changes' = changes /\ audits' = audits
  BY <1>3 DEF Receive, ApiRead, ApiReadAgain, CliRead, Fail
<1>4. ASSUME NEW t \in Threads, MarkBlocked(t)
      PROVE  changes' = changes /\ audits' = audits
  BY <1>4 DEF MarkBlocked
<1>5. CASE UNCHANGED vars
  BY <1>5 DEF vars
<1> QED
  BY <1>1, <1>2, <1>3, <1>4, <1>5 DEF Next, Step

-----------------------------------------------------------------------------
LEMMA InvariantHolds == Spec => []IInv
<1>1. IInv /\ [Next]_vars => IInv'
  BY NextTypeOK, NumbersKept, CheckedKept, DisputesKept, TruthKept DEF IInv
<1> QED
  BY InitIInv, <1>1, PTL DEF Spec

(* The tables and the callers keep their types.                            *)
THEOREM TypeCorrect == Spec => []TypeOK
<1>1. IInv => TypeOK
  BY DEF IInv
<1> QED
  BY InvariantHolds, <1>1, PTL

(* Whoever races, a blocked thread is closed only with an override reason. *)
THEOREM DisputesAreOverridden == Spec => []DisputedCloseNeedsOverride
<1>1. IInv => DisputedCloseNeedsOverride
  BY DEF IInv
<1> QED
  BY InvariantHolds, <1>1, PTL

(* Every audit row tells what its request did.                             *)
THEOREM AuditIsTruthful == Spec => []AuditTruthful
<1>1. IInv => AuditTruthful
  BY DEF IInv
<1> QED
  BY InvariantHolds, <1>1, PTL

(* Closed threads stay closed, resolved ones are only ever closed.         *)
THEOREM ThreadsAreNeverReopened == Spec => NeverReopened
<1>1. IInv /\ [Next]_vars =>
        [\A t \in Threads :
           /\ status[t] = "closed" => status'[t] = "closed"
           /\ status[t] = "resolved" => status'[t] \in {"resolved", "closed"}]_vars
  BY StepNeverReopens DEF IInv, Settled
<1> QED
  BY InvariantHolds, <1>1, PTL DEF Spec, NeverReopened
-----------------------------------------------------------------------------
(* A change without its audit row is one that a caller is about to audit,  *)
(* word for word, or its request failed.                                   *)
Auditing(e) == \E c \in Callers : phase[c] = "auditing" /\ AuditedEntry(c) = e
Accounted(e) == e \in audits \/ e.no \in failed \/ Auditing(e)

LEMMA AccountedKept ==
  ASSUME TypeOK, \A e \in changes : Accounted(e), [Next]_vars
  PROVE  \A e \in changes' : Accounted(e)'
<1>1. SUFFICES ASSUME NEW e \in changes' PROVE Accounted(e)'
  OBVIOUS
<1>2. audits \subseteq audits' /\ failed \subseteq failed'
  BY DEF Next, Step, Receive, ApiRead, ApiReadAgain, CliRead, WriteStatus, WriteAudit,
         Fail, MarkBlocked, vars, TypeOK
(* The caller that is about to audit goes on with it, does it, or fails.   *)
<1>3. ASSUME NEW c \in Callers, phase[c] = "auditing", AuditedEntry(c) = e
      PROVE  Accounted(e)'
  <2>1. CASE WriteAudit(c)
    BY <1>3, <2>1 DEF WriteAudit, Accounted
  <2>2. CASE Fail(c)
    <3>1. e.no = request[c].no
      BY <1>3 DEF AuditedEntry, Entry
    <3> QED
      BY <2>2, <3>1 DEF Fail, Accounted
  <2>3. CASE ~WriteAudit(c) /\ ~Fail(c)
    <3>1. phase'[c] = phase[c] /\ request'[c] = request[c] /\ seen'[c] = seen[c]
      BY <1>3, <2>3 DEF Next, Step, Receive, ApiRead, ApiReadAgain, CliRead, WriteStatus,
         WriteAudit, Fail, MarkBlocked, Answer, callerVars, vars, TypeOK
    <3>2. phase'[c] = "auditing" /\ AuditedEntry(c)' = e
      BY <1>3, <3>1 DEF AuditedEntry, Entry
    <3> QED
      BY <3>2 DEF Accounted, Auditing
  <2> QED
    BY <2>1, <2>2, <2>3
<1>4. CASE e \in changes
  BY <1>2, <1>3, <1>4 DEF Accounted, Auditing
(* A new change is that of a caller which goes on to audit it.             *)
<1>5. ASSUME e \notin changes
      PROVE  \E c \in Callers : /\ WriteStatus(c) /\ phase' = [phase EXCEPT ![c] = "auditing"]
                               /\ e = AuditedEntry(c) /\ UNCHANGED <<request, seen>>
  BY <1>1, <1>5 DEF Next, Step, Receive, ApiRead, ApiReadAgain, CliRead, WriteStatus,
     WriteAudit, Fail, MarkBlocked, vars, Matches, AuditedEntry
<1>6. CASE e \notin changes
  <2>1. PICK c \in Callers : /\ phase' = [phase EXCEPT ![c] = "auditing"]
                             /\ e = AuditedEntry(c) /\ UNCHANGED <<request, seen>>
    BY <1>5, <1>6
  <2>2. phase'[c] = "auditing" /\ AuditedEntry(c)' = e
    BY <2>1 DEF AuditedEntry, TypeOK
  <2> QED
    BY <2>2 DEF Accounted, Auditing
<1> QED
  BY <1>4, <1>6

(* A change has its audit row, or will have it, unless its request failed. *)
THEOREM ChangesAreAudited == Spec => []UnauditedOnlyByFault
<1> DEFINE AllAccounted == \A e \in changes : Accounted(e)
<1>1. Init => AllAccounted
  BY DEF Init
<1>2. TypeOK /\ AllAccounted /\ [Next]_vars => AllAccounted'
  BY AccountedKept
<1>3. AllAccounted => UnauditedOnlyByFault
  BY DEF Accounted, Auditing, UnauditedOnlyByFault, AuditedEntry, Entry
<1> HIDE DEF AllAccounted
<1> QED
  BY <1>1, <1>2, <1>3, TypeCorrect, PTL DEF Spec
=============================================================================
