--------------------------- MODULE ThreadLifecycle --------------------------
(***************************************************************************)
(* The status of a thread, and who changes it at one time:                 *)
(*   - update_thread_status of the bridge API (app.ts, thread-store.ts),   *)
(*   - the operator's command line (service.ts),                           *)
(*   - the worker's loop guard (markThreadBlocked of trigger-queue.ts).    *)
(*                                                                         *)
(* A caller is a slot for one request under way; its phases are the awaits *)
(* of the handler.  The API reads the thread twice, once in the handler    *)
(* and once in the store, and writes on condition of the first reading.    *)
(*                                                                         *)
(* changes, audits and failed are histories: the writes that matched a     *)
(* row, the rows of audit_events with result "success", and the requests   *)
(* that ended in a fault.  All name the request, so that an audit row and  *)
(* the write it speaks of can be matched.                                  *)
(*                                                                         *)
(* An operator with "Wrong" in its name is the definition after it with a  *)
(* plausible mistake in the code.                                          *)
(***************************************************************************)
EXTENDS Naturals, FiniteSets

CONSTANTS
  Threads,
  Api, Cli,      \* concurrent requests: of the API, of the command line
  NoRequest,     \* the request of a caller that is idle
  MaxRequests,   \* bound: requests ever made
  MaxBlocks,     \* bound: threads ever blocked by the loop guard
  MaxFaults      \* bound: callers that die or fail to write their audit row

Callers == Api \cup Cli
Statuses == {"active", "blocked", "resolved", "closed"}

ASSUME LifecycleAssumption ==
  /\ Api \cap Cli = {}
  /\ NoRequest \notin [no : Nat, thread : Threads, next : Statuses, override : BOOLEAN]
  /\ MaxRequests \in Nat /\ MaxBlocks \in Nat /\ MaxFaults \in Nat


(* transitionMap of thread.ts.                                             *)
TransitionsWrongReopen(from) ==
  CASE from = "active"   -> {"blocked", "resolved", "closed"}
    [] from = "blocked"  -> {"active", "closed"}
    [] from = "resolved" -> {"active", "closed"}
    [] from = "closed"   -> {}
Transitions(from) ==
  CASE from = "active"   -> {"blocked", "resolved", "closed"}
    [] from = "blocked"  -> {"active", "closed"}
    [] from = "resolved" -> {"closed"}
    [] from = "closed"   -> {}

CanTransition(from, to) == from = to \/ to \in Transitions(from)

VARIABLES
  status,    \* the threads table
  request,   \* request[c]: what the caller was asked for
  phase,     \* phase[c]: the await it is at
  seen,      \* seen[c]: the status its handler read
  changes, audits, requests, blocks, failed

callerVars == <<request, phase, seen>>
vars == <<status, callerVars, changes, audits, requests, blocks, failed>>

Phases == {"idle", "reading", "rereading", "writing", "auditing"}
Request == [no : 1 .. MaxRequests, thread : Threads, next : Statuses,
            override : BOOLEAN]
Entry(r, from) == [no |-> r.no, thread |-> r.thread, from |-> from, to |-> r.next,
                   override |-> r.override]
Entries == [no : 1 .. MaxRequests, thread : Threads, from : Statuses,
            to : Statuses, override : BOOLEAN]

Init ==
  /\ status = [t \in Threads |-> "active"]
  /\ request = [c \in Callers |-> NoRequest]
  /\ phase = [c \in Callers |-> "idle"]
  /\ seen = [c \in Callers |-> "active"]
  /\ changes = {} /\ audits = {}
  /\ requests = 0 /\ blocks = 0 /\ failed = {}

-----------------------------------------------------------------------------
(* A coordinator's request; other roles are refused before anything is     *)
(* read.  The command line has no command that resolves a thread.          *)
Receive(c) ==
  /\ phase[c] = "idle"
  /\ requests < MaxRequests
  /\ requests' = requests + 1
  /\ \E r \in Request :
       /\ r.no = requests + 1
       /\ c \in Cli => r.next # "resolved"
       /\ request' = [request EXCEPT ![c] = r]
  /\ phase' = [phase EXCEPT ![c] = "reading"]
  /\ UNCHANGED <<status, seen, changes, audits, blocks, failed>>

Answer(c) ==
  /\ request' = [request EXCEPT ![c] = NoRequest]
  /\ phase' = [phase EXCEPT ![c] = "idle"]
  /\ seen' = [seen EXCEPT ![c] = "active"]

(* Closing a blocked thread needs a reason that starts with an override    *)
(* prefix.                                                                 *)
NeedsOverride(from, r) == from = "blocked" /\ r.next = "closed"
Refused(from, r) == NeedsOverride(from, r) /\ ~r.override

(* getThreadById in the handler of update_thread_status.                   *)
ApiRead(c) ==
  LET now == status[request[c].thread]
  IN  /\ c \in Api /\ phase[c] = "reading"
      /\ \/ /\ Refused(now, request[c])
            /\ Answer(c)
         \/ /\ ~Refused(now, request[c])
            /\ seen' = [seen EXCEPT ![c] = now]
            /\ phase' = [phase EXCEPT ![c] = "rereading"]
            /\ UNCHANGED request
      /\ UNCHANGED <<status, changes, audits, requests, blocks, failed>>

(* getThreadById in updateThreadStatus of the store: the transition is     *)
(* checked against this reading.                                           *)
ApiReadAgain(c) ==
  /\ phase[c] = "rereading"
  /\ \/ /\ CanTransition(status[request[c].thread], request[c].next)
        /\ phase' = [phase EXCEPT ![c] = "writing"]
        /\ UNCHANGED <<request, seen>>
     \/ /\ ~CanTransition(status[request[c].thread], request[c].next)
        /\ Answer(c)
  /\ UNCHANGED <<status, changes, audits, requests, blocks, failed>>

(* transitionThreadStatus of the command line: the same status is audited  *)
(* without a write.                                                        *)
CliRead(c) ==
  LET r == request[c]
      now == status[r.thread]
  IN  /\ c \in Cli /\ phase[c] = "reading"
      /\ \/ /\ now = r.next
            /\ seen' = [seen EXCEPT ![c] = now]
            /\ phase' = [phase EXCEPT ![c] = "auditing"]
            /\ UNCHANGED request
         \/ /\ now # r.next
            /\ CanTransition(now, r.next) /\ ~Refused(now, r)
            /\ seen' = [seen EXCEPT ![c] = now]
            /\ phase' = [phase EXCEPT ![c] = "writing"]
            /\ UNCHANGED request
         \/ /\ now # r.next
            /\ ~CanTransition(now, r.next) \/ Refused(now, r)
            /\ Answer(c)
      /\ UNCHANGED <<status, changes, audits, requests, blocks, failed>>

(* The UPDATE of both: on condition that the row has the status read       *)
(* first; no matching row is answered with a conflict.                     *)
MatchesWrongAlways(now, expected) == TRUE
Matches(now, expected) == now = expected

WriteStatus(c) ==
  LET r == request[c]
  IN  /\ phase[c] = "writing"
      /\ \/ /\ Matches(status[r.thread], seen[c])
            /\ status' = [status EXCEPT ![r.thread] = r.next]
            /\ changes' = changes \cup {Entry(r, status[r.thread])}
            /\ phase' = [phase EXCEPT ![c] = "auditing"]
            /\ UNCHANGED <<request, seen>>
         \/ /\ ~Matches(status[r.thread], seen[c])
            /\ Answer(c)
            /\ UNCHANGED <<status, changes>>
      /\ UNCHANGED <<audits, requests, blocks, failed>>

AuditedEntryWrongNoFrom(c) ==
  LET r == request[c]
  IN  [no |-> r.no, thread |-> r.thread, to |-> r.next, override |-> r.override]
AuditedEntryWrongReread(c) == Entry(request[c], status[request[c].thread])
AuditedEntry(c) == Entry(request[c], seen[c])

WriteAudit(c) ==
  /\ phase[c] = "auditing"
  /\ audits' = audits \cup {AuditedEntry(c)}
  /\ Answer(c)
  /\ UNCHANGED <<status, changes, requests, blocks, failed>>

(* The insertion of the audit row fails, which the API swallows and the    *)
(* command line reports after the status is changed, or the process dies:  *)
(* nothing that was written is taken back.                                 *)
Fail(c) ==
  /\ phase[c] # "idle"
  /\ Cardinality(failed) < MaxFaults
  /\ failed' = failed \cup {request[c].no}
  /\ Answer(c)
  /\ UNCHANGED <<status, changes, audits, requests, blocks>>

(* The loop guard blocks the thread if it is active, and writes no audit   *)
(* row.                                                                    *)
MarkBlocked(t) ==
  /\ blocks < MaxBlocks
  /\ blocks' = blocks + 1
  /\ status[t] = "active"
  /\ status' = [status EXCEPT ![t] = "blocked"]
  /\ UNCHANGED <<callerVars, changes, audits, requests, failed>>

-----------------------------------------------------------------------------
Step(c) ==
  \/ Receive(c) \/ ApiRead(c) \/ ApiReadAgain(c) \/ CliRead(c)
  \/ WriteStatus(c) \/ WriteAudit(c) \/ Fail(c)

Next ==
  \/ \E c \in Callers : Step(c)
  \/ \E t \in Threads : MarkBlocked(t)

Spec == Init /\ [][Next]_vars

-----------------------------------------------------------------------------
(* The tables and the requests under way: a caller has a request exactly   *)
(* while it is at one of the handler's awaits.                             *)
TypeOK ==
  /\ status \in [Threads -> Statuses]
  /\ phase \in [Callers -> Phases]
  /\ request \in [Callers -> Request \cup {NoRequest}]
  /\ \A c \in Callers : phase[c] # "idle" <=> request[c] \in Request
  /\ seen \in [Callers -> Statuses]
  /\ changes \subseteq Entries /\ audits \subseteq Entries
  /\ requests \in 0 .. MaxRequests
  /\ blocks \in 0 .. MaxBlocks /\ failed \subseteq 1 .. MaxRequests

(* A closed thread stays closed and a resolved one can only be closed,     *)
(* although the API checks a transition against another reading than the   *)
(* one its write depends on, and three kinds of writers interleave.        *)
NeverReopened ==
  [][\A t \in Threads :
       /\ status[t] = "closed" => status'[t] = "closed"
       /\ status[t] = "resolved" => status'[t] \in {"resolved", "closed"}]_vars

(* A blocked thread is closed only by a request with an override reason:   *)
(* a block that arrives after the request was read is never closed over.   *)
DisputedCloseNeedsOverride ==
  \A e \in changes : e.from = "blocked" /\ e.to = "closed" => e.override

(* An audit row tells what its request did: the status it left, the status *)
(* it set; or it confirms a status and the request wrote nothing else.     *)
AuditTruthful ==
  \A a \in audits :
    \/ a \in changes
    \/ a.from = a.to /\ \A e \in changes : e.no # a.no

(* Every change made by the API or the command line has its audit row,     *)
(* unless its caller is about to write it or failed: the failure of        *)
(* another request costs no audit row.                                     *)
UnauditedOnlyByFault ==
  \A e \in changes :
    \/ e \in audits
    \/ e.no \in failed
    \/ \E c \in Callers : phase[c] = "auditing" /\ request[c].no = e.no
=============================================================================
