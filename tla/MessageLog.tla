----------------------------- MODULE MessageLog -----------------------------
(***************************************************************************)
(* post_message and read_messages of the bridge API (app.ts, message part  *)
(* of thread-store.ts) on one thread.                                      *)
(*                                                                         *)
(* A poster is a slot for a request under way; its phases are the awaits   *)
(* of the handler.  The sequence number of a message is computed from a    *)
(* reading of the latest one; the unique indexes of the table messages     *)
(* reject what two requests computed alike.  The loop around the insertion *)
(* goes round again only for an error with a code of its own (app.ts:193), *)
(* and drizzle-orm 0.44 throws the database's error inside one without:    *)
(* its body runs once.  A body stands for all that a replay compares       *)
(* beside the parent: schema version, kind, body and metadata.             *)
(*                                                                         *)
(* answers is a history: what was asked and what was answered.             *)
(*                                                                         *)
(* An operator with "Wrong" in its name is the definition after it with a  *)
(* plausible mistake in the code.                                          *)
(***************************************************************************)
EXTENDS Naturals, FiniteSets

CONSTANTS
  Agents, Keys, NoKey, Bodies,
  Posters, Readers,   \* concurrent requests; clients that page through
  NoRequest,          \* the request of an idle poster
  PageSize,           \* limit of read_messages
  MaxRequests,        \* bound: requests ever made
  MaxFaults,          \* bound: lost connections and dead processes
  MayReply            \* bound: whether messages reply

ASSUME MessageLogAssumption ==
  /\ NoKey \notin Keys
  /\ NoRequest \notin [no : Nat, agent : Agents, key : Keys \cup {NoKey},
                       body : Bodies, parent : Nat, before : Nat]
  /\ PageSize \in Nat \ {0}
  /\ MaxRequests \in Nat /\ MaxFaults \in Nat
  /\ MayReply \in BOOLEAN

VARIABLES
  log,        \* the rows of messages of this thread
  request, phase,
  nextSeq,    \* the sequence number computed for the insertion
  failure,    \* why the insertion failed: a clash, or a lost connection
  reached, received,   \* of each reader: next_seq, and what it was given
  answers, requests, faults

posterVars == <<request, phase, nextSeq, failure>>
readerVars == <<reached, received>>
vars == <<log, posterVars, readerVars, answers, requests, faults>>

Seqs == 1 .. MaxRequests
Rows == [seq : Seqs, agent : Agents, key : Keys \cup {NoKey}, body : Bodies,
         parent : 0 .. MaxRequests]
Request == [no : 1 .. MaxRequests, agent : Agents, key : Keys \cup {NoKey},
            body : Bodies, parent : 0 .. MaxRequests, before : 0 .. MaxRequests]
Phases == {"idle", "parent", "lookup", "latest", "insert", "caught"}
Outcomes == {"stored", "replayed", "idempotency_conflict", "refused", "clash", "lost"}
Row(r, seq) == [seq |-> seq, agent |-> r.agent, key |-> r.key, body |-> r.body,
                parent |-> r.parent]

Init ==
  /\ log = {}
  /\ request = [p \in Posters |-> NoRequest]
  /\ phase = [p \in Posters |-> "idle"]
  /\ nextSeq = [p \in Posters |-> 0]
  /\ failure = [p \in Posters |-> "none"]
  /\ reached = [r \in Readers |-> 0]
  /\ received = [r \in Readers |-> {}]
  /\ answers = {} /\ requests = 0 /\ faults = 0

-----------------------------------------------------------------------------
(* getLatestMessageSeq: the greatest sequence number, 0 in an empty thread. *)
Latest == IF log = {} THEN 0
          ELSE CHOOSE n \in {m.seq : m \in log} : \A m \in log : m.seq <= n

(* getMessageByIdempotency.                                                *)
SameKeyWrongAnyAgent(r) == {m \in log : r.key # NoKey /\ m.key = r.key}
SameKey(r) == {m \in log : r.key # NoKey /\ m.agent = r.agent /\ m.key = r.key}

(* isIdempotentReplayMatch.                                                *)
ReplayMatchWrongAny(m, r) == TRUE
ReplayMatch(m, r) == m.body = r.body /\ m.parent = r.parent

(* The unique indexes of messages.                                         *)
ClashesWrongNoSeqIndex(r, seq) == SameKey(r) # {}
ClashesWrongNoKeyIndex(r, seq) == \E m \in log : m.seq = seq
Clashes(r, seq) == (\E m \in log : m.seq = seq) \/ SameKey(r) # {}

(* The request is over, with an answer for the client.                     *)
Reset(p) ==
  /\ request' = [request EXCEPT ![p] = NoRequest]
  /\ phase' = [phase EXCEPT ![p] = "idle"]
  /\ nextSeq' = [nextSeq EXCEPT ![p] = 0]
  /\ failure' = [failure EXCEPT ![p] = "none"]

Answer(p, outcome, seq) ==
  /\ answers' = answers \cup {[request |-> request[p], outcome |-> outcome,
                               seq |-> seq, after |-> Cardinality(log)]}
  /\ Reset(p)

GoTo(p, next) ==
  /\ phase' = [phase EXCEPT ![p] = next]
  /\ UNCHANGED <<request, answers>>

-----------------------------------------------------------------------------
Receive(p) ==
  /\ phase[p] = "idle"
  /\ requests < MaxRequests
  /\ requests' = requests + 1
  /\ \E r \in Request :
       /\ r.no = requests + 1 /\ r.before = Cardinality(log)
       /\ MayReply \/ r.parent = 0
       /\ request' = [request EXCEPT ![p] = r]
       /\ phase' = [phase EXCEPT ![p] =
            IF r.parent # 0 THEN "parent" ELSE IF r.key # NoKey THEN "lookup" ELSE "latest"]
  /\ UNCHANGED <<log, nextSeq, failure, readerVars, answers, faults>>

(* getMessageById of in_reply_to.                                          *)
ParentFound(r) == \E m \in log : m.seq = r.parent

CheckParent(p) ==
  /\ phase[p] = "parent"
  /\ \/ /\ ParentFound(request[p])
        /\ GoTo(p, IF request[p].key # NoKey THEN "lookup" ELSE "latest")
        /\ UNCHANGED <<nextSeq, failure>>
     \/ /\ ~ParentFound(request[p])
        /\ Answer(p, "refused", 0)
  /\ UNCHANGED <<log, readerVars, requests, faults>>

(* A message with the request's key answers it.                            *)
Replay(p, m) ==
  IF ReplayMatch(m, request[p])
  THEN Answer(p, "replayed", m.seq)
  ELSE Answer(p, "idempotency_conflict", m.seq)

LookupKey(p) ==
  /\ phase[p] = "lookup"
  /\ \/ \E m \in SameKey(request[p]) : Replay(p, m)
     \/ /\ SameKey(request[p]) = {}
        /\ GoTo(p, "latest")
        /\ UNCHANGED <<nextSeq, failure>>
  /\ UNCHANGED <<log, readerVars, requests, faults>>

(* getNextMessageSequence.                                                 *)
NextSeqWrongLatest(latest) == latest
NextSeq(latest) == latest + 1

ReadLatest(p) ==
  /\ phase[p] = "latest"
  /\ nextSeq' = [nextSeq EXCEPT ![p] = NextSeq(Latest)]
  /\ GoTo(p, "insert")
  /\ UNCHANGED <<log, failure, readerVars, requests, faults>>

(* createMessage.                                                          *)
Insert(p) ==
  /\ phase[p] = "insert"
  /\ ~Clashes(request[p], nextSeq[p])
  /\ log' = log \cup {Row(request[p], nextSeq[p])}
  /\ Answer(p, "stored", nextSeq[p])
  /\ UNCHANGED <<readerVars, requests, faults>>

InsertClashes(p) ==
  /\ phase[p] = "insert"
  /\ Clashes(request[p], nextSeq[p])
  /\ failure' = [failure EXCEPT ![p] = "clash"]
  /\ GoTo(p, "caught")
  /\ UNCHANGED <<log, nextSeq, readerVars, requests, faults>>

(* The connection is lost: the row may have been stored nevertheless.      *)
InsertUnreported(p) ==
  /\ phase[p] = "insert"
  /\ faults < MaxFaults
  /\ faults' = faults + 1
  /\ \/ UNCHANGED log
     \/ /\ ~Clashes(request[p], nextSeq[p])
        /\ log' = log \cup {Row(request[p], nextSeq[p])}
  /\ failure' = [failure EXCEPT ![p] = "lost"]
  /\ GoTo(p, "caught")
  /\ UNCHANGED <<nextSeq, readerVars, requests>>

(* The catch block: a message with the request's key answers it; without   *)
(* one the client is told of an internal error, whatever the reason was,   *)
(* which only the history keeps apart.                                     *)
Catch(p) ==
  /\ phase[p] = "caught"
  /\ \/ \E m \in SameKey(request[p]) : Replay(p, m)
     \/ /\ SameKey(request[p]) = {}
        /\ Answer(p, failure[p], 0)
  /\ UNCHANGED <<log, readerVars, requests, faults>>

(* The process of the API stops: the client gets no answer.                *)
Die(p) ==
  /\ phase[p] # "idle"
  /\ faults < MaxFaults
  /\ faults' = faults + 1
  /\ Reset(p)
  /\ UNCHANGED <<log, readerVars, answers, requests>>

-----------------------------------------------------------------------------
(* read_messages with since_seq = the next_seq of the page before: the     *)
(* first PageSize rows after it, in order.                                 *)
After(r) == {m \in log : m.seq > reached[r]}

ReadPage(r) ==
  \E page \in SUBSET After(r) :
    /\ page # {}
    /\ \/ page = After(r) /\ Cardinality(page) <= PageSize
       \/ Cardinality(page) = PageSize
    /\ \A m \in page, n \in After(r) \ page : m.seq < n.seq
    /\ \E m \in page :
         /\ \A n \in page : n.seq <= m.seq
         /\ reached' = [reached EXCEPT ![r] = m.seq]
    /\ received' = [received EXCEPT ![r] = @ \cup page]
    /\ UNCHANGED <<log, posterVars, answers, requests, faults>>

-----------------------------------------------------------------------------
Step(p) ==
  \/ Receive(p) \/ CheckParent(p) \/ LookupKey(p) \/ ReadLatest(p) \/ Insert(p)
  \/ InsertClashes(p) \/ InsertUnreported(p) \/ Catch(p) \/ Die(p)

Next ==
  \/ \E p \in Posters : Step(p)
  \/ \E r \in Readers : ReadPage(r)

Spec == Init /\ [][Next]_vars
=============================================================================
