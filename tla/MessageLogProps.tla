-------------------------- MODULE MessageLogProps ---------------------------
(***************************************************************************)
(* What posting to and reading from a thread must guarantee.               *)
(***************************************************************************)
EXTENDS MessageLog, Sequences

(* The rows, the requests under way and the histories.                     *)
RowType == [seq : Nat, agent : Agents, key : Keys \cup {NoKey}, body : Bodies,
            parent : Nat]
TypeOK ==
  /\ log \subseteq RowType
  /\ phase \in [Posters -> Phases]
  /\ request \in [Posters -> Request \cup {NoRequest}]
  /\ \A p \in Posters : phase[p] # "idle" => request[p] \in Request
  /\ nextSeq \in [Posters -> Nat]
  /\ failure \in [Posters -> {"none", "clash", "lost"}]
  /\ \A p \in Posters : phase[p] = "caught" => failure[p] # "none"
  /\ reached \in [Readers -> Nat]
  /\ received \in [Readers -> SUBSET RowType]
  /\ \A a \in answers : a.request \in Request /\ a.seq \in Nat
  /\ requests \in Nat /\ faults \in Nat

Numbers(rows) == {m.seq : m \in rows}

(* The sequence numbers of the thread are 1, 2, 3, ... without a gap or a  *)
(* repetition, although each is computed from a reading that may be old    *)
(* when the row is inserted: the insertion of an old number is rejected.   *)
GapFree ==
  /\ Numbers(log) = 1 .. Latest
  /\ \A m, k \in log : m.seq = k.seq => m = k

(* What a client was told is stored: a message with its payload, and under *)
(* its key, has the sequence number of the answer, be it the first answer, *)
(* a replay, or one found after the insertion seemed to fail.              *)
AnswersStored ==
  \A a \in answers : a.outcome \in {"stored", "replayed"} =>
    \E m \in log : m = Row(a.request, a.seq)

(* However often and however concurrently a client repeats a request with  *)
(* one key, all the answers it gets name one message.                      *)
RetriesAgree ==
  \A a, b \in {x \in answers : x.outcome \in {"stored", "replayed"}} :
    /\ a.request.key # NoKey
    /\ <<a.request.agent, a.request.key>> = <<b.request.agent, b.request.key>>
    => a.seq = b.seq

(* A request is turned down for its key only when the thread has another   *)
(* payload under it, and never when it repeats what was stored.            *)
ConflictJustified ==
  \A a \in answers : a.outcome = "idempotency_conflict" =>
    /\ \E m \in log : /\ m.seq = a.seq
                      /\ m.agent = a.request.agent /\ m.key = a.request.key
    /\ Row(a.request, a.seq) \notin log

(* A post without a message of its own key fails on a clash only when the  *)
(* number it computed was taken under it: another message was added to the *)
(* thread while the post was under way.  So of the posts that race for one *)
(* number, one is stored.                                                  *)
ClashEarned ==
  \A a \in answers : a.outcome = "clash" => a.after > a.request.before

(* A reply is later in the thread than the message it replies to.          *)
RepliesFollow == \A m \in log : m.parent < m.seq

(* A client that pages on from next_seq has been given every message up to *)
(* there: no message appears later behind the place it has reached.        *)
NothingSkipped ==
  \A r \in Readers : received[r] = {m \in log : m.seq <= reached[r]}

(* The rows in the order of their numbers are the sequence of ThreadLog.   *)
InOrder == [n \in 1 .. Cardinality(log) |->
             LET m == CHOOSE m \in log : m.seq = n
             IN  [agent |-> m.agent, key |-> m.key, body |-> m.body, parent |-> m.parent]]

Abstract == INSTANCE ThreadLog WITH messages <- InOrder

(* Every step of every request adds one message at the end of the thread,  *)
(* under a fresh key and after its parent, or leaves the thread alone.     *)
GrowsAtTheEnd == Abstract!Spec
=============================================================================
