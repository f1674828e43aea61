----------------------------- MODULE ReadCursor -----------------------------
(***************************************************************************)
(* ack_read of the bridge API (app.ts, thread-store.ts, cursor.ts): how    *)
(* far each participant has read one thread.  Of the thread it needs the   *)
(* greatest sequence number only, which module ThreadLog lets grow by one. *)
(*                                                                         *)
(* A slot is a request under way on behalf of one agent; the handler reads *)
(* the thread's latest number, then the cursor, then writes the cursor     *)
(* whatever it is by then.                                                 *)
(*                                                                         *)
(* An operator with "Wrong" in its name is the definition after it with a  *)
(* plausible mistake in the code.                                          *)
(***************************************************************************)
EXTENDS Naturals

CONSTANTS
  Agents, Acks, AgentOf,   \* participants, requests under way, whose they are
  MaxSeq,                  \* bound: messages ever posted
  MaxAcks                  \* bound: requests ever made

ASSUME CursorAssumption ==
  /\ AgentOf \in [Acks -> Agents]
  /\ MaxSeq \in Nat /\ MaxAcks \in Nat

VARIABLES
  latest,       \* the greatest sequence number of the thread, 0 when empty
  cursor,       \* cursor[a]: last_read_seq, 0 without a row
  ackPhase, asked, acks

ackVars == <<ackPhase, asked, acks>>
cursorVars == <<latest, cursor, ackVars>>

AckPhases == {"idle", "latest", "cursor", "write"}

CursorInit ==
  /\ latest = 0
  /\ cursor = [a \in Agents |-> 0]
  /\ ackPhase = [k \in Acks |-> "idle"]
  /\ asked = [k \in Acks |-> 0]
  /\ acks = 0

(* A message is stored: post_message gives it the number after the latest. *)
Post ==
  /\ latest < MaxSeq
  /\ latest' = latest + 1
  /\ UNCHANGED <<cursor, ackVars>>

AckReceive(k) ==
  /\ ackPhase[k] = "idle"
  /\ acks < MaxAcks
  /\ acks' = acks + 1
  /\ \E n \in 0 .. MaxSeq : asked' = [asked EXCEPT ![k] = n]
  /\ ackPhase' = [ackPhase EXCEPT ![k] = "latest"]
  /\ UNCHANGED <<latest, cursor>>

(* The request is over, answered with ok or refused.                       *)
AckAnswer(k) ==
  /\ ackPhase' = [ackPhase EXCEPT ![k] = "idle"]
  /\ asked' = [asked EXCEPT ![k] = 0]
  /\ UNCHANGED acks

AckGoTo(k, next) ==
  /\ ackPhase' = [ackPhase EXCEPT ![k] = next]
  /\ UNCHANGED <<asked, acks>>

(* last_read_seq must not exceed the latest number.                        *)
ExceedsWrongByOne(k) == asked[k] > latest + 1
Exceeds(k) == asked[k] > latest

AckLatest(k) ==
  /\ ackPhase[k] = "latest"
  /\ \/ ~Exceeds(k) /\ AckGoTo(k, "cursor")
     \/ Exceeds(k) /\ AckAnswer(k)
  /\ UNCHANGED <<latest, cursor>>

(* acknowledgeRead: going back is an error.                                *)
RegressesWrongNever(k) == FALSE
Regresses(k) == asked[k] < cursor[AgentOf[k]]

AckCursor(k) ==
  /\ ackPhase[k] = "cursor"
  /\ \/ ~Regresses(k) /\ AckGoTo(k, "write")
     \/ Regresses(k) /\ AckAnswer(k)
  /\ UNCHANGED <<latest, cursor>>

(* upsertParticipantCursor: inserts the row or overwrites it.              *)
AckWriteWrongNext(k) ==
  /\ ackPhase[k] = "write"
  /\ cursor' = [cursor EXCEPT ![AgentOf[k]] = asked[k] + 1]
  /\ AckAnswer(k)
  /\ UNCHANGED latest

AckWrite(k) ==
  /\ ackPhase[k] = "write"
  /\ cursor' = [cursor EXCEPT ![AgentOf[k]] = asked[k]]
  /\ AckAnswer(k)
  /\ UNCHANGED latest

(* The process of the API stops, or a query fails, before the write.       *)
AckFails(k) ==
  /\ ackPhase[k] # "idle"
  /\ AckAnswer(k)
  /\ UNCHANGED <<latest, cursor>>

-----------------------------------------------------------------------------
AckStep(k) ==
  \/ AckReceive(k) \/ AckLatest(k) \/ AckCursor(k) \/ AckWrite(k) \/ AckFails(k)

CursorNext == Post \/ \E k \in Acks : AckStep(k)

CursorSpec == CursorInit /\ [][CursorNext]_cursorVars

-----------------------------------------------------------------------------
CursorTypeOK ==
  /\ latest \in 0 .. MaxSeq
  /\ cursor \in [Agents -> 0 .. MaxSeq]
  /\ ackPhase \in [Acks -> AckPhases]
  /\ asked \in [Acks -> 0 .. MaxSeq]
  /\ acks \in 0 .. MaxAcks

(* A cursor never points behind the end of the thread, although the end    *)
(* was read before the cursor is written: reconciliation would take a      *)
(* participant who is ahead for one who has read everything.               *)
CursorWithinThread == \A a \in Agents : cursor[a] <= latest

(* docs/proposal/04-protocol/protocol_spec.md, ack_read: "`last_read_seq`  *)
(* must be monotonic per `(thread_id, agent_id)` (no regression)."  It is  *)
(* for an agent that waits for the answer before it acknowledges again;    *)
(* of two requests at one time the later write may be the lower one.       *)
CursorMonotone == [][\A a \in Agents : cursor'[a] >= cursor[a]]_cursorVars
=============================================================================
