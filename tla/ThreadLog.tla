----------------------------- MODULE ThreadLog ------------------------------
(***************************************************************************)
(* What the message store promises of a thread: one growing sequence.  A   *)
(* message is added at the end, at once, after every message it replies    *)
(* to, and an agent's idempotency key is used for one message only.        *)
(***************************************************************************)
EXTENDS Naturals, Sequences

CONSTANTS Agents, Keys, NoKey, Bodies

VARIABLE messages

Message == [agent : Agents, key : Keys \cup {NoKey}, body : Bodies, parent : Nat]

Init == messages = <<>>

Fresh(m) ==
  m.key = NoKey \/ \A i \in 1 .. Len(messages) :
                     <<messages[i].agent, messages[i].key>> # <<m.agent, m.key>>

Add(m) ==
  /\ Fresh(m)
  /\ m.parent \in 0 .. Len(messages)
  /\ messages' = Append(messages, m)

(* One message more, the earlier ones as they were.                        *)
Next ==
  /\ Len(messages') = Len(messages) + 1
  /\ LET m == messages'[Len(messages')] IN m \in Message /\ Add(m)

Spec == Init /\ [][Next]_messages
=============================================================================
