-------------------------- MODULE MessageLogProofs --------------------------
(***************************************************************************)
(* The message log for any number of posters, readers, keys and faults:    *)
(* numbers without gaps, answers that are true, readers that miss nothing. *)
(***************************************************************************)
EXTENDS MessageLogProps, FiniteSetTheorems, SequenceTheorems, TLAPS

(* The unique indexes.                                                     *)
UniqueSeq == \A m, k \in log : m.seq = k.seq => m = k
UniqueKey == \A m, k \in log :
  m.key # NoKey /\ m.agent = k.agent /\ m.key = k.key => m = k

(* The numbers end at some n; nobody has computed, read past or replied    *)
(* to more than n + 1, n and n.                                            *)
Bounded(n) ==
  /\ Numbers(log) = 1 .. n
  /\ \A p \in Posters :
       /\ phase[p] \notin {"idle", "parent"} => request[p].parent \in 0 .. n
       /\ phase[p] = "insert" => nextSeq[p] \in request[p].parent + 1 .. n + 1
  /\ \A r \in Readers : reached[r] <= n
NoGap == \E n \in Nat : Bounded(n)

(* What turned a keyed request down: the row it met is another one.        *)
MetAnother ==
  \A a \in answers : a.outcome = "idempotency_conflict" =>
    \E m \in log : /\ m.seq = a.seq
                   /\ m.agent = a.request.agent /\ m.key = a.request.key
                   /\ m # Row(a.request, a.seq)

IInv == /\ TypeOK /\ UniqueSeq /\ UniqueKey /\ NoGap
        /\ AnswersStored /\ MetAnother /\ RepliesFollow /\ NothingSkipped

-----------------------------------------------------------------------------
LEMMA RequestTypes ==
  /\ \A r \in Request : /\ r.agent \in Agents /\ r.key \in Keys \cup {NoKey}
                        /\ r.body \in Bodies /\ r.parent \in Nat
  /\ NoRequest \notin Request
  /\ \A r \in Request, n \in Nat : Row(r, n) \in RowType /\ Row(r, n).seq = n
BY MessageLogAssumption DEF Request, Row, RowType

LEMMA LatestIsTop ==
  ASSUME NEW n \in Nat, log \subseteq RowType, Numbers(log) = 1 .. n
  PROVE  Latest = n
<1>1. CASE n = 0
  BY <1>1 DEF Latest, Numbers
<1>2. CASE n > 0
  <2>1. n \in Numbers(log) /\ log # {}
    BY <1>2 DEF Numbers
  <2>2. \A m \in log : m.seq \in 1 .. n
    BY DEF Numbers
  <2>3. \A k \in Numbers(log) : (\A m \in log : m.seq <= k) <=> k = n
    BY <2>1, <2>2 DEF Numbers
  <2> QED
    BY <2>1, <2>3 DEF Latest, Numbers
<1> QED
  BY <1>1, <1>2

(* A row that is inserted clashes with none, and so has the next number.   *)
LEMMA InsertedIsNext ==
  ASSUME NEW n \in Nat, TypeOK, Bounded(n), NEW p \in Posters, phase[p] = "insert",
         ~Clashes(request[p], nextSeq[p])
  PROVE  /\ nextSeq[p] = n + 1
         /\ Row(request[p], n + 1) \in RowType
         /\ Numbers(log \cup {Row(request[p], nextSeq[p])}) = 1 .. n + 1
         /\ \A m \in log : m.seq <= n
<1>1. nextSeq[p] \in 1 .. n + 1 /\ request[p] \in Request
  <2>1. request[p] \in Request /\ request[p].parent \in 0 .. n
    BY DEF Bounded, TypeOK
  <2>2. nextSeq[p] \in request[p].parent + 1 .. n + 1
    BY DEF Bounded
  <2> QED
    BY <2>1, <2>2
<1>2. nextSeq[p] \notin Numbers(log)
  BY DEF Clashes, Numbers
<1>3. nextSeq[p] = n + 1
  BY <1>1, <1>2 DEF Bounded
<1>4. \A m \in log : m.seq <= n
  BY DEF Bounded, Numbers, TypeOK
<1>5. Row(request[p], n + 1).seq = n + 1 /\ Row(request[p], n + 1) \in RowType
  BY <1>1, RequestTypes
<1>6. Numbers(log \cup {Row(request[p], n + 1)}) = Numbers(log) \cup {n + 1}
  BY <1>5 DEF Numbers
<1>7. (1 .. n) \cup {n + 1} = 1 .. n + 1
  OBVIOUS
<1>8. Numbers(log) = 1 .. n
  BY DEF Bounded
<1> QED
  BY <1>3, <1>4, <1>5, <1>6, <1>7, <1>8

-----------------------------------------------------------------------------
(* The thread changes only by such an insertion.                           *)
Inserts(p) ==
  /\ phase[p] = "insert"
  /\ ~Clashes(request[p], nextSeq[p])
  /\ log' = log \cup {Row(request[p], nextSeq[p])}
  /\ readerVars' = readerVars
  /\ phase'[p] = "idle" \/ (phase'[p] = "caught" /\ request'[p] = request[p])
  /\ \A q \in Posters \ {p} : /\ phase'[q] = phase[q] /\ request'[q] = request[q]
                             /\ nextSeq'[q] = nextSeq[q]

LEMMA LogStep ==
  ASSUME TypeOK, [Next]_vars
  PROVE  log' = log \/ \E p \in Posters : Inserts(p)
<1>1. ASSUME NEW p \in Posters, Insert(p) PROVE Inserts(p)
  BY <1>1 DEF Insert, Inserts, Answer, Reset, TypeOK, readerVars
<1>2. ASSUME NEW p \in Posters, InsertUnreported(p) PROVE log' = log \/ Inserts(p)
  BY <1>2 DEF InsertUnreported, Inserts, GoTo, TypeOK, readerVars
<1>3. ASSUME NEW p \in Posters,
             Receive(p) \/ CheckParent(p) \/ LookupKey(p) \/ ReadLatest(p)
               \/ InsertClashes(p) \/ Catch(p) \/ Die(p)
      PROVE  log' = log
  BY <1>3 DEF Receive, CheckParent, LookupKey, ReadLatest, InsertClashes, Catch, Die
<1>4. ASSUME NEW r \in Readers, ReadPage(r) PROVE log' = log
  BY <1>4 DEF ReadPage
<1>5. ASSUME UNCHANGED vars PROVE log' = log
  BY <1>5 DEF vars
<1> QED
  BY <1>1, <1>2, <1>3, <1>4, <1>5 DEF Next, Step

LEMMA AnswerTypes ==
  ASSUME TypeOK, NEW p \in Posters, NEW outcome, NEW seq \in Nat, phase[p] # "idle",
         Answer(p, outcome, seq), UNCHANGED <<log, readerVars, requests, faults>>
  PROVE  TypeOK'
<1>1. \A a \in answers' : a.request \in Request /\ a.seq \in Nat
  BY DEF Answer, TypeOK
<1>2. Reset(p)
  BY DEF Answer
<1> QED
  BY <1>1, <1>2, RequestTypes DEF Reset, TypeOK, Phases, readerVars

LEMMA NextTypes == ASSUME TypeOK, NoGap, [Next]_vars PROVE TypeOK'
<1> USE MessageLogAssumption, RequestTypes DEF TypeOK, Phases
<1>1. ASSUME NEW p \in Posters, Receive(p) PROVE TypeOK'
  BY <1>1 DEF Receive, readerVars
<1>2. ASSUME NEW p \in Posters, CheckParent(p) PROVE TypeOK'
  <2>1. CASE Answer(p, "refused", 0)
    BY <1>2, <2>1, AnswerTypes DEF CheckParent
  <2>2. CASE ~Answer(p, "refused", 0)
    BY <1>2, <2>2 DEF CheckParent, GoTo, readerVars
  <2> QED
    BY <2>1, <2>2
<1>3. ASSUME NEW p \in Posters, LookupKey(p) PROVE TypeOK'
  <2>1. \A m \in SameKey(request[p]) : m.seq \in Nat
    BY DEF SameKey, RowType
  <2>2. ASSUME NEW m \in SameKey(request[p]), Replay(p, m) PROVE TypeOK'
    BY <1>3, <2>1, <2>2, AnswerTypes DEF LookupKey, Replay
  <2>3. CASE GoTo(p, "latest") /\ UNCHANGED <<nextSeq, failure>>
    BY <1>3, <2>3 DEF LookupKey, GoTo, readerVars
  <2> QED
    BY <1>3, <2>1, <2>2, <2>3 DEF LookupKey
<1>4. ASSUME NEW p \in Posters, ReadLatest(p) PROVE TypeOK'
  <2>1. Latest \in Nat
    BY LatestIsTop DEF NoGap, Bounded
  <2> QED
    BY <1>4, <2>1 DEF ReadLatest, NextSeq, GoTo, readerVars
<1>5. ASSUME NEW p \in Posters, Insert(p) PROVE TypeOK'
  BY <1>5 DEF Insert, Answer, Reset, readerVars
<1>6. ASSUME NEW p \in Posters, InsertClashes(p) PROVE TypeOK'
  BY <1>6 DEF InsertClashes, GoTo, readerVars
<1>7. ASSUME NEW p \in Posters, InsertUnreported(p) PROVE TypeOK'
  BY <1>7 DEF InsertUnreported, GoTo, readerVars
<1>8. ASSUME NEW p \in Posters, Catch(p) PROVE TypeOK'
  <2>1. \A m \in SameKey(request[p]) : m.seq \in Nat
    BY DEF SameKey, RowType
  <2>2. ASSUME NEW m \in SameKey(request[p]), Replay(p, m) PROVE TypeOK'
    BY <1>8, <2>1, <2>2, AnswerTypes DEF Catch, Replay
  <2>3. CASE Answer(p, failure[p], 0)
    BY <1>8, <2>3, AnswerTypes DEF Catch
  <2> QED
    BY <1>8, <2>1, <2>2, <2>3 DEF Catch
<1>9. ASSUME NEW p \in Posters, Die(p) PROVE TypeOK'
  BY <1>9 DEF Die, Reset, readerVars
<1>10. ASSUME NEW r \in Readers, ReadPage(r) PROVE TypeOK'
  <2>1. PICK page \in SUBSET After(r) :
          /\ \E m \in page : reached' = [reached EXCEPT ![r] = m.seq]
          /\ received' = [received EXCEPT ![r] = @ \cup page]
          /\ UNCHANGED <<log, posterVars, answers, requests, faults>>
    BY <1>10 DEF ReadPage
  <2>2. page \subseteq RowType /\ \A m \in page : m.seq \in Nat
    BY DEF After, RowType
  <2> QED
    BY <2>1, <2>2 DEF posterVars
<1>11. CASE UNCHANGED vars
  BY <1>11 DEF vars, posterVars, readerVars
<1> QED
  BY <1>1, <1>2, <1>3, <1>4, <1>5, <1>6, <1>7, <1>8, <1>9, <1>10, <1>11 DEF Next, Step

-----------------------------------------------------------------------------
(* Uniqueness is what the clashes reject.                                  *)
LEMMA UniqueKept ==
  ASSUME TypeOK, UniqueSeq, UniqueKey, [Next]_vars
  PROVE  UniqueSeq' /\ UniqueKey'
<1>1. ASSUME NEW p \in Posters, Inserts(p) PROVE UniqueSeq' /\ UniqueKey'
  <2>1. \A m \in log : /\ m.seq # nextSeq[p]
                       /\ request[p].key # NoKey =>
                            ~(m.agent = request[p].agent /\ m.key = request[p].key)
    BY <1>1 DEF Inserts, Clashes, SameKey
  <2> QED
    BY <1>1, <2>1 DEF Inserts, Row, UniqueSeq, UniqueKey
<1> QED
  BY <1>1, LogStep DEF UniqueSeq, UniqueKey

(* A reply is numbered after a reading that came after its parent's.       *)
LEMMA RepliesKept ==
  ASSUME TypeOK, NoGap, RepliesFollow, [Next]_vars
  PROVE  RepliesFollow'
<1>1. ASSUME NEW p \in Posters, Inserts(p) PROVE RepliesFollow'
  <2>1. request[p].parent \in Nat /\ nextSeq[p] \in Nat /\ request[p].parent < nextSeq[p]
    BY <1>1, RequestTypes DEF Inserts, NoGap, Bounded, TypeOK
  <2> QED
    BY <1>1, <2>1 DEF Inserts, Row, RepliesFollow
<1> QED
  BY <1>1, LogStep DEF RepliesFollow

(* A row that is inserted lies beyond every reader; a page is all there is *)
(* up to its last row.                                                     *)
LEMMA ReadersKept ==
  ASSUME TypeOK, NoGap, NothingSkipped, [Next]_vars
  PROVE  NothingSkipped'
<1> USE DEF TypeOK
<1>1. ASSUME NEW p \in Posters, Inserts(p) PROVE NothingSkipped'
  <2>1. PICK n \in Nat : Bounded(n)
    BY DEF NoGap
  <2>2. Row(request[p], nextSeq[p]).seq = n + 1
    BY <1>1, <2>1, InsertedIsNext DEF Inserts, Row
  <2>3. \A r \in Readers : reached[r] \in Nat /\ reached[r] <= n
    BY <2>1 DEF Bounded
  <2> QED
    BY <1>1, <2>2, <2>3 DEF Inserts, readerVars, NothingSkipped
<1>2. ASSUME NEW r \in Readers, ReadPage(r) PROVE NothingSkipped'
  <2>1. PICK page \in SUBSET After(r) :
          /\ \A m \in page, n \in After(r) \ page : m.seq < n.seq
          /\ \E m \in page :
               /\ \A n \in page : n.seq <= m.seq
               /\ reached' = [reached EXCEPT ![r] = m.seq]
          /\ received' = [received EXCEPT ![r] = @ \cup page]
          /\ log' = log
    BY <1>2 DEF ReadPage
  <2>2. PICK m \in page : /\ \A n \in page : n.seq <= m.seq
                         /\ reached' = [reached EXCEPT ![r] = m.seq]
    BY <2>1
  <2>3. \A k \in log : k.seq \in Nat
    BY DEF RowType
  <2>4. m \in log /\ reached[r] < m.seq /\ reached[r] \in Nat
    BY DEF After
  <2>5. page = {k \in log : reached[r] < k.seq /\ k.seq <= m.seq}
    BY <2>1, <2>2, <2>3, <2>4 DEF After
  <2>6. received'[r] = {k \in log : k.seq <= m.seq}
    BY <2>1, <2>3, <2>4, <2>5 DEF NothingSkipped
  <2> QED
    BY <2>1, <2>2, <2>6 DEF NothingSkipped
<1>3. ASSUME ~\E r \in Readers : ReadPage(r) PROVE readerVars' = readerVars
  BY <1>3 DEF Next, Step, Receive, CheckParent, LookupKey, ReadLatest, Insert,
              InsertClashes, InsertUnreported, Catch, Die, vars
<1>4. CASE log' = log /\ readerVars' = readerVars
  BY <1>4 DEF readerVars, NothingSkipped
<1> QED
  BY <1>1, <1>2, <1>3, <1>4, LogStep

-----------------------------------------------------------------------------
(* The numbers grow by one with every insertion.                           *)
LEMMA NoGapInsertion ==
  ASSUME TypeOK, NoGap, NEW p \in Posters, Inserts(p)
  PROVE  NoGap'
<1>1. PICK n \in Nat : Bounded(n)
  BY DEF NoGap
<1>2. Numbers(log') = 1 .. n + 1
  BY <1>1, InsertedIsNext DEF Inserts
<1>3. request[p].parent \in 0 .. n + 1
  BY <1>1 DEF Inserts, Bounded
<1>4. ASSUME NEW q \in Posters
      PROVE  /\ phase'[q] \notin {"idle", "parent"} => request'[q].parent \in 0 .. n + 1
             /\ phase'[q] = "insert" =>
                  nextSeq'[q] \in request'[q].parent + 1 .. (n + 1) + 1
  <2>1. CASE q = p
    BY <1>3, <2>1 DEF Inserts
  <2>2. CASE q # p
    <3>1. phase'[q] = phase[q] /\ request'[q] = request[q] /\ nextSeq'[q] = nextSeq[q]
      BY <2>2 DEF Inserts
    <3>2. phase[q] # "idle" => request[q].parent \in Nat
      BY RequestTypes DEF TypeOK
    <3> QED
      BY <1>1, <3>1, <3>2 DEF Bounded
  <2> QED
    BY <2>1, <2>2
<1>5. \A r \in Readers : reached'[r] <= n + 1
  BY <1>1 DEF Bounded, Inserts, readerVars, TypeOK
<1>6. Bounded(n + 1)'
  BY <1>2, <1>4, <1>5 DEF Bounded
<1> QED
  BY <1>6 DEF NoGap

(* Other steps move one poster or one reader within the bounds.            *)
LEMMA NoGapKept ==
  ASSUME TypeOK, NoGap, [Next]_vars
  PROVE  NoGap'
<1>1. CASE \E p \in Posters : Inserts(p)
  BY <1>1, NoGapInsertion
<1>2. CASE log' = log
  <2>1. PICK n \in Nat : Bounded(n)
    BY DEF NoGap
  <2>2. Numbers(log') = 1 .. n /\ Latest = n
    BY <1>2, <2>1, LatestIsTop DEF Bounded, TypeOK
  <2> DEFINE Sound(q) ==
        /\ phase'[q] \notin {"idle", "parent"} => request'[q].parent \in 0 .. n
        /\ phase'[q] = "insert" => nextSeq'[q] \in request'[q].parent + 1 .. n + 1
  <2>3. ASSUME NEW q \in Posters, phase'[q] = phase[q], request'[q] = request[q],
               nextSeq'[q] = nextSeq[q]
        PROVE  Sound(q)
    BY <2>1, <2>3 DEF Bounded
  <2>4. ASSUME NEW p \in Posters, Step(p)
        PROVE  /\ \A q \in Posters : Sound(q)
               /\ reached' = reached
    <3>1. \A q \in Posters \ {p} :
            phase'[q] = phase[q] /\ request'[q] = request[q] /\ nextSeq'[q] = nextSeq[q]
      <4>1. CASE Reset(p)
        BY <4>1 DEF Reset, TypeOK
      <4>2. CASE \E next \in Phases : GoTo(p, next) /\ nextSeq' = nextSeq
        BY <4>2 DEF GoTo, TypeOK
      <4>3. CASE Receive(p)
        BY <4>3 DEF Receive, TypeOK
      <4>4. CASE ReadLatest(p)
        BY <4>4 DEF ReadLatest, GoTo, TypeOK
      <4> QED
        BY <2>4, <4>1, <4>2, <4>3, <4>4
           DEF Step, CheckParent, LookupKey, Insert, InsertClashes, InsertUnreported,
               Catch, Die, Replay, Answer, Phases
    <3>2. \A q \in Posters \ {p} : Sound(q)
      BY <2>3, <3>1
    <3>3. reached' = reached
      BY <2>4 DEF Step, Receive, CheckParent, LookupKey, ReadLatest, Insert, InsertClashes,
                  InsertUnreported, Catch, Die, readerVars
    <3>4. CASE Receive(p)
      <4>1. PICK r \in Request :
              /\ request' = [request EXCEPT ![p] = r]
              /\ phase' = [phase EXCEPT ![p] =
                   IF r.parent # 0 THEN "parent"
                   ELSE IF r.key # NoKey THEN "lookup" ELSE "latest"]
        BY <3>4 DEF Receive
      <4>2. Sound(p)
        BY <4>1 DEF TypeOK
      <4> QED
        BY <3>2, <3>3, <4>2
    <3>5. CASE CheckParent(p)
      <4>1. CASE ParentFound(request[p]) /\ GoTo(p, IF request[p].key # NoKey
                                                   THEN "lookup" ELSE "latest")
        <5>1. request[p].parent \in 1 .. n
          BY <2>1, <4>1 DEF ParentFound, Bounded, Numbers
        <5>2. request' = request /\ phase'[p] \in {"lookup", "latest"}
          BY <4>1 DEF GoTo, TypeOK
        <5> QED
          BY <3>2, <3>3, <5>1, <5>2
      <4>2. CASE Reset(p)
        <5>1. phase'[p] = "idle"
          BY <4>2 DEF Reset, TypeOK
        <5> QED
          BY <3>2, <3>3, <5>1
      <4> QED
        BY <3>5, <4>1, <4>2 DEF CheckParent, Answer
    <3>6. CASE ReadLatest(p)
      <4>1. phase'[p] = "insert" /\ nextSeq'[p] = n + 1 /\ request'[p] = request[p]
            /\ phase[p] = "latest"
        BY <2>2, <3>6 DEF ReadLatest, NextSeq, GoTo, TypeOK
      <4>2. request[p].parent \in 0 .. n
        BY <2>1, <4>1 DEF Bounded
      <4> QED
        BY <3>2, <3>3, <4>1, <4>2
    <3>7. CASE LookupKey(p) \/ InsertClashes(p) \/ InsertUnreported(p) \/ Catch(p)
      <4>1. \/ phase'[p] = "idle"
            \/ /\ phase'[p] \in {"latest", "caught"} /\ request'[p] = request[p]
               /\ phase[p] \notin {"idle", "parent"}
        BY <3>7 DEF LookupKey, InsertClashes, InsertUnreported, Catch, Replay, Answer,
                    Reset, GoTo, TypeOK
      <4> QED
        BY <2>1, <3>2, <3>3, <4>1 DEF Bounded
    <3>8. CASE Insert(p) \/ Die(p)
      <4>1. phase'[p] = "idle"
        BY <3>8 DEF Insert, Die, Answer, Reset, TypeOK
      <4> QED
        BY <3>2, <3>3, <4>1
    <3> QED
      BY <2>4, <3>2, <3>3, <3>4, <3>5, <3>6, <3>7, <3>8 DEF Step
  <2>5. ASSUME NEW r \in Readers, ReadPage(r)
        PROVE  /\ \A q \in Posters : Sound(q)
               /\ \A s \in Readers : reached'[s] <= n
    <3>1. PICK m \in log : reached' = [reached EXCEPT ![r] = m.seq]
      BY <2>5 DEF ReadPage, After
    <3>2. m.seq <= n
      BY <2>1 DEF Bounded, Numbers
    <3>3. \A q \in Posters : Sound(q)
      BY <2>3, <2>5 DEF ReadPage, posterVars
    <3> QED
      BY <2>1, <3>1, <3>2, <3>3 DEF Bounded, TypeOK
  <2>6. ASSUME UNCHANGED vars
        PROVE  (\A q \in Posters : Sound(q)) /\ reached' = reached
    BY <2>3, <2>6 DEF vars, posterVars, readerVars
  <2>7. Bounded(n)'
    BY <2>1, <2>2, <2>4, <2>5, <2>6 DEF Bounded, Next
  <2> QED
    BY <2>7 DEF NoGap
<1> QED
  BY <1>1, <1>2, LogStep

-----------------------------------------------------------------------------
(* What an answer claims of the rows: the two invariants, for one answer.  *)
IsTrue(a, rows) ==
  /\ a.outcome \in {"stored", "replayed"} =>
       \E m \in rows : m = Row(a.request, a.seq)
  /\ a.outcome = "idempotency_conflict" =>
       \E m \in rows : /\ m.seq = a.seq
                        /\ m.agent = a.request.agent /\ m.key = a.request.key
                        /\ m # Row(a.request, a.seq)

LEMMA TrueIsInv == AnswersStored /\ MetAnother <=> \A a \in answers : IsTrue(a, log)
BY DEF AnswersStored, MetAnother, IsTrue

(* The one answer a step may add.                                          *)
Made(p, outcome, seq) == [request |-> request[p], outcome |-> outcome, seq |-> seq,
                          after |-> Cardinality(log)]

LEMMA AnswerAdds ==
  ASSUME NEW p \in Posters, NEW outcome, NEW seq, Answer(p, outcome, seq)
  PROVE  answers' = answers \cup {Made(p, outcome, seq)}
BY DEF Answer, Made

LEMMA ReplayIsTrue ==
  ASSUME TypeOK, NEW p \in Posters, NEW m \in SameKey(request[p]), Replay(p, m)
  PROVE  \A a \in answers' \ answers : IsTrue(a, log)
<1>1. m \in RowType /\ m \in log /\ m.agent = request[p].agent /\ m.key = request[p].key
  BY DEF SameKey, TypeOK
<1>2. CASE ReplayMatch(m, request[p])
  <2>1. m = Row(request[p], m.seq)
    BY <1>1, <1>2 DEF ReplayMatch, Row, RowType
  <2>2. IsTrue(Made(p, "replayed", m.seq), log)
    BY <1>1, <2>1 DEF IsTrue, Made
  <2> QED
    BY <1>2, <2>2, AnswerAdds DEF Replay
<1>3. CASE ~ReplayMatch(m, request[p])
  <2>1. m # Row(request[p], m.seq)
    BY <1>3 DEF ReplayMatch, Row
  <2>2. IsTrue(Made(p, "idempotency_conflict", m.seq), log)
    BY <1>1, <2>1 DEF IsTrue, Made
  <2> QED
    BY <1>3, <2>2, AnswerAdds DEF Replay
<1> QED
  BY <1>2, <1>3

LEMMA AnswersKept ==
  ASSUME TypeOK, AnswersStored, MetAnother, [Next]_vars
  PROVE  AnswersStored' /\ MetAnother'
<1>1. log \subseteq log'
  BY LogStep DEF Inserts
<1>2. \A a \in answers : IsTrue(a, log')
  BY <1>1, TrueIsInv DEF IsTrue
<1>3. \A a \in answers' \ answers : IsTrue(a, log')
  <2>1. ASSUME NEW p \in Posters, NEW m \in SameKey(request[p]), Replay(p, m)
        PROVE  \A a \in answers' \ answers : IsTrue(a, log')
    BY <1>1, <2>1, ReplayIsTrue DEF IsTrue
  <2>2. ASSUME NEW p \in Posters, Insert(p)
        PROVE  \A a \in answers' \ answers : IsTrue(a, log')
    <3>1. IsTrue(Made(p, "stored", nextSeq[p]), log')
      BY <2>2 DEF Insert, IsTrue, Made
    <3> QED
      BY <2>2, <3>1, AnswerAdds DEF Insert
  <2>3. ASSUME NEW p \in Posters, NEW outcome \in {"refused", "none", "clash", "lost"},
               Answer(p, outcome, 0)
        PROVE  \A a \in answers' \ answers : IsTrue(a, log')
    <3>1. IsTrue(Made(p, outcome, 0), log')
      BY DEF IsTrue, Made
    <3> QED
      BY <2>3, <3>1, AnswerAdds
  <2>4. ASSUME NEW p \in Posters, Step(p)
        PROVE  \A a \in answers' \ answers : IsTrue(a, log')
    <3>1. CASE answers' = answers
      BY <3>1
    <3>2. CASE CheckParent(p)
      BY <2>3, <3>2 DEF CheckParent, GoTo
    <3>3. CASE LookupKey(p)
      BY <2>1, <3>3 DEF LookupKey, GoTo
    <3>4. CASE Catch(p)
      BY <2>1, <2>3, <3>4 DEF Catch, TypeOK
    <3> QED
      BY <2>2, <2>4, <3>1, <3>2, <3>3, <3>4
         DEF Step, Receive, ReadLatest, InsertClashes, InsertUnreported, Die, GoTo
  <2>5. ASSUME (\E r \in Readers : ReadPage(r)) \/ UNCHANGED vars
        PROVE  answers' = answers
    BY <2>5 DEF ReadPage, vars
  <2> QED
    BY <2>4, <2>5 DEF Next
<1>4. \A a \in answers' : IsTrue(a, log')
  BY <1>2, <1>3
<1> QED
  BY <1>4 DEF AnswersStored, MetAnother, IsTrue

-----------------------------------------------------------------------------
LEMMA InitIInv == Init => IInv
<1> SUFFICES ASSUME Init PROVE IInv
  OBVIOUS
<1>1. TypeOK
  BY DEF Init, TypeOK, Phases
<1>2. Bounded(0)
  BY DEF Init, Bounded, Numbers
<1> QED
  BY <1>1, <1>2 DEF Init, IInv, NoGap, UniqueSeq, UniqueKey, AnswersStored, MetAnother,
                    RepliesFollow, NothingSkipped

LEMMA InvariantHolds == Spec => []IInv
<1>1. IInv /\ [Next]_vars => IInv'
  BY NextTypes, UniqueKept, NoGapKept, AnswersKept, RepliesKept, ReadersKept DEF IInv
<1> QED
  BY InitIInv, <1>1, PTL DEF Spec

(* Rows, requests and histories have their types.                          *)
THEOREM TypeCorrect == Spec => []TypeOK
<1>1. IInv => TypeOK
  BY DEF IInv
<1> QED
  BY InvariantHolds, <1>1, PTL

(* The numbers of a thread have no gap and no repetition, whatever races.  *)
THEOREM NumbersHaveNoGap == Spec => []GapFree
<1>1. ASSUME IInv PROVE GapFree
  <2>1. PICK n \in Nat : Bounded(n)
    BY <1>1 DEF IInv, NoGap
  <2>2. Numbers(log) = 1 .. n /\ Latest = n
    BY <1>1, <2>1, LatestIsTop DEF IInv, TypeOK, Bounded
  <2> QED
    BY <1>1, <2>2 DEF IInv, UniqueSeq, GapFree
<1> QED
  BY InvariantHolds, <1>1, PTL

(* What clients are told is stored.                                        *)
THEOREM AnswersAreStored == Spec => []AnswersStored
<1>1. IInv => AnswersStored
  BY DEF IInv
<1> QED
  BY InvariantHolds, <1>1, PTL

(* All answers under one key name one message.                             *)
THEOREM RetriesAreAnsweredAlike == Spec => []RetriesAgree
<1>1. ASSUME IInv PROVE RetriesAgree
  <2>1. ASSUME NEW a \in answers, NEW b \in answers,
               a.outcome \in {"stored", "replayed"}, b.outcome \in {"stored", "replayed"},
               a.request.key # NoKey,
               a.request.agent = b.request.agent, a.request.key = b.request.key
        PROVE  a.seq = b.seq
    <3>1. Row(a.request, a.seq) \in log /\ Row(b.request, b.seq) \in log
      BY <1>1, <2>1 DEF IInv, AnswersStored
    <3>2. Row(a.request, a.seq) = Row(b.request, b.seq)
      BY <1>1, <2>1, <3>1 DEF IInv, UniqueKey, Row
    <3> QED
      BY <3>2 DEF Row
  <2> QED
    BY <2>1 DEF RetriesAgree
<1> QED
  BY InvariantHolds, <1>1, PTL

(* A request is turned down for its key only by another payload.           *)
THEOREM ConflictsAreJustified == Spec => []ConflictJustified
<1>1. ASSUME IInv PROVE ConflictJustified
  <2>1. ASSUME NEW a \in answers, a.outcome = "idempotency_conflict"
        PROVE  /\ \E m \in log : /\ m.seq = a.seq
                                 /\ m.agent = a.request.agent /\ m.key = a.request.key
               /\ Row(a.request, a.seq) \notin log
    <3>1. PICK m \in log : /\ m.seq = a.seq
                          /\ m.agent = a.request.agent /\ m.key = a.request.key
                          /\ m # Row(a.request, a.seq)
      BY <1>1, <2>1 DEF IInv, MetAnother
    <3>2. Row(a.request, a.seq).seq = a.seq
      BY DEF Row
    <3> QED
      BY <1>1, <3>1, <3>2 DEF IInv, UniqueSeq
  <2> QED
    BY <2>1 DEF ConflictJustified
<1> QED
  BY InvariantHolds, <1>1, PTL

(* A reply comes after what it replies to.                                 *)
THEOREM RepliesComeLater == Spec => []RepliesFollow
<1>1. IInv => RepliesFollow
  BY DEF IInv
<1> QED
  BY InvariantHolds, <1>1, PTL

(* A client that pages through the thread misses nothing.                  *)
THEOREM ReadersMissNothing == Spec => []NothingSkipped
<1>1. IInv => NothingSkipped
  BY DEF IInv
<1> QED
  BY InvariantHolds, <1>1, PTL
-----------------------------------------------------------------------------
(* The rows in the order of their numbers.                                 *)
Content(m) == [agent |-> m.agent, key |-> m.key, body |-> m.body, parent |-> m.parent]
OrderOf(rows) == [n \in 1 .. Cardinality(rows) |->
                    LET m == CHOOSE m \in rows : m.seq = n
                    IN  [agent |-> m.agent, key |-> m.key, body |-> m.body,
                         parent |-> m.parent]]
Gapless(rows, n) ==
  /\ rows \subseteq RowType
  /\ \A m, k \in rows : m.seq = k.seq => m = k
  /\ Numbers(rows) = 1 .. n

(* There are as many rows as numbers.                                      *)
LEMMA SizeOfRows ==
  ASSUME NEW rows, NEW n \in Nat, Gapless(rows, n)
  PROVE  IsFiniteSet(rows) /\ Cardinality(rows) = n
<1> DEFINE f == [i \in 1 .. n |-> CHOOSE m \in rows : m.seq = i]
<1>1. \A i \in 1 .. n : f[i] \in rows /\ f[i].seq = i
  BY DEF Gapless, Numbers
<1>2. \A m \in rows : m.seq \in 1 .. n
  BY DEF Gapless, Numbers
<1>3. \A m \in rows : f[m.seq] = m
  BY <1>1, <1>2 DEF Gapless
<1>4. f \in [1 .. n -> rows]
  BY <1>1
<1> HIDE DEF f
<1>5. f \in Bijection(1 .. n, rows)
  <2>1. \A i, j \in 1 .. n : f[i] = f[j] => i = j
    BY <1>1
  <2>2. \A m \in rows : \E i \in 1 .. n : f[i] = m
    BY <1>2, <1>3
  <2> QED
    BY <1>4, <2>1, <2>2 DEF Bijection, Injection, Surjection, IsInjective
<1>6. ExistsBijection(1 .. n, rows)
  BY <1>5 DEF ExistsBijection
<1>7. IsFiniteSet(1 .. n) /\ Cardinality(1 .. n) = n
  BY FS_Interval
<1> QED
  BY <1>6, <1>7, FS_Bijection

LEMMA OrderIs ==
  ASSUME NEW rows, NEW n \in Nat, Gapless(rows, n)
  PROVE  /\ OrderOf(rows) \in Seq(Abstract!Message) /\ Len(OrderOf(rows)) = n
         /\ \A m \in rows : m.seq \in 1 .. n /\ OrderOf(rows)[m.seq] = Content(m)
         /\ \A i \in 1 .. n : \E m \in rows : m.seq = i
<1>1. Cardinality(rows) = n
  BY SizeOfRows
<1>2. \A m \in rows : m.seq \in 1 .. n
  BY DEF Gapless, Numbers
<1>3. \A i \in 1 .. n : \E m \in rows : m.seq = i
  BY DEF Gapless, Numbers
<1>4. ASSUME NEW m \in rows PROVE OrderOf(rows)[m.seq] = Content(m)
  <2>1. m = CHOOSE k \in rows : k.seq = m.seq
    BY DEF Gapless
  <2> QED
    BY <1>1, <1>2, <2>1 DEF OrderOf, Content
<1>5. \A m \in rows : Content(m) \in Abstract!Message
  BY DEF Gapless, RowType, Content, Abstract!Message
<1>6. \A i \in 1 .. n : OrderOf(rows)[i] \in Abstract!Message
  BY <1>3, <1>4, <1>5
<1>7. OrderOf(rows) \in [1 .. n -> Abstract!Message]
  BY <1>1, <1>6 DEF OrderOf
<1>8. OrderOf(rows) \in Seq(Abstract!Message) /\ Len(OrderOf(rows)) = n
  BY <1>7, SeqDef
<1> QED
  BY <1>2, <1>3, <1>4, <1>8

LEMMA InvIsGapless ==
  ASSUME IInv, NEW n \in Nat, Bounded(n)
  PROVE  Gapless(log, n)
BY DEF IInv, TypeOK, UniqueSeq, Bounded, Gapless

(* One row more is one message more, at the end.                           *)
LEMMA AddStep ==
  ASSUME IInv, NEW p \in Posters, Inserts(p)
  PROVE  Abstract!Next
<1>0. InOrder = OrderOf(log) /\ InOrder' = OrderOf(log')
  BY DEF InOrder, OrderOf
<1>1. PICK n \in Nat : Bounded(n)
  BY DEF IInv, NoGap
<1> DEFINE r == Row(request[p], n + 1)
<1>2. /\ nextSeq[p] = n + 1 /\ r \in RowType /\ log' = log \cup {r}
      /\ Numbers(log') = 1 .. n + 1 /\ \A m \in log : m.seq <= n
  BY <1>1, InsertedIsNext DEF Inserts, IInv
<1>3. r.seq = n + 1 /\ Content(r) = Content(request[p])
  BY DEF Row, Content
<1>4. SameKey(request[p]) = {} /\ request[p].parent \in 0 .. n
  BY <1>1 DEF Inserts, Clashes, Bounded
<1>5. r.agent = request[p].agent /\ r.key = request[p].key /\ r.parent = request[p].parent
  BY DEF Row
<1> HIDE DEF r
<1>6. Gapless(log, n)
  BY <1>1, InvIsGapless
<1>7. Gapless(log', n + 1)
  BY <1>2, <1>3, <1>6 DEF Gapless, RowType
<1>8. PICK s \in Seq(Abstract!Message) : s = InOrder
  BY <1>0, <1>6, OrderIs
<1>9. /\ Len(s) = n
      /\ \A m \in log : m.seq \in 1 .. n /\ s[m.seq] = Content(m)
      /\ \A i \in 1 .. n : \E m \in log : m.seq = i
  BY <1>0, <1>6, <1>8, OrderIs
<1>10. PICK q \in Seq(Abstract!Message) : q = InOrder'
  BY <1>0, <1>7, OrderIs
<1>11. Len(q) = n + 1 /\ \A m \in log' : m.seq \in 1 .. n + 1 /\ q[m.seq] = Content(m)
  BY <1>0, <1>7, <1>10, OrderIs
<1>12. q[n + 1] = Content(r) /\ Content(r) \in Abstract!Message
  <2>1. q[n + 1] \in Abstract!Message
    BY <1>11, ElementOfSeq
  <2> QED
    BY <1>2, <1>3, <1>11, <2>1
<1>13. q = Append(s, Content(r))
  <2>1. \A i \in 1 .. n : q[i] = s[i]
    BY <1>2, <1>9, <1>11
  <2>2. Append(s, Content(r)) \in Seq(Abstract!Message)
    BY <1>12, AppendProperties
  <2>3. Len(Append(s, Content(r))) = n + 1
    BY <1>9, <1>12, AppendProperties
  <2>4. \A i \in 1 .. n + 1 : q[i] = Append(s, Content(r))[i]
    BY <1>9, <1>12, <2>1, AppendProperties
  <2> QED
    BY <1>11, <2>2, <2>3, <2>4, SeqEqual
<1>14. Content(r).key = NoKey \/ \A i \in 1 .. n :
         <<s[i].agent, s[i].key>> # <<Content(r).agent, Content(r).key>>
  <2>1. \A m \in log : Content(m).agent = m.agent /\ Content(m).key = m.key
    BY DEF Content
  <2>2. Content(r).agent = r.agent /\ Content(r).key = r.key
    BY DEF Content
  <2>3. r.key = NoKey \/ \A m \in log : ~(m.agent = r.agent /\ m.key = r.key)
    BY <1>4, <1>5, MessageLogAssumption DEF SameKey
  <2> QED
    BY <1>9, <2>1, <2>2, <2>3
<1>15. Content(r).parent \in 0 .. n
  BY <1>4, <1>5 DEF Content
<1> QED
  BY <1>8, <1>9, <1>10, <1>11, <1>12, <1>13, <1>14, <1>15
     DEF Abstract!Next, Abstract!Add, Abstract!Fresh

(* The table of messages implements the growing sequence of ThreadLog.     *)
THEOREM LogGrowsAtTheEnd == Spec => GrowsAtTheEnd
<1>1. Init => Abstract!Init
  <2> SUFFICES ASSUME Init PROVE InOrder = <<>>
    BY DEF Abstract!Init
  <2>1. Cardinality(log) = 0
    BY FS_EmptySet DEF Init
  <2>2. 1 .. Cardinality(log) = {}
    BY <2>1
  <2> QED
    BY <2>2 DEF InOrder
<1>2. ASSUME IInv, [Next]_vars PROVE [Abstract!Next]_InOrder
  <2>1. CASE log' = log
    BY <2>1 DEF InOrder
  <2>2. ASSUME NEW p \in Posters, Inserts(p) PROVE Abstract!Next
    BY <1>2, <2>2, AddStep
  <2> QED
    BY <1>2, <2>1, <2>2, LogStep DEF IInv
<1> QED
  BY <1>1, <1>2, InvariantHolds, PTL DEF Spec, GrowsAtTheEnd, Abstract!Spec
-----------------------------------------------------------------------------
(* What a request has met: a number it computed lies beyond the thread it  *)
(* found on arrival, and so does the row it clashed with.                  *)
Size == Cardinality(log)
Met(p) ==
  /\ phase[p] # "idle" => request[p].before <= Size
  /\ phase[p] = "insert" => request[p].before < nextSeq[p]
  /\ phase[p] = "caught" /\ failure[p] = "clash" /\ SameKey(request[p]) = {} =>
       request[p].before < Size

(* The size of the thread is its latest number, and never falls.           *)
LEMMA SizeGrows ==
  ASSUME IInv, IInv', [Next]_vars
  PROVE  Size \in Nat /\ Size' \in Nat /\ Size <= Size' /\ Size = Latest
         /\ \A m \in log : m.seq \in 1 .. Size
<1>1. PICK n \in Nat : Gapless(log, n) /\ Numbers(log) = 1 .. n
  BY InvIsGapless DEF IInv, NoGap, Bounded
<1>2. Size = n /\ Latest = n
  BY <1>1, SizeOfRows, LatestIsTop DEF Size, Gapless
<1>3. PICK k \in Nat : Gapless(log', k) /\ Numbers(log') = 1 .. k
  BY DEF IInv, NoGap, Bounded, TypeOK, UniqueSeq, Gapless
<1>4. Size' = k
  BY <1>3, SizeOfRows DEF Size
<1>5. n <= k
  <2>1. log \subseteq log'
    BY LogStep DEF Inserts, IInv
  <2>2. 1 .. n \subseteq 1 .. k
    BY <1>1, <1>3, <2>1 DEF Numbers
  <2> QED
    BY <2>2
<1>6. \A m \in log : m.seq \in 1 .. n
  BY <1>1 DEF Numbers
<1> QED
  BY <1>2, <1>4, <1>5, <1>6

(* What a request has met stays true while others move.                    *)
LEMMA MetStays ==
  ASSUME NEW p \in Posters, Met(p), TypeOK, IInv, IInv', [Next]_vars,
         phase'[p] = phase[p], request'[p] = request[p], nextSeq'[p] = nextSeq[p],
         failure'[p] = failure[p]
  PROVE  Met(p)'
<1>1. Size \in Nat /\ Size' \in Nat /\ Size <= Size'
  BY SizeGrows
<1>2. SameKey(request[p])' = {} => SameKey(request[p]) = {}
  <2>1. log \subseteq log'
    BY LogStep DEF Inserts
  <2> QED
    BY <2>1 DEF SameKey
<1>3. phase[p] # "idle" => request[p].before \in Nat
  BY DEF TypeOK, Request
<1> QED
  BY <1>1, <1>2, <1>3 DEF Met

(* An own step: it reads a number beyond the thread it found, and clashes  *)
(* with a row of that number.                                              *)
LEMMA OwnStepMeets ==
  ASSUME NEW p \in Posters, Met(p), IInv, IInv', Step(p)
  PROVE  Met(p)'
<1>1. /\ Size \in Nat /\ Size' \in Nat /\ Size <= Size' /\ Size = Latest
      /\ \A m \in log : m.seq \in 1 .. Size
  BY SizeGrows DEF Next
<1>2. phase[p] # "idle" => request[p].before \in Nat
  BY DEF IInv, TypeOK, Request
<1>3. CASE phase'[p] = "idle"
  BY <1>3 DEF Met
<1>4. CASE Receive(p)
  <2>1. /\ request'[p].before = Size /\ log' = log
        /\ phase'[p] \in {"parent", "lookup", "latest"}
    BY <1>4 DEF Receive, IInv, TypeOK, Size
  <2>2. Size' = Size
    BY <2>1 DEF Size
  <2> QED
    BY <1>1, <2>1, <2>2 DEF Met
<1>5. CASE /\ request'[p] = request[p]
           /\ phase[p] # "idle" /\ phase'[p] \in {"lookup", "latest"}
  BY <1>1, <1>2, <1>5 DEF Met
<1>6. CASE ReadLatest(p)
  <2>1. /\ request'[p] = request[p] /\ phase[p] = "latest"
        /\ nextSeq'[p] = Size + 1 /\ phase'[p] = "insert"
    BY <1>1, <1>6 DEF ReadLatest, NextSeq, GoTo, IInv, TypeOK
  <2> QED
    BY <1>1, <1>2, <2>1 DEF Met
<1>7. CASE InsertClashes(p)
  <2>1. /\ request'[p] = request[p] /\ phase[p] = "insert"
        /\ phase'[p] = "caught" /\ log' = log
    BY <1>7 DEF InsertClashes, GoTo, IInv, TypeOK
  <2>2. SameKey(request[p]) = {} => \E m \in log : m.seq = nextSeq[p]
    BY <1>7 DEF InsertClashes, Clashes
  <2>3. nextSeq[p] \in Nat
    BY DEF IInv, TypeOK
  <2>4. (SameKey(request[p]) = {})' <=> SameKey(request[p]) = {}
    BY <2>1 DEF SameKey
  <2>5. SameKey(request[p]) = {} => request[p].before < Size
    BY <1>1, <1>2, <2>1, <2>2, <2>3 DEF Met
  <2>6. Size' = Size
    BY <2>1 DEF Size
  <2> QED
    BY <1>1, <1>2, <2>1, <2>4, <2>5, <2>6 DEF Met
<1>8. CASE InsertUnreported(p)
  <2>1. /\ request'[p] = request[p] /\ phase[p] = "insert"
        /\ phase'[p] = "caught" /\ failure'[p] = "lost"
    BY <1>8 DEF InsertUnreported, GoTo, IInv, TypeOK
  <2> QED
    BY <1>1, <1>2, <2>1 DEF Met
<1>9. ASSUME Reset(p) PROVE phase'[p] = "idle"
  BY <1>9 DEF Reset, IInv, TypeOK
<1>10. ASSUME CheckParent(p) \/ LookupKey(p), ~Reset(p)
       PROVE  /\ request'[p] = request[p]
              /\ phase[p] # "idle" /\ phase'[p] \in {"lookup", "latest"}
  BY <1>10 DEF CheckParent, LookupKey, Replay, Answer, GoTo, IInv, TypeOK
<1>11. ASSUME Insert(p) \/ Catch(p) \/ Die(p) PROVE Reset(p)
  BY <1>11 DEF Insert, Catch, Replay, Die, Answer
<1> QED
  BY <1>3, <1>4, <1>5, <1>6, <1>7, <1>8, <1>9, <1>10, <1>11 DEF Step

(* A step of another poster or of a reader.                                *)
LEMMA OthersMove ==
  ASSUME TypeOK, NEW p \in Posters, [Next]_vars, ~Step(p)
  PROVE  /\ phase'[p] = phase[p] /\ request'[p] = request[p] /\ nextSeq'[p] = nextSeq[p]
         /\ failure'[p] = failure[p]
<1>1. ASSUME NEW q \in Posters, q # p, Step(q)
      PROVE  /\ phase'[p] = phase[p] /\ request'[p] = request[p] /\ nextSeq'[p] = nextSeq[p]
             /\ failure'[p] = failure[p]
  <2>1. CASE Reset(q)
    BY <1>1, <2>1 DEF Reset, TypeOK
  <2>2. CASE ~Reset(q)
    BY <1>1, <2>2 DEF Step, Receive, CheckParent, LookupKey, ReadLatest, Insert,
       InsertClashes, InsertUnreported, Catch, Die, Replay, Answer, GoTo, TypeOK
  <2> QED
    BY <2>1, <2>2
<1>2. ASSUME (\E r \in Readers : ReadPage(r)) \/ UNCHANGED vars
      PROVE  UNCHANGED posterVars
  BY <1>2 DEF ReadPage, vars, posterVars
<1> QED
  BY <1>1, <1>2 DEF Next, posterVars

(* Who is told of a clash had met another row, and none of its own key.    *)
LEMMA ClashIsLate ==
  ASSUME IInv, IInv', ClashEarned, \A p \in Posters : Met(p), [Next]_vars
  PROVE  ClashEarned'
<1>1. ASSUME NEW a \in answers', a \notin answers, a.outcome = "clash"
      PROVE  a.after > a.request.before
  <2>1. PICK p \in Posters : Step(p)
    BY <1>1 DEF Next, ReadPage, vars
  <2>2. \A outcome, seq : Answer(p, outcome, seq) =>
          outcome = "clash" /\ a = Made(p, outcome, seq)
    BY <1>1, AnswerAdds DEF Made
  <2>3. phase[p] = "caught" /\ SameKey(request[p]) = {}
        /\ failure[p] = "clash" /\ a = Made(p, "clash", 0)
    BY <1>1, <2>1, <2>2 DEF Step, Receive, CheckParent, LookupKey, ReadLatest, Insert,
       InsertClashes, InsertUnreported, Catch, Die, Replay, GoTo
  <2>4. a.after = Size /\ a.request.before = request[p].before
    BY <2>3 DEF Made, Size
  <2>5. request[p].before \in Nat /\ Size \in Nat
    BY <2>3, SizeGrows DEF IInv, TypeOK, Request
  <2>6. request[p].before < Size
    BY <2>3 DEF Met
  <2> QED
    BY <2>4, <2>5, <2>6
<1> QED
  BY <1>1 DEF ClashEarned

(* A post is turned away by a clash only if another message was added to   *)
(* the thread while it was under way.                                      *)
THEOREM ClashesAreEarned == Spec => []ClashEarned
<1> DEFINE AllMet == \A p \in Posters : Met(p)
<1>1. Init => AllMet /\ ClashEarned
  BY DEF Init, Met, ClashEarned
<1>2. IInv /\ IInv' /\ AllMet /\ [Next]_vars => AllMet'
  BY MetStays, OwnStepMeets, OthersMove DEF IInv
<1>3. IInv /\ IInv' /\ AllMet /\ ClashEarned /\ [Next]_vars => ClashEarned'
  BY ClashIsLate
<1> HIDE DEF AllMet
<1> QED
  BY <1>1, <1>2, <1>3, InvariantHolds, PTL DEF Spec
=============================================================================
