------------------------ MODULE RuntimeDeliveryProofs ------------------------
(***************************************************************************)
(* Proofs about RuntimeDelivery, for any jobs, ticks, limits and bounds:   *)
(* what is recorded of a job is true and its agent gets it whole at most   *)
(* once, types, how often an envelope is begun, and the shortcut that ends *)
(* a crash loop.                                                           *)
(***************************************************************************)
EXTENDS RuntimeDelivery, StampLemmas

AttemptPhases == Phases \ {"idle", "ready"}

Types ==
  /\ state \in [Jobs -> JobStates]
  /\ hand \in [Ticks -> SUBSET Jobs]
  /\ current \in [Ticks -> Jobs \cup {NoJob}]
  /\ phase \in [Ticks -> Phases]
  /\ verdict \in [Ticks -> JobStates \ {"held"}]
  /\ wakes \in [Jobs -> Nat]
  /\ deaths \in Nat
  /\ line \in [Ticks -> Nat]
  /\ reached \in [Ticks -> BOOLEAN]

(* One tick holds a job, and it works on a job that it holds.              *)
Holding ==
  /\ \A s, q \in Ticks : s # q => hand[s] \cap hand[q] = {}
  /\ \A s \in Ticks : \A j \in hand[s] : state[j] = "held"
  /\ \A s \in Ticks : phase[s] \in AttemptPhases => current[s] \in hand[s]

(* What st says of job j is true.                                          *)
Told(st, j) ==
  /\ wakes[j] <= 1
  /\ st \in {"fallback_resume", "fallback_spawn"} => wakes[j] = 1
  /\ st \in {"waiting", "failed"} => wakes[j] = 0
  /\ st = "delivered" /\ deaths = 0 => wakes[j] = 1

(* Until the end of its attempt nobody got a held job whole.               *)
Truth ==
  /\ \A j \in Jobs : Told(state[j], j)
  /\ \A s \in Ticks : phase[s] = "recording" => Told(verdict[s], current[s])
  /\ \A s \in Ticks : \A j \in hand[s] :
       phase[s] # "recording" \/ j # current[s] => wakes[j] = 0

(* While no process in the pane died, the one that was probed got all the  *)
(* lines.                                                                  *)
Typed ==
  \A s \in Ticks : deaths = 0 =>
    /\ phase[s] \in {"activity", "text", "enter"} => pane = "live"
    /\ phase[s] = "activity" => line[s] = 1
    /\ phase[s] = "enter" \/ (phase[s] = "text" /\ line[s] # 1) => reached[s]

IInv == Types /\ Holding /\ Truth /\ Typed

-----------------------------------------------------------------------------
LEMMA InitIInv == Init => IInv
<1>1. SUFFICES ASSUME Init PROVE IInv
  OBVIOUS
<1>2. Types
  BY <1>1 DEF Init, Types, JobStates, SettledStates, WokenStates, Phases
<1>3. Holding
  BY <1>1 DEF Init, Holding, AttemptPhases
<1>4. Truth
  BY <1>1 DEF Init, Truth, Told
<1>5. Typed
  BY <1>1 DEF Init, Typed
<1> QED
  BY <1>2, <1>3, <1>4, <1>5 DEF IInv

(* A step of an attempt: the tick stays with its job and goes to the next  *)
(* phase, or decides what to record of it, which is true.                  *)
LEMMA AttemptStep ==
  ASSUME Types, Holding, Truth, NEW s \in Ticks,
         phase[s] \in AttemptPhases \ {"recording"},
         UNCHANGED <<state, hand, current, deaths>>,
         NEW p \in AttemptPhases, phase' = [phase EXCEPT ![s] = p],
         NEW v \in JobStates \ {"held"},
         verdict' = verdict \/ verdict' = [verdict EXCEPT ![s] = v],
         \/ wakes' = wakes
         \/ wakes' = [wakes EXCEPT ![current[s]] = @ + 1],
         p # "recording" => wakes' = wakes,
         p = "recording" => /\ verdict' = [verdict EXCEPT ![s] = v]
                            /\ Told(v, current[s])'
  PROVE  Holding' /\ Truth' /\ current[s] \in Jobs /\ wakes[current[s]] = 0
         /\ phase' \in [Ticks -> Phases] /\ verdict' \in [Ticks -> JobStates \ {"held"}]
         /\ wakes' \in [Jobs -> Nat]
<1>1. current[s] \in hand[s] /\ current[s] \in Jobs
  BY DEF Holding, Types
<1>2. wakes[current[s]] = 0 /\ state[current[s]] = "held"
  BY <1>1 DEF Truth, Holding
<1>3. wakes' \in [Jobs -> Nat] /\ wakes'[current[s]] \in {0, 1}
      /\ \A j \in Jobs : j # current[s] => wakes'[j] = wakes[j]
  BY <1>1, <1>2 DEF Types
<1>4. /\ phase' \in [Ticks -> Phases] /\ phase'[s] = p
      /\ \A q \in Ticks : q # s => phase'[q] = phase[q]
  BY DEF Types, AttemptPhases
<1>5. /\ verdict' \in [Ticks -> JobStates \ {"held"}]
      /\ \A q \in Ticks : q # s => verdict'[q] = verdict[q]
      /\ p = "recording" => verdict'[s] = v
  BY DEF Types
<1>6. Holding'
  BY <1>1, <1>4 DEF Holding
<1>7. \A j \in Jobs : Told(state[j], j)'
  BY <1>2, <1>3 DEF Truth, Told
<1>8. ASSUME NEW q \in Ticks, phase'[q] = "recording" PROVE Told(verdict[q], current[q])'
  <2>1. CASE q = s
    BY <1>4, <1>5, <1>8, <2>1 DEF Told
  <2>2. CASE q # s
    <3>1. current[q] \in hand[q] /\ current[q] \in Jobs
      BY <1>4, <1>8, <2>2 DEF Holding, AttemptPhases, Phases, Types
    <3>2. current[q] # current[s]
      BY <1>1, <2>2, <3>1 DEF Holding
    <3> QED
      BY <1>3, <1>4, <1>5, <1>8, <2>2, <3>1, <3>2 DEF Truth, Told
  <2> QED
    BY <2>1, <2>2
<1>9. ASSUME NEW q \in Ticks, NEW j \in hand'[q],
             phase'[q] # "recording" \/ j # current'[q]
      PROVE  wakes'[j] = 0
  <2>1. j \in hand[q] /\ j \in Jobs
    BY <1>9 DEF Types
  <2>2. CASE j = current[s]
    <3>1. q = s
      BY <1>1, <2>1, <2>2 DEF Holding
    <3> QED
      BY <1>2, <1>4, <1>9, <2>2, <3>1
  <2>3. CASE j # current[s]
    <3>1. wakes[j] = 0
      BY <1>4, <1>9, <2>1, <2>3 DEF Truth
    <3> QED
      BY <1>3, <2>1, <2>3, <3>1
  <2> QED
    BY <2>2, <2>3
<1>10. Truth'
  BY <1>7, <1>8, <1>9 DEF Truth
<1> QED
  BY <1>1, <1>2, <1>3, <1>4, <1>5, <1>6, <1>10

(* What is decided for a job is the given status, or a failure.            *)
LEMMA Decided ==
  ASSUME Types, NEW s \in Ticks, NEW st \in JobStates \ {"held"}, Decide(s, st)
  PROVE  /\ phase' = [phase EXCEPT ![s] = "recording"]
         /\ \E v \in JobStates \ {"held"} :
              /\ verdict' = [verdict EXCEPT ![s] = v]
              /\ v = st \/ (v = "failed" /\ st \notin WokenStates)
BY DEF Decide, JobStates, SettledStates

(* A job that was not delivered waits, is failed, or is handed on.         *)
LEMMA UndeliveredStep ==
  ASSUME Types, Holding, Truth, NEW s \in Ticks,
         phase[s] \in AttemptPhases \ {"recording"},
         UNCHANGED <<state, hand, current, deaths, wakes>>,
         NEW result, NEW retryable, Undelivered(s, result, retryable)
  PROVE  /\ Holding' /\ Truth'
         /\ phase' \in [Ticks -> Phases] /\ verdict' \in [Ticks -> JobStates \ {"held"}]
         /\ phase' \in {[phase EXCEPT ![s] = "recording"], [phase EXCEPT ![s] = "lookup"]}
<1>1. current[s] \in Jobs /\ wakes[current[s]] = 0
  BY DEF Holding, Truth, Types
<1>2. CASE Decide(s, "waiting")
  <2>1. "waiting" \in JobStates \ {"held"} /\ "waiting" \notin WokenStates
    BY DEF JobStates, SettledStates, WokenStates
  <2>2. PICK v \in JobStates \ {"held"} :
           /\ verdict' = [verdict EXCEPT ![s] = v]
           /\ v \in {"waiting", "failed"}
    BY <1>2, <2>1, Decided
  <2>3. phase' = [phase EXCEPT ![s] = "recording"]
    BY <1>2, <2>1, Decided
  <2>4. Told(v, current[s])'
    BY <1>1, <2>2 DEF Told
  <2>5. "recording" \in AttemptPhases
    BY DEF AttemptPhases, Phases
  <2> QED
    BY <2>2, <2>3, <2>4, <2>5, AttemptStep
<1>3. CASE GoTo(s, "lookup")
  <2>1. "lookup" \in AttemptPhases /\ "failed" \in JobStates \ {"held"}
    BY DEF AttemptPhases, Phases, JobStates, SettledStates
  <2>2. phase' = [phase EXCEPT ![s] = "lookup"] /\ verdict' = verdict
    BY <1>3 DEF GoTo
  <2> QED
    BY <2>1, <2>2, AttemptStep
<1> QED
  BY <1>2, <1>3 DEF Undelivered

LEMMA GoToStep ==
  ASSUME Types, Holding, Truth, NEW s \in Ticks,
         phase[s] \in AttemptPhases \ {"recording"},
         UNCHANGED <<state, hand, current, deaths, wakes>>,
         NEW p \in AttemptPhases \ {"recording"}, GoTo(s, p)
  PROVE  /\ Holding' /\ Truth'
         /\ phase' \in [Ticks -> Phases] /\ verdict' \in [Ticks -> JobStates \ {"held"}]
         /\ phase' = [phase EXCEPT ![s] = p]
<1>1. "failed" \in JobStates \ {"held"}
  BY DEF JobStates, SettledStates
<1>2. phase' = [phase EXCEPT ![s] = p] /\ verdict' = verdict
  BY DEF GoTo
<1> QED
  BY <1>1, <1>2, AttemptStep

(* A job that was woken, or may have been, and is recorded as such.        *)
LEMMA WokenStep ==
  ASSUME Types, Holding, Truth, NEW s \in Ticks,
         phase[s] \in AttemptPhases \ {"recording"},
         UNCHANGED <<state, hand, current, deaths>>,
         NEW st \in WokenStates, Decide(s, st),
         \/ wakes' = [wakes EXCEPT ![current[s]] = @ + 1]
         \/ wakes' = wakes /\ st = "delivered" /\ deaths # 0
  PROVE  /\ Holding' /\ Truth'
         /\ phase' \in [Ticks -> Phases] /\ verdict' \in [Ticks -> JobStates \ {"held"}]
         /\ wakes' \in [Jobs -> Nat]
         /\ phase' = [phase EXCEPT ![s] = "recording"]
<1>1. current[s] \in Jobs /\ wakes[current[s]] = 0
  BY DEF Holding, Truth, Types
<1>2. st \in JobStates \ {"held"}
  BY DEF JobStates, SettledStates, WokenStates
<1>3. phase' = [phase EXCEPT ![s] = "recording"] /\ verdict' = [verdict EXCEPT ![s] = st]
  BY <1>2, Decided
<1>4. Told(st, current[s])'
  BY <1>1 DEF Told, Types, WokenStates
<1>5. "recording" \in AttemptPhases
  BY DEF AttemptPhases, Phases
<1> QED
  BY <1>2, <1>3, <1>4, <1>5, AttemptStep

-----------------------------------------------------------------------------
(* Every step keeps the invariant.                                         *)

(* A step of a tick that comes neither to a pane nor out of one.           *)
LEMMA TypedKept ==
  ASSUME Types, Typed, NEW s \in Ticks, UNCHANGED <<deaths, pane>>,
         phase'[s] \notin {"activity", "text", "enter"},
         \A q \in Ticks : q # s => /\ phase'[q] = phase[q] /\ line'[q] = line[q]
                                   /\ reached'[q] = reached[q]
  PROVE  Typed'
BY DEF Typed

LEMMA EndTicksStep ==
  ASSUME IInv, NEW Ended \in SUBSET Ticks, EndTicks(Ended),
         UNCHANGED <<outsideVars, jobVars, wakes>>
  PROVE  IInv'
<1>1. "failed" \in JobStates \ {"held"} /\ "idle" \in Phases /\ 1 \in Nat
  BY DEF JobStates, SettledStates, Phases
<1>2. \A s \in Ticks \ Ended :
        /\ phase'[s] = phase[s] /\ hand'[s] = hand[s] /\ current'[s] = current[s]
        /\ verdict'[s] = verdict[s] /\ line'[s] = line[s] /\ reached'[s] = reached[s]
  BY DEF EndTicks
<1>3. \A s \in Ended : phase'[s] = "idle" /\ hand'[s] = {}
  BY DEF EndTicks
<1>4. Types'
  <2>1. /\ phase' \in [Ticks -> Phases] /\ hand' \in [Ticks -> SUBSET Jobs]
        /\ current' \in [Ticks -> Jobs \cup {NoJob}]
        /\ verdict' \in [Ticks -> JobStates \ {"held"}]
    BY <1>1 DEF IInv, Types, EndTicks
  <2>2. line' \in [Ticks -> Nat]
    BY <1>1 DEF IInv, Types, EndTicks
  <2>3. reached' \in [Ticks -> BOOLEAN]
    BY DEF IInv, Types, EndTicks
  <2> QED
    BY <2>1, <2>2, <2>3 DEF IInv, Types, outsideVars, jobVars
<1>5. Holding'
  BY <1>2, <1>3 DEF IInv, Holding, AttemptPhases, jobVars
<1>6. Truth'
  BY <1>2, <1>3 DEF IInv, Truth, Told, jobVars, outsideVars
<1>7. Typed'
  BY <1>2, <1>3 DEF IInv, Typed, outsideVars
<1> QED
  BY <1>4, <1>5, <1>6, <1>7 DEF IInv

LEMMA QueueSteps ==
  ASSUME IInv, NEW s \in Ticks, StartTick(s) \/ Begin(s) \/ Record(s)
  PROVE  IInv'
<1>1. CASE StartTick(s)
  <2>1. PICK batch \in SUBSET {j \in Jobs : state[j] = "waiting"} :
          /\ hand' = [hand EXCEPT ![s] = batch]
          /\ state' = [j \in Jobs |-> IF j \in batch THEN "held" ELSE state[j]]
    BY <1>1 DEF StartTick
  <2>2. phase[s] = "idle" /\ phase' = [phase EXCEPT ![s] = "ready"]
    BY <1>1 DEF StartTick
  <2>3. UNCHANGED <<current, verdict, wakes, deaths, line, reached, pane>>
    BY <1>1 DEF StartTick, outsideVars, historyVars
  <2>4. Types'
    BY <2>1, <2>2, <2>3 DEF IInv, Types, JobStates, Phases
  <2>5. Holding'
    BY <2>1, <2>2, <2>3 DEF IInv, Types, Holding, AttemptPhases
  <2>6. \A j \in batch : wakes[j] = 0
    BY DEF IInv, Truth, Told
  <2>7. Truth'
    BY <2>1, <2>2, <2>3, <2>6 DEF IInv, Types, Truth, Told
  <2>8. Typed'
    BY <2>2, <2>3, TypedKept DEF IInv, Types
  <2> QED
    BY <2>4, <2>5, <2>7, <2>8 DEF IInv
<1>2. CASE Begin(s)
  <2>1. PICK j \in hand[s] : current' = [current EXCEPT ![s] = j]
    BY <1>2 DEF Begin
  <2>2. phase[s] = "ready" /\ phase' = [phase EXCEPT ![s] = "runtime"]
    BY <1>2 DEF Begin
  <2>3. UNCHANGED <<state, hand, verdict, wakes, deaths, line, reached, pane>>
    BY <1>2 DEF Begin, outsideVars, jobVars, historyVars
  <2>4. Types'
    BY <2>1, <2>2, <2>3 DEF IInv, Types, Phases
  <2>5. Holding'
    BY <2>1, <2>2, <2>3 DEF IInv, Types, Holding, AttemptPhases
  <2>6. Truth'
    BY <2>1, <2>2, <2>3 DEF IInv, Types, Truth, Told
  <2>7. Typed'
    BY <2>2, <2>3, TypedKept DEF IInv, Types
  <2> QED
    BY <2>4, <2>5, <2>6, <2>7 DEF IInv
<1>3. CASE Record(s)
  <2> DEFINE j == current[s]
  <2>1. phase[s] = "recording" /\ j \in hand[s] /\ j \in Jobs
    BY <1>3 DEF Record, IInv, Holding, AttemptPhases, Phases, Types
  <2>2. /\ state' = [state EXCEPT ![j] = verdict[s]]
        /\ hand' = [hand EXCEPT ![s] = @ \ {j}]
        /\ phase' = [phase EXCEPT ![s] = "ready"]
        /\ current' = [current EXCEPT ![s] = NoJob]
        /\ verdict' = [verdict EXCEPT ![s] = "failed"]
    BY <1>3 DEF Record
  <2>3. /\ line' = [line EXCEPT ![s] = 1]
        /\ reached' = [reached EXCEPT ![s] = FALSE]
        /\ UNCHANGED <<wakes, deaths, pane>>
    BY <1>3 DEF Record, outsideVars, historyVars
  <2>4. Types'
    <3>1. /\ state' \in [Jobs -> JobStates] /\ hand' \in [Ticks -> SUBSET Jobs]
          /\ current' \in [Ticks -> Jobs \cup {NoJob}] /\ phase' \in [Ticks -> Phases]
          /\ verdict' \in [Ticks -> JobStates \ {"held"}]
      BY <2>1, <2>2 DEF IInv, Types, JobStates, SettledStates, Phases
    <3>2. line' \in [Ticks -> Nat]
      BY <2>3 DEF IInv, Types
    <3>3. reached' \in [Ticks -> BOOLEAN]
      BY <2>3 DEF IInv, Types
    <3> QED
      BY <2>3, <3>1, <3>2, <3>3 DEF IInv, Types
  <2>5. Holding'
    BY <2>1, <2>2 DEF IInv, Types, Holding, AttemptPhases
  <2>6. Told(verdict[s], j) /\ wakes[j] <= 1
    BY <2>1 DEF IInv, Truth, Told
  <2>7. Truth'
    <3>1. \A i \in Jobs : Told(state[i], i)'
      BY <2>1, <2>2, <2>3, <2>6 DEF IInv, Types, Truth, Told
    <3>2. \A q \in Ticks : phase'[q] = "recording" => Told(verdict[q], current[q])'
      BY <2>2, <2>3 DEF IInv, Types, Truth, Told
    <3>3. \A q \in Ticks : \A i \in hand'[q] :
            phase'[q] # "recording" \/ i # current'[q] => wakes'[i] = 0
      BY <2>1, <2>2, <2>3 DEF IInv, Types, Truth
    <3> QED
      BY <3>1, <3>2, <3>3 DEF Truth
  <2>8. Typed'
    BY <2>2, <2>3, TypedKept DEF IInv, Types
  <2> QED
    BY <2>4, <2>5, <2>7, <2>8 DEF IInv
<1> QED
  BY <1>1, <1>2, <1>3

LEMMA ExecutorSteps ==
  ASSUME IInv, NEW s \in Ticks,
         GetRuntime(s) \/ Probe(s) \/ ActivityProbe(s) \/ SendText(s) \/ SendEnter(s)
  PROVE  IInv'
<1>1. /\ phase[s] \in {"runtime", "probe", "activity", "text", "enter"}
      /\ UNCHANGED <<state, hand, current, deaths, pane>>
  BY DEF GetRuntime, Probe, ActivityProbe, SendText, SendEnter, jobVars, outsideVars
<1>2. phase[s] \in AttemptPhases \ {"recording"}
  BY <1>1 DEF AttemptPhases, Phases, TypingPhases
<1>3. /\ {"probe", "activity", "text", "enter"} \subseteq AttemptPhases \ {"recording"}
      /\ "delivered" \in WokenStates
  BY DEF AttemptPhases, Phases, TypingPhases, WokenStates
<1>4. /\ line' \in [Ticks -> Nat]
      /\ \A q \in Ticks : q # s => line'[q] = line[q]
  <2>1. line' \in {line, [line EXCEPT ![s] = 1], [line EXCEPT ![s] = @ + 1]}
    BY DEF GetRuntime, Probe, ActivityProbe, SendText, SendEnter
  <2> QED
    BY <2>1 DEF IInv, Types
<1>5. /\ reached' \in [Ticks -> BOOLEAN]
      /\ \A q \in Ticks : q # s => reached'[q] = reached[q]
  <2>1. CASE SendText(s)
    <3>1. (pane = "live" /\ (line[s] = 1 \/ reached[s])) \in BOOLEAN
      OBVIOUS
    <3>2. \/ reached' = [reached EXCEPT ![s] = pane = "live" /\ (line[s] = 1 \/ reached[s])]
          \/ reached' = reached
      BY <2>1 DEF SendText
    <3> QED
      BY <3>1, <3>2 DEF IInv, Types
  <2>2. CASE UNCHANGED reached
    BY <2>2 DEF IInv, Types
  <2> QED
    BY <2>1, <2>2 DEF GetRuntime, Probe, ActivityProbe, SendEnter
<1>6. ASSUME UNCHANGED wakes, NEW result, NEW retryable, Undelivered(s, result, retryable)
      PROVE  IInv'
  <2>1. /\ Holding' /\ Truth'
        /\ phase' \in [Ticks -> Phases] /\ verdict' \in [Ticks -> JobStates \ {"held"}]
        /\ phase' \in {[phase EXCEPT ![s] = "recording"], [phase EXCEPT ![s] = "lookup"]}
    BY <1>1, <1>2, <1>6, UndeliveredStep DEF IInv
  <2>2. /\ phase'[s] \notin {"activity", "text", "enter"}
        /\ \A q \in Ticks : q # s => phase'[q] = phase[q]
    BY <2>1 DEF IInv, Types
  <2>3. Typed'
    BY <1>1, <1>4, <1>5, <2>2, TypedKept DEF IInv
  <2> QED
    BY <1>1, <1>4, <1>5, <1>6, <2>1, <2>3 DEF IInv, Types
<1>7. ASSUME UNCHANGED wakes, NEW p \in {"probe", "activity", "text", "enter"}, GoTo(s, p),
             deaths = 0 /\ p # "probe" => pane = "live",
             p = "activity" => line'[s] = 1,
             deaths = 0 /\ (p = "enter" \/ (p = "text" /\ line'[s] # 1)) => reached'[s]
      PROVE  IInv'
  <2>1. /\ Holding' /\ Truth'
        /\ phase' \in [Ticks -> Phases] /\ verdict' \in [Ticks -> JobStates \ {"held"}]
        /\ phase' = [phase EXCEPT ![s] = p]
    BY <1>1, <1>2, <1>3, <1>7, GoToStep DEF IInv
  <2>2. /\ phase'[s] = p
        /\ \A q \in Ticks : q # s => phase'[q] = phase[q]
    BY <2>1 DEF IInv, Types
  <2>3. ASSUME NEW q \in Ticks, deaths' = 0
        PROVE  /\ phase'[q] \in {"activity", "text", "enter"} => pane' = "live"
               /\ phase'[q] = "activity" => line'[q] = 1
               /\ phase'[q] = "enter" \/ (phase'[q] = "text" /\ line'[q] # 1) => reached'[q]
    <3>1. deaths = 0 /\ pane' = pane
      BY <1>1, <2>3
    <3>2. CASE q = s
      BY <1>7, <2>2, <3>1, <3>2
    <3>3. CASE q # s
      <4>1. phase'[q] = phase[q] /\ line'[q] = line[q] /\ reached'[q] = reached[q]
        BY <1>4, <1>5, <2>2, <3>3
      <4> QED
        BY <3>1, <4>1 DEF IInv, Typed
    <3> QED
      BY <3>2, <3>3
  <2>4. Typed'
    BY <2>3 DEF Typed
  <2> QED
    BY <1>1, <1>4, <1>5, <1>7, <2>1, <2>4 DEF IInv, Types
<1>8. CASE GetRuntime(s)
  <2>1. UNCHANGED wakes
    BY <1>8 DEF GetRuntime, historyVars
  <2>2. \/ \E result \in {"failed", "timeout", "deferred"}, retryable \in BOOLEAN :
             Undelivered(s, result, retryable)
        \/ GoTo(s, "probe")
    BY <1>8 DEF GetRuntime, Busy, TurnedDown
  <2> QED
    BY <1>6, <1>7, <2>1, <2>2
<1>9. CASE Probe(s)
  <2>1. UNCHANGED wakes /\ line'[s] = 1
    BY <1>9 DEF Probe, historyVars, IInv, Types
  <2>2. \/ Undelivered(s, "timeout", TRUE)
        \/ pane = "live" /\ \E p \in {"text", "activity"} : GoTo(s, p)
    BY <1>9 DEF Probe
  <2> QED
    BY <1>6, <1>7, <2>1, <2>2
<1>10. CASE ActivityProbe(s)
  <2>1. UNCHANGED <<wakes, line, reached>> /\ phase[s] = "activity"
    BY <1>10 DEF ActivityProbe, historyVars
  <2>2. \/ \E result \in {"timeout", "deferred"}, retryable \in BOOLEAN :
             Undelivered(s, result, retryable)
        \/ GoTo(s, "text")
    BY <1>10 DEF ActivityProbe, Busy
  <2>3. deaths = 0 => pane = "live" /\ line[s] = 1
    BY <2>1 DEF IInv, Typed
  <2>4. CASE GoTo(s, "text")
    BY <1>7, <2>1, <2>3, <2>4
  <2> QED
    BY <1>6, <2>1, <2>2, <2>4
<1>11. CASE SendText(s)
  <2>1. UNCHANGED <<wakes, line>> /\ phase[s] = "text"
    BY <1>11 DEF SendText
  <2>2. deaths = 0 => pane = "live" /\ (line[s] = 1 \/ reached[s])
    BY <2>1 DEF IInv, Typed
  <2>3. CASE Undelivered(s, "timeout", TRUE)
    BY <1>6, <2>1, <2>3
  <2>4. CASE /\ GoTo(s, "enter")
             /\ reached' = [reached EXCEPT ![s] = pane = "live" /\ (line[s] = 1 \/ @)]
    <3>1. deaths = 0 => reached'[s]
      BY <2>2, <2>4 DEF IInv, Types
    <3> QED
      BY <1>7, <2>1, <2>2, <2>4, <3>1
  <2> QED
    BY <1>11, <2>3, <2>4 DEF SendText
<1>12. CASE SendEnter(s)
  <2>1. phase[s] = "enter" /\ UNCHANGED reached
    BY <1>12 DEF SendEnter
  <2>2. deaths = 0 => pane = "live" /\ reached[s]
    BY <2>1 DEF IInv, Typed
  <2>3. CASE Undelivered(s, "timeout", TRUE) /\ UNCHANGED wakes
    BY <1>6, <2>3
  <2>4. CASE GoTo(s, "text") /\ UNCHANGED wakes
    BY <1>7, <2>1, <2>2, <2>4
  <2>5. CASE /\ Decide(s, "delivered")
             /\ wakes' = IF reached[s] THEN [wakes EXCEPT ![current[s]] = @ + 1] ELSE wakes
    <3>1. \/ wakes' = [wakes EXCEPT ![current[s]] = @ + 1]
          \/ wakes' = wakes /\ "delivered" = "delivered" /\ deaths # 0
      BY <2>2, <2>5
    <3>2. /\ Holding' /\ Truth'
          /\ phase' \in [Ticks -> Phases] /\ verdict' \in [Ticks -> JobStates \ {"held"}]
          /\ wakes' \in [Jobs -> Nat]
          /\ phase' = [phase EXCEPT ![s] = "recording"]
      BY <1>1, <1>2, <1>3, <2>5, <3>1, WokenStep DEF IInv
    <3>3. /\ phase'[s] = "recording"
          /\ \A q \in Ticks : q # s => phase'[q] = phase[q]
      BY <3>2 DEF IInv, Types
    <3>4. Typed'
      BY <1>1, <1>4, <1>5, <3>3, TypedKept DEF IInv
    <3> QED
      BY <1>1, <1>4, <1>5, <3>2, <3>4 DEF IInv, Types
  <2> QED
    BY <1>12, <2>3, <2>4, <2>5 DEF SendEnter
<1> QED
  BY <1>8, <1>9, <1>10, <1>11, <1>12

LEMMA FallbackSteps ==
  ASSUME IInv, NEW s \in Ticks, LookUp(s) \/ Resume(s) \/ Spawn(s)
  PROVE  IInv'
<1>1. /\ phase[s] \in {"lookup", "resume", "spawn"}
      /\ UNCHANGED <<state, hand, current, deaths, pane, line, reached>>
  BY DEF LookUp, Resume, Spawn, jobVars, outsideVars
<1>2. phase[s] \in AttemptPhases \ {"recording"}
  BY <1>1 DEF AttemptPhases, Phases
<1>3. /\ {"resume", "spawn"} \subseteq AttemptPhases \ {"recording"}
      /\ "fallback_resume" \in WokenStates /\ "fallback_spawn" \in WokenStates
  BY DEF AttemptPhases, Phases, WokenStates
<1>4. ASSUME Holding', Truth', phase' \in [Ticks -> Phases],
             verdict' \in [Ticks -> JobStates \ {"held"}], wakes' \in [Jobs -> Nat],
             NEW p \in {"resume", "spawn", "recording"}, phase' = [phase EXCEPT ![s] = p]
      PROVE  IInv'
  <2>1. /\ phase'[s] \notin {"activity", "text", "enter"}
        /\ \A q \in Ticks : q # s => phase'[q] = phase[q]
    BY <1>4 DEF IInv, Types
  <2>2. Typed'
    BY <1>1, <2>1, TypedKept DEF IInv
  <2> QED
    BY <1>1, <1>4, <2>2 DEF IInv, Types
<1>5. ASSUME UNCHANGED wakes, NEW p \in {"resume", "spawn"}, GoTo(s, p) PROVE IInv'
  <2>1. /\ Holding' /\ Truth'
        /\ phase' \in [Ticks -> Phases] /\ verdict' \in [Ticks -> JobStates \ {"held"}]
        /\ phase' = [phase EXCEPT ![s] = p]
    BY <1>1, <1>2, <1>3, <1>5, GoToStep DEF IInv
  <2> QED
    BY <1>4, <1>5, <2>1 DEF IInv, Types
<1>6. ASSUME wakes' = [wakes EXCEPT ![current[s]] = @ + 1],
             NEW st \in {"fallback_resume", "fallback_spawn"}, Decide(s, st)
      PROVE  IInv'
  <2>1. /\ Holding' /\ Truth'
        /\ phase' \in [Ticks -> Phases] /\ verdict' \in [Ticks -> JobStates \ {"held"}]
        /\ wakes' \in [Jobs -> Nat]
        /\ phase' = [phase EXCEPT ![s] = "recording"]
    BY <1>1, <1>2, <1>3, <1>6, WokenStep DEF IInv
  <2> QED
    BY <1>4, <2>1
<1>7. CASE LookUp(s)
  BY <1>5, <1>7 DEF LookUp, historyVars
<1>8. CASE Resume(s)
  BY <1>5, <1>6, <1>8 DEF Resume, ResumeFails, ResumeSucceeds
<1>9. CASE Spawn(s)
  <2>1. CASE UNCHANGED wakes /\ Decide(s, "failed")
    <3>1. "failed" \in JobStates \ {"held"} /\ "recording" \in AttemptPhases
      BY DEF JobStates, SettledStates, AttemptPhases, Phases
    <3>2. phase' = [phase EXCEPT ![s] = "recording"] /\ verdict' = [verdict EXCEPT ![s] = "failed"]
      BY <2>1, <3>1, Decided DEF IInv
    <3>3. wakes[current[s]] = 0 /\ current[s] \in Jobs
      BY <1>2 DEF IInv, Holding, Truth, Types
    <3>4. Told("failed", current[s])'
      BY <1>1, <2>1, <3>3 DEF Told
    <3>5. /\ Holding' /\ Truth'
          /\ phase' \in [Ticks -> Phases] /\ verdict' \in [Ticks -> JobStates \ {"held"}]
      BY <1>1, <1>2, <2>1, <3>1, <3>2, <3>4, AttemptStep DEF IInv
    <3> QED
      BY <1>4, <2>1, <3>2, <3>5 DEF IInv, Types
  <2>2. CASE wakes' = [wakes EXCEPT ![current[s]] = @ + 1] /\ Decide(s, "fallback_spawn")
    BY <1>6, <2>2
  <2> QED
    BY <1>9, <2>1, <2>2 DEF Spawn
<1> QED
  BY <1>7, <1>8, <1>9

LEMMA NextIInv == IInv /\ [Next]_vars => IInv'
<1>1. SUFFICES ASSUME IInv, [Next]_vars PROVE IInv'
  OBVIOUS
<1>2. ASSUME NEW s \in Ticks, TickStep(s) PROVE IInv'
  <2>1. CASE FinishTick(s)
    BY <1>1, <2>1, EndTicksStep DEF FinishTick, historyVars
  <2>2. CASE StartTick(s) \/ Begin(s) \/ Record(s)
    BY <1>1, <2>2, QueueSteps
  <2>3. CASE GetRuntime(s) \/ Probe(s) \/ ActivityProbe(s) \/ SendText(s) \/ SendEnter(s)
    BY <1>1, <2>3, ExecutorSteps
  <2>4. CASE LookUp(s) \/ Resume(s) \/ Spawn(s)
    BY <1>1, <2>4, FallbackSteps
  <2> QED
    BY <1>2, <2>1, <2>2, <2>3, <2>4 DEF TickStep
<1>3. ASSUME NEW s \in Ticks, TickFails(s) PROVE IInv'
  BY <1>1, <1>3, EndTicksStep DEF TickFails, historyVars
<1>4. CASE Restart
  BY <1>1, <1>4, EndTicksStep DEF Restart
<1>5. CASE PaneChanges
  <2>1. UNCHANGED <<state, hand, current, phase, verdict, wakes, line>>
    BY <1>5 DEF PaneChanges, jobVars, historyVars
  <2>2. \/ pane' = "live" /\ UNCHANGED <<deaths, reached>>
        \/ deaths' = deaths + 1 /\ reached' = [s \in Ticks |-> FALSE]
    BY <1>5 DEF PaneChanges
  <2>3. CASE pane' = "live" /\ UNCHANGED <<deaths, reached>>
    <3>1. Types' /\ Holding' /\ Truth'
      BY <1>1, <2>1, <2>3 DEF IInv, Types, Holding, Truth, Told
    <3>2. Typed'
      BY <1>1, <2>1, <2>3 DEF IInv, Typed
    <3> QED
      BY <3>1, <3>2 DEF IInv
  <2>4. CASE deaths' = deaths + 1 /\ reached' = [s \in Ticks |-> FALSE]
    <3>1. deaths' \in Nat /\ deaths' # 0
      BY <1>1, <2>4 DEF IInv, Types
    <3>2. reached' \in [Ticks -> BOOLEAN]
      BY <2>4
    <3>3. Types'
      BY <1>1, <2>1, <3>1, <3>2 DEF IInv, Types
    <3>4. Holding' /\ Truth'
      BY <1>1, <2>1, <3>1 DEF IInv, Holding, Truth, Told
    <3>5. Typed'
      BY <3>1 DEF Typed
    <3> QED
      BY <3>3, <3>4, <3>5 DEF IInv
  <2> QED
    BY <2>2, <2>3, <2>4
<1>6. CASE RuntimeChanges \/ AdvanceClock \/ UNCHANGED vars
  <2>1. UNCHANGED <<state, hand, current, phase, verdict, wakes, line, reached, deaths, pane>>
    BY <1>6 DEF RuntimeChanges, AdvanceClock, vars, jobVars, tickVars, historyVars, outsideVars
  <2>2. Types'
    BY <1>1, <2>1 DEF IInv, Types
  <2>3. Holding' /\ Truth'
    BY <1>1, <2>1 DEF IInv, Holding, Truth, Told
  <2>4. Typed'
    BY <1>1, <2>1 DEF IInv, Typed
  <2> QED
    BY <2>2, <2>3, <2>4 DEF IInv
<1> QED
  BY <1>1, <1>2, <1>3, <1>4, <1>5, <1>6 DEF Next

-----------------------------------------------------------------------------
(* The status that recordAttemptAndTransition writes tells what the agent  *)
(* got whole: nothing when the job waits or has failed, the prompt, once,  *)
(* when a fallback or a delivery to a living process is reported; whatever *)
(* is deferred, retried, lost or handed on by whichever ticks.             *)
THEOREM RecordsAreTrue == Spec => []ReportsAreTrue
<1>1. IInv => ReportsAreTrue
  BY DEF IInv, Truth, Told, ReportsAreTrue
<1> QED
  BY <1>1, InitIInv, NextIInv, PTL DEF Spec

-----------------------------------------------------------------------------
StatesToDecide == JobStates \ {"held"}

(* The tables, the outside and the bounds.                                 *)
TablesOK ==
  /\ clock \in Time /\ runtime \in Row \cup {NoRuntime}
  /\ pane \in Panes /\ watched \in BOOLEAN
  /\ state \in [Jobs -> JobStates] /\ tries \in [Jobs -> 0 .. MaxRetries]
  /\ lastBusy \in Time \cup {NeverBusy} /\ failures \in Seq(Time)
  /\ wakes \in [Jobs -> Nat] /\ begun \in [Jobs -> Nat] /\ deaths \in Nat
  /\ changes \in 0 .. MaxChanges /\ faults \in 0 .. MaxFaults

TicksOK ==
  /\ phase \in [Ticks -> Phases] /\ stamp \in [Ticks -> Time]
  /\ hand \in [Ticks -> SUBSET Jobs] /\ current \in [Ticks -> Jobs \cup {NoJob}]
  /\ line \in [Ticks -> 1 .. Lines] /\ left \in [Ticks -> 0 .. ResumeMaxAttempts]
  /\ verdict \in [Ticks -> StatesToDecide] /\ reached \in [Ticks -> BOOLEAN]

(* A resume is under way only while attempts are left.                     *)
ResumesLeft == \A s \in Ticks : phase[s] = "resume" => left[s] >= 1

TypeInv == TablesOK /\ TicksOK /\ ResumesLeft

LEMMA InitTypeInv == Init => TypeInv
<1>1. SUFFICES ASSUME Init PROVE TypeInv
  OBVIOUS
<1>2. /\ clock \in Time /\ runtime \in Row \cup {NoRuntime}
      /\ pane \in Panes /\ watched \in BOOLEAN
      /\ lastBusy \in Time \cup {NeverBusy} /\ failures \in Seq(Time)
      /\ changes \in 0 .. MaxChanges /\ faults \in 0 .. MaxFaults
  BY <1>1, DeliveryAssumption DEF Init, Time
<1>3. /\ state \in [Jobs -> JobStates] /\ tries \in [Jobs -> 0 .. MaxRetries]
      /\ wakes \in [Jobs -> Nat] /\ begun \in [Jobs -> Nat] /\ deaths \in Nat
  BY <1>1, DeliveryAssumption DEF Init, JobStates
<1>4. /\ phase \in [Ticks -> Phases] /\ stamp \in [Ticks -> Time]
      /\ hand \in [Ticks -> SUBSET Jobs] /\ current \in [Ticks -> Jobs \cup {NoJob}]
      /\ line \in [Ticks -> 1 .. Lines] /\ left \in [Ticks -> 0 .. ResumeMaxAttempts]
  BY <1>1, DeliveryAssumption DEF Init, Phases, Time
<1>5. verdict \in [Ticks -> StatesToDecide] /\ reached \in [Ticks -> BOOLEAN]
  BY <1>1 DEF Init, StatesToDecide, JobStates, SettledStates
<1>6. ResumesLeft
  BY <1>1 DEF Init, ResumesLeft
<1> QED
  BY <1>2, <1>3, <1>4, <1>5, <1>6 DEF TypeInv, TablesOK, TicksOK

(* What a deciding step and a step to another phase leave of the ticks.    *)
LEMMA DecideTypes ==
  ASSUME TicksOK, NEW s \in Ticks, NEW st \in StatesToDecide, Decide(s, st)
  PROVE  /\ phase' \in [Ticks -> Phases] /\ verdict' \in [Ticks -> StatesToDecide]
         /\ phase' = [phase EXCEPT ![s] = "recording"]
<1>1. PICK v \in {st, "failed"} : verdict' = [verdict EXCEPT ![s] = v]
  BY DEF Decide
<1>2. "failed" \in StatesToDecide /\ "recording" \in Phases
  BY DEF StatesToDecide, JobStates, SettledStates, Phases
<1> QED
  BY <1>1, <1>2 DEF TicksOK, Decide

LEMMA GoToTypes ==
  ASSUME TicksOK, NEW s \in Ticks, NEW p \in Phases, GoTo(s, p)
  PROVE  /\ phase' \in [Ticks -> Phases] /\ verdict' \in [Ticks -> StatesToDecide]
         /\ phase' = [phase EXCEPT ![s] = p]
BY DEF GoTo, TicksOK

LEMMA UndeliveredTypes ==
  ASSUME TicksOK, NEW s \in Ticks, NEW result, NEW retryable,
         Undelivered(s, result, retryable)
  PROVE  /\ phase' \in [Ticks -> Phases] /\ verdict' \in [Ticks -> StatesToDecide]
         /\ \E p \in Phases \ {"resume"} : phase' = [phase EXCEPT ![s] = p]
<1>1. /\ "waiting" \in StatesToDecide
      /\ {"recording", "lookup"} \subseteq Phases \ {"resume"}
  BY DEF StatesToDecide, JobStates, SettledStates, WokenStates, Phases
<1>2. CASE Decide(s, "waiting")
  BY <1>1, <1>2, DecideTypes
<1>3. CASE GoTo(s, "lookup")
  BY <1>1, <1>3, GoToTypes
<1> QED
  BY <1>2, <1>3 DEF Undelivered

LEMMA EndTicksTypes ==
  ASSUME TicksOK, ResumesLeft, NEW Ended \in SUBSET Ticks, EndTicks(Ended)
  PROVE  TicksOK' /\ ResumesLeft'
<1>1. /\ "failed" \in StatesToDecide /\ "idle" \in Phases /\ 0 \in Time
      /\ 1 \in 1 .. Lines /\ 0 \in 0 .. ResumeMaxAttempts
  BY DeliveryAssumption DEF StatesToDecide, JobStates, SettledStates, Phases, Time
<1>2. /\ phase' \in [Ticks -> Phases] /\ stamp' \in [Ticks -> Time]
      /\ hand' \in [Ticks -> SUBSET Jobs] /\ current' \in [Ticks -> Jobs \cup {NoJob}]
  BY <1>1 DEF EndTicks, TicksOK
<1>3. line' \in [Ticks -> 1 .. Lines] /\ left' \in [Ticks -> 0 .. ResumeMaxAttempts]
  BY <1>1 DEF EndTicks, TicksOK
<1>4. verdict' \in [Ticks -> StatesToDecide]
  BY <1>1 DEF EndTicks, TicksOK
<1>5. reached' \in [Ticks -> BOOLEAN]
  BY DEF EndTicks, TicksOK
<1>6. ResumesLeft'
  BY DEF EndTicks, TicksOK, ResumesLeft
<1> QED
  BY <1>2, <1>3, <1>4, <1>5, <1>6 DEF TicksOK

LEMMA OutsideTypes ==
  ASSUME TypeInv, AdvanceClock \/ RuntimeChanges \/ PaneChanges
  PROVE  TypeInv'
<1> USE DEF TypeInv
<1>1. CASE AdvanceClock
  <2>1. clock' \in Time
    BY <1>1, DeliveryAssumption DEF AdvanceClock, TablesOK, Time
  <2>2. TablesOK' /\ TicksOK' /\ ResumesLeft'
    BY <1>1, <2>1 DEF AdvanceClock, TablesOK, TicksOK, ResumesLeft, outsideVars, jobVars,
                      memoryVars, tickVars, historyVars
  <2> QED
    BY <2>2
<1>2. CASE RuntimeChanges
  <2>1. runtime' \in Row \cup {NoRuntime}
    <3>1. CASE runtime' \in {r \in Row : r.at = clock}
      BY <3>1
    <3>2. CASE runtime # NoRuntime /\ runtime' = [runtime EXCEPT !.online = FALSE]
      BY <3>2 DEF TablesOK, Row
    <3> QED
      BY <1>2, <3>1, <3>2 DEF RuntimeChanges
  <2>2. changes' \in 0 .. MaxChanges
    BY <1>2, DeliveryAssumption DEF RuntimeChanges, TablesOK
  <2>3. TablesOK' /\ TicksOK' /\ ResumesLeft'
    BY <1>2, <2>1, <2>2 DEF RuntimeChanges, TablesOK, TicksOK, ResumesLeft, jobVars,
                            memoryVars, tickVars, historyVars
  <2> QED
    BY <2>3
<1>3. CASE PaneChanges
  <2>1. pane' \in Panes /\ watched' \in BOOLEAN
    BY <1>3 DEF PaneChanges
  <2>2. changes' \in 0 .. MaxChanges /\ deaths' \in Nat
    BY <1>3, DeliveryAssumption DEF PaneChanges, TablesOK
  <2>3. reached' \in [Ticks -> BOOLEAN]
    BY <1>3 DEF PaneChanges, TicksOK
  <2>4. TablesOK'
    BY <1>3, <2>1, <2>2 DEF PaneChanges, TablesOK, jobVars, memoryVars, historyVars
  <2>5. TicksOK' /\ ResumesLeft'
    BY <1>3, <2>3 DEF PaneChanges, TicksOK, ResumesLeft
  <2> QED
    BY <2>4, <2>5
<1> QED
  BY <1>1, <1>2, <1>3

LEMMA QueueTypes ==
  ASSUME TypeInv, NEW s \in Ticks, StartTick(s) \/ Begin(s) \/ Record(s)
  PROVE  TypeInv'
<1> USE DEF TypeInv
<1>0. {"ready", "runtime"} \subseteq Phases \ {"resume"}
  BY DEF Phases
<1>1. CASE StartTick(s)
  <2>1. state' \in [Jobs -> JobStates] /\ hand' \in [Ticks -> SUBSET Jobs]
    BY <1>1 DEF StartTick, TablesOK, TicksOK, JobStates
  <2>2. stamp' \in [Ticks -> Time] /\ phase' \in [Ticks -> Phases] /\ ResumesLeft'
    BY <1>0, <1>1 DEF StartTick, TablesOK, TicksOK, ResumesLeft
  <2>3. TablesOK' /\ TicksOK'
    BY <1>1, <2>1, <2>2 DEF StartTick, TablesOK, TicksOK, outsideVars, memoryVars,
                            historyVars
  <2> QED
    BY <2>2, <2>3
<1>2. CASE Begin(s)
  <2>1. current' \in [Ticks -> Jobs \cup {NoJob}]
    BY <1>2 DEF Begin, TicksOK
  <2>2. phase' \in [Ticks -> Phases] /\ ResumesLeft'
    BY <1>0, <1>2 DEF Begin, TicksOK, ResumesLeft
  <2>3. TablesOK' /\ TicksOK'
    BY <1>2, <2>1, <2>2 DEF Begin, TablesOK, TicksOK, outsideVars, jobVars, memoryVars,
                            historyVars
  <2> QED
    BY <2>2, <2>3
<1>3. CASE Record(s)
  <2>1. state' \in [Jobs -> JobStates]
    BY <1>3 DEF Record, TablesOK, TicksOK, StatesToDecide
  <2>2. tries' \in [Jobs -> 0 .. MaxRetries]
    <3>1. \A j \in Jobs : (IF tries[j] < MaxRetries THEN tries[j] + 1 ELSE tries[j])
                            \in 0 .. MaxRetries
      BY DeliveryAssumption DEF TablesOK
    <3> QED
      BY <1>3, <3>1 DEF Record, TablesOK
  <2>3. hand' \in [Ticks -> SUBSET Jobs] /\ current' \in [Ticks -> Jobs \cup {NoJob}]
    BY <1>3 DEF Record, TicksOK
  <2>4. phase' \in [Ticks -> Phases] /\ ResumesLeft'
    BY <1>0, <1>3 DEF Record, TicksOK, ResumesLeft
  <2>5. line' \in [Ticks -> 1 .. Lines] /\ left' \in [Ticks -> 0 .. ResumeMaxAttempts]
    BY <1>3, DeliveryAssumption DEF Record, TicksOK
  <2>6. verdict' \in [Ticks -> StatesToDecide]
    BY <1>3 DEF Record, TicksOK, StatesToDecide, JobStates, SettledStates
  <2>7. reached' \in [Ticks -> BOOLEAN]
    BY <1>3 DEF Record, TicksOK
  <2>8. TablesOK' /\ TicksOK'
    BY <1>3, <2>1, <2>2, <2>3, <2>4, <2>5, <2>6, <2>7
       DEF Record, TablesOK, TicksOK, outsideVars, memoryVars, historyVars
  <2> QED
    BY <2>4, <2>8
<1> QED
  BY <1>1, <1>2, <1>3

(* A step of an attempt, seen from the types.                              *)
LEMMA AttemptTypes ==
  ASSUME TypeInv, NEW s \in Ticks,
         UNCHANGED <<clock, runtime, pane, watched, state, tries, deaths, changes, faults,
                     stamp, hand, current>>,
         lastBusy' \in Time \cup {NeverBusy}, failures' \in Seq(Time),
         wakes' \in [Jobs -> Nat], begun' \in [Jobs -> Nat],
         phase' \in [Ticks -> Phases], verdict' \in [Ticks -> StatesToDecide],
         line' \in [Ticks -> 1 .. Lines], left' \in [Ticks -> 0 .. ResumeMaxAttempts],
         reached' \in [Ticks -> BOOLEAN],
         \A q \in Ticks : q # s => phase'[q] = phase[q] /\ left'[q] = left[q],
         phase'[s] = "resume" => left'[s] >= 1
  PROVE  TypeInv'
<1>1. TablesOK'
  BY DEF TypeInv, TablesOK
<1>2. TicksOK'
  BY DEF TypeInv, TicksOK
<1>3. ResumesLeft'
  BY DEF TypeInv, ResumesLeft
<1> QED
  BY <1>1, <1>2, <1>3 DEF TypeInv

LEMMA ExecutorTypes ==
  ASSUME TypeInv, NEW s \in Ticks,
         GetRuntime(s) \/ Probe(s) \/ ActivityProbe(s) \/ SendText(s) \/ SendEnter(s)
  PROVE  TypeInv'
<1> USE DEF TypeInv
<1>1. UNCHANGED <<clock, runtime, pane, watched, state, tries, deaths, changes, faults,
                  stamp, hand, current, left, failures>>
  BY DEF GetRuntime, Probe, ActivityProbe, SendText, SendEnter, outsideVars, jobVars,
         memoryVars
<1>2. lastBusy' \in Time \cup {NeverBusy}
  <2>1. lastBusy' \in {lastBusy, stamp[s], NeverBusy}
    BY DEF GetRuntime, Probe, ActivityProbe, SendText, SendEnter, memoryVars
  <2> QED
    BY <2>1 DEF TablesOK, TicksOK
<1>3. wakes' \in [Jobs -> Nat] /\ begun' \in [Jobs -> Nat]
  <2>1. wakes' \in {wakes, [wakes EXCEPT ![current[s]] = @ + 1]}
    BY DEF GetRuntime, Probe, ActivityProbe, SendText, SendEnter, historyVars
  <2>2. begun' \in {begun, [begun EXCEPT ![current[s]] = @ + 1]}
    BY DEF GetRuntime, Probe, ActivityProbe, SendText, SendEnter, historyVars
  <2> QED
    BY <2>1, <2>2 DEF TablesOK
<1>4. line' \in [Ticks -> 1 .. Lines]
  <2>1. \/ line' = line \/ line' = [line EXCEPT ![s] = 1]
        \/ line[s] < Lines /\ line' = [line EXCEPT ![s] = @ + 1]
    BY DEF GetRuntime, Probe, ActivityProbe, SendText, SendEnter
  <2> QED
    BY <2>1, DeliveryAssumption DEF TicksOK
<1>5. reached' \in [Ticks -> BOOLEAN]
  <2>1. CASE SendText(s)
    <3>1. \/ reached' = [reached EXCEPT ![s] = pane = "live" /\ (line[s] = 1 \/ reached[s])]
          \/ reached' = reached
      BY <2>1 DEF SendText
    <3>2. (pane = "live" /\ (line[s] = 1 \/ reached[s])) \in BOOLEAN
      OBVIOUS
    <3> QED
      BY <3>1, <3>2 DEF TicksOK
  <2>2. CASE UNCHANGED reached
    BY <2>2 DEF TicksOK
  <2> QED
    BY <2>1, <2>2 DEF GetRuntime, Probe, ActivityProbe, SendEnter
<1>6. ASSUME phase' \in [Ticks -> Phases], verdict' \in [Ticks -> StatesToDecide],
             NEW p \in Phases \ {"resume"}, phase' = [phase EXCEPT ![s] = p]
      PROVE  TypeInv'
  <2>1. phase'[s] # "resume" /\ \A q \in Ticks : q # s => phase'[q] = phase[q]
    BY <1>6 DEF TicksOK
  <2>2. left' \in [Ticks -> 0 .. ResumeMaxAttempts] /\ failures' \in Seq(Time)
    BY <1>1 DEF TablesOK, TicksOK
  <2> QED
    BY <1>1, <1>2, <1>3, <1>4, <1>5, <1>6, <2>1, <2>2, AttemptTypes
<1>7. \/ \E result \in {"failed", "timeout", "deferred"}, retryable \in BOOLEAN :
           Undelivered(s, result, retryable)
      \/ \E p \in {"probe", "activity", "text", "enter"} : GoTo(s, p)
      \/ Decide(s, "delivered")
  BY DEF GetRuntime, Probe, ActivityProbe, SendText, SendEnter, Busy, TurnedDown
<1>8. /\ {"probe", "activity", "text", "enter", "recording"} \subseteq Phases \ {"resume"}
      /\ "delivered" \in StatesToDecide
  BY DEF Phases, TypingPhases, StatesToDecide, JobStates, SettledStates, WokenStates
<1>9. CASE \E result, retryable : Undelivered(s, result, retryable)
  BY <1>6, <1>9, UndeliveredTypes
<1>10. CASE \E p \in {"probe", "activity", "text", "enter"} : GoTo(s, p)
  <2>1. PICK p \in {"probe", "activity", "text", "enter"} : GoTo(s, p)
    BY <1>10
  <2>2. p \in Phases \ {"resume"}
    BY <1>8
  <2> QED
    BY <1>6, <2>1, <2>2, GoToTypes
<1>11. CASE Decide(s, "delivered")
  BY <1>6, <1>8, <1>11, DecideTypes
<1> QED
  BY <1>7, <1>9, <1>10, <1>11

LEMMA FallbackTypes ==
  ASSUME TypeInv, NEW s \in Ticks, LookUp(s) \/ Resume(s) \/ Spawn(s)
  PROVE  TypeInv'
<1> USE DEF TypeInv
<1>1. UNCHANGED <<clock, runtime, pane, watched, state, tries, deaths, changes, faults,
                  stamp, hand, current, line, reached, lastBusy>>
  BY DEF LookUp, Resume, Spawn, outsideVars, jobVars, memoryVars
<1>2. wakes' \in [Jobs -> Nat] /\ begun' \in [Jobs -> Nat]
  <2>1. begun' = begun
    BY DEF LookUp, Resume, ResumeFails, ResumeSucceeds, Spawn, historyVars
  <2>2. wakes' \in {wakes, [wakes EXCEPT ![current[s]] = @ + 1]}
    BY DEF LookUp, Resume, ResumeFails, ResumeSucceeds, Spawn, historyVars
  <2>3. wakes \in [Jobs -> Nat] /\ begun \in [Jobs -> Nat]
    BY DEF TablesOK
  <2>4. CASE wakes' = [wakes EXCEPT ![current[s]] = @ + 1]
    <3>1. DOMAIN wakes' = Jobs /\ \A j \in Jobs : wakes'[j] \in {wakes[j], wakes[j] + 1}
      BY <2>3, <2>4
    <3>2. \A j \in Jobs : wakes'[j] \in Nat
      BY <2>3, <3>1
    <3> QED
      BY <2>1, <2>3, <2>4, <3>2
  <2> QED
    BY <2>1, <2>2, <2>3, <2>4
<1>3. /\ line' \in [Ticks -> 1 .. Lines] /\ reached' \in [Ticks -> BOOLEAN]
      /\ lastBusy' \in Time \cup {NeverBusy}
  BY <1>1 DEF TablesOK, TicksOK
<1>4. ASSUME phase' \in [Ticks -> Phases], verdict' \in [Ticks -> StatesToDecide],
             failures' \in Seq(Time), left' \in [Ticks -> 0 .. ResumeMaxAttempts],
             \A q \in Ticks : q # s => left'[q] = left[q],
             NEW p \in Phases, phase' = [phase EXCEPT ![s] = p],
             p = "resume" => left'[s] >= 1
      PROVE  TypeInv'
  <2>1. phase'[s] = p /\ \A q \in Ticks : q # s => phase'[q] = phase[q]
    BY <1>4 DEF TicksOK
  <2> QED
    BY <1>1, <1>2, <1>3, <1>4, <2>1, AttemptTypes
<1>5. /\ {"resume", "spawn", "recording"} \subseteq Phases
      /\ {"fallback_resume", "fallback_spawn", "failed"} \subseteq StatesToDecide
  BY DEF Phases, StatesToDecide, JobStates, SettledStates, WokenStates
<1>6. CASE LookUp(s)
  <2>1. PICK p \in {"resume", "spawn"} : GoTo(s, p) /\ (p = "resume" => ResumeMaxAttempts > 0)
    BY <1>6 DEF LookUp
  <2>2. failures' \in Seq(Time)
    <3>1. Time \in SUBSET Int /\ stamp[s] - CrashLoopWindow \in Int
      BY DeliveryAssumption DEF Time, TicksOK
    <3>2. RecentFailures(s) \in Seq(Time)
      BY <3>1, SinceFacts DEF RecentFailures, TablesOK
    <3> QED
      BY <1>6, <3>2 DEF LookUp, TablesOK
  <2>3. left' \in [Ticks -> 0 .. ResumeMaxAttempts] /\ left'[s] = ResumeMaxAttempts
        /\ \A q \in Ticks : q # s => left'[q] = left[q]
    BY <1>6, DeliveryAssumption DEF LookUp, TicksOK
  <2>4. p = "resume" => left'[s] >= 1
    BY <2>1, <2>3, DeliveryAssumption
  <2>5. p \in Phases
    BY <1>5
  <2> QED
    BY <1>4, <2>1, <2>2, <2>3, <2>4, <2>5, GoToTypes
<1>7. CASE phase[s] = "resume" /\ ResumeFails(s)
  <2>1. PICK p \in {"resume", "spawn"} : GoTo(s, p) /\ (p = "resume" => left[s] > 1)
    BY <1>7 DEF ResumeFails
  <2>2. failures' \in Seq(Time)
    BY <1>7 DEF ResumeFails, TablesOK, TicksOK
  <2>3. left' = [left EXCEPT ![s] = @ - 1] /\ left[s] \in 1 .. ResumeMaxAttempts
    BY <1>7, DeliveryAssumption DEF ResumeFails, ResumesLeft, TicksOK
  <2>4. left' \in [Ticks -> 0 .. ResumeMaxAttempts] /\ left'[s] = left[s] - 1
        /\ \A q \in Ticks : q # s => left'[q] = left[q]
    BY <2>3, DeliveryAssumption DEF TicksOK
  <2>5. p = "resume" => left'[s] >= 1
    BY <2>1, <2>3, <2>4, DeliveryAssumption
  <2>6. p \in Phases
    BY <1>5
  <2> QED
    BY <1>4, <2>1, <2>2, <2>4, <2>5, <2>6, GoToTypes
<1>8. ASSUME UNCHANGED <<failures, left>>,
             NEW st \in {"fallback_resume", "fallback_spawn", "failed"}, Decide(s, st)
      PROVE  TypeInv'
  <2>1. st \in StatesToDecide
    BY <1>5
  <2>2. failures' \in Seq(Time) /\ left' \in [Ticks -> 0 .. ResumeMaxAttempts]
        /\ \A q \in Ticks : q # s => left'[q] = left[q]
    BY <1>8 DEF TablesOK, TicksOK
  <2> QED
    BY <1>4, <1>5, <1>8, <2>1, <2>2, DecideTypes
<1>9. CASE Resume(s)
  BY <1>7, <1>8, <1>9 DEF Resume, ResumeSucceeds
<1>10. CASE Spawn(s)
  BY <1>8, <1>10 DEF Spawn, memoryVars
<1> QED
  BY <1>6, <1>9, <1>10

LEMMA NextTypeInv == TypeInv /\ [Next]_vars => TypeInv'
<1>1. SUFFICES ASSUME TypeInv, [Next]_vars PROVE TypeInv'
  OBVIOUS
<1>2. ASSUME NEW s \in Ticks, FinishTick(s) \/ TickFails(s) PROVE TypeInv'
  <2>1. EndTicks({s})
    BY <1>2 DEF FinishTick, TickFails
  <2>2. TicksOK' /\ ResumesLeft'
    BY <1>1, <2>1, EndTicksTypes DEF TypeInv
  <2>3. faults' \in 0 .. MaxFaults
    BY <1>1, <1>2, DeliveryAssumption DEF FinishTick, TickFails, TypeInv, TablesOK
  <2>4. TablesOK'
    BY <1>1, <1>2, <2>3 DEF FinishTick, TickFails, TypeInv, TablesOK, outsideVars, jobVars,
                            memoryVars, historyVars
  <2> QED
    BY <2>2, <2>4 DEF TypeInv
<1>3. CASE Restart
  <2>1. TicksOK' /\ ResumesLeft'
    BY <1>1, <1>3, EndTicksTypes DEF TypeInv, Restart
  <2>2. faults' \in 0 .. MaxFaults /\ failures' \in Seq(Time)
    BY <1>1, <1>3, DeliveryAssumption DEF Restart, TypeInv, TablesOK
  <2>3. TablesOK'
    BY <1>1, <1>3, <2>2 DEF Restart, TypeInv, TablesOK, outsideVars, jobVars
  <2> QED
    BY <2>1, <2>3 DEF TypeInv
<1>4. ASSUME NEW s \in Ticks, TickStep(s) PROVE TypeInv'
  BY <1>1, <1>2, <1>4, QueueTypes, ExecutorTypes, FallbackTypes DEF TickStep
<1>5. CASE AdvanceClock \/ RuntimeChanges \/ PaneChanges
  BY <1>1, <1>5, OutsideTypes
<1>6. CASE UNCHANGED vars
  <2>1. TablesOK'
    BY <1>1, <1>6 DEF TypeInv, TablesOK, vars, outsideVars, jobVars, memoryVars, historyVars
  <2>2. TicksOK' /\ ResumesLeft'
    BY <1>1, <1>6 DEF TypeInv, TicksOK, ResumesLeft, vars, tickVars
  <2> QED
    BY <2>1, <2>2 DEF TypeInv
<1> QED
  BY <1>1, <1>2, <1>3, <1>4, <1>5, <1>6 DEF Next

(* The rows and the ticks of a delivery keep their shape: no attempt left  *)
(* to resume is counted below zero, no line is typed after the last one,   *)
(* and no job gets a status that is not one of the table's.                *)
THEOREM TypeCorrect == Spec => []TypeOK
<1>1. TypeInv => TypeOK
  BY DEF TypeInv, TablesOK, TicksOK, StatesToDecide, TypeOK
<1> QED
  BY <1>1, InitTypeInv, NextTypeInv, PTL DEF Spec

-----------------------------------------------------------------------------
(* An attempt may have begun to type once the first text is behind it.     *)
Typing(s) == \/ phase[s] \in {"enter", "lookup", "resume", "spawn", "recording"}
             \/ phase[s] = "text" /\ line[s] # 1

(* How often an envelope was begun, measured by the attempts counted: one  *)
(* more at most during an attempt, which is counted if the job is going to *)
(* wait again.                                                             *)
Counted(j) == IF tries[j] < MaxRetries THEN tries[j] + 1 ELSE tries[j]
Budget ==
  /\ \A j \in Jobs : begun[j] <= MaxRetries + 1
  /\ \A j \in Jobs : state[j] = "waiting" => begun[j] <= tries[j]
  /\ \A s \in Ticks : \A j \in hand[s] :
       ~(Typing(s) /\ j = current[s]) => begun[j] <= tries[j]
  /\ \A s \in Ticks : phase[s] \in AttemptPhases =>
       begun[current[s]] <= tries[current[s]] + 1
  /\ \A s \in Ticks : phase[s] = "recording" /\ verdict[s] = "waiting" =>
       begun[current[s]] <= Counted(current[s])
BudgetInv == IInv /\ TypeInv /\ Budget

LEMMA BudgetTypes ==
  ASSUME TypeInv
  PROVE  /\ MaxRetries \in Nat
         /\ \A j \in Jobs : /\ begun[j] \in Nat /\ tries[j] \in Nat
                            /\ tries[j] <= MaxRetries /\ tries[j] <= Counted(j)
BY DeliveryAssumption DEF TypeInv, TablesOK, Counted

(* A step of an attempt that types no first line.                          *)
LEMMA AttemptBudget ==
  ASSUME BudgetInv, NEW s \in Ticks, phase[s] \in AttemptPhases \ {"recording"},
         UNCHANGED <<state, tries, begun, hand, current>>,
         \A q \in Ticks : q # s => /\ phase'[q] = phase[q] /\ line'[q] = line[q]
                                   /\ verdict'[q] = verdict[q],
         Typing(s) => Typing(s)',
         phase'[s] = "recording" /\ verdict'[s] = "waiting" =>
           begun[current[s]] <= Counted(current[s])
  PROVE  Budget'
<1>1. \A q \in Ticks : q # s => (Typing(q)' <=> Typing(q))
  BY DEF Typing
<1>2. \A j \in Jobs : Counted(j)' = Counted(j)
  BY DEF Counted
<1>3. ASSUME NEW q \in Ticks, phase'[q] = "recording", verdict'[q] = "waiting"
      PROVE  begun'[current'[q]] <= Counted(current[q])'
  <2>1. Counted(current[q])' = Counted(current[q])
    BY DEF Counted
  <2> QED
    BY <1>3, <2>1 DEF BudgetInv, Budget
<1>4. ASSUME NEW q \in Ticks, NEW j \in hand'[q], ~(Typing(q)' /\ j = current'[q])
      PROVE  begun'[j] <= tries'[j]
  BY <1>1, <1>4 DEF BudgetInv, Budget
<1>5. ASSUME NEW q \in Ticks, phase'[q] \in AttemptPhases
      PROVE  begun'[current'[q]] <= tries'[current'[q]] + 1
  BY <1>5 DEF BudgetInv, Budget
<1> QED
  BY <1>3, <1>4, <1>5 DEF BudgetInv, Budget

(* What is decided for a job that was not delivered.                       *)
LEMMA UndeliveredBudget ==
  ASSUME BudgetInv, NEW s \in Ticks, phase[s] \in AttemptPhases \ {"recording"},
         UNCHANGED <<state, tries, begun, hand, current>>,
         \A q \in Ticks : q # s => line'[q] = line[q],
         NEW result, NEW retryable, Undelivered(s, result, retryable),
         result = "deferred" => ~Typing(s)
  PROVE  Budget'
<1>1. current[s] \in hand[s] /\ current[s] \in Jobs
  BY DEF BudgetInv, IInv, Holding, Types
<1>2. /\ phase'[s] \in {"recording", "lookup"}
      /\ \A q \in Ticks : q # s => phase'[q] = phase[q] /\ verdict'[q] = verdict[q]
  BY DEF Undelivered, Decide, GoTo, BudgetInv, TypeInv, TicksOK
<1>3. Typing(s)'
  BY <1>2 DEF Typing
<1>4. ASSUME phase'[s] = "recording"
      PROVE  begun[current[s]] <= Counted(current[s])
  <2>1. result = "deferred" \/ tries[current[s]] + 1 <= MaxRetries
    BY <1>4 DEF Undelivered, GoTo, ShouldRetry, BudgetInv, TypeInv, TicksOK
  <2>2. CASE result = "deferred"
    <3>1. begun[current[s]] <= tries[current[s]]
      BY <1>1, <2>2 DEF BudgetInv, Budget
    <3>2. MaxRetries \in Nat /\ begun[current[s]] \in Nat /\ tries[current[s]] \in Nat
      BY <1>1, BudgetTypes DEF BudgetInv
    <3> QED
      BY <3>1, <3>2 DEF Counted
  <2>3. CASE tries[current[s]] + 1 <= MaxRetries
    <3>1. begun[current[s]] <= tries[current[s]] + 1
      BY DEF BudgetInv, Budget
    <3> QED
      BY <1>1, <2>3, <3>1, BudgetTypes DEF BudgetInv, Counted
  <2> QED
    BY <2>1, <2>2, <2>3
<1> QED
  BY <1>2, <1>3, <1>4, AttemptBudget

(* The text of a first line reaches the pane: it is counted.               *)
LEMMA FirstLineBudget ==
  ASSUME BudgetInv, NEW s \in Ticks, phase[s] = "text", line[s] = 1,
         GoTo(s, "enter"), begun' = [begun EXCEPT ![current[s]] = @ + 1],
         UNCHANGED <<state, tries, hand, current, line>>
  PROVE  Budget'
<1> DEFINE c == current[s]
<1>1. c \in hand[s] /\ c \in Jobs /\ state[c] = "held"
  BY DEF BudgetInv, IInv, Holding, Types, AttemptPhases, Phases, TypingPhases
<1>2. begun[c] <= tries[c] /\ begun'[c] = begun[c] + 1
      /\ \A j \in Jobs : j # c => begun'[j] = begun[j]
  BY <1>1 DEF BudgetInv, Budget, Typing, TypeInv, TablesOK
<1>3. /\ phase'[s] = "enter" /\ verdict' = verdict
      /\ \A q \in Ticks : q # s => phase'[q] = phase[q]
  BY DEF GoTo, BudgetInv, TypeInv, TicksOK
<1>4. /\ MaxRetries \in Nat /\ begun[c] \in Nat /\ tries[c] \in Nat
      /\ tries[c] <= MaxRetries
  BY <1>1, BudgetTypes DEF BudgetInv
<1>5. \A j \in Jobs : begun'[j] <= MaxRetries + 1
  BY <1>2, <1>4 DEF BudgetInv, Budget
<1>6. \A j \in Jobs : state'[j] = "waiting" => begun'[j] <= tries'[j]
  BY <1>1, <1>2 DEF BudgetInv, Budget
<1>7. \A q \in Ticks : q # s => c \notin hand[q]
  BY <1>1 DEF BudgetInv, IInv, Holding
<1>8. ASSUME NEW q \in Ticks, NEW j \in hand'[q], ~(Typing(q)' /\ j = current'[q])
      PROVE  begun'[j] <= tries'[j]
  <2>1. j \in Jobs /\ j \in hand[q]
    BY <1>8 DEF BudgetInv, IInv, Types
  <2>2. j # c
    BY <1>3, <1>7, <1>8, <2>1 DEF Typing
  <2>3. ~(Typing(q) /\ j = current[q])
    BY <1>3, <1>8, <2>1, <2>2 DEF Typing
  <2> QED
    BY <1>2, <2>1, <2>2, <2>3 DEF BudgetInv, Budget
<1>9. ASSUME NEW q \in Ticks, phase'[q] \in AttemptPhases, q # s
      PROVE  /\ current[q] \in Jobs /\ current[q] # c /\ phase[q] = phase'[q]
             /\ begun'[current[q]] = begun[current[q]]
  BY <1>2, <1>3, <1>7, <1>9 DEF BudgetInv, IInv, Holding, Types
<1>10. \A q \in Ticks : phase'[q] \in AttemptPhases =>
         begun'[current'[q]] <= tries'[current'[q]] + 1
  BY <1>2, <1>4, <1>9 DEF BudgetInv, Budget
<1>11. ASSUME NEW q \in Ticks, phase'[q] = "recording", verdict'[q] = "waiting"
       PROVE  begun'[current'[q]] <= Counted(current[q])'
  <2>1. q # s /\ phase'[q] \in AttemptPhases
    BY <1>3, <1>11 DEF AttemptPhases, Phases
  <2>2. Counted(current[q])' = Counted(current[q])
    BY DEF Counted
  <2> QED
    BY <1>3, <1>9, <1>11, <2>1, <2>2 DEF BudgetInv, Budget
<1> QED
  BY <1>5, <1>6, <1>8, <1>10, <1>11 DEF Budget

LEMMA ExecutorBudget ==
  ASSUME BudgetInv, NEW s \in Ticks,
         GetRuntime(s) \/ Probe(s) \/ ActivityProbe(s) \/ SendText(s) \/ SendEnter(s)
  PROVE  Budget'
<1>1. /\ phase[s] \in {"runtime", "probe", "activity", "text", "enter"}
      /\ UNCHANGED <<state, tries, hand, current>>
  BY DEF GetRuntime, Probe, ActivityProbe, SendText, SendEnter, jobVars
<1>2. phase[s] \in AttemptPhases \ {"recording"}
  BY <1>1 DEF AttemptPhases, Phases, TypingPhases
<1>3. /\ line[s] \in Nat /\ line[s] >= 1
      /\ \A q \in Ticks : q # s => line'[q] = line[q]
  <2>1. line' \in {line, [line EXCEPT ![s] = 1], [line EXCEPT ![s] = @ + 1]}
    BY DEF GetRuntime, Probe, ActivityProbe, SendText, SendEnter
  <2> QED
    BY <2>1, DeliveryAssumption DEF BudgetInv, TypeInv, TicksOK
<1>4. ASSUME NEW p, GoTo(s, p)
      PROVE  /\ phase'[s] = p /\ verdict' = verdict
             /\ \A q \in Ticks : q # s => phase'[q] = phase[q]
  BY <1>4 DEF GoTo, BudgetInv, TypeInv, TicksOK
<1>5. CASE GetRuntime(s)
  <2>1. UNCHANGED begun /\ ~Typing(s)
    BY <1>5 DEF GetRuntime, historyVars, Typing
  <2>2. \/ \E result \in {"failed", "timeout", "deferred"}, retryable \in BOOLEAN :
             Undelivered(s, result, retryable)
        \/ GoTo(s, "probe")
    BY <1>5 DEF GetRuntime, Busy, TurnedDown
  <2>3. CASE GoTo(s, "probe")
    BY <1>1, <1>2, <1>3, <1>4, <2>1, <2>3, AttemptBudget
  <2> QED
    BY <1>1, <1>2, <1>3, <2>1, <2>2, <2>3, UndeliveredBudget
<1>6. CASE Probe(s)
  <2>1. UNCHANGED begun /\ ~Typing(s)
    BY <1>6 DEF Probe, historyVars, Typing
  <2>2. \/ Undelivered(s, "timeout", TRUE)
        \/ \E p \in {"text", "activity"} : GoTo(s, p)
    BY <1>6 DEF Probe
  <2>3. ASSUME NEW p \in {"text", "activity"}, GoTo(s, p) PROVE Budget'
    BY <1>1, <1>2, <1>3, <1>4, <2>1, <2>3, AttemptBudget
  <2> QED
    BY <1>1, <1>2, <1>3, <2>1, <2>2, <2>3, UndeliveredBudget
<1>7. CASE ActivityProbe(s)
  <2>1. UNCHANGED begun /\ ~Typing(s)
    BY <1>7 DEF ActivityProbe, historyVars, Typing
  <2>2. \/ \E result \in {"timeout", "deferred"}, retryable \in BOOLEAN :
             Undelivered(s, result, retryable)
        \/ GoTo(s, "text")
    BY <1>7 DEF ActivityProbe, Busy
  <2>3. CASE GoTo(s, "text")
    BY <1>1, <1>2, <1>3, <1>4, <2>1, <2>3, AttemptBudget
  <2> QED
    BY <1>1, <1>2, <1>3, <2>1, <2>2, <2>3, UndeliveredBudget
<1>8. CASE SendText(s)
  <2>1. UNCHANGED line /\ phase[s] = "text"
    BY <1>8 DEF SendText
  <2>2. CASE Undelivered(s, "timeout", TRUE) /\ UNCHANGED begun
    BY <1>1, <1>2, <1>3, <2>2, UndeliveredBudget
  <2>3. CASE GoTo(s, "enter") /\ UNCHANGED begun
    <3>1. Typing(s)'
      BY <1>4, <2>3 DEF Typing
    <3> QED
      BY <1>1, <1>2, <1>3, <1>4, <2>3, <3>1, AttemptBudget
  <2>4. CASE /\ GoTo(s, "enter") /\ line[s] = 1
             /\ begun' = [begun EXCEPT ![current[s]] = @ + 1]
    BY <1>1, <2>1, <2>4, FirstLineBudget
  <2> QED
    BY <1>8, <2>2, <2>3, <2>4 DEF SendText
<1>9. CASE SendEnter(s)
  <2>1. UNCHANGED begun
    BY <1>9 DEF SendEnter
  <2>2. CASE Undelivered(s, "timeout", TRUE)
    BY <1>1, <1>2, <1>3, <2>1, <2>2, UndeliveredBudget
  <2>3. CASE GoTo(s, "text") /\ line' = [line EXCEPT ![s] = @ + 1]
    <3>1. line'[s] = line[s] + 1
      BY <2>3 DEF BudgetInv, TypeInv, TicksOK
    <3>2. Typing(s)'
      BY <1>3, <1>4, <2>3, <3>1 DEF Typing
    <3> QED
      BY <1>1, <1>2, <1>3, <1>4, <2>1, <2>3, <3>2, AttemptBudget
  <2>4. CASE Decide(s, "delivered")
    <3>1. /\ phase'[s] = "recording" /\ verdict'[s] = "delivered"
          /\ \A q \in Ticks : q # s => phase'[q] = phase[q] /\ verdict'[q] = verdict[q]
      BY <2>4 DEF Decide, WokenStates, BudgetInv, TypeInv, TicksOK
    <3>2. Typing(s)'
      BY <3>1 DEF Typing
    <3> QED
      BY <1>1, <1>2, <1>3, <2>1, <3>1, <3>2, AttemptBudget
  <2> QED
    BY <1>9, <2>2, <2>3, <2>4 DEF SendEnter
<1> QED
  BY <1>5, <1>6, <1>7, <1>8, <1>9

LEMMA FallbackBudget ==
  ASSUME BudgetInv, NEW s \in Ticks, LookUp(s) \/ Resume(s) \/ Spawn(s)
  PROVE  Budget'
<1>1. /\ phase[s] \in {"lookup", "resume", "spawn"}
      /\ UNCHANGED <<state, tries, begun, hand, current, line>>
  BY DEF LookUp, Resume, ResumeFails, ResumeSucceeds, Spawn, jobVars, historyVars
<1>2. phase[s] \in AttemptPhases \ {"recording"}
  BY <1>1 DEF AttemptPhases, Phases
<1>3. \/ \E p \in {"resume", "spawn"} : GoTo(s, p)
      \/ \E st \in {"fallback_resume", "fallback_spawn", "failed"} : Decide(s, st)
  BY DEF LookUp, Resume, ResumeFails, ResumeSucceeds, Spawn
<1>4. /\ phase'[s] \in {"resume", "spawn", "recording"} /\ verdict'[s] = "waiting" =>
           phase'[s] # "recording"
      /\ \A q \in Ticks : q # s => phase'[q] = phase[q] /\ verdict'[q] = verdict[q]
  BY <1>3 DEF GoTo, Decide, WokenStates, BudgetInv, TypeInv, TicksOK
<1>5. Typing(s)'
  BY <1>3 DEF GoTo, Decide, Typing, BudgetInv, TypeInv, TicksOK
<1> QED
  BY <1>1, <1>2, <1>4, <1>5, AttemptBudget

LEMMA QueueBudget ==
  ASSUME BudgetInv, NEW s \in Ticks, StartTick(s) \/ Begin(s) \/ Record(s)
  PROVE  Budget'
<1>1. UNCHANGED begun /\ \A q \in Ticks : q # s =>
        /\ phase'[q] = phase[q] /\ verdict'[q] = verdict[q] /\ line'[q] = line[q]
        /\ hand'[q] = hand[q] /\ current'[q] = current[q]
  BY DEF StartTick, Begin, Record, historyVars, BudgetInv, TypeInv, TicksOK
<1>2. phase'[s] \in {"ready", "runtime"}
  BY DEF StartTick, Begin, Record, BudgetInv, TypeInv, TicksOK
<1>3. ~Typing(s)' /\ \A q \in Ticks : q # s => (Typing(q)' <=> Typing(q))
  BY <1>1, <1>2 DEF Typing
<1>4. \A j \in Jobs : tries[j] \in Nat /\ tries'[j] \in Nat /\ tries[j] <= tries'[j]
                     /\ begun[j] \in Nat
  <2>1. tries' = tries \/ tries' = [tries EXCEPT ![current[s]] = Counted(current[s])]
    BY DEF StartTick, Begin, Record, jobVars, Counted
  <2>2. \A j \in Jobs : Counted(j) \in Nat /\ tries[j] \in Nat /\ tries[j] <= Counted(j)
                       /\ begun[j] \in Nat
    BY BudgetTypes DEF BudgetInv, Counted
  <2>3. tries \in [Jobs -> Nat]
    BY DEF BudgetInv, TypeInv, TablesOK
  <2>4. \A j \in Jobs : tries'[j] \in {tries[j], Counted(j)}
    BY <2>1, <2>3
  <2> QED
    BY <2>2, <2>4
<1>5. \A j \in Jobs : Counted(j) <= Counted(j)' /\ Counted(j) \in Nat /\ Counted(j)' \in Nat
  <2>1. MaxRetries \in Nat /\ \A j \in Jobs : tries[j] <= MaxRetries
    BY BudgetTypes DEF BudgetInv
  <2> QED
    BY <1>4, <2>1 DEF Counted
<1>6. \A j \in Jobs : state'[j] = "waiting" => begun[j] <= tries'[j]
  <2>1. CASE StartTick(s) \/ Begin(s)
    <3>1. \A j \in Jobs : state'[j] = "waiting" => state[j] = "waiting"
      BY <2>1 DEF StartTick, Begin, jobVars
    <3>2. tries' = tries
      BY <2>1 DEF StartTick, Begin, jobVars
    <3> QED
      BY <3>1, <3>2 DEF BudgetInv, Budget
  <2>2. CASE Record(s)
    <3> DEFINE c == current[s]
    <3>1. phase[s] = "recording" /\ c \in Jobs
      BY <2>2 DEF Record, BudgetInv, IInv, Holding, Types, AttemptPhases, Phases
    <3>2. /\ tries'[c] = Counted(c) /\ state'[c] = verdict[s]
          /\ \A j \in Jobs : j # c => state'[j] = state[j] /\ tries'[j] = tries[j]
      BY <2>2, <3>1 DEF Record, Counted, BudgetInv, TypeInv, TablesOK
    <3>3. verdict[s] = "waiting" => begun[c] <= Counted(c)
      BY <3>1 DEF BudgetInv, Budget
    <3> QED
      BY <3>2, <3>3 DEF BudgetInv, Budget
  <2> QED
    BY <2>1, <2>2
<1>7. ASSUME NEW j \in hand'[s] PROVE j \in Jobs /\ begun[j] <= tries'[j]
  <2>1. CASE StartTick(s)
    <3>1. j \in Jobs /\ state[j] = "waiting" /\ tries' = tries
      BY <1>7, <2>1 DEF StartTick, BudgetInv, TypeInv, TicksOK
    <3> QED
      BY <3>1 DEF BudgetInv, Budget
  <2>2. CASE Begin(s)
    <3>1. j \in hand[s] /\ j \in Jobs /\ tries' = tries /\ ~Typing(s)
      BY <1>7, <2>2 DEF Begin, jobVars, Typing, BudgetInv, TypeInv, TicksOK
    <3> QED
      BY <3>1 DEF BudgetInv, Budget
  <2>3. CASE Record(s)
    <3>1. j \in hand[s] /\ j \in Jobs /\ j # current[s]
      BY <1>7, <2>3 DEF Record, BudgetInv, TypeInv, TicksOK
    <3>2. begun[j] <= tries[j]
      BY <3>1 DEF BudgetInv, Budget
    <3> QED
      BY <1>4, <3>1, <3>2
  <2> QED
    BY <2>1, <2>2, <2>3
<1>8. ASSUME NEW q \in Ticks, NEW j \in hand'[q], ~(Typing(q)' /\ j = current'[q])
      PROVE  begun'[j] <= tries'[j]
  <2>1. CASE q = s
    BY <1>1, <1>7, <1>8, <2>1
  <2>2. CASE q # s
    <3>1. j \in hand[q] /\ j \in Jobs /\ ~(Typing(q) /\ j = current[q])
      BY <1>1, <1>3, <1>8, <2>2 DEF BudgetInv, TypeInv, TicksOK
    <3>2. begun[j] <= tries[j]
      BY <3>1 DEF BudgetInv, Budget
    <3> QED
      BY <1>1, <1>4, <3>1, <3>2
  <2> QED
    BY <2>1, <2>2
<1>9. ASSUME NEW q \in Ticks, phase'[q] \in AttemptPhases
      PROVE  begun'[current'[q]] <= tries'[current'[q]] + 1
  <2>1. CASE q = s
    <3>1. Begin(s)
      BY <1>9, <2>1 DEF StartTick, Begin, Record, AttemptPhases, BudgetInv, TypeInv, TicksOK
    <3>2. current'[s] \in hand'[s]
      BY <3>1 DEF Begin, BudgetInv, TypeInv, TicksOK
    <3>3. current'[s] \in Jobs /\ begun[current'[s]] <= tries'[current'[s]]
      BY <1>7, <3>2
    <3> QED
      BY <1>1, <1>4, <2>1, <3>3
  <2>2. CASE q # s
    <3>1. phase[q] \in AttemptPhases /\ current'[q] = current[q] /\ current[q] \in Jobs
      BY <1>1, <1>9, <2>2 DEF BudgetInv, IInv, Holding, Types
    <3>2. begun[current[q]] <= tries[current[q]] + 1
      BY <3>1 DEF BudgetInv, Budget
    <3> QED
      BY <1>1, <1>4, <3>1, <3>2
  <2> QED
    BY <2>1, <2>2
<1>10. ASSUME NEW q \in Ticks, phase'[q] = "recording", verdict'[q] = "waiting"
       PROVE  begun'[current'[q]] <= Counted(current[q])'
  <2>1. q # s /\ phase[q] = "recording" /\ verdict[q] = "waiting" /\ current'[q] = current[q]
    BY <1>1, <1>2, <1>10
  <2>2. current[q] \in Jobs
    BY <2>1 DEF BudgetInv, IInv, Holding, Types, AttemptPhases, Phases
  <2>3. begun[current[q]] <= Counted(current[q])
    BY <2>1 DEF BudgetInv, Budget
  <2>4. Counted(current[q])' = Counted(current[q])
    <3>1. tries'[current[q]] = tries[current[q]]
      <4>1. current[s] # current[q] \/ tries' = tries
        <5>1. CASE Record(s)
          BY <2>1, <5>1 DEF Record, BudgetInv, IInv, Holding, AttemptPhases, Phases
        <5>2. CASE StartTick(s) \/ Begin(s)
          BY <5>2 DEF StartTick, Begin, jobVars
        <5> QED
          BY <5>1, <5>2
      <4> QED
        BY <2>2, <4>1 DEF StartTick, Begin, Record, jobVars, BudgetInv, TypeInv, TablesOK
    <3> QED
      BY <2>1, <3>1 DEF Counted
  <2> QED
    BY <1>1, <2>1, <2>3, <2>4
<1>11. \A q \in Ticks : phase'[q] = "recording" /\ verdict'[q] = "waiting" =>
         begun'[current'[q]] <= Counted(current[q])'
  BY <1>10
<1> QED
  BY <1>1, <1>6, <1>8, <1>9, <1>11 DEF BudgetInv, Budget

LEMMA NextBudget == BudgetInv /\ [Next]_vars => Budget'
<1>1. SUFFICES ASSUME BudgetInv, [Next]_vars PROVE Budget'
  OBVIOUS
<1>2. ASSUME NEW Ended \in SUBSET Ticks, EndTicks(Ended), UNCHANGED <<state, tries, begun>>
      PROVE  Budget'
  <2>1. \A s \in Ticks \ Ended :
          /\ phase'[s] = phase[s] /\ hand'[s] = hand[s] /\ current'[s] = current[s]
          /\ verdict'[s] = verdict[s] /\ line'[s] = line[s]
    BY <1>2 DEF EndTicks
  <2>2. \A s \in Ended : phase'[s] = "idle" /\ hand'[s] = {}
    BY <1>2 DEF EndTicks
  <2>3. \A j : Counted(j)' = Counted(j)
    BY <1>2 DEF Counted
  <2> QED
    BY <1>1, <1>2, <2>1, <2>2, <2>3 DEF BudgetInv, Budget, Typing, AttemptPhases, Counted
<1>3. ASSUME NEW s \in Ticks, FinishTick(s) \/ TickFails(s) PROVE Budget'
  BY <1>2, <1>3 DEF FinishTick, TickFails, jobVars, historyVars
<1>4. CASE Restart
  BY <1>2, <1>4 DEF Restart, jobVars
<1>5. ASSUME NEW s \in Ticks, TickStep(s), ~FinishTick(s) PROVE Budget'
  BY <1>1, <1>5, QueueBudget, ExecutorBudget, FallbackBudget DEF TickStep
<1>6. CASE RuntimeChanges \/ PaneChanges \/ AdvanceClock \/ UNCHANGED vars
  <2>1. UNCHANGED <<state, tries, begun, hand, current, phase, verdict, line>>
    BY <1>6 DEF RuntimeChanges, PaneChanges, AdvanceClock, vars, jobVars, tickVars,
                historyVars
  <2> QED
    BY <1>1, <2>1 DEF BudgetInv, Budget, Typing, Counted
<1> QED
  BY <1>1, <1>3, <1>4, <1>5, <1>6 DEF Next

(* An envelope that breaks off is begun again by a later attempt, but only *)
(* as often as shouldRetry lets the job wait again: deferrals type nothing *)
(* and the fallback types nothing.                                         *)
THEOREM TypingIsBounded == Spec => []TypedWithinBudget
<1>1. Init => Budget
  BY DeliveryAssumption DEF Init, Budget, AttemptPhases
<1>2. BudgetInv => TypedWithinBudget
  BY DEF BudgetInv, Budget, TypedWithinBudget
<1>3. BudgetInv /\ [Next]_vars => BudgetInv'
  BY NextIInv, NextTypeInv, NextBudget DEF BudgetInv
<1>4. Init => BudgetInv
  BY <1>1, InitIInv, InitTypeInv DEF BudgetInv
<1> QED
  BY <1>2, <1>3, <1>4, PTL DEF Spec

-----------------------------------------------------------------------------
(* The crash-loop shortcut: no list of failures that was pruned by the     *)
(* stamp of whichever tick has lost one that still counts.                 *)
StampsPast == \A s \in Ticks : stamp[s] <= clock
CrashesKept ==
  /\ IsFiniteSet(crashes) /\ \A c \in crashes : c.at \in Int
  /\ \A at \in Int : at >= clock - CrashLoopWindow =>
       Cardinality(CrashesSince(at)) <= CountSince(failures, at)
CrashInv == TypeInv /\ StampsPast /\ CrashesKept

LEMMA CrashesFinite ==
  ASSUME CrashesKept, NEW at
  PROVE  IsFiniteSet(CrashesSince(at)) /\ Cardinality(CrashesSince(at)) \in Nat
<1>1. CrashesSince(at) \subseteq crashes
  BY DEF CrashesSince
<1>2. IsFiniteSet(CrashesSince(at))
  BY <1>1, FS_Subset DEF CrashesKept
<1> QED
  BY <1>2, FS_CardinalityType

(* A step that neither adds a crash nor forgets a failure.                 *)
LEMMA CrashesSame ==
  ASSUME CrashesKept, UNCHANGED <<crashes, failures>>, clock \in Int, clock' \in Int,
         clock <= clock'
  PROVE  CrashesKept'
<1>1. CrashLoopWindow \in Nat
  BY DeliveryAssumption
<1>2. \A at : CrashesSince(at)' = CrashesSince(at)
  BY DEF CrashesSince
<1>3. ASSUME NEW at \in Int, at >= clock' - CrashLoopWindow
      PROVE  Cardinality(CrashesSince(at)') <= CountSince(failures', at)
  <2>1. \A a, w, c, d \in Int : c <= d /\ a >= d - w => a >= c - w
    OBVIOUS
  <2>2. at >= clock - CrashLoopWindow
    <3>1. CrashLoopWindow \in Int
      BY <1>1
    <3> QED
      BY <1>3, <2>1, <3>1, Zenon
  <2> QED
    BY <1>2, <2>2 DEF CrashesKept
<1> QED
  BY <1>3 DEF CrashesKept

LEMMA LookUpCrashes ==
  ASSUME CrashInv, NEW s \in Ticks, LookUp(s)
  PROVE  CrashesKept'
<1>1. CASE failures' = failures
  BY <1>1, CrashesSame DEF LookUp, CrashInv, TypeInv, TablesOK, Time, historyVars
<1>2. CASE failures' = RecentFailures(s)
  <2> DEFINE cut == stamp[s] - CrashLoopWindow
  <2>1. /\ Time \in SUBSET Int /\ failures \in Seq(Time) /\ cut \in Int
        /\ clock \in Int /\ CrashLoopWindow \in Int /\ cut <= clock - CrashLoopWindow
    BY DeliveryAssumption DEF CrashInv, StampsPast, TypeInv, TablesOK, TicksOK, Time
  <2> HIDE DEF cut
  <2>2. \A at \in Int : at >= cut => CountSince(Since(failures, cut), at) = CountSince(failures, at)
    BY <2>1, SinceFacts
  <2>3. failures' = Since(failures, cut)
    BY <1>2 DEF RecentFailures, cut
  <2>4. UNCHANGED <<clock, crashes>>
    BY DEF LookUp, historyVars
  <2>5. \A at \in Int : at >= clock - CrashLoopWindow => at >= cut
    BY <2>1
  <2>6. \A at \in Int : at >= clock - CrashLoopWindow =>
          CountSince(failures', at) = CountSince(failures, at)
    BY <2>2, <2>3, <2>5
  <2> QED
    BY <2>4, <2>6 DEF CrashInv, CrashesKept, CrashesSince
<1> QED
  BY <1>1, <1>2 DEF LookUp

LEMMA ResumeCrashes ==
  ASSUME CrashInv, NEW s \in Ticks, Resume(s)
  PROVE  CrashesKept'
<1>1. CASE UNCHANGED <<failures, crashes>>
  BY <1>1, CrashesSame DEF Resume, CrashInv, TypeInv, TablesOK, Time
<1>2. CASE ResumeFails(s)
  <2> DEFINE c == [job |-> current[s], left |-> left[s], at |-> stamp[s]]
  <2>1. /\ failures' = Append(failures, stamp[s]) /\ crashes' = crashes \cup {c}
        /\ clock' = clock
    BY <1>2 DEF Resume, ResumeFails
  <2>2. failures \in Seq(Time) /\ stamp[s] \in Time /\ c.at = stamp[s] /\ stamp[s] \in Int
    BY DEF CrashInv, TypeInv, TablesOK, TicksOK, Time
  <2> HIDE DEF c
  <2>3. IsFiniteSet(crashes') /\ \A d \in crashes' : d.at \in Int
    BY <2>1, <2>2, FS_AddElement DEF CrashInv, CrashesKept
  <2>4. ASSUME NEW at \in Int, at >= clock - CrashLoopWindow
        PROVE  Cardinality(CrashesSince(at)') <= CountSince(failures', at)
    <3>1. Cardinality(CrashesSince(at)) <= CountSince(failures, at)
      BY <2>4 DEF CrashInv, CrashesKept
    <3>2. IsFiniteSet(CrashesSince(at)) /\ Cardinality(CrashesSince(at)) \in Nat
      BY CrashesFinite DEF CrashInv
    <3>3. CountSince(failures', at) = IF stamp[s] >= at THEN CountSince(failures, at) + 1
                                                       ELSE CountSince(failures, at)
      BY <2>1, <2>2, CountAppend
    <3>4. CountSince(failures, at) \in Nat
      <4>1. Len(failures) \in Nat
        BY <2>2
      <4> QED
        BY <4>1, LaterFinite DEF CountSince
    <3>5. CASE stamp[s] >= at
      <4>1. CrashesSince(at)' = CrashesSince(at) \cup {c}
        BY <2>1, <2>2, <3>5 DEF CrashesSince
      <4>2. Cardinality(CrashesSince(at) \cup {c})
              \in {Cardinality(CrashesSince(at)), Cardinality(CrashesSince(at)) + 1}
        BY <3>2, FS_AddElement, Zenon
      <4>3. Cardinality(CrashesSince(at)')
              \in {Cardinality(CrashesSince(at)), Cardinality(CrashesSince(at)) + 1}
        BY <4>1, <4>2
      <4> QED
        BY <3>1, <3>2, <3>3, <3>4, <3>5, <4>3
    <3>6. CASE ~(stamp[s] >= at)
      <4>1. CrashesSince(at)' = CrashesSince(at)
        BY <2>1, <2>2, <3>6 DEF CrashesSince
      <4> QED
        BY <3>1, <3>3, <3>6, <4>1
    <3> QED
      BY <3>5, <3>6
  <2> QED
    BY <2>1, <2>3, <2>4 DEF CrashesKept
<1> QED
  BY <1>1, <1>2 DEF Resume, ResumeSucceeds

LEMMA InitCrashInv == Init => CrashInv
<1>1. SUFFICES ASSUME Init PROVE CrashInv
  OBVIOUS
<1>2. StampsPast
  BY <1>1 DEF Init, StampsPast
<1>3. IsFiniteSet(crashes) /\ crashes = {}
  BY <1>1, FS_EmptySet DEF Init
<1>4. \A at : Cardinality(CrashesSince(at)) = 0
  <2>1. \A at : CrashesSince(at) = {}
    BY <1>3 DEF CrashesSince
  <2> QED
    BY <2>1, FS_EmptySet
<1>5. \A at : CountSince(failures, at) \in Nat
  <2>1. Len(failures) \in Nat
    BY <1>1 DEF Init
  <2> QED
    BY <2>1, LaterFinite DEF CountSince
<1>6. \A at : Cardinality(CrashesSince(at)) <= CountSince(failures, at)
  BY <1>4, <1>5
<1>7. CrashesKept
  BY <1>3, <1>6 DEF CrashesKept
<1> QED
  BY <1>1, <1>2, <1>7, InitTypeInv DEF CrashInv

LEMMA NextCrashInv == CrashInv /\ [Next]_vars => CrashInv'
<1>1. SUFFICES ASSUME CrashInv, [Next]_vars PROVE CrashInv'
  OBVIOUS
<1>2. TypeInv'
  BY <1>1, NextTypeInv DEF CrashInv
<1>3. clock \in Int /\ clock' \in Int /\ clock >= 0
  BY <1>1, <1>2 DEF CrashInv, TypeInv, TablesOK, Time
<1>4. StampsPast' /\ clock <= clock'
  <2>1. CASE \E s \in Ticks : StartTick(s)
    BY <1>1, <1>3, <2>1 DEF StartTick, CrashInv, StampsPast, TypeInv, TicksOK
  <2>2. CASE \E Ended \in SUBSET Ticks : EndTicks(Ended) /\ UNCHANGED clock
    BY <1>1, <1>3, <2>2 DEF EndTicks, CrashInv, StampsPast, TypeInv, TicksOK
  <2>3. CASE UNCHANGED stamp /\ clock' \in {clock, clock + 1}
    <3>1. \A s \in Ticks : stamp[s] \in Int
      BY <1>1 DEF CrashInv, TypeInv, TicksOK, Time
    <3> QED
      BY <1>1, <1>3, <2>3, <3>1 DEF CrashInv, StampsPast
  <2>4. ASSUME NEW s \in Ticks, FinishTick(s) \/ TickFails(s)
        PROVE  \E Ended \in SUBSET Ticks : EndTicks(Ended) /\ UNCHANGED clock
    BY <2>4 DEF FinishTick, TickFails
  <2>5. Restart => \E Ended \in SUBSET Ticks : EndTicks(Ended) /\ UNCHANGED clock
    BY DEF Restart
  <2>6. ASSUME NEW s \in Ticks, TickStep(s), ~StartTick(s), ~FinishTick(s)
        PROVE  UNCHANGED <<stamp, clock>>
    BY <2>6 DEF TickStep, Begin, Record, GetRuntime, Probe, ActivityProbe, SendText,
                SendEnter, LookUp, Resume, Spawn
  <2>7. RuntimeChanges \/ PaneChanges \/ AdvanceClock \/ UNCHANGED vars =>
          UNCHANGED stamp /\ clock' \in {clock, clock + 1}
    BY DEF RuntimeChanges, PaneChanges, AdvanceClock, vars, tickVars
  <2> QED
    BY <1>1, <2>1, <2>2, <2>3, <2>4, <2>5, <2>6, <2>7 DEF Next
<1>5. CrashesKept'
  <2>1. CASE \E s \in Ticks : LookUp(s)
    BY <1>1, <2>1, LookUpCrashes
  <2>2. CASE \E s \in Ticks : Resume(s)
    BY <1>1, <2>2, ResumeCrashes
  <2>3. CASE Restart
    <3>1. crashes' = {} /\ failures' = <<>>
      BY <2>3 DEF Restart
    <3>2. \A at : CrashesSince(at)' = {}
      BY <3>1 DEF CrashesSince
    <3>3. Len(<<>>) \in Nat
      OBVIOUS
    <3>4. \A at : CountSince(<<>>, at) \in Nat
      BY <3>3, LaterFinite DEF CountSince
    <3>5. IsFiniteSet({}) /\ Cardinality({}) = 0
      BY FS_EmptySet
    <3> QED
      BY <3>1, <3>2, <3>4, <3>5 DEF CrashesKept
  <2>4. CASE UNCHANGED <<failures, crashes>>
    BY <1>1, <1>3, <1>4, <2>4, CrashesSame DEF CrashInv
  <2>5. ASSUME NEW s \in Ticks, TickStep(s) \/ TickFails(s), ~LookUp(s), ~Resume(s)
        PROVE  UNCHANGED <<failures, crashes>>
    BY <2>5 DEF TickStep, TickFails, StartTick, FinishTick, Begin, Record, GetRuntime,
                Probe, ActivityProbe, SendText, SendEnter, Spawn, memoryVars, historyVars
  <2>6. RuntimeChanges \/ PaneChanges \/ AdvanceClock \/ UNCHANGED vars =>
          UNCHANGED <<failures, crashes>>
    BY DEF RuntimeChanges, PaneChanges, AdvanceClock, vars, memoryVars, historyVars
  <2> QED
    BY <1>1, <2>1, <2>2, <2>3, <2>4, <2>5, <2>6 DEF Next
<1> QED
  BY <1>2, <1>4, <1>5 DEF CrashInv

(* The only way from the look-up to a resume command.                      *)
LEMMA OnlyLookUpResumes ==
  ASSUME TypeInv, Next, NEW s \in Ticks, phase[s] = "lookup", phase'[s] = "resume"
  PROVE  LookUp(s)
<1>1. ASSUME NEW Ended \in SUBSET Ticks, EndTicks(Ended) PROVE FALSE
  BY <1>1 DEF EndTicks
<1>2. ASSUME NEW q \in Ticks, TickStep(q), q # s PROVE FALSE
  <2>1. CASE FinishTick(q)
    BY <1>1, <2>1 DEF FinishTick
  <2>2. CASE ~FinishTick(q)
    <3>1. \E p : phase' = [phase EXCEPT ![q] = p]
      <4>1. CASE StartTick(q) \/ Begin(q) \/ Record(q)
        BY <4>1 DEF StartTick, Begin, Record
      <4>2. CASE GetRuntime(q) \/ Probe(q)
        BY <4>2 DEF GetRuntime, Busy, TurnedDown, Probe, Undelivered, Decide, GoTo
      <4>3. CASE ActivityProbe(q) \/ SendText(q) \/ SendEnter(q)
        BY <4>3 DEF ActivityProbe, Busy, SendText, SendEnter, Undelivered, Decide, GoTo
      <4>4. CASE LookUp(q) \/ Resume(q) \/ Spawn(q)
        BY <4>4 DEF LookUp, Resume, ResumeFails, ResumeSucceeds, Spawn, Decide, GoTo
      <4> QED
        BY <1>2, <2>2, <4>1, <4>2, <4>3, <4>4 DEF TickStep
    <3> QED
      BY <1>2, <3>1 DEF TypeInv, TicksOK
  <2> QED
    BY <2>1, <2>2
<1>3. CASE TickStep(s)
  BY <1>3 DEF TickStep, StartTick, Begin, FinishTick, Record, GetRuntime, Probe,
              ActivityProbe, SendText, SendEnter, Resume, Spawn
<1>4. ASSUME NEW q \in Ticks, TickFails(q) PROVE FALSE
  BY <1>1, <1>4 DEF TickFails
<1>5. CASE Restart
  BY <1>1, <1>5 DEF Restart
<1>6. CASE RuntimeChanges \/ PaneChanges \/ AdvanceClock
  BY <1>6 DEF RuntimeChanges, PaneChanges, AdvanceClock, tickVars
<1> QED
  BY <1>2, <1>3, <1>4, <1>5, <1>6 DEF Next

(* canAttemptResume refuses when as many resume commands as the threshold  *)
(* failed in the window of a tick that is not slow, whichever ticks have   *)
(* pruned the list of failures before, and by whatever stamps.             *)
THEOREM CrashLoopsAreCut == Spec => ShortcutTaken
<1> DEFINE Step == \A s \in Ticks :
             phase[s] = "lookup" /\ phase'[s] = "resume" /\ stamp[s] = clock
               => Cardinality(CrashesSince(stamp[s] - CrashLoopWindow)) < CrashLoopThreshold
<1>1. ASSUME CrashInv, [Next]_vars PROVE [Step]_vars
  <2>1. SUFFICES ASSUME Next, NEW s \in Ticks,
                        phase[s] = "lookup", phase'[s] = "resume", stamp[s] = clock
                 PROVE  Cardinality(CrashesSince(stamp[s] - CrashLoopWindow))
                          < CrashLoopThreshold
    BY <1>1
  <2> DEFINE cut == stamp[s] - CrashLoopWindow
  <2>2. LookUp(s)
    BY <1>1, <2>1, OnlyLookUpResumes DEF CrashInv
  <2>3. Len(RecentFailures(s)) < CrashLoopThreshold
    BY <1>1, <2>1, <2>2 DEF LookUp, GoTo, CrashInv, TypeInv, TicksOK
  <2>4. Time \in SUBSET Int /\ failures \in Seq(Time) /\ cut \in Int
        /\ cut >= clock - CrashLoopWindow
    BY <1>1, <2>1, DeliveryAssumption DEF CrashInv, TypeInv, TablesOK, TicksOK, Time
  <2>5. Len(RecentFailures(s)) = CountSince(failures, cut)
    BY <2>4, SinceFacts DEF RecentFailures
  <2> HIDE DEF cut
  <2>6. Cardinality(CrashesSince(cut)) <= CountSince(failures, cut)
    BY <1>1, <2>4 DEF CrashInv, CrashesKept
  <2>7. Cardinality(CrashesSince(cut)) \in Nat /\ CountSince(failures, cut) \in Nat
    <3>1. Len(failures) \in Nat
      BY <2>4
    <3> QED
      BY <1>1, <3>1, CrashesFinite, LaterFinite DEF CrashInv, CountSince
  <2> QED
    BY <2>3, <2>5, <2>6, <2>7, DeliveryAssumption DEF cut
<1>2. CrashInv /\ [Next]_vars => [Step]_vars
  BY <1>1
<1> QED
  BY <1>2, InitCrashInv, NextCrashInv, PTL DEF Spec, ShortcutTaken
=============================================================================
