-------------------------- MODULE TriggerLifecycle --------------------------
(***************************************************************************)
(* What the trigger queue promises of each job, without its tables, clocks *)
(* and process memory: a job waits, one worker tick at a time holds it,    *)
(* every return by its holder counts one attempt, and a settled job stays  *)
(* settled.  A tick that fails or a worker that stops leaves the jobs it   *)
(* held without a holder, and nothing gives them a new one.                *)
(***************************************************************************)
EXTENDS Naturals

CONSTANTS Jobs,    \* trigger job identifiers
          Ticks,   \* slots for the worker ticks that may run at one time
          NoTick   \* the holder of a job that nobody holds

VARIABLES state,   \* state[j]: absent, waiting, held or settled
          holder,  \* holder[j]: the tick that works on j, or NoTick
          tries    \* tries[j]: attempts recorded for j

lifeVars == <<state, holder, tries>>

Init ==
  /\ state = [j \in Jobs |-> "absent"]
  /\ holder = [j \in Jobs |-> NoTick]
  /\ tries = [j \in Jobs |-> 0]

(* A request inserts the job: to be tried, or already decided (a job that  *)
(* the API marks for fallback is never offered to a tick).                 *)
Submit(j) ==
  /\ state[j] = "absent"
  /\ \E s \in {"waiting", "settled"} : state' = [state EXCEPT ![j] = s]
  /\ UNCHANGED <<holder, tries>>

Take(j, k) ==
  /\ state[j] = "waiting"
  /\ state' = [state EXCEPT ![j] = "held"]
  /\ holder' = [holder EXCEPT ![j] = k]
  /\ UNCHANGED tries

(* The holder records an attempt and the job waits again or is settled.    *)
Return(j) ==
  /\ state[j] = "held"
  /\ holder[j] \in Ticks
  /\ \E s \in {"waiting", "settled"} : state' = [state EXCEPT ![j] = s]
  /\ holder' = [holder EXCEPT ![j] = NoTick]
  /\ tries' = [tries EXCEPT ![j] = @ + 1]

(* The ticks of Lost stop working: their jobs stay held, by nobody.        *)
Abandon(Lost) ==
  /\ holder' = [j \in Jobs |-> IF holder[j] \in Lost THEN NoTick ELSE holder[j]]
  /\ UNCHANGED <<state, tries>>

Next ==
  \/ \E j \in Jobs : Submit(j) \/ Return(j)
  \/ \E j \in Jobs, k \in Ticks : Take(j, k)
  \/ \E Lost \in SUBSET Ticks : Abandon(Lost)

Spec == Init /\ [][Next]_lifeVars
=============================================================================
