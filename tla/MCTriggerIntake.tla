-------------------------- MODULE MCTriggerIntake --------------------------
(* Instances of the trigger intake for TLC.                                *)
EXTENDS TriggerIntake, TLC

CONSTANTS a1, k1, s1, c1, c2, i1, p1, p2, none

(* Heartbeats of one managed session: it is offline, stale or not to be    *)
(* resumed by what ticks and deregistrations do to its row.                *)
Online == {[status |-> "active", mode |-> Managed]}

Alike == Permutations(Calls) \cup Permutations(Payloads)
=============================================================================
