--------------------------- MODULE MCTriggerQueue ---------------------------
(* Instances of the trigger queue for TLC.                                 *)
EXTENDS TriggerQueueProps, TLC

CONSTANTS j1, j2, t1, a1, w1, s1, s2, none

OneThread == [j \in Jobs |-> t1]
OneAgent == [j \in Jobs |-> a1]
OneWorker == [s \in Ticks |-> w1]

(* Jobs of one thread and agent are alike, and so are the ticks of one     *)
(* worker.                                                                 *)
Alike == Permutations(Jobs) \cup Permutations(Ticks)
=============================================================================
