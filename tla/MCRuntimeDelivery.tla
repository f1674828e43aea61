-------------------------- MODULE MCRuntimeDelivery --------------------------
(* Instances of the deliveries for TLC.                                    *)
EXTENDS RuntimeDelivery, TLC

CONSTANTS j1, j2, s1, s2, x1, none

OneSession == [j \in Jobs |-> x1]

(* The ticks of one worker are alike.                                      *)
Alike == Permutations(Ticks)
=============================================================================
