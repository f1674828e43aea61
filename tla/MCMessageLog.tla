---------------------------- MODULE MCMessageLog ----------------------------
(* Instances of the message log for TLC.                                   *)
EXTENDS MessageLogProps, TLC

CONSTANTS p1, p2, p3, r1, a1, a2, k1, nokey, none

PostersAgentsAlike == Permutations(Posters) \cup Permutations(Agents)
=============================================================================
