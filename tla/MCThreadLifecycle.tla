-------------------------- MODULE MCThreadLifecycle -------------------------
(* Instances of the thread lifecycle for TLC.                              *)
EXTENDS ThreadLifecycle, TLC

CONSTANTS t1, a1, a2, c1, none

ApiAlike == Permutations(Api)
=============================================================================
