---------------------------- MODULE MCReadCursor -----------------------------
(* Instances of the acknowledgements for TLC.                              *)
EXTENDS ReadCursor

CONSTANTS a1, k1, k2

SlotsOfOne == [k \in Acks |-> a1]
=============================================================================
