------------------------------- MODULE Stamps -------------------------------
(***************************************************************************)
(* The lists of time stamps that the supervisor worker keeps in memory:    *)
(* attempts that the limiter let through (trigger-queue.ts) and resume     *)
(* commands that failed (runtime-fallback.ts).  Both append the time stamp *)
(* of the tick and filter the list before they look at its length.         *)
(*                                                                         *)
(* The filter is SelectSeq, written as a recursive function: the proofs    *)
(* need its definition, which the prover has not got for SelectSeq.        *)
(***************************************************************************)
EXTENDS Integers, Sequences

(* stamps.filter((at) => at >= cut)                                        *)
Since(stamps, cut) ==
  LET Kept[n \in 0 .. Len(stamps)] ==
        IF n = 0 THEN <<>>
        ELSE IF stamps[n] >= cut THEN Append(Kept[n - 1], stamps[n]) ELSE Kept[n - 1]
  IN  Kept[Len(stamps)]
=============================================================================
