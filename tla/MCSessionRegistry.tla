-------------------------- MODULE MCSessionRegistry --------------------------
(* Instances of the session registry for TLC.                              *)
EXTENDS SessionRegistry

CONSTANTS a1, a2, k1, k2, s1, s2

(* Heartbeats of active sessions (a first row is idle) of one mode: the    *)
(* registry tells no modes apart.                                          *)
Online == {[status |-> "active", mode |-> Managed]}
=============================================================================
