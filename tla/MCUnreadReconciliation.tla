----------------------- MODULE MCUnreadReconciliation ------------------------
(* Instances of the unread reconciliation for TLC.                         *)
EXTENDS UnreadReconciliation

CONSTANTS a1, k1, w1, s1, s2

OneAgent == [k \in Acks |-> a1]
OneWorker == [s \in Ticks |-> w1]
=============================================================================
