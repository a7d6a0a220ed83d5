----------------------------- MODULE MCSending -----------------------------
(* Instances of Sending for TLC. *)
EXTENDS Sending

CONSTANTS t1, t2

MCTasks == {t1, t2}

=============================================================================
