------------------------------ MODULE MCQueue ------------------------------
(* Instances of Queue for TLC. *)
EXTENDS Queue, TLC

\* The receiver outranks the sending task.
PriorityOneHigh == 0 :> 1 @@ 1 :> 2

=============================================================================
