------------------------------- MODULE MCBoot -------------------------------
(* Instance of Boot for TLC. *)
EXTENDS Boot, TLC

\* Task 0, which the svc starts, is outranked by task 1.
PriorityOneHigh == 0 :> 1 @@ 1 :> 2

=============================================================================
