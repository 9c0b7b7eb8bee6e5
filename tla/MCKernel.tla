------------------------------ MODULE MCKernel ------------------------------
(* Instances of Kernel for TLC. *)
EXTENDS Kernel, TLC

\* Task 0, which the SVC handler starts first, is outranked by 1 and 2.
PriorityZeroLow == 0 :> 1 @@ 1 :> 2 @@ 2 :> 2

\* Two tasks of unequal and of equal priority.
PriorityOneHigh == 0 :> 1 @@ 1 :> 2
PriorityEqual == 0 :> 1 @@ 1 :> 1

=============================================================================
