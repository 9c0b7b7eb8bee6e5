----------------------------- MODULE MCSemaphore -----------------------------
(* Instances of Semaphore for TLC. *)
EXTENDS Semaphore, TLC

\* The highest task takes; the two below give, sleep or just compute.
PriorityRising == 0 :> 1 @@ 1 :> 2 @@ 2 :> 3

PriorityOneHigh == 0 :> 1 @@ 1 :> 2

=============================================================================
