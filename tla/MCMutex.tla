------------------------------ MODULE MCMutex ------------------------------
(* Instances of Mutex for TLC. *)
EXTENDS Mutex, TLC

PriorityRising == 0 :> 1 @@ 1 :> 2 @@ 2 :> 3

\* Two lockers and a task below them that only unlocks.
PriorityUnlockerLow == 0 :> 2 @@ 1 :> 3 @@ 2 :> 1

PriorityOneHigh == 0 :> 1 @@ 1 :> 2

=============================================================================
