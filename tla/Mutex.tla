------------------------------- MODULE Mutex -------------------------------
(***************************************************************************)
(* One rtosk_mutex_t (mutex.c) used by tasks, on the Kernel machine.  No   *)
(* handler touches a mutex, but SysTick and PendSV come between any two    *)
(* steps PRIMASK leaves open to them.                                      *)
(***************************************************************************)
EXTENDS Kernel

CONSTANTS
  Lockers,    \* the tasks that call rtosk_mutex_lock
  MaxDepth    \* how many lock calls a task makes without unlocking

ASSUME MutexAssumption == Lockers \subseteq Task /\ MaxDepth \in Nat \ {0}

VARIABLES
  owner,      \* mutex->owner
  waiting     \* mutex->waiting_task

(***************************************************************************)
(* History: whether a task has returned from a lock since its last unlock, *)
(* and how many locks it has returned from and not yet matched by an       *)
(* unlock.  The two differ for a task that locks what it already holds.    *)
(***************************************************************************)
VARIABLES held, depth

mutexVars == <<owner, waiting, held, depth>>
vars == <<kernelVars, mutexVars>>

\* What rtosk_mutex_init leaves, called by main before the kernel starts.
Init ==
  /\ KernelInit
  /\ owner = NoTask /\ waiting = NoTask
  /\ held = [t \in Task |-> FALSE] /\ depth = [t \in Task |-> 0]

-----------------------------------------------------------------------------
(* rtosk_mutex_lock: the loop starts again at "lock" *)

LockCall(t) ==
  /\ depth[t] < MaxDepth
  /\ AccessAt(t, "user", "lock")
  /\ UNCHANGED <<tstate, mutexVars>>

\* Faulty: without its critical section.
LockEnterOpen(t) == AccessAt(t, "lock", "lock_test") /\ UNCHANGED <<tstate, mutexVars>>

LockEnter(t) == EnterAt(t, "lock", "lock_test") /\ UNCHANGED mutexVars

LockFree(t) ==
  /\ owner = NoTask
  /\ AccessAt(t, "lock_test", "lock_take")
  /\ UNCHANGED <<tstate, mutexVars>>

LockTake(t) ==
  /\ AccessAt(t, "lock_take", "lock_held")
  /\ owner' = current
  /\ UNCHANGED <<tstate, waiting, held, depth>>

\* The caller owns it already: nothing is counted.
LockOwn(t) ==
  /\ owner = current
  /\ AccessAt(t, "lock_test", "lock_held")
  /\ UNCHANGED <<tstate, mutexVars>>

LockReturn(t) ==
  /\ ExitAt(t, "lock_held", "user")
  /\ held' = [held EXCEPT ![t] = TRUE]
  /\ depth' = [depth EXCEPT ![t] = @ + 1]
  /\ UNCHANGED <<owner, waiting>>

LockBusy(t) ==
  /\ owner \notin {NoTask, current}
  /\ AccessAt(t, "lock_test", "lock_block")
  /\ UNCHANGED <<tstate, mutexVars>>

LockBlock(t) ==
  /\ AccessAt(t, "lock_block", "lock_blocked")
  /\ waiting' = current
  /\ BlockCurrentOn("BLOCKED_ON_MUTEX")
  /\ UNCHANGED <<owner, held, depth>>

LockBlockExit(t) == ExitAt(t, "lock_blocked", "lock_yield") /\ UNCHANGED mutexVars

LockYield(t) == YieldAt(t, "lock_yield", "lock") /\ UNCHANGED mutexVars

LockStep(t) ==
  LockEnter(t) \/ LockFree(t) \/ LockTake(t) \/ LockOwn(t) \/ LockReturn(t) \/ LockBusy(t)
    \/ LockBlock(t) \/ LockBlockExit(t) \/ LockYield(t)

-----------------------------------------------------------------------------
(* rtosk_mutex_unlock: any task may call it *)

UnlockEnter(t) ==
  /\ EnterAt(t, "user", "unlock")
  /\ held' = [held EXCEPT ![t] = FALSE]
  /\ depth' = [depth EXCEPT ![t] = IF @ > 0 THEN @ - 1 ELSE 0]
  /\ UNCHANGED <<owner, waiting>>

UnlockNotOwner(t) ==
  /\ owner # current
  /\ AccessAt(t, "unlock", "unlock_refused")
  /\ UNCHANGED <<tstate, mutexVars>>

UnlockRefused(t) == ExitAt(t, "unlock_refused", "user") /\ UNCHANGED mutexVars

\* Faulty: the waiter is forgotten instead of readied; readied but not forgotten.
UnlockForgets(t) ==
  /\ owner = current
  /\ AccessAt(t, "unlock", "unlock_released")
  /\ owner' = NoTask /\ waiting' = NoTask
  /\ UNCHANGED <<tstate, held, depth>>

UnlockKeepsWaiter(t) ==
  /\ owner = current
  /\ AccessAt(t, "unlock", "unlock_released")
  /\ owner' = NoTask
  /\ IF waiting # NoTask THEN SetReady(waiting) ELSE UNCHANGED tstate
  /\ UNCHANGED <<waiting, held, depth>>

UnlockRelease(t) ==
  /\ owner = current
  /\ AccessAt(t, "unlock", "unlock_released")
  /\ owner' = NoTask
  /\ waiting' = NoTask
  /\ IF waiting # NoTask THEN SetReady(waiting) ELSE UNCHANGED tstate
  /\ UNCHANGED <<held, depth>>

UnlockExit(t) == ExitAt(t, "unlock_released", "unlock_yield") /\ UNCHANGED mutexVars

\* Faulty: without the yield.
UnlockNoYield(t) ==
  /\ AccessAt(t, "unlock_yield", "user")
  /\ UNCHANGED <<tstate, mutexVars>>

UnlockYield(t) == YieldAt(t, "unlock_yield", "user") /\ UNCHANGED mutexVars

UnlockStep(t) ==
  UnlockNotOwner(t) \/ UnlockRefused(t) \/ UnlockRelease(t) \/ UnlockExit(t)
    \/ UnlockYield(t)

-----------------------------------------------------------------------------

MutexStep ==
  \/ \E t \in Lockers : LockCall(t) \/ LockStep(t)
  \/ \E t \in Task : UnlockEnter(t) \/ UnlockStep(t)

Next == (KernelNext /\ UNCHANGED mutexVars) \/ MutexStep

Spec == Init /\ [][Next]_vars

(***************************************************************************)
(* Kernel's fairness, the same for the code of lock and unlock, and tasks  *)
(* that do not keep a mutex for ever: one that is inside the protected     *)
(* section and gets the CPU comes to its unlock.                           *)
(***************************************************************************)
FairSpec ==
  /\ Spec
  /\ HandlerFairness
  /\ SF_vars(\/ \E t \in Task : SleepStep(t) /\ UNCHANGED mutexVars
             \/ \E t \in Lockers : LockStep(t)
             \/ \E t \in Task : UnlockStep(t))
  /\ SF_vars(\E t \in Lockers : held[t] /\ UnlockEnter(t))
  /\ ThreadModeRecurs

-----------------------------------------------------------------------------
(* Properties *)

MutexLabels ==
  KernelLabels \cup
    {"lock", "lock_test", "lock_take", "lock_held", "lock_block", "lock_blocked", "lock_yield",
     "unlock", "unlock_refused", "unlock_released", "unlock_yield"}

TypeOK ==
  /\ CoreTypeOK
  /\ pc \in [Task -> MutexLabels]
  /\ owner \in Task \cup {NoTask} /\ waiting \in Task \cup {NoTask}
  /\ held \in [Task -> BOOLEAN] /\ depth \in [Task -> Nat]

(***************************************************************************)
(* "Simple mutex used to protect exclusive access to a shared resource"    *)
(* (mutex.h:48): at most one task is between a lock that has returned and  *)
(* its next unlock, wherever it and the others were preempted.             *)
(***************************************************************************)
MutualExclusion == \A t, u \in Task : held[t] /\ held[u] => t = u

(***************************************************************************)
(* The same where sections nest: a task that may lock the mutex it holds   *)
(* (mutex.c:56) has it to itself until every lock is matched by an unlock. *)
(***************************************************************************)
NestedExclusion == \A t, u \in Task : depth[t] > 0 /\ depth[u] > 0 => t = u

BlockedOnMutex == {t \in Task : tstate[t] = "BLOCKED_ON_MUTEX"}

(***************************************************************************)
(* "Releases the mutex and wakes a waiting task, if one exists"            *)
(* (mutex.h:69): no task stays blocked on a mutex nobody owns, unless a    *)
(* locker is on its way to take it (whose unlock will wake the next).      *)
(***************************************************************************)
FreeMutexHasNoSleepers ==
  owner = NoTask /\ BlockedOnMutex # {} =>
    \E t \in Lockers \ BlockedOnMutex :
      pc[t] \in {"lock", "lock_test", "lock_take", "lock_blocked", "lock_yield"}

(***************************************************************************)
(* A task blocked on the mutex is the registered waiter of another owner,  *)
(* so the owner's unlock will find it, and wakes nobody else.              *)
(***************************************************************************)
WaiterIsBlocked ==
  \A t \in Task : waiting = t <=> t \in BlockedOnMutex

(***************************************************************************)
(* The highest-priority locker gets the mutex in the end, though a lower   *)
(* task it preempted may hold it and lock it again and again.              *)
(***************************************************************************)
TopLockerGetsIn ==
  \A t \in Lockers : Outranks(t) /\ pc[t] = "lock" ~> held[t]

=============================================================================
