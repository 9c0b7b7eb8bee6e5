---------------------------- MODULE MutexProofs ----------------------------
(***************************************************************************)
(* Mutual exclusion of the mutex, for any number of tasks, any priorities, *)
(* any lockers, and any preemption by SysTick and PendSV, whether or not   *)
(* tasks lock what they already hold.                                      *)
(***************************************************************************)
EXTENDS Mutex, KernelProofs

\* Labels at which a task owes nobody a switch request.
Settled ==
  {"user", "lock", "lock_test", "lock_take", "lock_held", "lock_block", "unlock",
   "unlock_refused"}

\* Labels inside a critical section of lock or unlock.
Masked ==
  {"lock_test", "lock_take", "lock_held", "lock_block", "lock_blocked", "unlock",
   "unlock_refused", "unlock_released"}

MutexTypes ==
  /\ pc \in [Task -> MutexLabels]
  /\ owner \in Task \cup {NoTask} /\ waiting \in Task \cup {NoTask}
  /\ held \in [Task -> BOOLEAN] /\ depth \in [Task -> Nat]

\* Only the running task is inside a critical section.
MaskedInv == \A t \in Task : pc[t] \in Masked => nesting > 0 /\ psp = t

\* Who has returned from lock, or is about to, owns the mutex until it
\* unlocks; who is about to take it has seen it free and nobody has taken it
\* since.
OwnerInv ==
  \A t \in Task :
    /\ held[t] => owner = t /\ pc[t] # "unlock"
    /\ pc[t] = "lock_held" => owner = t
    /\ pc[t] = "lock_take" => owner = NoTask

MutexInv == CoreInv(Settled, {}) /\ MutexTypes /\ MaskedInv /\ OwnerInv

-----------------------------------------------------------------------------

\* The steps of lock and unlock keep the machine's invariant.
LEMMA MutexCore ==
  ASSUME MutexInv, MutexStep
  PROVE  CoreInv(Settled, {})'
<1>0. CoreInv(Settled, {}) /\ tstate \in [Slot -> TaskState]
  BY DEF MutexInv, CoreInv, MachineTypeOK
<1>1. ASSUME NEW t \in Task,
             LockEnter(t) \/ LockReturn(t) \/ LockBlockExit(t) \/ UnlockEnter(t)
               \/ UnlockRefused(t) \/ UnlockExit(t)
      PROVE  CoreInv(Settled, {})'
  BY <1>0, <1>1, SectionCore
  DEF LockEnter, LockReturn, LockBlockExit, UnlockEnter, UnlockRefused, UnlockExit, Settled
<1>2. ASSUME NEW t \in Task, LockYield(t) \/ UnlockYield(t)
      PROVE  CoreInv(Settled, {})'
  BY <1>0, <1>2, YieldCore DEF LockYield, UnlockYield
<1>3. ASSUME NEW t \in Task,
             LockCall(t) \/ LockFree(t) \/ LockTake(t) \/ LockOwn(t) \/ LockBusy(t)
               \/ UnlockNotOwner(t)
      PROVE  CoreInv(Settled, {})'
  <2>1. PICK from \in Settled, to \in Settled : AccessAt(t, from, to)
    BY <1>3 DEF LockCall, LockFree, LockTake, LockOwn, LockBusy, UnlockNotOwner, Settled
  <2>2. tstate' = tstate
    BY <1>3 DEF LockCall, LockFree, LockTake, LockOwn, LockBusy, UnlockNotOwner
  <2> QED BY <1>0, <2>1, <2>2, AccessCore
<1>4. ASSUME NEW t \in Task, LockBlock(t)
      PROVE  CoreInv(Settled, {})'
  <2>1. tstate' = [tstate EXCEPT ![t] = "BLOCKED_ON_MUTEX"]
    BY <1>0, <1>4, CurrentRuns DEF LockBlock, AccessAt, BlockCurrentOn
  <2>2. /\ tstate' \in [Slot -> TaskState]
        /\ \A u \in Task \ {t} : tstate'[u] \in {tstate[u], "READY"}
    BY <1>0, <2>1, SlotFacts DEF TaskState
  <2> QED BY <1>0, <1>4, <2>2, AccessCore DEF LockBlock, Settled
<1>5. ASSUME NEW t \in Task, UnlockRelease(t)
      PROVE  CoreInv(Settled, {})'
  <2>1. /\ tstate' \in [Slot -> TaskState]
        /\ \A u \in Task : tstate'[u] \in {tstate[u], "READY"}
    BY <1>0, <1>5, SlotFacts DEF UnlockRelease, SetReady, TaskState
  <2> QED BY <1>0, <1>5, <2>1, AccessCore DEF UnlockRelease, Settled
<1>6. Lockers \subseteq Task
  BY MutexAssumption
<1> QED BY <1>1, <1>2, <1>3, <1>4, <1>5, <1>6 DEF MutexStep, LockStep, UnlockStep

-----------------------------------------------------------------------------
(* The mutex's own invariants *)

\* A handler changes the running context only while no critical section is
\* open, and the application's calls are made with none of lock's open.
LEMMA KernelKeepsMutex ==
  ASSUME MutexInv, KernelNext, UNCHANGED mutexVars
  PROVE  MutexTypes' /\ MaskedInv' /\ OwnerInv'
<1> USE DEF MutexInv, MutexTypes, mutexVars
<1>0. /\ \A t \in Task : pc'[t] = pc[t] \/ {pc[t], pc'[t]} \subseteq KernelLabels
      /\ pc' = [t \in Task |-> pc'[t]]
  BY KernelMoves
<1>1. KernelLabels \cap (Masked \cup {"lock_held", "lock_take", "unlock"}) = {}
  BY DEF KernelLabels, Masked
<1>2. MutexTypes' /\ OwnerInv'
  BY <1>0, <1>1 DEF OwnerInv, MutexLabels
<1>3. CASE HandlerStep
  <2>1. UNCHANGED <<pc, nesting>> /\ (svPc = "inactive" => psp' = psp)
    BY <1>3, HandlerMoves DEF irqVars
  <2>2. nesting > 0 => svPc = "inactive"
    BY DEF CoreInv, CriticalInv, CriticalIsExclusive, ThreadMode
  <2> QED BY <1>2, <2>1, <2>2 DEF MaskedInv
<1>4. ASSUME NEW t \in Task, ThreadStep(t)
      PROVE  MaskedInv'
  <2>1. psp = t /\ pc[t] \in KernelLabels
    BY <1>4, CallMoves
  <2> QED BY <1>0, <1>1, <2>1 DEF MaskedInv
<1> QED BY <1>2, <1>3, <1>4 DEF KernelNext

LEMMA MutexKeepsMutex ==
  ASSUME MutexInv, MutexStep
  PROVE  MutexTypes' /\ MaskedInv' /\ OwnerInv'
<1> USE DEF MutexInv, MutexTypes, EnterAt, ExitAt, YieldAt, AccessAt
<1>0. Lockers \subseteq Task /\ NoTask \notin Task
  BY MutexAssumption, SlotFacts
<1>1. ASSUME NEW t \in Task, NEW from, NEW to, StepAt(t, from, to)
      PROVE  /\ psp = t /\ psp' = t /\ current = t /\ pc[t] = from
             /\ pc' = [pc EXCEPT ![t] = to]
             /\ \A u \in Task \ {t} : pc[u] \notin Masked /\ pc'[u] = pc[u]
  BY <1>1, CurrentRuns DEF StepAt, MaskedInv
<1>2. nesting \in Nat
  BY DEF CoreInv, MachineTypeOK
<1>3. ASSUME NEW t \in Lockers, LockCall(t)
      PROVE  MutexTypes' /\ MaskedInv' /\ OwnerInv'
  BY <1>0, <1>1, <1>3 DEF LockCall, irqVars, mutexVars, MutexLabels, KernelLabels, Masked,
     MaskedInv, OwnerInv
<1>4. ASSUME NEW t \in Lockers, LockEnter(t)
      PROVE  MutexTypes' /\ MaskedInv' /\ OwnerInv'
  BY <1>0, <1>1, <1>2, <1>4 DEF LockEnter, EnterCritical, mutexVars, MutexLabels, KernelLabels,
     Masked, MaskedInv, OwnerInv
<1>5. ASSUME NEW t \in Lockers, LockFree(t) \/ LockOwn(t) \/ LockBusy(t)
      PROVE  MutexTypes' /\ MaskedInv' /\ OwnerInv'
  BY <1>0, <1>1, <1>5 DEF LockFree, LockOwn, LockBusy, irqVars, mutexVars, MutexLabels,
     KernelLabels, Masked, MaskedInv, OwnerInv
<1>6. ASSUME NEW t \in Lockers, LockTake(t)
      PROVE  MutexTypes' /\ MaskedInv' /\ OwnerInv'
  BY <1>0, <1>1, <1>6 DEF LockTake, irqVars, MutexLabels, KernelLabels, Masked, MaskedInv,
     OwnerInv
<1>7. ASSUME NEW t \in Lockers, LockReturn(t)
      PROVE  MutexTypes' /\ MaskedInv' /\ OwnerInv'
  <2>1. owner = t
    BY <1>0, <1>1, <1>7 DEF LockReturn, OwnerInv, KernelLabels
  <2> QED
    BY <1>0, <1>1, <1>7, <2>1 DEF LockReturn, MutexLabels, KernelLabels, Masked, MaskedInv,
       OwnerInv
<1>8. ASSUME NEW t \in Lockers, LockBlock(t) \/ LockBlockExit(t) \/ LockYield(t)
      PROVE  MutexTypes' /\ MaskedInv' /\ OwnerInv'
  BY <1>0, <1>1, <1>8 DEF LockBlock, LockBlockExit, LockYield, irqVars, mutexVars, MutexLabels,
     KernelLabels, Masked, MaskedInv, OwnerInv
<1>9. ASSUME NEW t \in Task, UnlockEnter(t)
      PROVE  MutexTypes' /\ MaskedInv' /\ OwnerInv'
  BY <1>0, <1>1, <1>2, <1>9 DEF UnlockEnter, EnterCritical, MutexLabels, KernelLabels, Masked,
     MaskedInv, OwnerInv
<1>10. ASSUME NEW t \in Task, UnlockRelease(t)
       PROVE  MutexTypes' /\ MaskedInv' /\ OwnerInv'
  BY <1>0, <1>1, <1>10 DEF UnlockRelease, irqVars, MutexLabels, KernelLabels, Masked,
     MaskedInv, OwnerInv
<1>11. ASSUME NEW t \in Task,
              UnlockNotOwner(t) \/ UnlockRefused(t) \/ UnlockExit(t) \/ UnlockYield(t)
       PROVE  MutexTypes' /\ MaskedInv' /\ OwnerInv'
  BY <1>0, <1>1, <1>11 DEF UnlockNotOwner, UnlockRefused, UnlockExit, UnlockYield, irqVars,
     mutexVars, MutexLabels, KernelLabels, Masked, MaskedInv, OwnerInv
<1> QED
  BY <1>3, <1>4, <1>5, <1>6, <1>7, <1>8, <1>9, <1>10, <1>11
  DEF MutexStep, LockStep, UnlockStep

-----------------------------------------------------------------------------
(* The theorems *)

(***************************************************************************)
(* The inductive invariant of the mutex on the kernel.                     *)
(***************************************************************************)
THEOREM MutexInvariant == Spec => []MutexInv
<1>1. Init => MutexInv
  <2> SUFFICES ASSUME Init PROVE MutexInv
    OBVIOUS
  <2>1. CoreInv(Settled, {})
    BY InitCore DEF Init
  <2> QED
    BY <2>1 DEF Init, KernelInit, MutexInv, MutexTypes, MaskedInv, OwnerInv,
       MutexLabels, KernelLabels, Masked
<1>2. MutexInv /\ [Next]_vars => MutexInv'
  <2> SUFFICES ASSUME MutexInv, [Next]_vars PROVE MutexInv'
    OBVIOUS
  <2>1. CASE KernelNext /\ UNCHANGED mutexVars
    <3>1. CoreInv(Settled, {})'
      BY <2>1, KernelCore DEF MutexInv, Settled
    <3> QED BY <2>1, <3>1, KernelKeepsMutex DEF MutexInv
  <2>2. CASE MutexStep
    BY <2>2, MutexCore, MutexKeepsMutex DEF MutexInv
  <2>3. CASE UNCHANGED vars
    <3>1. CoreInv(Settled, {})'
      BY <2>3, StutterCore DEF MutexInv, vars
    <3> QED
      BY <2>3, <3>1 DEF vars, kernelVars, irqVars, mutexVars, MutexInv, MutexTypes, MaskedInv,
         OwnerInv
  <2> QED BY <2>1, <2>2, <2>3 DEF Next
<1> QED BY <1>1, <1>2, PTL DEF Spec

(***************************************************************************)
(* At most one task is between its lock and its next unlock, wherever it   *)
(* and the others were preempted.                                          *)
(***************************************************************************)
THEOREM MutexExclusion == Spec => []MutualExclusion
<1>1. MutexInv => MutualExclusion
  BY DEF MutexInv, OwnerInv, MutualExclusion
<1> QED BY <1>1, MutexInvariant, PTL

(***************************************************************************)
(* Blocking on the mutex, being woken by an unlock and being preempted in  *)
(* the middle of either leave scheduling by priority intact.               *)
(***************************************************************************)
THEOREM MutexPrioritySafe == Spec => []HighestReadyRuns
<1>1. MutexInv => HighestReadyRuns
  BY CoreRunsHighest DEF MutexInv, Settled
<1> QED BY <1>1, MutexInvariant, PTL

(***************************************************************************)
(* Type correctness of the mutex on the kernel.                            *)
(***************************************************************************)
THEOREM MutexTypeSafe == Spec => []TypeOK
<1>1. MutexInv => TypeOK
  BY CoreTypes DEF MutexInv, MutexTypes, TypeOK
<1> QED BY <1>1, MutexInvariant, PTL

-----------------------------------------------------------------------------
(* At most two lockers: the one registration the mutex has is enough *)

\* Where a blocked locker is, or comes back to when it is readied.
LockLoop == {"lock", "lock_test", "lock_block", "lock_blocked", "lock_yield"}

\* Who blocks has seen another task own the mutex, and that task keeps it and
\* is not blocked itself, so that its unlock is still to come.
SleeperInv ==
  /\ owner \in Lockers \cup {NoTask}
  /\ \A t \in BlockedOnMutex : t \in Lockers /\ pc[t] \in LockLoop
  /\ \A t \in Task : pc[t] = "lock_block" => owner \notin {NoTask, t}
  /\ BlockedOnMutex # {} => owner \notin BlockedOnMutex \cup {NoTask}
  /\ WaiterIsBlocked

AtMostTwoLockers == \A t, u, v \in Lockers : t = u \/ t = v \/ u = v

\* The machine's own calls leave those who wait for the mutex alone.
LEMMA KernelKeepsSleepers ==
  ASSUME MutexInv, SleeperInv, KernelNext, UNCHANGED mutexVars
  PROVE  SleeperInv'
<1>0. KernelLabels \cap (LockLoop \cup {"lock_block"}) = {}
  BY DEF KernelLabels, LockLoop
<1>1. BlockedOnMutex' = BlockedOnMutex
  <2>1. \A t \in Task : pc[t] = "sleep_block" => tstate[t] # "BLOCKED_ON_MUTEX"
    BY <1>0 DEF SleeperInv, BlockedOnMutex, KernelLabels
  <2>2. \A t \in Task : tstate'[t] = "BLOCKED_ON_MUTEX" <=> tstate[t] = "BLOCKED_ON_MUTEX"
    BY <2>1, KernelKeepsBlocked DEF MutexInv
  <2> QED BY <2>2 DEF BlockedOnMutex
<1>2. \A t \in Task : pc'[t] = pc[t] \/ {pc[t], pc'[t]} \subseteq KernelLabels
  BY KernelMoves DEF MutexInv
<1>3. BlockedOnMutex \subseteq Task
  BY DEF BlockedOnMutex
<1> QED BY <1>0, <1>1, <1>2, <1>3 DEF SleeperInv, WaiterIsBlocked, mutexVars

\* An unlock leaves nobody blocked: it readies the registered waiter, and
\* nobody else is blocked.
LEMMA UnlockServes ==
  ASSUME MutexInv, SleeperInv, AtMostTwoLockers, NEW t \in Task, UnlockRelease(t)
  PROVE  BlockedOnMutex' = {} /\ waiting' = NoTask /\ owner' = NoTask /\ owner = t
<1>0. /\ tstate \in [Slot -> TaskState] /\ Task \subseteq Slot /\ NoTask \notin Task
      /\ waiting \in Task \cup {NoTask} /\ \A u \in Task : u < NumTasks
      /\ NumTasks \in Nat /\ Task \subseteq Nat
  BY SlotFacts DEF MutexInv, MutexTypes, CoreInv, MachineTypeOK
<1>1. owner = t /\ owner' = NoTask /\ waiting' = NoTask
  BY <1>0, CurrentRuns DEF UnlockRelease, AccessAt, MutexInv
<1>2. CASE waiting = NoTask
  <2>1. tstate' = tstate /\ BlockedOnMutex = {}
    BY <1>0, <1>2 DEF UnlockRelease, SleeperInv, WaiterIsBlocked, BlockedOnMutex
  <2> QED BY <1>1, <2>1 DEF BlockedOnMutex
<1>3. CASE waiting \in Task
  <2>0. ~(waiting >= NumTasks)
    BY <1>0, <1>3
  <2>1. tstate' = [tstate EXCEPT ![waiting] = "READY"]
    BY <1>0, <1>3, <2>0 DEF UnlockRelease, SetReady
  <2>2. BlockedOnMutex = {waiting}
    BY <1>0, <1>3 DEF SleeperInv, WaiterIsBlocked, BlockedOnMutex
  <2> QED BY <1>0, <1>1, <2>1, <2>2 DEF BlockedOnMutex
<1> QED BY <1>0, <1>2, <1>3

LEMMA MutexKeepsSleepers ==
  ASSUME MutexInv, SleeperInv, AtMostTwoLockers, MutexStep
  PROVE  SleeperInv'
<1> USE DEF MutexInv, MutexTypes, EnterAt, ExitAt, YieldAt, AccessAt
<1>0. /\ Lockers \subseteq Task /\ NoTask \notin Task
      /\ tstate \in [Slot -> TaskState] /\ Task \subseteq Slot
      /\ BlockedOnMutex \subseteq Task
  BY MutexAssumption, SlotFacts DEF CoreInv, MachineTypeOK, BlockedOnMutex
<1>1. ASSUME NEW t \in Task, NEW from, NEW to, StepAt(t, from, to)
      PROVE  /\ current = t /\ pc[t] = from
             /\ pc' = [pc EXCEPT ![t] = to] /\ pc'[t] = to
             /\ \A u \in Task \ {t} : pc'[u] = pc[u]
             /\ from \in Masked => \A u \in Task \ {t} : pc[u] \notin Masked
  BY <1>1, CurrentRuns DEF StepAt, MaskedInv
\* Steps that neither touch the mutex nor block or ready anyone.
<1>2. ASSUME NEW t \in Task, NEW from, NEW to, StepAt(t, from, to),
             UNCHANGED <<tstate, owner, waiting>>,
             from \notin LockLoop \/ to \in LockLoop \/ t \notin BlockedOnMutex,
             to = "lock_block" => owner \notin {NoTask, t}
      PROVE  SleeperInv'
  <2>1. BlockedOnMutex' = BlockedOnMutex
    BY <1>2 DEF BlockedOnMutex
  <2> QED BY <1>0, <1>1, <1>2, <2>1 DEF SleeperInv, WaiterIsBlocked
<1>3. ASSUME NEW t \in Lockers,
             LockCall(t) \/ LockEnter(t) \/ LockFree(t) \/ LockOwn(t) \/ LockReturn(t)
               \/ LockBusy(t) \/ LockBlockExit(t) \/ LockYield(t)
      PROVE  SleeperInv'
  <2>1. CASE LockCall(t)
    BY <1>0, <1>2, <2>1 DEF LockCall, mutexVars, LockLoop
  <2>2. CASE LockEnter(t)
    BY <1>0, <1>2, <2>2 DEF LockEnter, mutexVars, LockLoop
  <2>3. CASE LockFree(t) \/ LockOwn(t)
    <3>1. /\ UNCHANGED <<tstate, owner, waiting>>
          /\ \/ StepAt(t, "lock_test", "lock_take") /\ owner = NoTask
             \/ StepAt(t, "lock_test", "lock_held") /\ owner = current
      BY <2>3 DEF LockFree, LockOwn, mutexVars
    <3>2. t \notin BlockedOnMutex
      BY <1>0, <1>1, <3>1 DEF SleeperInv
    <3> QED BY <1>0, <1>2, <3>1, <3>2
  <2>4. CASE LockReturn(t)
    BY <1>0, <1>2, <2>4 DEF LockReturn, LockLoop
  <2>5. CASE LockBusy(t)
    <3>1. /\ UNCHANGED <<tstate, owner, waiting>> /\ owner \notin {NoTask, current}
          /\ StepAt(t, "lock_test", "lock_block")
      BY <2>5 DEF LockBusy, mutexVars
    <3> QED BY <1>0, <1>1, <1>2, <3>1 DEF LockLoop
  <2>6. CASE LockBlockExit(t)
    BY <1>0, <1>2, <2>6 DEF LockBlockExit, mutexVars, LockLoop
  <2>7. CASE LockYield(t)
    BY <1>0, <1>2, <2>7 DEF LockYield, mutexVars, LockLoop
  <2> QED BY <1>3, <2>1, <2>2, <2>3, <2>4, <2>5, <2>6, <2>7
<1>4. ASSUME NEW t \in Lockers, LockTake(t)
      PROVE  SleeperInv'
  <2>1. /\ StepAt(t, "lock_take", "lock_held") /\ owner' = t
        /\ UNCHANGED <<tstate, waiting>>
    BY <1>0, <1>1, <1>4 DEF LockTake
  <2>2. owner = NoTask /\ pc[t] = "lock_take"
    BY <1>0, <1>1, <2>1 DEF OwnerInv
  <2>3. BlockedOnMutex = {} /\ BlockedOnMutex' = {}
    BY <2>1, <2>2 DEF SleeperInv, BlockedOnMutex
  <2>4. \A u \in Task : pc'[u] # "lock_block"
    BY <1>0, <1>1, <2>1 DEF Masked
  <2> QED BY <1>0, <2>1, <2>3, <2>4 DEF SleeperInv, WaiterIsBlocked
<1>5. ASSUME NEW t \in Lockers, LockBlock(t)
      PROVE  SleeperInv'
  <2>1. /\ StepAt(t, "lock_block", "lock_blocked") /\ UNCHANGED owner /\ waiting' = t
        /\ tstate' = [tstate EXCEPT ![t] = "BLOCKED_ON_MUTEX"]
    BY <1>0, <1>1, <1>5 DEF LockBlock, BlockCurrentOn
  <2>2. owner \in Lockers \ {t}
    BY <1>0, <1>1, <2>1 DEF SleeperInv
  <2>3. BlockedOnMutex \subseteq {t}
    BY <1>0, <2>2 DEF SleeperInv, AtMostTwoLockers
  <2>4. BlockedOnMutex' = {t}
    BY <1>0, <2>1, <2>3 DEF BlockedOnMutex
  <2>5. \A u \in Task : pc'[u] # "lock_block"
    BY <1>0, <1>1, <2>1 DEF Masked
  <2> QED BY <1>0, <1>1, <2>1, <2>2, <2>4, <2>5 DEF SleeperInv, WaiterIsBlocked, LockLoop
<1>6. ASSUME NEW t \in Task,
             UnlockEnter(t) \/ UnlockNotOwner(t) \/ UnlockRefused(t) \/ UnlockExit(t)
               \/ UnlockYield(t)
      PROVE  SleeperInv'
  <2>1. PICK from, to : /\ StepAt(t, from, to) /\ UNCHANGED <<tstate, owner, waiting>>
                        /\ from \notin LockLoop /\ to # "lock_block"
    BY <1>6 DEF UnlockEnter, UnlockNotOwner, UnlockRefused, UnlockExit, UnlockYield,
       mutexVars, LockLoop
  <2> QED BY <1>2, <2>1
<1>7. ASSUME NEW t \in Task, UnlockRelease(t)
      PROVE  SleeperInv'
  <2>1. BlockedOnMutex' = {} /\ waiting' = NoTask /\ owner' = NoTask
    BY <1>7, UnlockServes
  <2>2. \A u \in Task : pc'[u] # "lock_block"
    BY <1>0, <1>1, <1>7 DEF UnlockRelease, Masked
  <2> QED BY <1>0, <2>1, <2>2 DEF SleeperInv, WaiterIsBlocked
<1> QED
  BY <1>3, <1>4, <1>5, <1>6, <1>7 DEF MutexStep, LockStep, UnlockStep

(***************************************************************************)
(* The inductive invariant of two lockers: an owner awake for whoever      *)
(* sleeps.                                                                 *)
(***************************************************************************)
THEOREM SleeperInvariant ==
  ASSUME AtMostTwoLockers
  PROVE  Spec => []SleeperInv
<1>1. Init => SleeperInv
  BY SlotFacts DEF Init, KernelInit, SleeperInv, WaiterIsBlocked, BlockedOnMutex
<1>2. MutexInv /\ SleeperInv /\ [Next]_vars => SleeperInv'
  <2>1. ASSUME SleeperInv, UNCHANGED vars
        PROVE  SleeperInv'
    BY <2>1 DEF vars, kernelVars, mutexVars, SleeperInv, WaiterIsBlocked, BlockedOnMutex
  <2> QED BY <2>1, KernelKeepsSleepers, MutexKeepsSleepers DEF Next
<1> QED BY <1>1, <1>2, MutexInvariant, PTL DEF Spec

(***************************************************************************)
(* With at most two lockers whoever is blocked on the mutex is the one     *)
(* registered, and the other way round, however their critical sections    *)
(* nest and whoever else calls unlock.                                     *)
(***************************************************************************)
THEOREM MutexWaiterSafe ==
  ASSUME AtMostTwoLockers
  PROVE  Spec => []WaiterIsBlocked
<1>1. SleeperInv => WaiterIsBlocked
  BY DEF SleeperInv
<1> QED BY <1>1, SleeperInvariant, PTL

(***************************************************************************)
(* With at most two lockers nobody sleeps on a free mutex.                 *)
(***************************************************************************)
THEOREM MutexWakesSleepers ==
  ASSUME AtMostTwoLockers
  PROVE  Spec => []FreeMutexHasNoSleepers
<1>1. SleeperInv => FreeMutexHasNoSleepers
  BY DEF SleeperInv, FreeMutexHasNoSleepers
<1> QED BY <1>1, SleeperInvariant, PTL

=============================================================================
