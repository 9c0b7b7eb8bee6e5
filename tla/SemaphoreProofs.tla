-------------------------- MODULE SemaphoreProofs --------------------------
(***************************************************************************)
(* The semaphore on the kernel, for any tasks, priorities and givers: the  *)
(* kernel's guarantees carry over, a blocked take needs a give, and with   *)
(* one taker, who does not block inside a critical section of its own, the *)
(* code implements the signal of SemaphoreSpec.                            *)
(***************************************************************************)
EXTENDS Semaphore, KernelProofs

\* Labels at which a task owes nobody a switch request.
Settled == {"user", "take", "take_taken", "take_block", "take_return", "give"}

SemTypes ==
  /\ pc \in [Task -> SemaphoreLabels]
  /\ count \in Nat /\ waiting \in Task \cup {NoTask}

SemInv == CoreInv(Settled, {}) /\ SemTypes

-----------------------------------------------------------------------------

\* A give readies the waiter or nobody.
LEMMA GiveTypes ==
  ASSUME tstate \in [Slot -> TaskState], waiting \in Task \cup {NoTask}, count \in Nat,
         GiveToWaiter \/ GiveToCount
  PROVE  /\ tstate' \in [Slot -> TaskState]
         /\ \A u \in Task : tstate'[u] \in {tstate[u], "READY"}
         /\ waiting' \in Task \cup {NoTask} /\ count' \in Nat
BY SlotFacts DEF GiveToWaiter, GiveToCount, SetReady, TaskState

LEMMA SemaphoreCore ==
  ASSUME SemInv, SemaphoreStep
  PROVE  CoreInv(Settled, {})'
<1>0. /\ CoreInv(Settled, {}) /\ tstate \in [Slot -> TaskState] /\ pendsv \in BOOLEAN
      /\ waiting \in Task \cup {NoTask} /\ count \in Nat
  BY DEF SemInv, SemTypes, CoreInv, MachineTypeOK
<1>1. ASSUME NEW t \in Task,
             TakeEnter(t) \/ TakeExit(t) \/ TakeBlockExit(t) \/ GiveEnter(t) \/ GiveExit(t)
      PROVE  CoreInv(Settled, {})'
  BY <1>0, <1>1, SectionCore
  DEF TakeEnter, TakeExit, TakeBlockExit, GiveEnter, GiveExit, Settled
<1>2. ASSUME NEW t \in Task, TakeYield(t) \/ GiveYield(t)
      PROVE  CoreInv(Settled, {})'
  BY <1>0, <1>2, YieldCore DEF TakeYield, GiveYield
<1>3. ASSUME NEW t \in Task, TakeToken(t) \/ TakeEmpty(t) \/ TakeReturn(t)
      PROVE  CoreInv(Settled, {})'
  <2>1. PICK from \in Settled, to \in Settled : AccessAt(t, from, to)
    BY <1>3 DEF TakeToken, TakeEmpty, TakeReturn, Settled
  <2>2. tstate' = tstate
    BY <1>3 DEF TakeToken, TakeEmpty, TakeReturn
  <2> QED BY <1>0, <2>1, <2>2, AccessCore
<1>4. ASSUME NEW t \in Task, TakeBlock(t)
      PROVE  CoreInv(Settled, {})'
  <2>1. tstate' = [tstate EXCEPT ![t] = "BLOCKED_ON_SEMAPHORE"]
    BY <1>0, <1>4, CurrentRuns DEF TakeBlock, AccessAt, BlockCurrentOn
  <2>2. /\ tstate' \in [Slot -> TaskState]
        /\ \A u \in Task \ {t} : tstate'[u] \in {tstate[u], "READY"}
    BY <1>0, <2>1, SlotFacts DEF TaskState
  <2> QED BY <1>0, <1>4, <2>2, AccessCore DEF TakeBlock, Settled
<1>5. ASSUME NEW t \in Task, Give(t)
      PROVE  CoreInv(Settled, {})'
  <2>1. /\ tstate' \in [Slot -> TaskState]
        /\ \A u \in Task : tstate'[u] \in {tstate[u], "READY"}
    BY <1>0, <1>5, GiveTypes DEF Give
  <2> QED BY <1>0, <1>5, <2>1, AccessCore DEF Give, Settled
<1>6. CASE GiveFromIsr
  <2>1. /\ tstate' \in [Slot -> TaskState]
        /\ \A u \in Task : tstate'[u] \in {tstate[u], "READY"}
    BY <1>0, <1>6, GiveTypes DEF GiveFromIsr
  <2>2. pendsv' \in BOOLEAN /\ (pendsv => pendsv') /\ (pendsv' \/ tstate' = tstate)
    <3>1. CASE pendsv' = TRUE
      BY <3>1
    <3>2. CASE pendsv' = pendsv /\ tstate' = tstate
      BY <1>0, <3>2
    <3> QED BY <1>6, <3>1, <3>2 DEF GiveFromIsr, PendSwitch, GiveToCount
  <2> QED BY <1>0, <1>6, <2>1, <2>2, DeviceCore DEF GiveFromIsr
<1>7. Takers \subseteq Task /\ Givers \subseteq Task
  BY SemaphoreAssumption
<1> QED
  BY <1>1, <1>2, <1>3, <1>4, <1>5, <1>6, <1>7 DEF SemaphoreStep, TakeStep, GiveStep

-----------------------------------------------------------------------------
(* The types *)

LEMMA KernelKeepsSem ==
  ASSUME SemInv, KernelNext, UNCHANGED semVars
  PROVE  SemTypes'
BY KernelMoves DEF SemInv, SemTypes, semVars, SemaphoreLabels

LEMMA SemKeepsSem ==
  ASSUME SemInv, SemaphoreStep
  PROVE  SemTypes'
<1> USE DEF SemInv, SemTypes, EnterAt, ExitAt, YieldAt, AccessAt
<1>0. /\ Takers \subseteq Task /\ Givers \subseteq Task
      /\ tstate \in [Slot -> TaskState]
  BY SemaphoreAssumption DEF CoreInv, MachineTypeOK
<1>1. ASSUME NEW t \in Task, NEW from, NEW to, StepAt(t, from, to)
      PROVE  pc' = [pc EXCEPT ![t] = to] /\ current = t
  BY <1>1, CurrentRuns DEF StepAt
<1>2. ASSUME NEW t \in Task,
             TakeEnter(t) \/ TakeExit(t) \/ TakeEmpty(t) \/ TakeBlockExit(t) \/ TakeYield(t)
               \/ TakeReturn(t) \/ GiveEnter(t) \/ GiveExit(t) \/ GiveYield(t)
      PROVE  SemTypes'
  BY <1>1, <1>2 DEF TakeEnter, TakeExit, TakeEmpty, TakeBlockExit, TakeYield, TakeReturn,
     GiveEnter, GiveExit, GiveYield, semVars, SemaphoreLabels, KernelLabels
<1>3. ASSUME NEW t \in Task, TakeToken(t) \/ TakeBlock(t)
      PROVE  SemTypes'
  BY <1>1, <1>3 DEF TakeToken, TakeBlock, SemaphoreLabels
<1>4. ASSUME GiveToWaiter \/ GiveToCount
      PROVE  waiting' \in Task \cup {NoTask} /\ count' \in Nat
  BY <1>0, <1>4, GiveTypes
<1>5. ASSUME NEW t \in Task, Give(t)
      PROVE  SemTypes'
  BY <1>1, <1>4, <1>5 DEF Give, SemaphoreLabels
<1>6. CASE GiveFromIsr
  BY <1>4, <1>6 DEF GiveFromIsr, DeviceStep
<1> QED
  BY <1>0, <1>2, <1>3, <1>5, <1>6 DEF SemaphoreStep, TakeStep, GiveStep

(***************************************************************************)
(* The inductive invariant of the semaphore on the kernel.                 *)
(***************************************************************************)
THEOREM SemaphoreInvariant == Spec => []SemInv
<1>1. Init => SemInv
  <2> SUFFICES ASSUME Init PROVE SemInv
    OBVIOUS
  <2>1. CoreInv(Settled, {})
    BY InitCore DEF Init
  <2> QED
    BY <2>1, SemaphoreAssumption DEF Init, KernelInit, SemInv, SemTypes,
       SemaphoreLabels, KernelLabels
<1>2. SemInv /\ [Next]_vars => SemInv'
  <2> SUFFICES ASSUME SemInv, [Next]_vars PROVE SemInv'
    OBVIOUS
  <2>1. CASE KernelNext /\ UNCHANGED semVars
    <3>1. CoreInv(Settled, {})'
      BY <2>1, KernelCore DEF SemInv, Settled
    <3> QED BY <2>1, <3>1, KernelKeepsSem DEF SemInv
  <2>2. CASE SemaphoreStep
    BY <2>2, SemaphoreCore, SemKeepsSem DEF SemInv
  <2>3. CASE UNCHANGED vars
    <3>1. CoreInv(Settled, {})'
      BY <2>3, StutterCore DEF SemInv, vars
    <3> QED
      BY <2>3, <3>1 DEF vars, kernelVars, svVars, semVars, SemInv, SemTypes
  <2> QED BY <2>1, <2>2, <2>3 DEF Next
<1> QED BY <1>1, <1>2, PTL DEF Spec

(***************************************************************************)
(* Type correctness of the semaphore on the kernel.                        *)
(***************************************************************************)
THEOREM SemaphoreTypeSafe == Spec => []TypeOK
<1>1. SemInv => TypeOK
  BY CoreTypes, SlotFacts DEF SemInv, SemTypes, TypeOK
<1> QED BY <1>1, SemaphoreInvariant, PTL

(***************************************************************************)
(* Gives, also those of the interrupt that come in the middle of a switch, *)
(* leave scheduling by priority intact.                                    *)
(***************************************************************************)
THEOREM SemaphorePrioritySafe == Spec => []HighestReadyRuns
<1>1. SemInv => HighestReadyRuns
  BY CoreRunsHighest DEF SemInv, Settled
<1> QED BY <1>1, SemaphoreInvariant, PTL

\* At the end of a take "take_return" is settled.
LEMMA SemReturns ==
  ASSUME SemInv
  PROVE  NoTakeWithoutGive
<1> SUFFICES ASSUME NEW t \in Task,
                    ThreadMode, psp = t, ~pendsv, pc[t] = "take_return"
             PROVE  tstate[t] = "READY"
  BY DEF NoTakeWithoutGive
<1>1. ~Pending /\ svPc = "inactive" /\ psp # NoTask /\ "take_return" \in Settled
  BY SlotFacts DEF ThreadMode, Pending, Settled
<1>2. tstate[t] # "READY" => dispatched
  BY <1>1 DEF SemInv, CoreInv, AwayInv, Pending
<1>3. dispatched => RightChoice(psp)
  BY <1>1 DEF SemInv, CoreInv, SchedInv
<1> QED BY <1>2, <1>3 DEF RightChoice

(***************************************************************************)
(* For any number of takers, a take that had to block gets past its yield  *)
(* only after a give has readied it.                                       *)
(***************************************************************************)
THEOREM SemaphoreTakesAreGiven == Spec => []NoTakeWithoutGive
<1>1. SemInv => NoTakeWithoutGive
  BY SemReturns
<1> QED BY <1>1, SemaphoreInvariant, PTL

-----------------------------------------------------------------------------
(* A taker that does not block inside a critical section of its own        *)

\* Labels inside a critical section.
Masked ==
  {"sleep_block", "sleep_exit", "take", "take_taken", "take_block", "take_blocked",
   "give", "give_given"}

\* Where a blocked task is, what it has seen, and that the registration is one
\* of a blocked task.
WaitInv ==
  /\ Blocked \subseteq Takers
  /\ \A t \in Blocked : pc[t] \in {"take_blocked", "take_yield", "take_return"}
  /\ \A t \in Task : pc[t] \in {"take", "take_taken", "take_block", "take_blocked",
                                "take_yield", "take_return"} => t \in Takers
  /\ \A t \in Task : pc[t] = "take_block" => count = 0
  /\ WaiterIsBlocked

\* With one taker nobody else's registration is overwritten.
AloneInv == \A t \in Blocked : waiting = t

FlatInv == SemInv /\ NestInv(Masked) /\ WaitInv

\* The critical sections of take and give open and close like sleep_ms's.
LEMMA SemNest ==
  ASSUME SemInv, NestInv(Masked), SemaphoreStep
  PROVE  NestInv(Masked)'
<1>0. CoreInv(Settled, {}) /\ Takers \subseteq Task /\ Givers \subseteq Task
  BY SemaphoreAssumption DEF SemInv
<1>1. ASSUME NEW t \in Task, TakeEnter(t) \/ GiveEnter(t)
      PROVE  NestInv(Masked)'
  BY <1>0, <1>1, NestStep DEF TakeEnter, GiveEnter, EnterAt, Masked
<1>2. ASSUME NEW t \in Task, TakeExit(t) \/ TakeBlockExit(t) \/ GiveExit(t)
      PROVE  NestInv(Masked)'
  BY <1>0, <1>2, NestStep DEF TakeExit, TakeBlockExit, GiveExit, ExitAt, Masked
<1>3. ASSUME NEW t \in Task,
             TakeToken(t) \/ TakeEmpty(t) \/ TakeBlock(t) \/ TakeYield(t) \/ TakeReturn(t)
               \/ Give(t) \/ GiveYield(t)
      PROVE  NestInv(Masked)'
  <2>1. PICK from, to :
          StepAt(t, from, to) /\ UNCHANGED irqVars /\ (from \in Masked <=> to \in Masked)
    BY <1>3 DEF TakeToken, TakeEmpty, TakeBlock, TakeYield, TakeReturn, Give, GiveYield,
       AccessAt, YieldAt, Masked
  <2> QED BY <1>0, <2>1, NestStep
<1> QED
  BY <1>0, <1>1, <1>2, <1>3, NestDevice DEF SemaphoreStep, TakeStep, GiveStep, GiveFromIsr

\* The kernel's own calls leave those who wait for the semaphore alone.
LEMMA FlatKernel ==
  ASSUME MaxNesting = 0, FlatInv, KernelNext, UNCHANGED semVars
  PROVE  NestInv(Masked)' /\ WaitInv' /\ UNCHANGED Blocked
<1>0. CoreInv(Settled, {}) /\ pc \in [Task -> SemaphoreLabels]
  BY DEF FlatInv, SemInv, SemTypes
<1>1. NestInv(Masked)'
  BY <1>0, NestKernel DEF FlatInv, Masked
<1>2. \A t \in Task : pc[t] \in KernelLabels => t \notin Blocked
  BY DEF FlatInv, WaitInv, KernelLabels
<1>3. UNCHANGED Blocked
  BY <1>0, <1>2, KernelKeepsBlocked DEF Blocked, KernelLabels
<1>4. \A t \in Task : pc'[t] = pc[t] \/ {pc[t], pc'[t]} \subseteq KernelLabels
  BY <1>0, KernelMoves
<1>5. KernelLabels \cap {"take", "take_taken", "take_block", "take_blocked", "take_yield",
                         "take_return"} = {}
  BY DEF KernelLabels
<1>6. WaitInv'
  BY <1>2, <1>3, <1>4, <1>5 DEF FlatInv, WaitInv, WaiterIsBlocked, semVars, Blocked
<1> QED BY <1>1, <1>3, <1>6

\* A take that returns is not blocked any more.
LEMMA ReturnerIsReady ==
  ASSUME FlatInv, NEW t \in Task, NEW to, StepAt(t, "take_return", to)
  PROVE  t \notin Blocked
<1>1. ~primask
  <2>1. psp = t /\ pc[t] = "take_return"
    BY DEF StepAt
  <2> QED
    BY <2>1 DEF FlatInv, SemInv, CoreInv, CriticalInv, CriticalIsExclusive, NestInv, Masked
<1>2. tstate[t] = "READY"
  BY <1>1, RunnerIsReady DEF FlatInv, SemInv, Settled
<1> QED BY <1>2 DEF Blocked

\* A give unblocks the waiter, and unregisters it.
LEMMA GiveServes ==
  ASSUME FlatInv, GiveToWaiter \/ GiveToCount
  PROVE  /\ Blocked' = Blocked \ {waiting}
         /\ waiting' = NoTask
         /\ \/ GiveToWaiter /\ waiting \in Blocked /\ count' = count
            \/ waiting = NoTask /\ count' = 1
<1>0. /\ tstate \in [Slot -> TaskState] /\ Task \subseteq Slot /\ NoTask \notin Task
      /\ waiting \in Task \cup {NoTask} /\ \A t \in Task : t < NumTasks
      /\ NumTasks \in Nat /\ Task \subseteq Nat
  BY SlotFacts DEF FlatInv, SemInv, SemTypes, CoreInv, MachineTypeOK
<1>1. CASE GiveToWaiter
  <2>1. waiting \in Task /\ waiting \in Blocked
    BY <1>0, <1>1 DEF GiveToWaiter, FlatInv, WaitInv, WaiterIsBlocked
  <2>2. ~(waiting >= NumTasks)
    BY <1>0, <2>1
  <2>3. tstate' = [tstate EXCEPT ![waiting] = "READY"]
    BY <1>1, <2>2 DEF GiveToWaiter, SetReady
  <2>4. Blocked' = Blocked \ {waiting}
    BY <1>0, <2>1, <2>3 DEF Blocked
  <2> QED BY <1>1, <2>1, <2>4 DEF GiveToWaiter
<1>2. CASE GiveToCount
  <2>1. waiting = NoTask /\ UNCHANGED <<tstate, waiting>> /\ count' = 1
    BY <1>2 DEF GiveToCount
  <2> QED BY <1>0, <2>1 DEF Blocked
<1> QED BY <1>1, <1>2

LEMMA FlatSem ==
  ASSUME FlatInv, SemaphoreStep
  PROVE  WaitInv'
<1> USE DEF FlatInv
<1>0. /\ tstate \in [Slot -> TaskState] /\ Task \subseteq Slot /\ NoTask \notin Task
      /\ Takers \subseteq Task /\ Givers \subseteq Task
  BY SlotFacts, SemaphoreAssumption DEF SemInv, CoreInv, MachineTypeOK
<1>1. ASSUME NEW t \in Task, NEW from, NEW to, StepAt(t, from, to)
      PROVE  /\ psp = t /\ current = t /\ pc[t] = from
             /\ pc' = [pc EXCEPT ![t] = to] /\ pc'[t] = to
             /\ \A u \in Task \ {t} : pc[u] \notin Masked /\ pc'[u] = pc[u]
  BY <1>1, CurrentRuns DEF SemInv, SemTypes, StepAt, NestInv
<1>2. ASSUME NEW t \in Takers, TakeEnter(t) \/ TakeExit(t)
      PROVE  WaitInv'
  <2>1. /\ UNCHANGED <<tstate, semVars>>
        /\ StepAt(t, "user", "take") \/ StepAt(t, "take_taken", "user")
    BY <1>2 DEF TakeEnter, TakeExit, EnterAt, ExitAt
  <2>2. t \notin Blocked
    BY <1>0, <1>1, <2>1 DEF WaitInv
  <2> QED BY <1>0, <1>1, <2>1, <2>2 DEF WaitInv, WaiterIsBlocked, Blocked, semVars
<1>3. ASSUME NEW t \in Takers, TakeToken(t)
      PROVE  WaitInv'
  <2>1. UNCHANGED <<tstate, waiting>> /\ StepAt(t, "take", "take_taken")
    BY <1>3 DEF TakeToken, AccessAt
  <2>2. t \notin Blocked
    BY <1>0, <1>1, <2>1 DEF WaitInv
  <2> QED BY <1>0, <1>1, <2>1, <2>2 DEF WaitInv, WaiterIsBlocked, Blocked, Masked
<1>4. ASSUME NEW t \in Takers, TakeEmpty(t)
      PROVE  WaitInv'
  <2>1. UNCHANGED <<tstate, semVars>> /\ StepAt(t, "take", "take_block") /\ count = 0
    BY <1>4 DEF TakeEmpty, AccessAt
  <2>2. t \notin Blocked
    BY <1>0, <1>1, <2>1 DEF WaitInv
  <2> QED BY <1>0, <1>1, <2>1, <2>2 DEF WaitInv, WaiterIsBlocked, Blocked, semVars
<1>5. ASSUME NEW t \in Takers, TakeBlock(t)
      PROVE  WaitInv'
  <2>1. /\ StepAt(t, "take_block", "take_blocked") /\ waiting' = current /\ count' = count
        /\ tstate' = [tstate EXCEPT ![current] = "BLOCKED_ON_SEMAPHORE"]
    BY <1>5 DEF TakeBlock, AccessAt, BlockCurrentOn
  <2>2. waiting' = t /\ Blocked' = Blocked \cup {t}
    BY <1>0, <1>1, <2>1 DEF Blocked
  <2> QED BY <1>0, <1>1, <2>1, <2>2 DEF WaitInv, WaiterIsBlocked
<1>6. ASSUME NEW t \in Takers, TakeBlockExit(t) \/ TakeYield(t)
      PROVE  WaitInv'
  <2>1. /\ UNCHANGED <<tstate, semVars>>
        /\ \/ StepAt(t, "take_blocked", "take_yield")
           \/ StepAt(t, "take_yield", "take_return")
    BY <1>6 DEF TakeBlockExit, TakeYield, ExitAt, YieldAt
  <2> QED BY <1>0, <1>1, <2>1 DEF WaitInv, WaiterIsBlocked, Blocked, semVars
<1>7. ASSUME NEW t \in Takers, TakeReturn(t)
      PROVE  WaitInv'
  <2>1. UNCHANGED <<tstate, semVars>> /\ StepAt(t, "take_return", "user")
    BY <1>7 DEF TakeReturn, AccessAt
  <2>2. t \notin Blocked
    BY <1>0, <2>1, ReturnerIsReady
  <2> QED BY <1>0, <1>1, <2>1, <2>2 DEF WaitInv, WaiterIsBlocked, Blocked, semVars
<1>8. ASSUME NEW t \in Givers, GiveEnter(t) \/ GiveExit(t) \/ GiveYield(t)
      PROVE  WaitInv'
  <2>1. PICK from \in {"user", "give_given", "give_yield"},
             to \in {"give", "give_yield", "user"} : StepAt(t, from, to)
    BY <1>8 DEF GiveEnter, GiveExit, GiveYield, EnterAt, ExitAt, YieldAt
  <2>2. UNCHANGED <<tstate, semVars>>
    BY <1>8 DEF GiveEnter, GiveExit, GiveYield, EnterAt, ExitAt, YieldAt
  <2>3. t \notin Blocked
    BY <1>0, <1>1, <2>1 DEF WaitInv
  <2> QED BY <1>0, <1>1, <2>1, <2>2, <2>3 DEF WaitInv, WaiterIsBlocked, Blocked, semVars
<1>9. ASSUME NEW t \in Givers, Give(t)
      PROVE  WaitInv'
  <2>1. StepAt(t, "give", "give_given") /\ (GiveToWaiter \/ GiveToCount)
    BY <1>9 DEF Give, AccessAt
  <2>2. t \notin Blocked
    BY <1>0, <1>1, <2>1 DEF WaitInv
  <2>3. Blocked' \subseteq Blocked /\ waiting' = NoTask
    BY <2>1, GiveServes
  <2>4. \A u \in Task : pc'[u] # "take_block"
    BY <1>0, <1>1, <2>1 DEF Masked
  <2> QED BY <1>0, <1>1, <2>1, <2>2, <2>3, <2>4 DEF WaitInv, WaiterIsBlocked
<1>10. CASE GiveFromIsr
  <2>1. UNCHANGED pc /\ ~primask /\ (GiveToWaiter \/ GiveToCount)
    BY <1>10 DEF GiveFromIsr, DeviceStep
  <2>2. Blocked' \subseteq Blocked /\ waiting' = NoTask
    BY <2>1, GiveServes
  <2>3. \A u \in Task : pc[u] \notin Masked
    BY <2>1 DEF NestInv, SemInv, CoreInv, CriticalInv, CriticalIsExclusive
  <2> QED BY <2>1, <2>2, <2>3 DEF WaitInv, WaiterIsBlocked, Masked
<1> QED
  BY <1>2, <1>3, <1>4, <1>5, <1>6, <1>7, <1>8, <1>9, <1>10
  DEF SemaphoreStep, TakeStep, GiveStep

(***************************************************************************)
(* The inductive invariant of takers that block outside critical sections  *)
(* of their own.                                                           *)
(***************************************************************************)
THEOREM FlatInvariant ==
  ASSUME MaxNesting = 0
  PROVE  Spec => []FlatInv
<1>1. ASSUME Init
      PROVE  NestInv(Masked) /\ WaitInv
  <2>1. nesting = 0 /\ waiting = NoTask /\ \A t \in Task : pc[t] = "user"
    BY <1>1 DEF Init, KernelInit
  <2>2. Blocked = {}
    BY <1>1, SlotFacts DEF Init, KernelInit, Blocked
  <2> QED BY <2>1, <2>2 DEF NestInv, WaitInv, WaiterIsBlocked, Masked
<1>2. FlatInv /\ [Next]_vars => NestInv(Masked)' /\ WaitInv'
  <2>1. ASSUME FlatInv, UNCHANGED vars
        PROVE  NestInv(Masked)' /\ WaitInv'
    BY <2>1 DEF FlatInv, NestInv, WaitInv, WaiterIsBlocked, Blocked, vars, kernelVars, svVars,
       irqVars, semVars
  <2>2. ASSUME FlatInv, SemaphoreStep
        PROVE  NestInv(Masked)' /\ WaitInv'
    BY <2>2, SemNest, FlatSem DEF FlatInv
  <2> QED BY <2>1, <2>2, FlatKernel DEF Next
<1> QED BY <1>1, <1>2, SemaphoreInvariant, PTL DEF Spec, FlatInv

(***************************************************************************)
(* For any number of takers, givers and interrupts the registered waiter   *)
(* is a task blocked on the semaphore, as long as no take blocks inside a  *)
(* critical section of its caller.                                         *)
(***************************************************************************)
THEOREM SemaphoreWaiterSafe ==
  ASSUME MaxNesting = 0
  PROVE  Spec => []WaiterIsBlocked
<1>1. FlatInv => WaiterIsBlocked
  BY DEF FlatInv, WaitInv
<1> QED BY <1>1, FlatInvariant, PTL

-----------------------------------------------------------------------------
(* One taker: the signal of SemaphoreSpec *)

\* A step of the abstract semaphore, or none.
SignalStep ==
  [Abstract!Take \/ Abstract!Block \/ Abstract!Serve \/ Abstract!Signal]_(Abstract!specVars)

LEMMA AloneKernel ==
  ASSUME MaxNesting = 0, FlatInv, AloneInv, KernelNext, UNCHANGED semVars
  PROVE  AloneInv' /\ SignalStep
<1>1. UNCHANGED Blocked
  BY FlatKernel
<1> QED BY <1>1 DEF AloneInv, SignalStep, Abstract!specVars, semVars

LEMMA AloneSem ==
  ASSUME \A t, u \in Takers : t = u, FlatInv, AloneInv, SemaphoreStep
  PROVE  AloneInv' /\ SignalStep
<1> USE DEF SignalStep, Abstract!specVars
<1>0. /\ tstate \in [Slot -> TaskState] /\ Task \subseteq Slot /\ count \in Nat
      /\ Takers \subseteq Task /\ Blocked \subseteq Takers
  BY SlotFacts, SemaphoreAssumption
  DEF FlatInv, SemInv, SemTypes, CoreInv, MachineTypeOK, WaitInv
<1>1. ASSUME UNCHANGED <<tstate, semVars>>
      PROVE  AloneInv' /\ SignalStep
  BY <1>1 DEF AloneInv, Blocked, semVars
<1>2. ASSUME NEW t \in Takers, TakeToken(t)
      PROVE  AloneInv' /\ SignalStep
  <2>1. count > 0 /\ count' = count - 1 /\ UNCHANGED <<waiting, Blocked>>
    BY <1>2 DEF TakeToken, Blocked
  <2> QED BY <2>1 DEF AloneInv, Abstract!Take
<1>3. ASSUME NEW t \in Takers, TakeBlock(t)
      PROVE  AloneInv' /\ SignalStep
  <2>1. pc[t] = "take_block" /\ current = t
    BY <1>0, <1>3, CurrentRuns DEF FlatInv, SemInv, TakeBlock, AccessAt
  <2>2. t \notin Blocked /\ count = 0
    BY <1>0, <2>1 DEF FlatInv, WaitInv
  <2>3. waiting' = t /\ count' = count
        /\ tstate' = [tstate EXCEPT ![t] = "BLOCKED_ON_SEMAPHORE"]
    BY <1>3, <2>1 DEF TakeBlock, BlockCurrentOn
  <2>4. Blocked' = Blocked \cup {t}
    BY <1>0, <2>3 DEF Blocked
  <2>5. AloneInv'
    BY <1>0, <2>3, <2>4 DEF AloneInv
  <2> QED BY <2>2, <2>3, <2>4, <2>5 DEF Abstract!Block
<1>4. ASSUME GiveToWaiter \/ GiveToCount
      PROVE  AloneInv' /\ SignalStep
  <2>1. Blocked' = Blocked \ {waiting} /\ waiting' = NoTask
    BY <1>4, GiveServes
  <2>2. AloneInv'
    BY <2>1 DEF AloneInv
  <2>3. CASE waiting \in Blocked /\ count' = count
    BY <2>1, <2>2, <2>3 DEF Abstract!Serve
  <2>4. CASE waiting = NoTask /\ count' = 1
    <3>1. Blocked = {} /\ Blocked' = {}
      BY <1>0, <2>1, <2>4, SlotFacts DEF AloneInv
    <3> QED BY <2>2, <2>4, <3>1 DEF Abstract!Signal
  <2> QED BY <1>4, <2>3, <2>4, GiveServes
<1> QED
  BY <1>1, <1>2, <1>3, <1>4
  DEF SemaphoreStep, TakeStep, GiveStep, TakeEnter, TakeExit, TakeEmpty, TakeBlockExit,
      TakeYield, TakeReturn, GiveEnter, GiveExit, GiveYield, Give, GiveFromIsr,
      EnterAt, ExitAt, YieldAt

(***************************************************************************)
(* With one taking task the code implements the signal, whatever the tasks *)
(* and their priorities and wherever the interrupt comes.                  *)
(***************************************************************************)
THEOREM SemaphoreIsSignal ==
  ASSUME MaxNesting = 0, \A t, u \in Takers : t = u
  PROVE  Spec => ImplementsSignal
<1>1. Init => AloneInv /\ Abstract!Init
  BY SlotFacts DEF Init, KernelInit, AloneInv, Blocked, Abstract!Init
<1>2. FlatInv /\ AloneInv /\ [Next]_vars => AloneInv' /\ SignalStep
  <2>1. ASSUME AloneInv, UNCHANGED vars
        PROVE  AloneInv' /\ SignalStep
    BY <2>1 DEF AloneInv, SignalStep, Blocked, Abstract!specVars, vars, kernelVars, semVars
  <2> QED BY <2>1, AloneKernel, AloneSem DEF Next
<1>3. Spec => []FlatInv
  BY FlatInvariant
<1> QED
  BY <1>1, <1>2, <1>3, PTL DEF Spec, SignalStep, ImplementsSignal, Abstract!SignalSpec

=============================================================================
