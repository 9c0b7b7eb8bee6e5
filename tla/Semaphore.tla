------------------------------ MODULE Semaphore ------------------------------
(***************************************************************************)
(* One rtosk_semaphore_t (semaphore.c) used by tasks and by one interrupt  *)
(* handler, on the Kernel machine: every step of a take or a give can be   *)
(* preempted by SysTick, PendSV and the device interrupt unless PRIMASK    *)
(* holds them off, and give_from_isr can run between any two steps of      *)
(* SysTick and PendSV.                                                     *)
(***************************************************************************)
EXTENDS Kernel

CONSTANTS
  Takers,       \* the tasks that call rtosk_semaphore_take
  Givers,       \* the tasks that call rtosk_semaphore_give
  InitialCount  \* rtosk_semaphore_init's argument

ASSUME SemaphoreAssumption ==
  Takers \subseteq Task /\ Givers \subseteq Task /\ InitialCount \in Nat

VARIABLES
  count,        \* sem->count
  waiting       \* sem->waiting_task

semVars == <<count, waiting>>
vars == <<kernelVars, semVars>>

\* What rtosk_semaphore_init leaves, called by main before the kernel starts.
Init == KernelInit /\ count = InitialCount /\ waiting = NoTask

-----------------------------------------------------------------------------
(* rtosk_semaphore_take *)

TakeEnter(t) == EnterAt(t, "user", "take") /\ UNCHANGED semVars

\* Faulty: without the test of the count.
TakeTokenUntested(t) ==
  /\ AccessAt(t, "take", "take_taken")
  /\ count' = count - 1
  /\ UNCHANGED <<tstate, waiting>>

TakeToken(t) ==
  /\ count > 0
  /\ AccessAt(t, "take", "take_taken")
  /\ count' = count - 1
  /\ UNCHANGED <<tstate, waiting>>

TakeExit(t) == ExitAt(t, "take_taken", "user") /\ UNCHANGED semVars

TakeEmpty(t) ==
  /\ count = 0
  /\ AccessAt(t, "take", "take_block")
  /\ UNCHANGED <<tstate, semVars>>

TakeBlock(t) ==
  /\ AccessAt(t, "take_block", "take_blocked")
  /\ waiting' = current
  /\ BlockCurrentOn("BLOCKED_ON_SEMAPHORE")
  /\ UNCHANGED count

TakeBlockExit(t) == ExitAt(t, "take_blocked", "take_yield") /\ UNCHANGED semVars

\* Faulty: without the yield.
TakeNoYield(t) ==
  /\ AccessAt(t, "take_yield", "take_return")
  /\ UNCHANGED <<tstate, semVars>>

TakeYield(t) == YieldAt(t, "take_yield", "take_return") /\ UNCHANGED semVars

\* The CPU is back: the take returns without looking at the count again.
TakeReturn(t) == AccessAt(t, "take_return", "user") /\ UNCHANGED <<tstate, semVars>>

TakeStep(t) ==
  TakeToken(t) \/ TakeExit(t) \/ TakeEmpty(t) \/ TakeBlock(t) \/ TakeBlockExit(t)
    \/ TakeYield(t) \/ TakeReturn(t)

-----------------------------------------------------------------------------
(* rtosk_semaphore_give *)

\* Faulty: the waiter stays registered; it is forgotten before it is readied;
\* the count is raised in either case.
GiveKeepsWaiter ==
  /\ waiting # NoTask
  /\ SetReady(waiting)
  /\ UNCHANGED <<waiting, count>>

GiveForgetsFirst ==
  /\ waiting # NoTask
  /\ waiting' = NoTask
  /\ SetReady(NoTask)
  /\ UNCHANGED count

GiveToCountToo ==
  /\ count' = 1
  /\ UNCHANGED <<tstate, waiting>>

\* Hand the token to the waiter, or leave it in the count.
GiveToWaiter ==
  /\ waiting # NoTask
  /\ SetReady(waiting)
  /\ waiting' = NoTask
  /\ UNCHANGED count

GiveToCount ==
  /\ waiting = NoTask
  /\ count' = 1
  /\ UNCHANGED <<tstate, waiting>>

GiveEnter(t) == EnterAt(t, "user", "give") /\ UNCHANGED semVars

Give(t) == AccessAt(t, "give", "give_given") /\ (GiveToWaiter \/ GiveToCount)

GiveExit(t) == ExitAt(t, "give_given", "give_yield") /\ UNCHANGED semVars

GiveYield(t) == YieldAt(t, "give_yield", "user") /\ UNCHANGED semVars

GiveStep(t) == Give(t) \/ GiveExit(t) \/ GiveYield(t)

(* rtosk_semaphore_give_from_isr *)

\* Faulty: nobody asks for the switch.
GiveFromIsrNoSwitch ==
  /\ DeviceStep
  /\ GiveToWaiter \/ GiveToCount
  /\ UNCHANGED pendsv

GiveFromIsr ==
  /\ DeviceStep
  /\ \/ GiveToWaiter /\ PendSwitch
     \/ GiveToCount /\ UNCHANGED pendsv

-----------------------------------------------------------------------------

SemaphoreStep ==
  \/ \E t \in Takers : TakeEnter(t) \/ TakeStep(t)
  \/ \E t \in Givers : GiveEnter(t) \/ GiveStep(t)
  \/ GiveFromIsr

Next == (KernelNext /\ UNCHANGED semVars) \/ SemaphoreStep

Spec == Init /\ [][Next]_vars

(***************************************************************************)
(* Kernel's fairness, the same for the code of take and give, and a device *)
(* that keeps raising its interrupt.                                       *)
(***************************************************************************)
FairSpec ==
  /\ Spec
  /\ HandlerFairness
  /\ SF_vars(\/ \E t \in Task : SleepStep(t) /\ UNCHANGED semVars
             \/ \E t \in Takers : TakeStep(t)
             \/ \E t \in Givers : GiveStep(t))
  /\ SF_vars(GiveFromIsr)
  /\ ThreadModeRecurs

-----------------------------------------------------------------------------
(* Properties *)

Blocked == {t \in Task : tstate[t] = "BLOCKED_ON_SEMAPHORE"}

SemaphoreLabels ==
  KernelLabels \cup
    {"take", "take_taken", "take_block", "take_blocked", "take_yield", "take_return",
     "give", "give_given", "give_yield"}

TypeOK ==
  /\ CoreTypeOK
  /\ pc \in [Task -> SemaphoreLabels]
  /\ count \in Nat /\ waiting \in Slot \cup {NoTask}

(***************************************************************************)
(* The registered waiter is a task blocked on this semaphore, so a give    *)
(* never readies a task that sleeps, runs or waits for something else, and *)
(* a woken take never left its registration behind.                        *)
(***************************************************************************)
WaiterIsBlocked == waiting # NoTask => waiting \in Blocked

(***************************************************************************)
(* A take that had to block runs on only after a give has readied it: the  *)
(* code returns without testing the count again, so a task that got past   *)
(* its yield while still blocked would have taken a token nobody gave.     *)
(***************************************************************************)
NoTakeWithoutGive ==
  \A t \in Task :
    ThreadMode /\ psp = t /\ ~pendsv /\ pc[t] = "take_return" => tstate[t] = "READY"

\* The semaphore as its callers see it.
Abstract == INSTANCE SemaphoreSpec WITH value <- count, blocked <- Blocked

(***************************************************************************)
(* With one taking task the semaphore is a signal from any number of       *)
(* givers and the interrupt: every give serves the blocked task, one that  *)
(* finds none is remembered until the next take, and no task stays blocked *)
(* while a token is there ("Takes the semaphore, blocking if count is      *)
(* zero", semaphore.h:59).                                                 *)
(***************************************************************************)
ImplementsSignal == Abstract!SignalSpec

(***************************************************************************)
(* semaphore.h:44 and README.md:31 call it a counting semaphore: a give    *)
(* that finds no waiter adds a token to those already there.               *)
(***************************************************************************)
GivesAreCounted ==
  [][\A t \in Givers :
       pc[t] = "give" /\ pc'[t] = "give_given" /\ waiting = NoTask
         => count' = count + 1]_vars

(***************************************************************************)
(* A taker of the highest priority keeps being served by a recurring       *)
(* interrupt: once blocked it returns from the take, though the give may   *)
(* come anywhere in its way to sleep or in a switch between other tasks.   *)
(***************************************************************************)
IsrWakesTaker ==
  \A t \in Takers : Outranks(t) /\ pc[t] = "take_blocked" ~> pc[t] = "user"

=============================================================================
