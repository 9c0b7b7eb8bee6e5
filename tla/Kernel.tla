------------------------------- MODULE Kernel -------------------------------
(***************************************************************************)
(* The tinyrtos core (kernel.c, task.c, scheduler.c and the exception      *)
(* handlers of port.c) on one Cortex-M core, from the moment the SVC       *)
(* handler has started task 0.                                             *)
(*                                                                         *)
(* Three contexts of execution compete for the core: thread mode (the task *)
(* whose context is live in PSP), PendSV (the lowest-priority exception,   *)
(* which switches tasks) and SysTick (which may preempt PendSV between any *)
(* two of its steps).  PRIMASK holds off both.  A step is one access to    *)
(* state that another context reads or writes.                             *)
(*                                                                         *)
(* Semaphore, Mutex and Queue extend this module: they reuse its handlers  *)
(* and the thread-mode building blocks StepAt, EnterCritical, ExitCritical *)
(* and PendSwitch.                                                         *)
(***************************************************************************)
EXTENDS Integers

CONSTANTS
  MaxTasks,    \* RTOSK_MAX_TASKS
  NumTasks,    \* RTOSK_TASK_COUNT once main has created its tasks
  Priority,    \* the priority given to rtosk_kernel_create_task, per task
  TickModulus, \* 2^32 in the code: RTOSK_SYSTICKS and wake_tick are uint32_t
  SleepTimes,  \* the arguments tasks give rtosk_kernel_sleep_ms
  MaxNesting   \* bound: how deep application code nests critical sections

Task == 0 .. NumTasks - 1
Idle == MaxTasks            \* RTOSK_IDLE_TASK_INDEX
Slot == Task \cup {Idle}
NoTask == MaxTasks + 1      \* 0xFFFFFFFF: no waiter, no owner; not a slot
Tick == 0 .. TickModulus - 1

ASSUME NumTasksAssumption == MaxTasks \in Nat /\ NumTasks \in 1 .. MaxTasks
ASSUME PriorityAssumption == Priority \in [Task -> Nat]
ASSUME TickAssumption == TickModulus \in Nat \ {0} /\ SleepTimes \subseteq Tick
ASSUME NestingAssumption == MaxNesting \in Nat

VARIABLES
  tstate,     \* RTOSK_TASKS[i].state
  wake,       \* RTOSK_TASKS[i].wake_tick
  sp,         \* RTOSK_TASKS[i].sp: whose saved context it leads to, NoTask once
              \* that context has run on and the saved copy is out of date
  current,    \* RTOSK_CURRENT_TASK
  ticks,      \* RTOSK_SYSTICKS
  nesting,    \* RTOSK_CRITICAL_NESTING
  savedmask,  \* RTOSK_CRITICAL_PRIMASK
  primask,    \* the PRIMASK register: exceptions are held off
  pendsv,     \* ICSR.PENDSVSET: a context switch is requested
  psp,        \* the context live in PSP and R4-R11
  svPc, start, offset, best, found, \* the PendSV handler and select_next's locals
  tickPc, tickIdx,                  \* the SysTick handler and its loop index
  pc          \* where each task's own code is

(***************************************************************************)
(* History variables, read by no action: what a sleeper asked for, the     *)
(* ticks counted since, and whether the scheduler has ever chosen a task.  *)
(***************************************************************************)
VARIABLES asked, elapsed, dispatched

irqVars   == <<nesting, savedmask, primask>>
svVars    == <<svPc, start, offset, best, found>>
tickVars  == <<ticks, tickPc, tickIdx>>
sleepVars == <<wake, asked, elapsed>>
kernelVars == <<tstate, sp, current, psp, pendsv, pc, dispatched,
                irqVars, svVars, tickVars, sleepVars>>

TaskState == {"READY", "BLOCKED", "BLOCKED_ON_SEMAPHORE", "BLOCKED_ON_QUEUE",
              "BLOCKED_ON_MUTEX", "IDLE"}

PriorityOf(s) == IF s = Idle THEN 0 ELSE Priority[s]

Ready == {t \in Task : tstate[t] = "READY"}

\* Thread mode runs: no handler is active.
ThreadMode == svPc = "inactive" /\ tickPc = "inactive"

(***************************************************************************)
(* The state the SVC handler leaves: task 0 runs, whatever its priority,   *)
(* and every other task has the initial frame rtosk_task_build_stack made. *)
(***************************************************************************)
KernelInit ==
  /\ tstate = [s \in Slot |-> IF s = Idle THEN "IDLE" ELSE "READY"]
  /\ wake = [t \in Task |-> 0]
  /\ sp = [s \in Slot |-> IF s = 0 THEN NoTask ELSE s]
  /\ current = 0 /\ psp = 0
  /\ ticks = 0
  /\ nesting = 0 /\ savedmask = FALSE /\ primask = FALSE
  /\ pendsv = FALSE
  /\ svPc = "inactive" /\ start = 0 /\ offset = 0 /\ best = Idle /\ found = FALSE
  /\ tickPc = "inactive" /\ tickIdx = 0
  /\ pc = [t \in Task |-> "user"]
  /\ asked = [t \in Task |-> 0] /\ elapsed = [t \in Task |-> 0]
  /\ dispatched = FALSE

-----------------------------------------------------------------------------
(* SysTick_Handler: rtosk_kernel_tick *)

\* Faulty comparisons: one tick late, and without regard to the wrap.
DueLate(t) == (ticks - wake[t]) % TickModulus \in 1 .. TickModulus \div 2
DueUnsigned(t) == ticks >= wake[t]

\* (int32_t)(current_tick - wake_tick) >= 0 in two's complement.  TickModulus
\* is even, or 1 where every sleep ends at the next tick.
Due(t) == (ticks - wake[t]) % TickModulus < (TickModulus + 1) \div 2

\* The exception is taken and RTOSK_SYSTICKS advances.
TickEnter ==
  /\ tickPc = "inactive" /\ ~primask
  /\ ticks' = (ticks + 1) % TickModulus
  /\ tickPc' = "scan"
  /\ tickIdx' = 0
  /\ elapsed' = [t \in Task |-> IF tstate[t] = "BLOCKED" /\ elapsed[t] < TickModulus
                                  THEN elapsed[t] + 1 ELSE elapsed[t]]
  /\ UNCHANGED <<tstate, sp, current, psp, pendsv, pc, dispatched,
                 irqVars, svVars, wake, asked>>

\* One turn of the loop of rtosk_task_update_blocked.
TickScan ==
  /\ tickPc = "scan" /\ tickIdx < NumTasks
  /\ IF tstate[tickIdx] = "BLOCKED" /\ Due(tickIdx)
       THEN /\ tstate' = [tstate EXCEPT ![tickIdx] = "READY"]
            /\ elapsed' = [elapsed EXCEPT ![tickIdx] = 0]
            /\ asked' = [asked EXCEPT ![tickIdx] = 0]
       ELSE UNCHANGED <<tstate, elapsed, asked>>
  /\ tickIdx' = tickIdx + 1
  /\ UNCHANGED <<sp, current, psp, pendsv, pc, dispatched,
                 irqVars, svVars, ticks, tickPc, wake>>

\* The tick always asks for a switch, then returns.
TickExit ==
  /\ tickPc = "scan" /\ tickIdx = NumTasks
  /\ pendsv' = TRUE
  /\ tickPc' = "inactive"
  /\ tickIdx' = 0
  /\ UNCHANGED <<tstate, sp, current, psp, pc, dispatched,
                 irqVars, svVars, ticks, sleepVars>>

TickStep == TickEnter \/ TickScan \/ TickExit

-----------------------------------------------------------------------------
(* PendSV_Handler *)

\* Faulty: takes it that Idle has no context worth saving.
SaveUnlessIdle == IF current = Idle THEN UNCHANGED sp ELSE sp' = [sp EXCEPT ![current] = psp]

\* rtosk_task_save_stack_pointer files the live context under current.
SaveStackPointer == sp' = [sp EXCEPT ![current] = psp]

\* The exception is taken, which clears the request.
SwitchEnter ==
  /\ pendsv /\ ~primask /\ ThreadMode
  /\ pendsv' = FALSE
  /\ SaveStackPointer
  /\ svPc' = "begin"
  /\ UNCHANGED <<tstate, current, psp, pc, dispatched, start, offset, best, found,
                 irqVars, tickVars, sleepVars>>

\* rtosk_scheduler_select_next up to its loop.
SelectBegin ==
  /\ svPc = "begin" /\ tickPc = "inactive"
  /\ start' = IF current >= NumTasks THEN 0 ELSE current
  /\ offset' = 0
  /\ best' = Idle
  /\ found' = FALSE
  /\ svPc' = "select"
  /\ UNCHANGED <<tstate, sp, current, psp, pendsv, pc, dispatched,
                 irqVars, tickVars, sleepVars>>

\* The task the loop looks at with the given offset.
ScanIndex(o) == IF start + o >= NumTasks THEN start + o - NumTasks ELSE start + o

\* Faulty: the first ready task wins.
BetterIfFirst(i) == tstate[i] = "READY" /\ ~found

Better(i) == tstate[i] = "READY" /\ (~found \/ Priority[i] > PriorityOf(best))

\* One turn of the loop; SysTick may run between two turns.
SelectScan ==
  /\ svPc = "select" /\ tickPc = "inactive" /\ offset < NumTasks
  /\ IF Better(ScanIndex(offset))
       THEN best' = ScanIndex(offset) /\ found' = TRUE
       ELSE UNCHANGED <<best, found>>
  /\ offset' = offset + 1
  /\ UNCHANGED <<tstate, sp, current, psp, pendsv, pc, dispatched, svPc, start,
                 irqVars, tickVars, sleepVars>>

\* best is Idle when no task was found ready.
SelectCommit ==
  /\ svPc = "select" /\ tickPc = "inactive" /\ offset = NumTasks
  /\ current' = best
  /\ svPc' = "restore"
  /\ dispatched' = TRUE
  /\ UNCHANGED <<tstate, sp, psp, pendsv, pc, start, offset, best, found,
                 irqVars, tickVars, sleepVars>>

\* rtosk_task_get_stack_pointer, msr psp and the exception return.
SwitchExit ==
  /\ svPc = "restore" /\ tickPc = "inactive"
  /\ psp' = sp[current]
  /\ sp' = [sp EXCEPT ![current] = NoTask]
  /\ svPc' = "inactive"
  /\ start' = 0 /\ offset' = 0 /\ best' = Idle /\ found' = FALSE  \* dead locals
  /\ UNCHANGED <<tstate, current, pendsv, pc, dispatched,
                 irqVars, tickVars, sleepVars>>

SwitchStep == SwitchEnter \/ SelectBegin \/ SelectScan \/ SelectCommit \/ SwitchExit

HandlerStep == TickStep \/ SwitchStep

-----------------------------------------------------------------------------
(* Thread mode: what every kernel call is made of *)

\* Task t executes the code at from; a requested switch is taken before any
\* further instruction of thread mode, unless PRIMASK holds it off.
StepAt(t, from, to) ==
  /\ ThreadMode /\ psp = t /\ pc[t] = from
  /\ primask \/ ~pendsv
  /\ pc' = [pc EXCEPT ![t] = to]
  /\ UNCHANGED <<sp, current, psp, dispatched, svVars, tickVars>>

\* rtosk_kernel_enter_critical
EnterCritical ==
  /\ primask' = TRUE
  /\ savedmask' = IF nesting = 0 THEN primask ELSE savedmask
  /\ nesting' = nesting + 1

\* Faulty exits: without the early return; restoring whatever the nesting;
\* testing the nesting before it is decremented.
ExitUnchecked ==
  /\ nesting' = nesting - 1
  /\ primask' = IF nesting = 1 THEN primask /\ savedmask ELSE primask
  /\ UNCHANGED savedmask

ExitAlwaysRestores ==
  /\ nesting' = IF nesting = 0 THEN 0 ELSE nesting - 1
  /\ primask' = (primask /\ savedmask)
  /\ UNCHANGED savedmask

ExitTestsEarly ==
  IF nesting = 0
    THEN primask' = (primask /\ savedmask) /\ UNCHANGED <<nesting, savedmask>>
    ELSE nesting' = nesting - 1 /\ UNCHANGED <<primask, savedmask>>

\* rtosk_kernel_exit_critical
ExitCritical ==
  IF nesting = 0
    THEN UNCHANGED irqVars
    ELSE /\ nesting' = nesting - 1
         /\ primask' = IF nesting = 1 THEN primask /\ savedmask ELSE primask
         /\ UNCHANGED savedmask

\* rtosk_port_yield
PendSwitch == pendsv' = TRUE

\* rtosk_task_block_current_until
BlockCurrentUntil(tick) ==
  IF current = Idle
    THEN UNCHANGED <<tstate, wake>>
    ELSE /\ tstate' = [tstate EXCEPT ![current] = "BLOCKED"]
         /\ wake' = [wake EXCEPT ![current] = tick]

\* rtosk_task_block_current_on_semaphore, _on_queue and _on_mutex
BlockCurrentOn(state) == tstate' = [tstate EXCEPT ![current] = state]

\* rtosk_task_set_ready
SetReady(s) ==
  IF s >= NumTasks THEN UNCHANGED tstate
                   ELSE tstate' = [tstate EXCEPT ![s] = "READY"]

\* The steps of a kernel call: it enters or leaves a critical section, asks
\* for a switch, or gets at shared fields and, maybe, a task's state.
EnterAt(t, from, to) ==
  /\ StepAt(t, from, to)
  /\ EnterCritical
  /\ UNCHANGED <<tstate, pendsv, sleepVars>>

ExitAt(t, from, to) ==
  /\ StepAt(t, from, to)
  /\ ExitCritical
  /\ UNCHANGED <<tstate, pendsv, sleepVars>>

YieldAt(t, from, to) ==
  /\ StepAt(t, from, to)
  /\ PendSwitch
  /\ UNCHANGED <<tstate, irqVars, sleepVars>>

AccessAt(t, from, to) ==
  /\ StepAt(t, from, to)
  /\ UNCHANGED <<pendsv, irqVars, sleepVars>>

\* A device handler calls the kernel: it preempts everything PRIMASK does not
\* hold off, and nothing preempts it.
DeviceStep ==
  /\ ~primask
  /\ UNCHANGED <<sp, current, psp, pc, dispatched, irqVars, svVars, tickVars, sleepVars>>

(* rtosk_kernel_sleep_ms *)

SleepEnter(t) ==
  /\ SleepTimes # {}         \* {}: an application that never sleeps
  /\ EnterAt(t, "user", "sleep_block")

SleepBlock(t) ==
  /\ StepAt(t, "sleep_block", "sleep_exit")
  /\ \E ms \in SleepTimes :
       /\ BlockCurrentUntil((ticks + ms) % TickModulus)
       /\ asked' = [asked EXCEPT ![t] = ms]
  /\ elapsed' = [elapsed EXCEPT ![t] = 0]
  /\ UNCHANGED <<pendsv, irqVars>>

SleepExit(t) == ExitAt(t, "sleep_exit", "sleep_yield")

SleepYield(t) == YieldAt(t, "sleep_yield", "user")

\* The rest of a sleep that has begun.
SleepStep(t) == SleepBlock(t) \/ SleepExit(t) \/ SleepYield(t)

(* The calls application code makes directly *)

UserYield(t) == YieldAt(t, "user", "user")

UserEnter(t) == nesting < MaxNesting /\ EnterAt(t, "user", "user")

UserExit(t) == ExitAt(t, "user", "user")

ThreadStep(t) ==
  SleepEnter(t) \/ SleepStep(t) \/ UserYield(t) \/ UserEnter(t) \/ UserExit(t)

KernelNext == HandlerStep \/ \E t \in Task : ThreadStep(t)

KernelSpec == KernelInit /\ [][KernelNext]_kernelVars

(***************************************************************************)
(* Fairness.  The timer keeps firing and its request is latched while      *)
(* PRIMASK holds it off; between two ticks (a millisecond apart) handlers  *)
(* and the kernel calls that have the CPU get their few instructions done, *)
(* however often they are interrupted: hence strong fairness.  Application *)
(* code is free to compute for ever (led1_task of examples/osi does), but  *)
(* not inside a critical section.                                          *)
(***************************************************************************)
HandlerFairness ==
  /\ SF_kernelVars(TickEnter)
  /\ WF_kernelVars(TickScan \/ TickExit)
  /\ SF_kernelVars(SwitchStep)

KernelFairness ==
  /\ HandlerFairness
  /\ SF_kernelVars(\E t \in Task : SleepStep(t))
  /\ SF_kernelVars(nesting > 0 /\ \E t \in Task : UserExit(t))

KernelFairSpec == KernelSpec /\ KernelFairness

\* Handlers never use up all of the CPU: thread mode keeps getting some of it.
ThreadModeRecurs == []<>(ThreadMode /\ (primask \/ ~pendsv))

-----------------------------------------------------------------------------
(* Properties *)

\* Type invariant of everything but psp, which is not set until task 0 starts,
\* and pc, whose labels each module adds to.
MachineTypeOK ==
  /\ tstate \in [Slot -> TaskState]
  /\ wake \in [Task -> Tick]
  /\ sp \in [Slot -> Slot \cup {NoTask}]
  /\ current \in Slot
  /\ ticks \in Tick
  /\ nesting \in Nat /\ savedmask \in BOOLEAN /\ primask \in BOOLEAN
  /\ pendsv \in BOOLEAN
  /\ svPc \in {"inactive", "begin", "select", "restore"}
  /\ start \in Task /\ offset \in 0 .. NumTasks
  /\ best \in Slot /\ found \in BOOLEAN
  /\ tickPc \in {"inactive", "scan"} /\ tickIdx \in 0 .. NumTasks
  /\ asked \in [Task -> Tick] /\ elapsed \in [Task -> 0 .. TickModulus]
  /\ dispatched \in BOOLEAN

CoreTypeOK == MachineTypeOK /\ psp \in Slot

KernelLabels == {"user", "sleep_block", "sleep_exit", "sleep_yield"}

KernelTypeOK == CoreTypeOK /\ pc \in [Task -> KernelLabels]

(***************************************************************************)
(* A context switch never mixes up two tasks: outside PendSV the live      *)
(* context belongs to RTOSK_CURRENT_TASK, and every other TCB leads to its *)
(* own task's context, saved when that task last lost the CPU (port.c      *)
(* PendSV_Handler, task.c save and get_stack_pointer).                     *)
(***************************************************************************)
ContextIntegrity ==
  /\ svPc = "inactive" => psp = current
  /\ \A s \in Slot \ {current} : sp[s] = s

(***************************************************************************)
(* Preemptive priority scheduling: once the scheduler has run, application *)
(* code with no switch pending is never that of a blocked task, nor of a   *)
(* task some ready task outranks; Idle runs only if no task is ready.      *)
(* Every path that makes a task ready has to request a switch for it, also *)
(* when SysTick does so halfway through select_next's scan.                *)
(***************************************************************************)
Quiescent ==
  /\ ThreadMode /\ ~pendsv
  /\ psp \in Task => pc[psp] = "user"

RunsHighestReady ==
  /\ psp \in Task => psp \in Ready
  /\ \A t \in Ready : psp \in Task /\ Priority[t] <= Priority[psp]

HighestReadyRuns == Quiescent /\ dispatched => RunsHighestReady

(***************************************************************************)
(* RTOSK_CRITICAL_NESTING and PRIMASK agree, so while any critical section *)
(* is open no handler is active and nothing can switch tasks, however the  *)
(* application's sections and those inside kernel calls nest.              *)
(***************************************************************************)
CriticalIsExclusive ==
  /\ nesting > 0 <=> primask
  /\ nesting > 0 => ThreadMode

(***************************************************************************)
(* rtosk_kernel_sleep_ms never ends early: a sleeper is made ready only    *)
(* once at least as many ticks as it asked for have passed, also across    *)
(* the wrap of RTOSK_SYSTICKS (kernel.h: "blocks ... for the requested     *)
(* number of milliseconds").                                               *)
(***************************************************************************)
NoEarlyWake ==
  [][\A t \in Task :
       tstate[t] = "BLOCKED" /\ tstate'[t] = "READY" => elapsed[t] >= asked[t]
    ]_kernelVars

(***************************************************************************)
(* ... and never oversleeps: no tick handler returns leaving a task asleep *)
(* whose time has come (task.c rtosk_task_update_blocked).                 *)
(***************************************************************************)
NoOversleep ==
  tickPc = "inactive" =>
    \A t \in Task : tstate[t] = "BLOCKED" => elapsed[t] < asked[t] \/ elapsed[t] = 0

\* Every other task is of lower priority.
Outranks(t) == \A u \in Task \ {t} : Priority[u] < Priority[t]

(***************************************************************************)
(* README.md:26 and scheduler.h:38 promise round-robin among equal         *)
(* priorities: a ready task no task outranks gets its turn.                *)
(***************************************************************************)
TopPriority(t) == \A u \in Task : Priority[u] <= Priority[t]

EqualPrioritiesTakeTurns ==
  \A t \in Task : TopPriority(t) /\ tstate[t] = "READY" ~> psp = t

=============================================================================
