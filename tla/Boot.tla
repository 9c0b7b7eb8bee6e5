-------------------------------- MODULE Boot --------------------------------
(***************************************************************************)
(* How the kernel of module Kernel comes up, and how it goes down.  After  *)
(* a reset main runs on the main stack: it starts SysTick, creates tasks   *)
(* and calls rtosk_kernel_start, which ends in an svc that turns to the    *)
(* process stack and task 0 (kernel.c, task.c, SVC_Handler).  An exception *)
(* return through a context nobody saved ends in HardFault_Handler         *)
(* (fault.c), which never returns.                                         *)
(*                                                                         *)
(* What tasks do besides kernel calls is here the one thing the shipped    *)
(* applications share between tasks: each toggles a LED of its own, in the *)
(* one output register GPIOB->ODR (led.c).                                 *)
(***************************************************************************)
EXTENDS Kernel

VARIABLES
  bootPc,  \* where main is, or what it has turned into
  created, \* RTOSK_TASK_COUNT
  systick, \* RTOSK_KERNEL_SYSTICK_INIT: SysTick fires
  stale    \* per task, the LEDs whose bit in its toggle's copy of ODR is not
           \* that of ODR any more

\* History: PendSV came before the svc.
VARIABLE early

bootVars == <<bootPc, created, systick, early>>
vars     == <<kernelVars, bootVars, stale>>

(***************************************************************************)
(* Reset: .bss is zero, and RTOSK_TASK_READY is 0.  No context is saved    *)
(* anywhere, and what PSP holds is not known (NoTask).                     *)
(***************************************************************************)
Init ==
  /\ bootPc = "main" /\ created = 0 /\ systick = FALSE /\ early = FALSE
  /\ tstate = [s \in Slot |-> "READY"]
  /\ sp = [s \in Slot |-> NoTask]
  /\ current = 0 /\ psp = NoTask
  /\ wake = [t \in Task |-> 0] /\ ticks = 0
  /\ nesting = 0 /\ savedmask = FALSE /\ primask = FALSE
  /\ pendsv = FALSE
  /\ svPc = "inactive" /\ start = 0 /\ offset = 0 /\ best = Idle /\ found = FALSE
  /\ tickPc = "inactive" /\ tickIdx = 0
  /\ pc = [t \in Task |-> "user"]
  /\ asked = [t \in Task |-> 0] /\ elapsed = [t \in Task |-> 0]
  /\ dispatched = FALSE
  /\ stale = [t \in Task |-> {}]

-----------------------------------------------------------------------------
(* main, on the main stack *)

\* rtosk_task_build_stack: a slot's TCB leads to the frame its task starts from.
BuildStack(s) == sp' = [sp EXCEPT ![s] = s]

\* rtosk_task_get_stack_pointer
StackPointer == sp[current]

SystickInit ==
  /\ bootPc = "main" /\ ~systick
  /\ systick' = TRUE
  /\ UNCHANGED <<kernelVars, stale, bootPc, created, early>>

\* Faulty: lets one task too many in, which takes the idle task's slot.
CreateTaskOneMore ==
  /\ bootPc = "main" /\ created <= NumTasks
  /\ BuildStack(created)
  /\ tstate' = [tstate EXCEPT ![created] = "READY"]
  /\ created' = created + 1
  /\ UNCHANGED <<current, psp, pendsv, pc, dispatched, irqVars, svVars, tickVars,
                 sleepVars, stale, bootPc, systick, early>>

\* rtosk_task_create fills the next slot.  When RTOSK_MAX_TASKS slots are full
\* it does nothing.
CreateTask ==
  /\ bootPc = "main" /\ created < NumTasks
  /\ BuildStack(created)
  /\ tstate' = [tstate EXCEPT ![created] = "READY"]
  /\ wake' = [wake EXCEPT ![created] = 0]
  /\ created' = created + 1
  /\ UNCHANGED <<current, psp, pendsv, pc, dispatched, irqVars, svVars, tickVars,
                 asked, elapsed, stale, bootPc, systick, early>>

\* rtosk_kernel_tick before the start: the ticks count, and nothing else.
TickIgnored ==
  /\ bootPc \in {"main", "stuck"} /\ systick
  /\ ticks' = (ticks + 1) % TickModulus
  /\ UNCHANGED <<tstate, sp, current, psp, pendsv, pc, dispatched, irqVars, svVars,
                 tickPc, tickIdx, sleepVars, bootVars, stale>>

\* Faulty: rtosk_kernel_start without rtosk_task_init_idle.
KernelStartNoIdle ==
  /\ bootPc = "main" /\ systick /\ created = NumTasks
  /\ bootPc' = "svc"
  /\ UNCHANGED <<kernelVars, created, systick, early, stale>>

InitIdle == BuildStack(Idle) /\ tstate' = [tstate EXCEPT ![Idle] = "IDLE"]

\* rtosk_kernel_start up to the svc; without a task it spins.
KernelStart ==
  /\ bootPc = "main" /\ systick /\ created \in {0, NumTasks}
  /\ IF created = 0
       THEN bootPc' = "stuck" /\ UNCHANGED <<sp, tstate>>
       ELSE bootPc' = "svc" /\ InitIdle
  /\ UNCHANGED <<current, psp, pendsv, pc, dispatched, irqVars, svVars, tickVars,
                 sleepVars, created, systick, early, stale>>

\* The applications' main, in whichever order they do it.
main == SystickInit \/ CreateTask \/ KernelStart

-----------------------------------------------------------------------------
(* From RTOSK_KERNEL_INIT = 1 to the svc.  A tick that falls in here asks   *)
(* for a switch, and PendSV runs on top of main.                           *)

\* A handler's step that is the kernel's own, while main is at this point.
At(point, A) == bootPc = point /\ A /\ UNCHANGED <<bootVars, stale>>

\* What PendSV files under task 0 is not its context.
EarlySave ==
  /\ bootPc = "svc" /\ SwitchEnter
  /\ early' = TRUE
  /\ UNCHANGED <<bootPc, created, systick, stale>>

EarlySelect == At("svc", SelectBegin \/ SelectScan \/ SelectCommit)

\* PendSV returns to main: the chosen task does not run yet, and its TCB
\* still leads to its context.
EarlyRestore ==
  /\ bootPc = "svc" /\ svPc = "restore" /\ tickPc = "inactive"
  /\ psp' = StackPointer
  /\ svPc' = "inactive"
  /\ start' = 0 /\ offset' = 0 /\ best' = Idle /\ found' = FALSE
  /\ UNCHANGED <<tstate, sp, current, pendsv, pc, dispatched, irqVars, tickVars,
                 sleepVars, bootVars, stale>>

\* Faulty: the first task is always slot 0.
SvcStartsZero ==
  /\ bootPc = "svc" /\ ThreadMode /\ ~pendsv
  /\ psp' = sp[0]
  /\ sp' = [sp EXCEPT ![0] = NoTask]
  /\ bootPc' = "running"
  /\ UNCHANGED <<tstate, current, pendsv, pc, dispatched, irqVars, svVars, tickVars,
                 sleepVars, created, systick, early, stale>>

\* SVC_Handler, which no other handler preempts.
Svc ==
  /\ bootPc = "svc" /\ ThreadMode /\ ~pendsv
  /\ psp' = StackPointer
  /\ sp' = [sp EXCEPT ![current] = NoTask]
  /\ bootPc' = "running"
  /\ UNCHANGED <<tstate, current, pendsv, pc, dispatched, irqVars, svVars, tickVars,
                 sleepVars, created, systick, early, stale>>

-----------------------------------------------------------------------------
(* HardFault_Handler and rtosk_fault_hardfault_handler *)

\* Exceptions are masked and the dump ends in a loop.
Halt ==
  /\ bootPc' = "halted"
  /\ primask' = TRUE
  /\ UNCHANGED <<tstate, sp, current, psp, pendsv, pc, dispatched, nesting, savedmask,
                 svVars, tickVars, sleepVars, created, systick, stale>>

\* PendSV pushes R4-R11 through a PSP that was never set.
EarlyFault ==
  /\ bootPc = "svc" /\ pendsv /\ ThreadMode /\ psp = NoTask
  /\ early' = TRUE
  /\ Halt

\* An exception returned through a frame that is none.
StrayReturn ==
  /\ bootPc = "running" /\ ThreadMode /\ psp = NoTask
  /\ UNCHANGED early
  /\ Halt

-----------------------------------------------------------------------------
(* rtosk_bsp_f756zg_toggle_on_board_led: GPIOB->ODR ^= is a read and a      *)
(* write of all the LEDs.  Whether one is lit tells nothing apart, whether *)
(* a write changes it does.                                                *)

ToggleRead(t) ==
  /\ AccessAt(t, "user", "toggle")
  /\ UNCHANGED <<tstate, stale>>     \* its copy is fresh

SymDiff(S, T) == (S \ T) \cup (T \ S)

\* Faulty: ODR is complemented.
ChangesAll(t) == Task

\* The LEDs the write of t's copy changes, given how stale that is.
Changes(t) == SymDiff(stale[t], {t})

ToggleWrite(t) ==
  /\ AccessAt(t, "toggle", "user")
  /\ stale' = [u \in Task |-> IF pc[u] = "toggle" /\ u # t
                                 THEN SymDiff(stale[u], Changes(t)) ELSE {}]
  /\ UNCHANGED tstate

-----------------------------------------------------------------------------

\* A step of the kernel, or of its tasks, once it runs.
Running(A) == bootPc = "running" /\ psp # NoTask /\ A /\ UNCHANGED bootVars

KernelRuns(A) == Running(A /\ UNCHANGED stale)

ToggleStep == \E t \in Task : ToggleRead(t) \/ ToggleWrite(t)

Next ==
  \/ main \/ TickIgnored
  \/ At("svc", TickStep) \/ EarlySave \/ EarlySelect \/ EarlyRestore \/ Svc
  \/ EarlyFault \/ StrayReturn
  \/ KernelRuns(KernelNext) \/ Running(ToggleStep)

Spec == Init /\ [][Next]_vars

(***************************************************************************)
(* Fairness: Kernel's, from the moment the kernel runs, and a toggle that  *)
(* has begun gets its other instruction done.                              *)
(***************************************************************************)
Fairness ==
  /\ WF_vars(StrayReturn)
  /\ SF_vars(KernelRuns(TickEnter))
  /\ WF_vars(KernelRuns(TickScan \/ TickExit))
  /\ SF_vars(KernelRuns(SwitchStep))
  /\ SF_vars(KernelRuns(\E t \in Task : SleepStep(t)))
  /\ SF_vars(KernelRuns(nesting > 0 /\ \E t \in Task : UserExit(t)))
  /\ SF_vars(Running(\E t \in Task : ToggleWrite(t)))

FairSpec == Spec /\ Fairness

-----------------------------------------------------------------------------
(* Properties *)

\* The machine's types, before and after the start, and of what this module adds.
TypeOK ==
  /\ MachineTypeOK
  /\ bootPc \in {"main", "svc", "stuck", "running", "halted"}
  /\ created \in 0 .. NumTasks /\ systick \in BOOLEAN /\ early \in BOOLEAN
  /\ psp \in Slot \cup {NoTask}
  /\ pc \in [Task -> KernelLabels \cup {"toggle"}]
  /\ stale \in [Task -> SUBSET Task]

\* The kernel with its ticks counted from here.
FromHere == INSTANCE Kernel WITH ticks <- 0

(***************************************************************************)
(* The svc starts task 0 in the state every other module takes for its     *)
(* initial one, however many ticks came before, unless one of them came    *)
(* after RTOSK_KERNEL_INIT was set.                                        *)
(***************************************************************************)
StartsAsModelled ==
  [][bootPc = "svc" /\ bootPc' = "running" /\ ~early => FromHere!KernelInit']_vars

(***************************************************************************)
(* A tick between RTOSK_KERNEL_INIT = 1 and the svc (kernel.c:83) costs    *)
(* task 0 its context and no other task anything: whatever is saved later  *)
(* and whoever is chosen, every other context stays its own task's, and    *)
(* without such a tick nothing ever faults.                                *)
(***************************************************************************)
OnlyTaskZeroIsLost ==
  /\ bootPc = "running" =>
       \A s \in Slot \ {current} : sp[s] = s \/ (early /\ s = 0)
  /\ bootPc = "running" /\ svPc = "inactive" =>
       psp = current \/ (early /\ current = 0 /\ psp = NoTask)
  /\ bootPc = "halted" => early

(***************************************************************************)
(* A toggle that is preempted between its read and its write puts every    *)
(* LED back as it saw it (led.c:69), but it never undoes a toggle of a     *)
(* lower task, nor, where no two tasks have the same priority, fails to    *)
(* turn its own LED: its copy is only ever out of date for LEDs of other   *)
(* tasks, which it does not outrank.                                       *)
(***************************************************************************)
OnlyHigherLedsAreUndone ==
  \A t \in Task : \A u \in stale[t] : u # t /\ Priority[u] >= Priority[t]

(***************************************************************************)
(* Once the kernel runs, however it was started, every sleeper wakes up,   *)
(* whoever holds the CPU, unless the system stops in a HardFault           *)
(* (kernel.c:139).                                                         *)
(***************************************************************************)
SleeperWakesOrFault ==
  \A t \in Task : tstate[t] = "BLOCKED" ~> tstate[t] = "READY" \/ bootPc = "halted"

(***************************************************************************)
(* ... and a ready task that outranks every other gets the CPU, even from  *)
(* a task that never yields (README.md: "Preemptive priority scheduling").  *)
(***************************************************************************)
HighestRunsOrFault ==
  \A t \in Task :
    bootPc = "running" /\ Outranks(t) /\ tstate[t] = "READY"
      ~> psp = t \/ bootPc = "halted"

=============================================================================
