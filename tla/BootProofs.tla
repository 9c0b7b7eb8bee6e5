----------------------------- MODULE BootProofs -----------------------------
(***************************************************************************)
(* From the reset to the running kernel, for any number of tasks and any   *)
(* priorities: what a tick that comes before the svc costs, that otherwise *)
(* the kernel starts in the state module Kernel takes for its initial one, *)
(* and what a preempted toggle of a LED can undo.                          *)
(***************************************************************************)
EXTENDS Boot, KernelProofs

\* Labels at which a task owes nobody a switch request.
Settled == {"user", "toggle"}

\* Nothing has run but main and SysTick.
AtRest ==
  /\ current = 0 /\ psp = NoTask
  /\ wake = [t \in Task |-> 0]
  /\ nesting = 0 /\ savedmask = FALSE /\ primask = FALSE
  /\ svPc = "inactive" /\ start = 0 /\ offset = 0 /\ best = Idle /\ found = FALSE
  /\ tickPc = "inactive" => tickIdx = 0
  /\ pc = [t \in Task |-> "user"]
  /\ asked = [t \in Task |-> 0] /\ elapsed = [t \in Task |-> 0]
  /\ dispatched = FALSE

\* The slots main has filled lead to their tasks' first frames.
MainInv ==
  /\ AtRest
  /\ ~early /\ ~pendsv /\ tickPc = "inactive"
  /\ tstate = [s \in Slot |-> "READY"]
  /\ sp = [s \in Slot |-> IF s < created THEN s ELSE NoTask]

\* All is ready for task 0, if no switch has come in between.
FreshInv ==
  /\ AtRest
  /\ tstate = [s \in Slot |-> IF s = Idle THEN "IDLE" ELSE "READY"]
  /\ sp = [s \in Slot |-> s]

\* A switch that comes before the svc files nobody's context under task 0, and
\* leaves in PSP what it leaves in the TCB.
SvcInv ==
  /\ CoreInv(Settled, {0})
  /\ \A s \in Slot : Leads(s, sp[s], {0})
  /\ dispatched /\ svPc = "inactive" => psp = sp[current]
  /\ ~early => FreshInv

BootInv ==
  /\ TypeOK
  /\ bootPc \in {"main", "stuck"} => MainInv
  /\ bootPc = "svc" => SvcInv
  /\ bootPc = "running" => CoreInv(Settled, {0}) /\ (~early => CoreInv(Settled, {}))
  /\ bootPc = "halted" => early

-----------------------------------------------------------------------------
(* The phases before the kernel runs *)

\* Whoever has lost nothing has at most lost task 0's context.
LEMMA LostMore ==
  ASSUME CoreInv(Settled, {})
  PROVE  CoreInv(Settled, {0})
BY DEF CoreInv, ContextInv, Leads

\* Steps of the machine change neither the phase nor what main has built.
LEMMA BootCore ==
  ASSUME NEW L, CoreInv(Settled, L), KernelNext \/ ToggleStep
  PROVE  CoreInv(Settled, L)'
<1>1. CASE KernelNext
  BY <1>1, KernelCore DEF Settled
<1>2. ASSUME NEW t \in Task, ToggleRead(t) \/ ToggleWrite(t)
      PROVE  CoreInv(Settled, L)'
  <2>1. PICK from \in Settled, to \in Settled : AccessAt(t, from, to)
    BY <1>2 DEF ToggleRead, ToggleWrite, Settled
  <2>2. tstate' = tstate /\ tstate \in [Slot -> TaskState]
    BY <1>2 DEF ToggleRead, ToggleWrite, CoreInv, MachineTypeOK
  <2> QED BY <2>1, <2>2, AccessCore
<1> QED BY <1>1, <1>2 DEF ToggleStep

LEMMA InitBoot ==
  ASSUME Init
  PROVE  BootInv
<1> USE DEF Init
<1>1. MachineTypeOK
  <2>1. tstate \in [Slot -> TaskState] /\ best \in Slot /\ current \in Slot
    BY SlotFacts DEF TaskState
  <2>2. /\ sp \in [Slot -> Slot \cup {NoTask}] /\ ticks \in Tick /\ wake \in [Task -> Tick]
        /\ asked \in [Task -> Tick] /\ elapsed \in [Task -> 0 .. TickModulus]
    BY TickFacts, TickAssumption
  <2>3. start \in Task /\ offset \in 0 .. NumTasks /\ tickIdx \in 0 .. NumTasks
    BY SlotFacts
  <2> QED BY <2>1, <2>2, <2>3 DEF MachineTypeOK
<1>2. TypeOK
  <2>1. created \in 0 .. NumTasks /\ psp \in Slot \cup {NoTask}
    BY SlotFacts
  <2>2. pc \in [Task -> KernelLabels \cup {"toggle"}] /\ stale \in [Task -> SUBSET Task]
    BY DEF KernelLabels
  <2>3. systick \in BOOLEAN /\ early \in BOOLEAN
    OBVIOUS
  <2>4. bootPc \in {"main", "svc", "stuck", "running", "halted"}
    OBVIOUS
  <2> QED BY <1>1, <2>1, <2>2, <2>3, <2>4 DEF TypeOK
<1>3. sp = [s \in Slot |-> IF s < created THEN s ELSE NoTask]
  <2>1. \A s \in Slot : ~(s < created)
    BY SlotFacts DEF Slot, Idle
  <2> QED BY <2>1
<1>4. MainInv
  BY <1>3 DEF MainInv, AtRest
<1> QED BY <1>2, <1>4 DEF BootInv

\* main, until it comes to the svc.
LEMMA MainBoot ==
  ASSUME BootInv, main \/ TickIgnored
  PROVE  BootInv'
<1>0. TypeOK /\ MachineTypeOK
  BY DEF BootInv, TypeOK
<1>1. CASE SystickInit
  <2>1. UNCHANGED <<kernelVars, bootPc, created, early, stale>> /\ systick' /\ bootPc = "main"
    BY <1>1 DEF SystickInit
  <2>2. MachineTypeOK'
    BY <1>0, <2>1 DEF MachineTypeOK, kernelVars, irqVars, svVars, tickVars, sleepVars
  <2>3. MainInv'
    BY <2>1 DEF BootInv, MainInv, AtRest, kernelVars, irqVars, svVars, tickVars, sleepVars
  <2> QED BY <1>0, <1>1, <2>1, <2>2, <2>3 DEF BootInv, TypeOK, SystickInit, kernelVars
<1>2. CASE CreateTask
  <2>0. bootPc = "main" /\ bootPc' = "main" /\ MainInv /\ created \in Task
    BY <1>0, <1>2, SlotFacts DEF CreateTask, BootInv, TypeOK, Task
  <2>1. /\ tstate' = [tstate EXCEPT ![created] = "READY"]
        /\ sp' = [sp EXCEPT ![created] = created]
        /\ wake' = [wake EXCEPT ![created] = 0] /\ created' = created + 1
        /\ UNCHANGED <<current, psp, pendsv, pc, dispatched, irqVars, svVars, tickVars,
                       asked, elapsed, stale, systick, early>>
    BY <1>2 DEF CreateTask, BuildStack
  <2>2. \A s \in Slot : s < created + 1 <=> s < created \/ s = created
    BY <2>0, SlotFacts DEF Slot
  <2>3. /\ sp' = [s \in Slot |-> IF s < created' THEN s ELSE NoTask]
        /\ tstate' = [s \in Slot |-> "READY"] /\ wake' = [t \in Task |-> 0]
    BY <2>0, <2>1, <2>2, SlotFacts DEF MainInv, AtRest
  <2>4. MainInv'
    BY <2>0, <2>1, <2>3 DEF MainInv, AtRest, irqVars, svVars, tickVars
  <2>5. MachineTypeOK'
    <3>1. sp' \in [Slot -> Slot \cup {NoTask}] /\ tstate' \in [Slot -> TaskState]
          /\ wake' \in [Task -> Tick]
      BY <2>3, TickFacts DEF TaskState
    <3> QED BY <1>0, <2>1, <3>1 DEF MachineTypeOK, irqVars, svVars, tickVars
  <2>6. created' \in 0 .. NumTasks
    BY <2>0, <2>1, SlotFacts DEF Task
  <2> QED BY <1>0, <2>0, <2>1, <2>4, <2>5, <2>6 DEF BootInv, TypeOK
<1>3. CASE KernelStart
  <2>0. bootPc = "main" /\ MainInv
    BY <1>3 DEF KernelStart, BootInv
  <2>1. UNCHANGED <<current, psp, pendsv, pc, dispatched, irqVars, svVars, tickVars,
                    sleepVars, created, systick, early, stale>>
    BY <1>3 DEF KernelStart
  <2>2. CASE created = 0
    <3>1. bootPc' = "stuck" /\ UNCHANGED <<sp, tstate>>
      BY <1>3, <2>2 DEF KernelStart
    <3>2. MainInv' /\ MachineTypeOK'
      BY <1>0, <2>0, <2>1, <3>1
      DEF MainInv, AtRest, MachineTypeOK, irqVars, svVars, tickVars, sleepVars
    <3> QED BY <1>0, <2>1, <3>1, <3>2 DEF BootInv, TypeOK
  <2>3. CASE created # 0
    <3>1. /\ created = NumTasks /\ bootPc' = "svc"
          /\ sp' = [sp EXCEPT ![Idle] = Idle] /\ tstate' = [tstate EXCEPT ![Idle] = "IDLE"]
      BY <1>3, <2>3 DEF KernelStart, InitIdle, BuildStack
    <3>2. /\ sp' = [s \in Slot |-> s]
          /\ tstate' = [s \in Slot |-> IF s = Idle THEN "IDLE" ELSE "READY"]
      BY <2>0, <3>1, SlotFacts DEF MainInv, Slot
    <3>3. FreshInv'
      BY <2>0, <2>1, <3>2 DEF FreshInv, MainInv, AtRest, irqVars, svVars, tickVars, sleepVars
    <3>4. MachineTypeOK'
      <4>1. sp' \in [Slot -> Slot \cup {NoTask}] /\ tstate' \in [Slot -> TaskState]
        BY <3>2 DEF TaskState
      <4> QED BY <1>0, <2>1, <4>1 DEF MachineTypeOK, irqVars, svVars, tickVars, sleepVars
    <3>5. CoreInv(Settled, {0})'
      <4>1. ContextInv({0})'
        BY <3>3, SlotFacts DEF FreshInv, AtRest, ContextInv, Leads
      <4>2. CriticalInv'
        BY <3>3 DEF FreshInv, AtRest, CriticalInv, CriticalIsExclusive
      <4>3. SchedInv(Settled)' /\ AwayInv(Settled)'
        BY <3>3, SlotFacts DEF FreshInv, AtRest, SchedInv, AwayInv
      <4>4. (pc = [t \in Task |-> pc[t]])'
        BY <3>3 DEF FreshInv, AtRest
      <4> QED BY <3>4, <4>1, <4>2, <4>3, <4>4 DEF CoreInv
    <3>6. SvcInv'
      BY <3>2, <3>3, <3>5 DEF SvcInv, Leads, FreshInv, AtRest
    <3> QED BY <1>0, <2>1, <3>1, <3>4, <3>6 DEF BootInv, TypeOK
  <2> QED BY <2>2, <2>3
<1>4. CASE TickIgnored
  <2>1. /\ UNCHANGED <<tstate, sp, current, psp, pendsv, pc, dispatched, irqVars, svVars,
                       tickPc, tickIdx, sleepVars, bootVars, stale>>
        /\ bootPc \in {"main", "stuck"} /\ ticks' \in Tick
    BY <1>0, <1>4, TickFacts DEF TickIgnored, MachineTypeOK
  <2>2. MachineTypeOK' /\ MainInv'
    BY <1>0, <2>1 DEF MachineTypeOK, BootInv, MainInv, AtRest, bootVars, irqVars, svVars,
       sleepVars
  <2> QED BY <1>0, <2>1, <2>2 DEF BootInv, TypeOK, bootVars
<1> QED BY <1>1, <1>2, <1>3, <1>4 DEF main

\* PendSV's return to main leaves the saved pointer where it is.
LEMMA EarlyRestoreBoot ==
  ASSUME BootInv, EarlyRestore
  PROVE  SvcInv'
<1> USE DEF EarlyRestore
<1>0. /\ CoreInv(Settled, {0}) /\ MachineTypeOK /\ svPc # "inactive"
      /\ \A s \in Slot : Leads(s, sp[s], {0})
      /\ early
  BY DEF BootInv, SvcInv, FreshInv, AtRest, CoreInv
<1>1. psp' = sp[current] /\ Leads(current, psp', {0}) /\ current \in Slot
  BY <1>0 DEF StackPointer, MachineTypeOK
<1>2. MachineTypeOK'
  <2>1. start' \in Task /\ offset' \in 0 .. NumTasks /\ best' \in Slot
    BY SlotFacts
  <2>2. found' \in BOOLEAN
    OBVIOUS
  <2> QED BY <1>0, <2>1, <2>2 DEF MachineTypeOK, irqVars, tickVars, sleepVars
<1>3. ContextInv({0})'
  <2>1. psp' \in Slot \/ psp' = NoTask
    BY <1>1 DEF Leads
  <2> QED BY <1>0, <1>1, <2>1 DEF ContextInv, Leads
<1>4. CriticalInv'
  BY <1>0 DEF CoreInv, CriticalInv, CriticalIsExclusive, ThreadMode, irqVars, tickVars
<1>5. SchedInv(Settled)'
  <2>1. psp' # NoTask => psp' = current
    BY <1>1 DEF Leads
  <2> QED BY <1>0, <2>1 DEF CoreInv, SchedInv, Pending, RightChoice, tickVars
<1>6. AwayInv(Settled)' /\ (pc = [t \in Task |-> pc[t]])'
  BY <1>0 DEF CoreInv, AwayInv
<1>7. CoreInv(Settled, {0})'
  BY <1>2, <1>3, <1>4, <1>5, <1>6 DEF CoreInv
<1> QED BY <1>0, <1>1, <1>7 DEF SvcInv, Leads, bootVars

\* A tick and a switch before the svc.
LEMMA SvcHandlers ==
  ASSUME BootInv, At("svc", TickStep) \/ EarlySave \/ EarlySelect
  PROVE  SvcInv'
<1>0. /\ SvcInv /\ CoreInv(Settled, {0}) /\ MachineTypeOK
      /\ \A s \in Slot : Leads(s, sp[s], {0})
  BY DEF BootInv, SvcInv, At, EarlySave, EarlySelect, CoreInv
<1>1. CASE At("svc", TickStep)
  <2>1. TickStep /\ UNCHANGED early
    BY <1>1 DEF At, bootVars
  <2>2. CoreInv(Settled, {0})'
    BY <1>0, <2>1, TickCore
  <2>3. UNCHANGED <<sp, current, psp, dispatched, svPc>>
    BY <2>1 DEF TickStep, TickEnter, TickScan, TickExit, svVars
  <2>4. ASSUME FreshInv PROVE FreshInv'
    <3>1. \A s \in Slot : tstate[s] # "BLOCKED"
      BY <2>4 DEF FreshInv
    <3>2. tickIdx < NumTasks /\ tickPc = "scan" => tickIdx \in Slot
      BY <1>0, SlotFacts DEF MachineTypeOK, Task
    <3>3. UNCHANGED <<tstate, elapsed, asked>>
      BY <1>0, <2>1, <2>4, <3>1, <3>2, SlotFacts
      DEF TickStep, TickEnter, TickScan, TickExit, sleepVars, FreshInv, AtRest
    <3>4. UNCHANGED <<wake, irqVars, svVars, pc>> /\ (tickPc' = "inactive" => tickIdx' = 0)
      BY <2>1 DEF TickStep, TickEnter, TickScan, TickExit, sleepVars
    <3> QED BY <2>3, <2>4, <3>3, <3>4 DEF FreshInv, AtRest, irqVars, svVars
  <2> QED BY <1>0, <2>1, <2>2, <2>3, <2>4 DEF SvcInv, Leads
<1>2. CASE EarlySave
  <2>1. SwitchEnter /\ early'
    BY <1>2 DEF EarlySave
  <2>2. CoreInv(Settled, {0})'
    BY <1>0, <2>1, SwitchCore DEF SwitchStep
  <2>3. svPc' # "inactive"
    BY <2>1 DEF SwitchEnter
  <2> QED BY <2>1, <2>2, <2>3 DEF SvcInv, CoreInv, ContextInv
<1>3. CASE EarlySelect
  <2>1. SelectBegin \/ SelectScan \/ SelectCommit
    BY <1>3 DEF EarlySelect, At
  <2>2. CoreInv(Settled, {0})'
    BY <1>0, <2>1, SwitchCore DEF SwitchStep
  <2>3. svPc # "inactive" /\ svPc' # "inactive" /\ early' = early
    BY <1>3 DEF EarlySelect, At, SelectBegin, SelectScan, SelectCommit, bootVars
  <2>4. early
    BY <1>0, <2>3 DEF SvcInv, FreshInv, AtRest
  <2> QED BY <2>2, <2>3, <2>4 DEF SvcInv, CoreInv, ContextInv
<1> QED BY <1>1, <1>2, <1>3

\* The svc turns to task 0, or to the task an early switch has chosen.
LEMMA SvcCore ==
  ASSUME BootInv, Svc
  PROVE  CoreInv(Settled, {0})' /\ (~early => CoreInv(Settled, {})')
<1> USE DEF Svc
<1>0. /\ SvcInv /\ CoreInv(Settled, {0}) /\ MachineTypeOK /\ current \in Slot
      /\ \A s \in Slot : Leads(s, sp[s], {0})
      /\ svPc = "inactive" /\ ThreadMode
  BY DEF BootInv, SvcInv, CoreInv, MachineTypeOK, ThreadMode
<1>1. psp' = sp[current] /\ sp' = [sp EXCEPT ![current] = NoTask] /\ svPc' = "inactive"
  BY <1>0 DEF StackPointer, svVars
<1>2. MachineTypeOK'
  BY <1>0, <1>1 DEF MachineTypeOK, irqVars, svVars, tickVars, sleepVars
<1>3. ASSUME NEW L, \A s \in Slot : Leads(s, sp[s], L)
      PROVE  CoreInv(Settled, L)'
  <2>1. ContextInv(L)'
    <3>1. psp' \in Slot \/ (L # {} /\ psp' = NoTask)
      BY <1>0, <1>1, <1>3 DEF Leads
    <3>2. \A s \in Slot \ {current} : Leads(s, sp'[s], L)
      BY <1>0, <1>1, <1>3 DEF MachineTypeOK
    <3>3. Leads(current, psp', L)
      BY <1>0, <1>1, <1>3
    <3> QED BY <1>1, <3>1, <3>2, <3>3 DEF ContextInv, Leads
  <2>2. CriticalInv'
    BY <1>0 DEF CoreInv, CriticalInv, CriticalIsExclusive, ThreadMode, irqVars, tickVars, svVars
  <2>3. SchedInv(Settled)'
    <3>1. dispatched => psp' = psp
      BY <1>0, <1>1 DEF SvcInv
    <3> QED
      BY <1>0, <3>1
      DEF CoreInv, SchedInv, Pending, RightChoice, ScanInv, ScanIndex, tickVars, svVars
  <2>4. AwayInv(Settled)' /\ (pc = [t \in Task |-> pc[t]])'
    BY <1>0 DEF CoreInv, AwayInv, svVars
  <2> QED BY <1>2, <2>1, <2>2, <2>3, <2>4 DEF CoreInv
<1>4. CoreInv(Settled, {0})'
  BY <1>0, <1>3
<1>5. ASSUME ~early
      PROVE  CoreInv(Settled, {})'
  <2>1. \A s \in Slot : Leads(s, sp[s], {})
    BY <1>0, <1>5 DEF SvcInv, FreshInv, Leads
  <2> QED BY <1>3, <2>1
<1> QED BY <1>4, <1>5

\* The steps that are not main's keep Boot's types.
LEMMA BootTypes ==
  ASSUME TypeOK, MachineTypeOK', psp' \in Slot \cup {NoTask}, UNCHANGED <<created, systick, stale>>,
         bootPc' \in {"svc", "running", "halted"}, early' \in BOOLEAN, UNCHANGED pc
  PROVE  TypeOK'
BY DEF TypeOK

LEMMA SvcBoot ==
  ASSUME BootInv, At("svc", TickStep) \/ EarlySave \/ EarlySelect \/ EarlyRestore \/ Svc
  PROVE  BootInv'
<1>0. TypeOK
  BY DEF BootInv
<1>1. CASE At("svc", TickStep) \/ EarlySave \/ EarlySelect \/ EarlyRestore
  <2>1. SvcInv'
    BY <1>1, SvcHandlers, EarlyRestoreBoot
  <2>2. /\ UNCHANGED <<pc, created, systick, stale>> /\ bootPc' = "svc"
        /\ early' \in BOOLEAN
    BY <1>0, <1>1 DEF At, EarlySave, EarlySelect, EarlyRestore, bootVars, TypeOK, TickStep,
       TickEnter, TickScan, TickExit, SwitchEnter, SelectBegin, SelectScan, SelectCommit
  <2>3. MachineTypeOK' /\ psp' \in Slot \cup {NoTask}
    BY <2>1 DEF SvcInv, CoreInv, ContextInv
  <2>4. TypeOK'
    BY <1>0, <2>2, <2>3, BootTypes
  <2> QED BY <2>1, <2>2, <2>4 DEF BootInv
<1>2. CASE Svc
  <2>1. CoreInv(Settled, {0})' /\ (~early => CoreInv(Settled, {})')
    BY <1>2, SvcCore
  <2>2. /\ UNCHANGED <<pc, created, systick, stale, early>> /\ bootPc' = "running"
        /\ early' \in BOOLEAN
    BY <1>0, <1>2 DEF Svc, TypeOK
  <2>3. MachineTypeOK' /\ psp' \in Slot \cup {NoTask}
    BY <2>1 DEF CoreInv, ContextInv
  <2>4. TypeOK'
    BY <1>0, <2>2, <2>3, BootTypes
  <2> QED BY <2>1, <2>2, <2>4 DEF BootInv
<1> QED BY <1>1, <1>2

\* A HardFault needs an early switch.
LEMMA HaltBoot ==
  ASSUME BootInv, EarlyFault \/ StrayReturn
  PROVE  BootInv'
<1>0. TypeOK /\ MachineTypeOK
  BY DEF BootInv, TypeOK
<1>1. Halt
  BY DEF EarlyFault, StrayReturn
<1>2. early'
  <2>1. CASE EarlyFault
    BY <2>1 DEF EarlyFault
  <2>2. CASE StrayReturn
    <3>1. bootPc = "running" /\ psp = NoTask /\ early' = early
      BY <2>2 DEF StrayReturn
    <3>2. ~CoreInv(Settled, {})
      BY <3>1, SlotFacts DEF CoreInv, ContextInv
    <3> QED BY <1>0, <3>1, <3>2 DEF BootInv, TypeOK
  <2> QED BY <2>1, <2>2
<1>3. MachineTypeOK'
  BY <1>0, <1>1 DEF Halt, MachineTypeOK, svVars, tickVars, sleepVars
<1>4. /\ UNCHANGED <<pc, psp, created, systick, stale>> /\ bootPc' = "halted"
      /\ psp' \in Slot \cup {NoTask} /\ early' \in BOOLEAN
  BY <1>0, <1>1 DEF Halt, TypeOK, EarlyFault, StrayReturn
<1> QED BY <1>0, <1>2, <1>3, <1>4, BootTypes DEF BootInv

-----------------------------------------------------------------------------
(* The running kernel *)

LEMMA RunBoot ==
  ASSUME BootInv, KernelRuns(KernelNext) \/ Running(ToggleStep)
  PROVE  BootInv'
<1>0. /\ TypeOK /\ CoreInv(Settled, {0}) /\ (~early => CoreInv(Settled, {}))
      /\ KernelNext \/ ToggleStep
      /\ bootPc = "running" /\ UNCHANGED <<bootPc, created, systick, early>>
  BY DEF BootInv, KernelRuns, Running, bootVars
<1>1. CoreInv(Settled, {0})' /\ (~early => CoreInv(Settled, {})')
  BY <1>0, BootCore
<1>2. pc' \in [Task -> KernelLabels \cup {"toggle"}]
  <2>1. CASE KernelNext
    BY <1>0, <2>1, KernelMoves DEF TypeOK
  <2>2. ASSUME NEW t \in Task, ToggleRead(t) \/ ToggleWrite(t)
        PROVE  pc' \in [Task -> KernelLabels \cup {"toggle"}]
    BY <1>0, <2>2 DEF TypeOK, ToggleRead, ToggleWrite, AccessAt, StepAt, KernelLabels
  <2> QED BY <1>0, <2>1, <2>2 DEF ToggleStep
<1>3. stale' \in [Task -> SUBSET Task]
  <2>1. ASSUME UNCHANGED stale PROVE stale' \in [Task -> SUBSET Task]
    BY <1>0, <2>1 DEF TypeOK
  <2>2. ASSUME NEW t \in Task, ToggleWrite(t)
        PROVE  stale' \in [Task -> SUBSET Task]
    BY <1>0, <2>2 DEF TypeOK, ToggleWrite, Changes, SymDiff
  <2> QED BY <2>1, <2>2 DEF KernelRuns, Running, ToggleStep, ToggleRead
<1>4. MachineTypeOK' /\ psp' \in Slot \cup {NoTask}
  BY <1>1 DEF CoreInv, ContextInv
<1> QED BY <1>0, <1>1, <1>2, <1>3, <1>4 DEF BootInv, TypeOK

(***************************************************************************)
(* The inductive invariant of Boot, by phases.                             *)
(***************************************************************************)
THEOREM BootInvariant == Spec => []BootInv
<1>1. BootInv /\ [Next]_vars => BootInv'
  <2>1. ASSUME BootInv, UNCHANGED vars
        PROVE  BootInv'
    <3>1. UNCHANGED <<kernelVars, bootPc, created, systick, early, stale>>
      BY <2>1 DEF vars, bootVars
    <3>2. \A L : CoreInv(Settled, L) => CoreInv(Settled, L)'
      BY <3>1, StutterCore
    <3>3. MachineTypeOK'
      BY <2>1, <3>1 DEF BootInv, TypeOK, MachineTypeOK, kernelVars, irqVars, svVars, tickVars,
         sleepVars
    <3>4. UNCHANGED <<tstate, wake, sp, current, nesting, savedmask, primask, pendsv, psp, svPc,
                      start, offset, best, found, tickPc, tickIdx, pc, asked, elapsed,
                      dispatched>>
      BY <3>1 DEF kernelVars, irqVars, svVars, tickVars, sleepVars
    <3>5. MainInv => MainInv'
      BY <3>1, <3>4 DEF MainInv, AtRest
    <3>6. SvcInv => SvcInv'
      BY <3>1, <3>2, <3>4 DEF SvcInv, FreshInv, AtRest, Leads
    <3>7. TypeOK'
      BY <2>1, <3>1, <3>3, <3>4 DEF BootInv, TypeOK
    <3> QED BY <2>1, <3>1, <3>2, <3>5, <3>6, <3>7 DEF BootInv
  <2> QED BY <2>1, MainBoot, SvcBoot, HaltBoot, RunBoot DEF Next
<1> QED BY <1>1, InitBoot, PTL DEF Spec

(***************************************************************************)
(* Type correctness from the reset on.                                     *)
(***************************************************************************)
THEOREM BootTypeSafe == Spec => []TypeOK
<1>1. BootInv => TypeOK
  BY DEF BootInv
<1> QED BY <1>1, BootInvariant, PTL

(***************************************************************************)
(* Whenever ticks and switches come before the svc, the one context they   *)
(* can destroy is task 0's, and without them nothing ever faults.          *)
(***************************************************************************)
THEOREM BootLosesOnlyTaskZero == Spec => []OnlyTaskZeroIsLost
<1>1. BootInv => OnlyTaskZeroIsLost
  BY DEF BootInv, CoreInv, ContextInv, Leads, OnlyTaskZeroIsLost, TypeOK
<1> QED BY <1>1, BootInvariant, PTL

(***************************************************************************)
(* Without a switch before the svc, the svc leaves what KernelInit says,   *)
(* but for the ticks already counted.                                      *)
(***************************************************************************)
THEOREM BootStartsKernel == Spec => StartsAsModelled
<1>1. BootInv /\ [Next]_vars
        => [bootPc = "svc" /\ bootPc' = "running" /\ ~early => FromHere!KernelInit']_vars
  <2> SUFFICES ASSUME BootInv, Next, bootPc = "svc", bootPc' = "running", ~early
               PROVE  FromHere!KernelInit'
    OBVIOUS
  <2>1. Svc
    BY DEF Next, main, SystickInit, CreateTask, KernelStart, TickIgnored, At, EarlySave,
       EarlySelect, EarlyRestore, EarlyFault, StrayReturn, Halt, KernelRuns, Running, bootVars
  <2>2. FreshInv /\ tickPc = "inactive" /\ ~pendsv /\ pendsv \in BOOLEAN
    BY <2>1 DEF BootInv, SvcInv, Svc, ThreadMode, TypeOK, MachineTypeOK
  <2>3. psp' = 0 /\ sp' = [s \in Slot |-> IF s = 0 THEN NoTask ELSE s]
    BY <2>1, <2>2, SlotFacts DEF Svc, StackPointer, FreshInv, AtRest
  <2>4. UNCHANGED <<tstate, current, pendsv, pc, dispatched, irqVars, svVars, tickVars, sleepVars>>
    BY <2>1 DEF Svc
  <2>5. /\ FromHere!Task = Task /\ FromHere!Slot = Slot
        /\ FromHere!NoTask = NoTask /\ FromHere!Idle = Idle
    BY DEF FromHere!Task, FromHere!Slot, FromHere!NoTask, FromHere!Idle, Task, Slot, NoTask, Idle
  <2> QED
    BY <2>2, <2>3, <2>4, <2>5
    DEF FromHere!KernelInit, FreshInv, AtRest, irqVars, svVars, tickVars, sleepVars
<1> QED BY <1>1, BootInvariant, PTL DEF Spec, StartsAsModelled

-----------------------------------------------------------------------------
(* Toggles of LEDs that other toggles interrupt *)

\* A task in the middle of its toggle is ready, or has a critical section open
\* that holds off the switch it has asked for.  While one is open no task of
\* higher priority is in the middle of its toggle; until the scheduler has run
\* none but task 0 can be.
ToggleInv ==
  /\ \A t \in Task : pc[t] = "toggle" /\ tstate[t] # "READY" => psp = t /\ nesting > 0
  /\ nesting > 0 => /\ psp \in Task
                    /\ \A t \in Task : pc[t] = "toggle" => Priority[t] <= Priority[psp]
  /\ ~dispatched => current = 0 /\ \A t \in Task \ {0} : pc[t] = "user"
  /\ bootPc \in {"main", "stuck", "svc"} => nesting = 0

\* Handlers leave a task in the middle of its toggle where it is.
LEMMA ToggleHandler ==
  ASSUME CoreInv(Settled, {0}), ToggleInv, HandlerStep, UNCHANGED bootVars
  PROVE  ToggleInv'
<1>1. UNCHANGED <<pc, nesting>> /\ (svPc = "inactive" => psp' = psp)
  BY HandlerMoves DEF irqVars
<1>2. nesting > 0 => svPc = "inactive"
  BY DEF CoreInv, CriticalInv, CriticalIsExclusive, ThreadMode
<1>3. \A t \in Task : tstate'[t] # "READY" => tstate[t] # "READY"
  BY HandlerWakes, SlotFacts DEF CoreInv
<1>4. ~dispatched' => ~dispatched /\ current' = current
  BY DEF HandlerStep, TickStep, TickEnter, TickScan, TickExit, SwitchStep, SwitchEnter,
     SelectBegin, SelectScan, SelectCommit, SwitchExit
<1> QED BY <1>1, <1>2, <1>3, <1>4 DEF ToggleInv, bootVars

\* Whoever is in the middle of its toggle while t runs is not above t.
LEMMA ToggleBeneath ==
  ASSUME CoreInv(Settled, {0}), ToggleInv, NEW t \in Task, NEW from \in Settled, NEW to,
         StepAt(t, from, to), NEW u \in Task, pc[u] = "toggle"
  PROVE  Priority[u] <= Priority[t]
<1>0. /\ psp = t /\ current = t /\ pc[t] = from /\ ThreadMode /\ nesting \in Nat
      /\ Priority[t] \in Nat /\ (nesting > 0 <=> primask)
  BY CurrentRuns, PriorityAssumption
  DEF StepAt, CoreInv, MachineTypeOK, CriticalInv, CriticalIsExclusive
<1>1. CASE nesting > 0
  BY <1>0, <1>1 DEF ToggleInv
<1>2. CASE nesting = 0 /\ u # t
  <2>1. ~Pending /\ svPc = "inactive" /\ psp # NoTask
    BY <1>0, <1>2, SlotFacts DEF StepAt, Pending, ThreadMode
  <2>2. tstate[u] = "READY"
    BY <1>0, <1>2 DEF ToggleInv
  <2>3. dispatched
    BY <1>0, <1>2 DEF ToggleInv
  <2>4. RightChoice(t)
    BY <1>0, <2>1, <2>3 DEF CoreInv, SchedInv
  <2> QED BY <2>2, <2>4 DEF RightChoice
<1>3. CASE u = t
  BY <1>0, <1>3
<1> QED BY <1>0, <1>1, <1>2, <1>3

LEMMA ToggleThread ==
  ASSUME CoreInv(Settled, {0}), ToggleInv, NEW t \in Task, NEW from, NEW to,
         StepAt(t, from, to), UNCHANGED bootVars, bootPc = "running",
         \A u \in Task \ {t} : tstate'[u] = tstate[u],
         \/ nesting' = nesting
         \/ nesting' \in Nat /\ nesting' < nesting
         \/ from \in Settled,
         to = "toggle" => from = "user" /\ UNCHANGED <<tstate, nesting>>
  PROVE  ToggleInv'
<1>0. /\ psp = t /\ psp' = t /\ current = t /\ pc[t] = from /\ nesting \in Nat
      /\ current' = current /\ dispatched' = dispatched
      /\ pc' = [pc EXCEPT ![t] = to] /\ pc'[t] = to /\ \A u \in Task \ {t} : pc'[u] = pc[u]
      /\ (nesting > 0 <=> primask) /\ Priority[t] \in Nat
  BY CurrentRuns, PriorityAssumption
  DEF StepAt, CoreInv, MachineTypeOK, CriticalInv, CriticalIsExclusive
<1>1. ASSUME NEW u \in Task, pc'[u] = "toggle", tstate'[u] # "READY"
      PROVE  psp' = u /\ nesting' > 0
  <2>1. CASE u # t
    BY <1>0, <1>1, <2>1 DEF ToggleInv
  <2>2. CASE u = t
    <3>1. to = "toggle" /\ from = "user" /\ tstate[t] # "READY" /\ nesting' = nesting
      BY <1>0, <1>1, <2>2
    <3>2. primask
      BY <3>1, RunnerIsReady DEF Settled
    <3> QED BY <1>0, <2>2, <3>1, <3>2
  <2> QED BY <2>1, <2>2
<1>2. ASSUME nesting' > 0
      PROVE  psp' \in Task /\ \A u \in Task : pc'[u] = "toggle" => Priority[u] <= Priority[psp']
  <2>1. ASSUME NEW u \in Task \ {t}, pc[u] = "toggle"
        PROVE  Priority[u] <= Priority[t]
    <3>1. CASE from \in Settled
      BY <2>1, <3>1, ToggleBeneath
    <3>2. CASE from \notin Settled
      <4>1. nesting > 0
        BY <1>0, <1>2, <3>2
      <4> QED BY <1>0, <2>1, <4>1 DEF ToggleInv
    <3> QED BY <3>1, <3>2
  <2> QED BY <1>0, <2>1
<1>3. ASSUME ~dispatched'
      PROVE  current' = 0 /\ \A u \in Task \ {0} : pc'[u] = "user"
  BY <1>0, <1>3 DEF ToggleInv
<1> QED BY <1>1, <1>2, <1>3 DEF ToggleInv, bootVars

\* Every step of the running kernel.
LEMMA ToggleRun ==
  ASSUME CoreInv(Settled, {0}), ToggleInv, KernelNext \/ ToggleStep,
         UNCHANGED bootVars, bootPc = "running"
  PROVE  ToggleInv'
<1>0. nesting \in Nat /\ tstate \in [Slot -> TaskState]
  BY DEF CoreInv, MachineTypeOK
<1>1. CASE HandlerStep
  BY <1>1, ToggleHandler
<1>2. ASSUME NEW t \in Task, ThreadStep(t)
      PROVE  ToggleInv'
  <2>0. tstate' = tstate \/ tstate' = [tstate EXCEPT ![t] = "BLOCKED"]
    BY <1>2, CallMoves
  <2>1. \A u \in Task \ {t} : tstate'[u] = tstate[u]
    BY <1>0, <2>0, SlotFacts
  <2>2. CASE SleepEnter(t) \/ UserEnter(t)
    BY <2>1, <2>2, ToggleThread DEF SleepEnter, UserEnter, EnterAt, Settled
  <2>3. CASE SleepExit(t) \/ UserExit(t)
    <3>1. nesting' = nesting \/ (nesting' \in Nat /\ nesting' < nesting)
      BY <1>0, <2>3 DEF SleepExit, UserExit, ExitAt, ExitCritical, irqVars
    <3>2. StepAt(t, "sleep_exit", "sleep_yield") \/ StepAt(t, "user", "user")
      BY <2>3 DEF SleepExit, UserExit, ExitAt
    <3> QED BY <2>1, <3>1, <3>2, ToggleThread
  <2>4. CASE SleepBlock(t) \/ SleepYield(t) \/ UserYield(t)
    <3>1. nesting' = nesting
      BY <2>4 DEF SleepBlock, SleepYield, UserYield, YieldAt, irqVars
    <3>2. PICK from, to \in KernelLabels : StepAt(t, from, to)
      BY <2>4 DEF SleepBlock, SleepYield, UserYield, YieldAt, KernelLabels
    <3>3. to # "toggle"
      BY <3>2 DEF KernelLabels
    <3> QED BY <2>1, <3>1, <3>2, <3>3, ToggleThread
  <2> QED BY <1>2, <2>2, <2>3, <2>4 DEF ThreadStep, SleepStep
<1>3. ASSUME NEW t \in Task, ToggleRead(t) \/ ToggleWrite(t)
      PROVE  ToggleInv'
  <2>1. UNCHANGED <<tstate, nesting>>
    BY <1>3 DEF ToggleRead, ToggleWrite, AccessAt, irqVars
  <2>2. StepAt(t, "user", "toggle") \/ StepAt(t, "toggle", "user")
    BY <1>3 DEF ToggleRead, ToggleWrite, AccessAt
  <2> QED BY <2>1, <2>2, ToggleThread
<1> QED BY <1>1, <1>2, <1>3 DEF KernelNext, ToggleStep

LEMMA ToggleNext ==
  ASSUME BootInv, ToggleInv, [Next]_vars
  PROVE  ToggleInv'
<1>1. CASE main \/ TickIgnored
  <2>1. /\ UNCHANGED <<pc, nesting, dispatched, current>> /\ nesting = 0
        /\ \A t \in Task : pc[t] = "user"
    BY <1>1 DEF main, SystickInit, CreateTask, KernelStart, TickIgnored, BootInv, MainInv,
       AtRest, kernelVars, irqVars
  <2> QED BY <2>1 DEF ToggleInv
<1>2. CASE At("svc", TickStep) \/ EarlySave \/ EarlySelect
  <2>1. CoreInv(Settled, {0})
    BY <1>2 DEF At, EarlySave, EarlySelect, BootInv, SvcInv
  <2>2. HandlerStep /\ UNCHANGED <<bootPc>>
    BY <1>2 DEF At, EarlySave, EarlySelect, HandlerStep, SwitchStep, bootVars
  <2>3. UNCHANGED <<pc, nesting>> /\ nesting = 0
    BY <1>2, <2>2, HandlerMoves DEF At, EarlySave, EarlySelect, ToggleInv, irqVars
  <2>4. \A t \in Task : tstate'[t] # "READY" => tstate[t] # "READY"
    BY <2>1, <2>2, HandlerWakes, SlotFacts DEF CoreInv
  <2>5. ~dispatched' => ~dispatched /\ current' = current
    BY <2>2 DEF HandlerStep, TickStep, TickEnter, TickScan, TickExit, SwitchStep, SwitchEnter,
       SelectBegin, SelectScan, SelectCommit, SwitchExit
  <2> QED BY <2>2, <2>3, <2>4, <2>5 DEF ToggleInv
<1>3. CASE EarlyRestore \/ Svc
  <2>1. /\ UNCHANGED <<tstate, pc, nesting, dispatched, current>> /\ nesting = 0
    BY <1>3 DEF EarlyRestore, Svc, ToggleInv, irqVars
  <2> QED BY <2>1 DEF ToggleInv
<1>4. CASE EarlyFault \/ StrayReturn
  <2>1. UNCHANGED <<tstate, pc, nesting, dispatched, current, psp>> /\ bootPc' = "halted"
    BY <1>4 DEF EarlyFault, StrayReturn, Halt
  <2> QED BY <2>1 DEF ToggleInv
<1>5. CASE KernelRuns(KernelNext) \/ Running(ToggleStep)
  <2>1. /\ CoreInv(Settled, {0}) /\ (KernelNext \/ ToggleStep)
        /\ UNCHANGED bootVars /\ bootPc = "running"
    BY <1>5 DEF KernelRuns, Running, BootInv
  <2> QED BY <2>1, ToggleRun
<1>6. CASE UNCHANGED vars
  <2>1. UNCHANGED <<tstate, pc, nesting, dispatched, current, psp, bootPc>>
    BY <1>6 DEF vars, kernelVars, irqVars, bootVars
  <2> QED BY <2>1 DEF ToggleInv
<1> QED BY <1>1, <1>2, <1>3, <1>4, <1>5, <1>6 DEF Next

\* What is out of date in a toggle's copy is the LED of a task its own does
\* not outrank, and not its own where no two tasks have the same priority.
DistinctPriorities == \A t, u \in Task : Priority[t] = Priority[u] => t = u

NoLowerLedIsUndone == \A t \in Task : \A u \in stale[t] : Priority[u] >= Priority[t]

StaleInv ==
  /\ NoLowerLedIsUndone
  /\ DistinctPriorities => \A t \in Task : t \notin stale[t]

LEMMA StaleNext ==
  ASSUME BootInv, ToggleInv, StaleInv, [Next]_vars
  PROVE  StaleInv'
<1>0. stale \in [Task -> SUBSET Task] /\ \A t \in Task : Priority[t] \in Nat
  BY PriorityAssumption DEF BootInv, TypeOK
<1>1. CASE UNCHANGED stale
  BY <1>1 DEF StaleInv, NoLowerLedIsUndone
<1>2. ASSUME NEW t \in Task, bootPc = "running", ToggleWrite(t)
      PROVE  StaleInv'
  <2>1. /\ CoreInv(Settled, {0}) /\ StepAt(t, "toggle", "user")
        /\ stale' = [u \in Task |-> IF pc[u] = "toggle" /\ u # t
                                      THEN SymDiff(stale[u], Changes(t)) ELSE {}]
    BY <1>2 DEF BootInv, ToggleWrite, AccessAt
  <2>2. \A u \in Task : pc[u] = "toggle" => Priority[u] <= Priority[t]
    BY <2>1, ToggleBeneath DEF Settled
  <2>3. ASSUME NEW u \in Task, NEW v \in stale'[u]
        PROVE  /\ u # t /\ pc[u] = "toggle"
               /\ v \in stale[u] \/ v \in stale[t] \/ v = t
    BY <1>0, <2>1, <2>3 DEF Changes, SymDiff
  <2>4. ASSUME NEW u \in Task, NEW v \in stale'[u]
        PROVE  Priority[v] >= Priority[u] /\ (DistinctPriorities => v # u)
    <3>0. u # t /\ Priority[u] <= Priority[t]
      BY <2>2, <2>3, <2>4
    <3>1. CASE v \in stale[u]
      BY <3>1 DEF StaleInv, NoLowerLedIsUndone
    <3>2. CASE v \in stale[t]
      <4>1. v \in Task /\ Priority[v] >= Priority[t]
        BY <1>0, <3>2 DEF StaleInv, NoLowerLedIsUndone
      <4>2. Priority[v] >= Priority[u]
        BY <1>0, <3>0, <4>1
      <4>3. v = u => Priority[u] = Priority[t]
        BY <1>0, <3>0, <4>1
      <4> QED BY <3>0, <4>2, <4>3 DEF DistinctPriorities
    <3>3. CASE v = t
      BY <1>0, <3>0, <3>3
    <3> QED BY <2>3, <2>4, <3>1, <3>2, <3>3
  <2> QED BY <2>4 DEF StaleInv, NoLowerLedIsUndone
<1>3. UNCHANGED stale \/ (bootPc = "running" /\ \E t \in Task : ToggleWrite(t))
  BY DEF Next, main, SystickInit, CreateTask, KernelStart, TickIgnored, At, EarlySave,
     EarlySelect, EarlyRestore, Svc, EarlyFault, StrayReturn, Halt, KernelRuns, Running,
     ToggleStep, ToggleRead, vars
<1> QED BY <1>1, <1>2, <1>3

(***************************************************************************)
(* The inductive invariant of toggles that are preempted.                  *)
(***************************************************************************)
THEOREM ToggleInvariant == Spec => [](ToggleInv /\ StaleInv)
<1>1. Init => ToggleInv /\ StaleInv
  <2>1. Init => ToggleInv
    BY DEF Init, ToggleInv
  <2>2. Init => StaleInv
    BY DEF Init, StaleInv, NoLowerLedIsUndone
  <2> QED BY <2>1, <2>2
<1>2. BootInv /\ ToggleInv /\ StaleInv /\ [Next]_vars => ToggleInv' /\ StaleInv'
  BY ToggleNext, StaleNext
<1> QED BY <1>1, <1>2, BootInvariant, PTL DEF Spec

(***************************************************************************)
(* Whatever the priorities, a toggle that is preempted undoes no toggle of *)
(* a task of lower priority.                                               *)
(***************************************************************************)
THEOREM TogglesUndoUpwards == Spec => []NoLowerLedIsUndone
<1>1. StaleInv => NoLowerLedIsUndone
  BY DEF StaleInv
<1> QED BY <1>1, ToggleInvariant, PTL

(***************************************************************************)
(* Where no two tasks have the same priority it never fails to turn its    *)
(* own LED either.                                                         *)
(***************************************************************************)
THEOREM TogglesTurnTheirOwn ==
  ASSUME DistinctPriorities
  PROVE  Spec => []OnlyHigherLedsAreUndone
<1>1. StaleInv => OnlyHigherLedsAreUndone
  BY DEF StaleInv, NoLowerLedIsUndone, OnlyHigherLedsAreUndone
<1> QED BY <1>1, ToggleInvariant, PTL

=============================================================================
