---------------------------- MODULE KernelProofs ----------------------------
(***************************************************************************)
(* Proofs about the Kernel machine, for every number of tasks, every       *)
(* assignment of priorities and every width of the tick counter.           *)
(*                                                                         *)
(* CoreInv is the inductive invariant.  It is stated over the machine's    *)
(* fragments (a handler step, a thread-mode step built from StepAt, a      *)
(* device interrupt), so that the modules that extend Kernel inherit it.   *)
(***************************************************************************)
EXTENDS Kernel, TLAPS

-----------------------------------------------------------------------------
(* The inductive invariant *)

\* Every saved pointer but the running context's is in place; inside PendSV
\* all are.  Lost are the tasks whose context a bad start has destroyed: none
\* once the kernel has come up as it should.
Leads(s, p, Lost) == p = s \/ (s \in Lost /\ p = NoTask)

ContextInv(Lost) ==
  /\ psp \in Slot \/ (Lost # {} /\ psp = NoTask)
  /\ svPc = "inactive" => Leads(current, psp, Lost)
  /\ \A s \in Slot \ {current} : Leads(s, sp[s], Lost)
  /\ svPc # "inactive" => \A s \in Slot : Leads(s, sp[s], Lost)

\* The outermost section was entered with interrupts enabled.
CriticalInv == CriticalIsExclusive /\ savedmask = FALSE

\* A switch is requested, or a tick is on its way to requesting one.
Pending == pendsv \/ tickPc = "scan"

\* Slot s is the right one to run: a ready task no ready task outranks, or
\* Idle when there is none.
RightChoice(s) ==
  /\ s \in Task => tstate[s] = "READY"
  /\ \A t \in Task : tstate[t] = "READY" => s \in Task /\ Priority[t] <= Priority[s]

\* What the scan has seen so far: best is the best of it.
ScanInv ==
  /\ IF found THEN best \in Task /\ tstate[best] = "READY" ELSE best = Idle
  /\ \A o \in 0 .. offset - 1 :
       tstate[ScanIndex(o)] = "READY"
         => found /\ Priority[ScanIndex(o)] <= Priority[best]

\* Nothing has made a task ready since the scan began unless a switch is
\* Pending.  Settled are the labels of code that owes no switch request.
SchedInv(Settled) ==
  /\ svPc = "select" /\ ~Pending => ScanInv
  /\ svPc = "restore" /\ ~Pending => RightChoice(current)
  /\ /\ svPc = "inactive" /\ dispatched /\ ~Pending /\ psp # NoTask
     /\ psp \in Task => pc[psp] \in Settled
     => RightChoice(psp)

\* A task that is not ready runs on, if at all, only up to the switch it owes:
\* where it owes none the switch is requested, under way, or past.
AwayInv(Settled) ==
  /\ svPc = "restore" => dispatched
  /\ \A t \in Task : pc[t] \in Settled /\ tstate[t] # "READY"
                      => dispatched \/ pendsv \/ svPc # "inactive"

CoreInv(Settled, Lost) ==
  /\ MachineTypeOK
  /\ pc = [t \in Task |-> pc[t]]
  /\ ContextInv(Lost)
  /\ CriticalInv
  /\ SchedInv(Settled)
  /\ AwayInv(Settled)

-----------------------------------------------------------------------------
(* Facts about the slots *)

\* Idle and NoTask are not tasks, and task 0 exists.
LEMMA SlotFacts ==
  /\ MaxTasks \in Nat /\ NumTasks \in Nat \ {0} /\ NumTasks <= MaxTasks
  /\ Task \subseteq Nat /\ Task \subseteq Slot /\ 0 \in Task /\ Idle \in Slot
  /\ Idle \notin Task /\ NoTask \notin Slot
  /\ \A t \in Task : t # Idle /\ t < NumTasks
BY NumTasksAssumption DEF Task, Slot, Idle, NoTask

\* Tick arithmetic stays within the counter's width.
LEMMA TickFacts ==
  /\ Tick \subseteq Nat /\ 0 \in Tick
  /\ \A a \in Int : a % TickModulus \in Tick
BY TickAssumption DEF Tick

\* The scan only looks at tasks, and looks at each of them.
LEMMA ScanFacts ==
  ASSUME start \in Task
  PROVE  /\ \A o \in 0 .. NumTasks - 1 : ScanIndex(o) \in Task
         /\ \A t \in Task : \E o \in 0 .. NumTasks - 1 : ScanIndex(o) = t
<1>1. \A o \in 0 .. NumTasks - 1 : ScanIndex(o) \in Task
  BY NumTasksAssumption DEF ScanIndex, Task
<1>2. ASSUME NEW t \in Task PROVE \E o \in 0 .. NumTasks - 1 : ScanIndex(o) = t
  <2>1. CASE t >= start
    <3>1. t - start \in 0 .. NumTasks - 1 /\ ScanIndex(t - start) = t
      BY <2>1, NumTasksAssumption DEF ScanIndex, Task
    <3> QED BY <3>1
  <2>2. CASE t < start
    <3> DEFINE o == t - start + NumTasks
    <3>1. o \in 0 .. NumTasks - 1 /\ ScanIndex(o) = t
      BY <2>2, NumTasksAssumption DEF ScanIndex, Task
    <3> QED BY <3>1
  <2> QED BY <2>1, <2>2 DEF Task
<1> QED BY <1>1, <1>2

\* With no context lost PSP always holds one.
LEMMA CoreTypes ==
  ASSUME NEW S, CoreInv(S, {})
  PROVE  CoreTypeOK
BY DEF CoreInv, ContextInv, CoreTypeOK

-----------------------------------------------------------------------------
(* What a handler may change *)

LEMMA HandlerMoves ==
  ASSUME HandlerStep
  PROVE  /\ UNCHANGED <<pc, irqVars>>
         /\ svPc = "inactive" => psp' = psp
         /\ tstate' # tstate => /\ TickScan /\ tstate[tickIdx] = "BLOCKED"
                                /\ tstate' = [tstate EXCEPT ![tickIdx] = "READY"]
BY DEF HandlerStep, TickStep, TickEnter, TickScan, TickExit, SwitchStep, SwitchEnter,
   SelectBegin, SelectScan, SelectCommit, SwitchExit

\* Handlers wake sleepers and do nothing else to a task.
LEMMA HandlerWakes ==
  ASSUME MachineTypeOK, HandlerStep, NEW s \in Slot
  PROVE  tstate'[s] = tstate[s] \/ (tstate[s] = "BLOCKED" /\ tstate'[s] = "READY")
BY HandlerMoves DEF MachineTypeOK

LEMMA HandlerAway ==
  ASSUME NEW S, MachineTypeOK, AwayInv(S), HandlerStep
  PROVE  AwayInv(S)'
<1>1. pc' = pc /\ \A t \in Task : tstate'[t] # "READY" => tstate[t] # "READY"
  BY HandlerMoves, HandlerWakes, SlotFacts
<1>2. svPc' = "restore" => dispatched'
  BY DEF HandlerStep, TickStep, TickEnter, TickScan, TickExit, SwitchStep, SwitchEnter,
     SelectBegin, SelectScan, SelectCommit, SwitchExit, svVars, AwayInv
<1>3. dispatched \/ pendsv \/ svPc # "inactive" => dispatched' \/ pendsv' \/ svPc' # "inactive"
  BY DEF HandlerStep, TickStep, TickEnter, TickScan, TickExit, SwitchStep, SwitchEnter,
     SelectBegin, SelectScan, SelectCommit, SwitchExit, svVars, AwayInv
<1> QED BY <1>1, <1>2, <1>3 DEF AwayInv

-----------------------------------------------------------------------------
(* SysTick preserves the invariant: while it scans a switch is Pending *)

LEMMA TickCore ==
  ASSUME NEW S, NEW L, CoreInv(S, L), TickStep
  PROVE  CoreInv(S, L)'
<1> USE DEF CoreInv
<1>0. AwayInv(S)'
  BY HandlerAway DEF HandlerStep
<1>1. CASE TickEnter
  <2> USE <1>1 DEF TickEnter
  <2>1. MachineTypeOK'
    BY SlotFacts, TickFacts, TickAssumption
    DEF MachineTypeOK, irqVars, svVars, TaskState
  <2>2. ContextInv(L)' /\ (pc = [t \in Task |-> pc[t]])'
    BY DEF ContextInv, Leads, svVars
  <2>3. CriticalInv'
    BY DEF CriticalInv, CriticalIsExclusive, ThreadMode, irqVars, svVars
  <2>4. Pending'
    BY DEF Pending
  <2> QED BY <1>0, <2>1, <2>2, <2>3, <2>4 DEF SchedInv
<1>2. CASE TickScan
  <2> USE <1>2 DEF TickScan
  <2>1. MachineTypeOK'
    <3>1. tickIdx \in Task /\ tickIdx + 1 \in 0 .. NumTasks
      BY SlotFacts DEF MachineTypeOK, Task
    <3>2. tstate' \in [Slot -> TaskState]
      BY DEF MachineTypeOK, TaskState
    <3>3. asked' \in [Task -> Tick] /\ elapsed' \in [Task -> 0 .. TickModulus]
      BY TickFacts, TickAssumption DEF MachineTypeOK
    <3> QED BY <3>1, <3>2, <3>3 DEF MachineTypeOK, irqVars, svVars
  <2>2. ContextInv(L)' /\ (pc = [t \in Task |-> pc[t]])'
    BY DEF ContextInv, Leads, svVars
  <2>3. CriticalInv'
    BY DEF CriticalInv, CriticalIsExclusive, ThreadMode, irqVars, svVars
  <2>4. Pending'
    BY DEF Pending
  <2> QED BY <1>0, <2>1, <2>2, <2>3, <2>4 DEF SchedInv
<1>3. CASE TickExit
  <2> USE <1>3 DEF TickExit
  <2>1. MachineTypeOK'
    BY SlotFacts DEF MachineTypeOK, irqVars, svVars, sleepVars
  <2>2. ContextInv(L)' /\ (pc = [t \in Task |-> pc[t]])'
    BY DEF ContextInv, Leads, svVars
  <2>3. CriticalInv'
    BY DEF CriticalInv, CriticalIsExclusive, ThreadMode, irqVars, svVars
  <2>4. Pending'
    BY DEF Pending
  <2> QED BY <1>0, <2>1, <2>2, <2>3, <2>4 DEF SchedInv
<1> QED BY <1>1, <1>2, <1>3 DEF TickStep

-----------------------------------------------------------------------------
(* PendSV preserves the invariant: its scan ends with the right choice *)

LEMMA SwitchCore ==
  ASSUME NEW S, NEW L, CoreInv(S, L), SwitchStep
  PROVE  CoreInv(S, L)'
<1> USE DEF CoreInv
<1>0. AwayInv(S)'
  BY HandlerAway DEF HandlerStep
<1>1. CASE SwitchEnter
  <2> USE <1>1 DEF SwitchEnter, SaveStackPointer
  <2>1. MachineTypeOK'
    BY SlotFacts DEF MachineTypeOK, ContextInv, irqVars, tickVars, sleepVars
  <2>2. ContextInv(L)' /\ (pc = [t \in Task |-> pc[t]])'
    BY DEF ContextInv, Leads, ThreadMode, MachineTypeOK
  <2>3. CriticalInv'
    BY DEF CriticalInv, CriticalIsExclusive, irqVars
  <2>4. SchedInv(S)'
    BY DEF SchedInv
  <2> QED BY <1>0, <2>1, <2>2, <2>3, <2>4
<1>2. CASE SelectBegin
  <2> USE <1>2 DEF SelectBegin
  <2>1. MachineTypeOK'
    <3>1. start' \in Task
      BY SlotFacts DEF MachineTypeOK, Slot, Task, Idle
    <3>2. offset' \in 0 .. NumTasks /\ best' \in Slot
      BY SlotFacts
    <3>3. found' \in BOOLEAN
      OBVIOUS
    <3> QED BY <3>1, <3>2, <3>3 DEF MachineTypeOK, irqVars, tickVars, sleepVars
  <2>2. ContextInv(L)' /\ (pc = [t \in Task |-> pc[t]])'
    BY DEF ContextInv, Leads
  <2>3. CriticalInv'
    BY DEF CriticalInv, CriticalIsExclusive, ThreadMode, irqVars, tickVars
  <2>4. ScanInv'
    BY SlotFacts DEF ScanInv
  <2> QED BY <1>0, <2>1, <2>2, <2>3, <2>4 DEF SchedInv
<1>3. CASE SelectScan
  <2> USE <1>3 DEF SelectScan
  <2>1. ScanIndex(offset) \in Task /\ offset + 1 \in 0 .. NumTasks
    BY ScanFacts, SlotFacts DEF MachineTypeOK
  <2>2. MachineTypeOK'
    BY <2>1, SlotFacts DEF MachineTypeOK, irqVars, tickVars, sleepVars
  <2>3. ContextInv(L)' /\ (pc = [t \in Task |-> pc[t]])'
    BY DEF ContextInv, Leads
  <2>4. CriticalInv'
    BY DEF CriticalInv, CriticalIsExclusive, ThreadMode, irqVars, tickVars
  <2>5. ASSUME ScanInv PROVE ScanInv'
    <3> USE <2>5
    <3>1. \A o \in 0 .. offset : o \in 0 .. NumTasks - 1 /\ ScanIndex(o)' = ScanIndex(o)
      BY SlotFacts DEF ScanIndex, MachineTypeOK
    <3>2. \A o \in 0 .. offset : ScanIndex(o) \in Task
      BY <3>1, ScanFacts DEF MachineTypeOK
    <3>3. found => best \in Task /\ PriorityOf(best) = Priority[best]
      BY SlotFacts DEF ScanInv, PriorityOf
    <3>4. \A t \in Task : Priority[t] \in Nat
      BY PriorityAssumption
    <3>5. \A o \in 0 .. (offset + 1) - 1 : o \in 0 .. offset - 1 \/ o = offset
      BY DEF MachineTypeOK
    <3>6. CASE Better(ScanIndex(offset))
      <4>1. best' = ScanIndex(offset) /\ found' /\ tstate'[best'] = "READY"
        BY <3>6 DEF Better
      <4>2. ASSUME NEW o \in 0 .. offset - 1, tstate[ScanIndex(o)] = "READY"
            PROVE  Priority[ScanIndex(o)] <= Priority[best']
        BY <4>1, <4>2, <3>2, <3>3, <3>4, <3>6, <2>1 DEF Better, ScanInv, MachineTypeOK
      <4>3. Priority[best'] <= Priority[best']
        BY <4>1, <2>1, <3>4
      <4> QED BY <4>1, <4>2, <4>3, <3>1, <3>5, <2>1 DEF ScanInv, MachineTypeOK
    <3>7. CASE ~Better(ScanIndex(offset))
      <4>1. best' = best /\ found' = found
        BY <3>7
      <4>2. tstate[ScanIndex(offset)] = "READY"
              => found /\ Priority[ScanIndex(offset)] <= Priority[best]
        BY <3>7, <3>3, <3>4, <2>1 DEF Better, MachineTypeOK
      <4> QED BY <4>1, <4>2, <3>1, <3>5 DEF ScanInv, MachineTypeOK
    <3> QED BY <3>6, <3>7
  <2>6. SchedInv(S)'
    BY <2>5 DEF SchedInv, Pending, tickVars
  <2> QED BY <1>0, <2>2, <2>3, <2>4, <2>6
<1>4. CASE SelectCommit
  <2> USE <1>4 DEF SelectCommit
  <2>1. MachineTypeOK'
    BY SlotFacts DEF MachineTypeOK, irqVars, tickVars, sleepVars
  <2>2. ContextInv(L)' /\ (pc = [t \in Task |-> pc[t]])'
    BY DEF ContextInv, Leads
  <2>3. CriticalInv'
    BY DEF CriticalInv, CriticalIsExclusive, ThreadMode, irqVars, tickVars
  <2>4. ASSUME ScanInv PROVE RightChoice(current)'
    <3>1. \A t \in Task : \E o \in 0 .. offset - 1 : ScanIndex(o) = t
      BY ScanFacts DEF MachineTypeOK
    <3>2. \A t \in Task : tstate[t] = "READY" => found /\ Priority[t] <= Priority[best]
      BY <2>4, <3>1 DEF ScanInv
    <3> QED BY <2>4, <3>2, SlotFacts DEF ScanInv, RightChoice
  <2>5. SchedInv(S)'
    BY <2>4 DEF SchedInv, Pending, tickVars
  <2> QED BY <1>0, <2>1, <2>2, <2>3, <2>5
<1>5. CASE SwitchExit
  <2> USE <1>5 DEF SwitchExit
  <2>1. psp' = sp[current] /\ Leads(current, psp', L)
    BY DEF ContextInv, MachineTypeOK
  <2>2. MachineTypeOK'
    <3>1. start' \in Task /\ offset' \in 0 .. NumTasks /\ best' \in Slot
      BY SlotFacts
    <3>2. found' \in BOOLEAN
      OBVIOUS
    <3> QED BY <2>1, <3>1, <3>2 DEF MachineTypeOK, irqVars, tickVars, sleepVars
  <2>3. ContextInv(L)' /\ (pc = [t \in Task |-> pc[t]])'
    <3>1. /\ sp' = [sp EXCEPT ![current] = NoTask] /\ UNCHANGED <<current, pc>>
          /\ svPc' = "inactive" /\ sp \in [Slot -> Slot \cup {NoTask}] /\ current \in Slot
      BY DEF MachineTypeOK
    <3>2. psp' \in Slot \/ (L # {} /\ psp' = NoTask)
      BY <2>1, <3>1 DEF Leads
    <3>3. \A s \in Slot \ {current} : Leads(s, sp'[s], L)
      BY <3>1 DEF ContextInv
    <3> QED BY <2>1, <3>1, <3>2, <3>3 DEF ContextInv, Leads
  <2>4. CriticalInv'
    BY DEF CriticalInv, CriticalIsExclusive, ThreadMode, irqVars, tickVars
  <2>5. SchedInv(S)'
    <3>1. psp' # NoTask => psp' = current
      BY <2>1 DEF Leads
    <3> QED BY <3>1 DEF SchedInv, Pending, RightChoice, tickVars
  <2> QED BY <1>0, <2>2, <2>3, <2>4, <2>5
<1> QED BY <1>1, <1>2, <1>3, <1>4, <1>5 DEF SwitchStep

-----------------------------------------------------------------------------
(* Thread mode preserves the invariant: a step that readies or blocks a    *)
(* task leads to an unsettled label or requests a switch itself            *)

\* In thread mode RTOSK_CURRENT_TASK is the task whose code runs.
LEMMA CurrentRuns ==
  ASSUME NEW S, NEW L, CoreInv(S, L), NEW t \in Task, NEW from, NEW to, StepAt(t, from, to)
  PROVE  current = t /\ psp = t /\ psp' = t /\ pc[t] = from
BY SlotFacts DEF CoreInv, ContextInv, Leads, StepAt, ThreadMode

LEMMA ThreadCore ==
  ASSUME NEW S, NEW L, CoreInv(S, L), NEW t \in Task, NEW from, NEW to, StepAt(t, from, to),
         EnterCritical \/ ExitCritical \/ UNCHANGED irqVars,
         tstate' \in [Slot -> TaskState], wake' \in [Task -> Tick],
         asked' \in [Task -> Tick], elapsed' \in [Task -> 0 .. TickModulus],
         \A u \in Task \ {t} : tstate'[u] \in {tstate[u], "READY"},
         pendsv' \in BOOLEAN, pendsv => pendsv',
         to \notin S \/ pendsv' \/ (from \in S /\ tstate' = tstate)
  PROVE  CoreInv(S, L)'
<1> USE DEF CoreInv, StepAt
<1>1. nesting' \in Nat /\ savedmask' \in BOOLEAN /\ primask' \in BOOLEAN
  <2>1. CASE EnterCritical
    BY <2>1 DEF EnterCritical, MachineTypeOK
  <2>2. CASE ExitCritical
    BY <2>2 DEF ExitCritical, MachineTypeOK, irqVars
  <2>3. CASE UNCHANGED irqVars
    BY <2>3 DEF MachineTypeOK, irqVars
  <2> QED BY <2>1, <2>2, <2>3
<1>2. MachineTypeOK'
  BY <1>1 DEF MachineTypeOK, svVars, tickVars
<1>3. pc' = [u \in Task |-> pc'[u]] /\ pc'[t] = to
  OBVIOUS
<1>4. ContextInv(L)'
  BY DEF ContextInv, Leads, svVars
<1>5. CriticalInv'
  <2>1. ThreadMode'
    BY DEF ThreadMode, svVars, tickVars
  <2>2. CASE EnterCritical
    BY <2>1, <2>2 DEF EnterCritical, CriticalInv, CriticalIsExclusive, MachineTypeOK
  <2>3. CASE ExitCritical
    BY <2>1, <2>3 DEF ExitCritical, CriticalInv, CriticalIsExclusive, MachineTypeOK, irqVars
  <2>4. CASE UNCHANGED irqVars
    BY <2>1, <2>4 DEF CriticalInv, CriticalIsExclusive, irqVars
  <2> QED BY <2>2, <2>3, <2>4
<1>6. SchedInv(S)'
  <2>1. svPc' = "inactive" /\ psp' = t
    BY DEF ThreadMode, svVars
  <2>2. ASSUME dispatched', ~Pending', pc'[t] \in S PROVE RightChoice(psp)'
    <3>1. tstate' = tstate /\ from \in S /\ dispatched /\ ~Pending
      BY <2>2, <1>3 DEF Pending, tickVars
    <3>2. RightChoice(psp)
      BY <3>1, SlotFacts DEF SchedInv, ThreadMode
    <3> QED BY <3>1, <3>2 DEF RightChoice
  <2> QED BY <2>1, <2>2 DEF SchedInv
<1>7. AwayInv(S)'
  <2>1. UNCHANGED <<svPc, dispatched>>
    BY DEF svVars
  <2>2. ASSUME NEW u \in Task \ {t}, pc'[u] \in S, tstate'[u] # "READY"
        PROVE  pc[u] \in S /\ tstate[u] # "READY"
    BY <2>2
  <2>3. ASSUME to \in S, tstate'[t] # "READY"
        PROVE  dispatched \/ pendsv' \/ svPc # "inactive"
    BY <2>3 DEF AwayInv
  <2> QED BY <1>3, <2>1, <2>2, <2>3 DEF AwayInv
<1> QED BY <1>2, <1>3, <1>4, <1>5, <1>6, <1>7

\* Entering or leaving a critical section disturbs no task: the step may lead
\* from any label to one where a switch is owed, and between settled labels.
LEMMA SectionCore ==
  ASSUME NEW S, NEW L, CoreInv(S, L), NEW t \in Task, NEW from, NEW to,
         EnterAt(t, from, to) \/ ExitAt(t, from, to),
         to \notin S \/ from \in S
  PROVE  CoreInv(S, L)'
<1>1. StepAt(t, from, to) /\ (EnterCritical \/ ExitCritical)
  BY DEF EnterAt, ExitAt
<1>2. UNCHANGED <<tstate, pendsv, sleepVars>>
  BY DEF EnterAt, ExitAt
<1> QED BY <1>1, <1>2, ThreadCore DEF CoreInv, MachineTypeOK, sleepVars

\* A requested switch settles any debt.
LEMMA YieldCore ==
  ASSUME NEW S, NEW L, CoreInv(S, L), NEW t \in Task, NEW from, NEW to, YieldAt(t, from, to)
  PROVE  CoreInv(S, L)'
<1>1. StepAt(t, from, to) /\ pendsv' = TRUE /\ UNCHANGED <<tstate, irqVars, sleepVars>>
  BY DEF YieldAt, PendSwitch
<1> QED BY <1>1, ThreadCore DEF CoreInv, MachineTypeOK, sleepVars

\* Readying or blocking a task leaves a switch owed.
LEMMA AccessCore ==
  ASSUME NEW S, NEW L, CoreInv(S, L), NEW t \in Task, NEW from, NEW to, AccessAt(t, from, to),
         tstate' \in [Slot -> TaskState],
         \A u \in Task \ {t} : tstate'[u] \in {tstate[u], "READY"},
         to \notin S \/ (from \in S /\ tstate' = tstate)
  PROVE  CoreInv(S, L)'
<1>1. StepAt(t, from, to) /\ UNCHANGED <<pendsv, irqVars, sleepVars>>
  BY DEF AccessAt
<1> QED BY <1>1, ThreadCore DEF CoreInv, MachineTypeOK, sleepVars

\* A device handler may ready tasks at any moment if it requests a switch.
LEMMA DeviceCore ==
  ASSUME NEW S, NEW L, CoreInv(S, L), DeviceStep, tstate' \in [Slot -> TaskState],
         \A u \in Task : tstate'[u] \in {tstate[u], "READY"},
         pendsv' \in BOOLEAN, pendsv => pendsv', pendsv' \/ tstate' = tstate
  PROVE  CoreInv(S, L)'
<1> USE DEF CoreInv, DeviceStep
<1>1. MachineTypeOK' /\ (pc = [t \in Task |-> pc[t]])'
  BY DEF MachineTypeOK, irqVars, svVars, tickVars, sleepVars
<1>2. ContextInv(L)' /\ CriticalInv'
  BY DEF ContextInv, Leads, CriticalInv, CriticalIsExclusive, ThreadMode, irqVars, svVars, tickVars
<1>3. SchedInv(S)'
  <2>1. CASE pendsv'
    BY <2>1 DEF SchedInv, Pending
  <2>2. CASE tstate' = tstate
    BY <2>2 DEF SchedInv, Pending, ScanInv, ScanIndex, RightChoice, svVars, tickVars
  <2> QED BY <2>1, <2>2
<1>4. AwayInv(S)'
  BY DEF AwayInv, svVars
<1> QED BY <1>1, <1>2, <1>3, <1>4

-----------------------------------------------------------------------------
(* The application's own kernel calls *)

LEMMA CallCore ==
  ASSUME NEW S, NEW L, "user" \in S, "sleep_block" \notin S, "sleep_exit" \notin S,
         "sleep_yield" \notin S, CoreInv(S, L), NEW t \in Task, ThreadStep(t)
  PROVE  CoreInv(S, L)'
<1>1. CASE SleepEnter(t) \/ UserEnter(t) \/ UserExit(t) \/ SleepExit(t)
  BY <1>1, SectionCore DEF SleepEnter, UserEnter, UserExit, SleepExit
<1>2. CASE UserYield(t) \/ SleepYield(t)
  BY <1>2, YieldCore DEF UserYield, SleepYield
<1>3. CASE SleepBlock(t)
  <2>0. current = t
    BY <1>3, CurrentRuns DEF SleepBlock
  <2> USE DEF CoreInv, MachineTypeOK
  <2>1. PICK ms \in SleepTimes :
          /\ BlockCurrentUntil((ticks + ms) % TickModulus)
          /\ asked' = [asked EXCEPT ![t] = ms]
    BY <1>3 DEF SleepBlock
  <2>2. ms \in Tick /\ (ticks + ms) % TickModulus \in Tick
    BY TickAssumption, TickFacts DEF Tick
  <2>3. tstate' \in [Slot -> TaskState] /\ wake' \in [Task -> Tick]
    BY <2>1, <2>2 DEF BlockCurrentUntil, TaskState
  <2>4. asked' \in [Task -> Tick] /\ elapsed' \in [Task -> 0 .. TickModulus]
    BY <1>3, <2>1, <2>2, TickAssumption DEF SleepBlock
  <2>5. StepAt(t, "sleep_block", "sleep_exit") /\ UNCHANGED <<pendsv, irqVars>>
    BY <1>3 DEF SleepBlock
  <2>6. \A u \in Task \ {t} : tstate'[u] \in {tstate[u], "READY"}
    BY <2>0, <2>1, SlotFacts DEF BlockCurrentUntil
  <2> QED BY <2>3, <2>4, <2>5, <2>6, ThreadCore
<1> QED BY <1>1, <1>2, <1>3 DEF ThreadStep, SleepStep

\* Every step of the machine itself, whatever the labels a module adds.
LEMMA KernelCore ==
  ASSUME NEW S, NEW L, "user" \in S, "sleep_block" \notin S, "sleep_exit" \notin S,
         "sleep_yield" \notin S, CoreInv(S, L), KernelNext
  PROVE  CoreInv(S, L)'
<1>1. CASE TickStep
  BY <1>1, TickCore
<1>2. CASE SwitchStep
  BY <1>2, SwitchCore
<1>3. ASSUME NEW t \in Task, ThreadStep(t) PROVE CoreInv(S, L)'
  BY <1>3, CallCore
<1> QED BY <1>1, <1>2, <1>3 DEF KernelNext, HandlerStep

LEMMA StutterCore ==
  ASSUME NEW S, NEW L, CoreInv(S, L), UNCHANGED kernelVars
  PROVE  CoreInv(S, L)'
BY DEF kernelVars, irqVars, svVars, tickVars, sleepVars, CoreInv, MachineTypeOK, ContextInv,
   CriticalInv, CriticalIsExclusive, ThreadMode, SchedInv, ScanInv, ScanIndex, Pending,
   RightChoice, AwayInv

LEMMA InitCore ==
  ASSUME NEW S, NEW L, KernelInit
  PROVE  CoreInv(S, L)
<1> USE DEF KernelInit
<1>1. MachineTypeOK
  <2>1. tstate \in [Slot -> TaskState] /\ best \in Slot /\ current \in Slot /\ psp \in Slot
    BY SlotFacts DEF TaskState
  <2>2. /\ sp \in [Slot -> Slot \cup {NoTask}] /\ ticks \in Tick /\ wake \in [Task -> Tick]
        /\ asked \in [Task -> Tick] /\ elapsed \in [Task -> 0 .. TickModulus]
    BY TickFacts, TickAssumption
  <2>3. start \in Task /\ offset \in 0 .. NumTasks /\ tickIdx \in 0 .. NumTasks
    BY SlotFacts
  <2> QED BY <2>1, <2>2, <2>3 DEF MachineTypeOK
<1>2. ContextInv(L)
  BY SlotFacts DEF ContextInv, Leads
<1>3. CriticalInv
  BY DEF CriticalInv, CriticalIsExclusive, ThreadMode
<1>4. SchedInv(S) /\ AwayInv(S)
  BY SlotFacts DEF SchedInv, AwayInv
<1> QED BY <1>1, <1>2, <1>3, <1>4 DEF CoreInv

-----------------------------------------------------------------------------
(* What the application's own calls may change, and what no call changes *)

LEMMA CallMoves ==
  ASSUME NEW S, NEW L, CoreInv(S, L), NEW t \in Task, ThreadStep(t)
  PROVE  /\ psp = t /\ psp' = t /\ current = t /\ pc[t] \in KernelLabels
         /\ \E to \in KernelLabels : pc' = [pc EXCEPT ![t] = to]
         /\ tstate' # tstate => /\ pc[t] = "sleep_block"
                                /\ tstate' = [tstate EXCEPT ![t] = "BLOCKED"]
<1>1. PICK from \in KernelLabels, to \in KernelLabels : StepAt(t, from, to)
  BY DEF ThreadStep, SleepEnter, SleepStep, SleepBlock, SleepExit, SleepYield,
     UserYield, UserEnter, UserExit, EnterAt, ExitAt, YieldAt, KernelLabels
<1>2. /\ psp = t /\ psp' = t /\ current = t /\ pc[t] = from
      /\ pc' = [pc EXCEPT ![t] = to]
  BY <1>1, CurrentRuns DEF StepAt
<1>3. tstate' # tstate => SleepBlock(t)
  BY DEF ThreadStep, SleepEnter, SleepStep, SleepExit, SleepYield, UserYield, UserEnter,
     UserExit, EnterAt, ExitAt, YieldAt
<1>4. SleepBlock(t) /\ tstate' # tstate
        => pc[t] = "sleep_block" /\ tstate' = [tstate EXCEPT ![t] = "BLOCKED"]
  BY <1>2 DEF SleepBlock, StepAt, BlockCurrentUntil
<1> QED BY <1>1, <1>2, <1>3, <1>4

\* The machine's own steps stay among its own labels.
LEMMA KernelMoves ==
  ASSUME NEW S, NEW L, CoreInv(S, L), KernelNext
  PROVE  /\ \A u \in Task : pc'[u] = pc[u] \/ {pc[u], pc'[u]} \subseteq KernelLabels
         /\ pc' = [u \in Task |-> pc'[u]]
<1>0. pc = [u \in Task |-> pc[u]]
  BY DEF CoreInv
<1>1. CASE HandlerStep
  <2>1. pc' = pc
    BY <1>1, HandlerMoves
  <2> QED BY <1>0, <2>1
<1>2. ASSUME NEW t \in Task, ThreadStep(t)
      PROVE  /\ \A u \in Task : pc'[u] = pc[u] \/ {pc[u], pc'[u]} \subseteq KernelLabels
             /\ pc' = [u \in Task |-> pc'[u]]
  <2>1. pc[t] \in KernelLabels
    BY <1>2, CallMoves
  <2>2. PICK to \in KernelLabels : pc' = [pc EXCEPT ![t] = to]
    BY <1>2, CallMoves
  <2> QED BY <1>0, <2>1, <2>2
<1> QED BY <1>1, <1>2 DEF KernelNext

\* The machine itself leaves those who wait for an object alone.
LEMMA KernelKeepsBlocked ==
  ASSUME NEW S, NEW L, CoreInv(S, L), KernelNext, NEW b, b \notin {"READY", "BLOCKED"},
         \A t \in Task : pc[t] = "sleep_block" => tstate[t] # b
  PROVE  \A t \in Task : tstate'[t] = b <=> tstate[t] = b
<1>0. MachineTypeOK /\ Task \subseteq Slot /\ tstate \in [Slot -> TaskState]
  BY SlotFacts DEF CoreInv, MachineTypeOK
<1>1. CASE HandlerStep
  BY <1>0, <1>1, HandlerWakes
<1>2. ASSUME NEW t \in Task, ThreadStep(t)
      PROVE  \A u \in Task : tstate'[u] = b <=> tstate[u] = b
  BY <1>0, <1>2, CallMoves
<1> QED BY <1>1, <1>2 DEF KernelNext

\* A task that owes no switch and is inside no critical section is ready.
LEMMA RunnerIsReady ==
  ASSUME NEW S, NEW L, CoreInv(S, L), NEW t \in Task, NEW from \in S, NEW to,
         StepAt(t, from, to), ~primask
  PROVE  tstate[t] = "READY"
<1>1. psp = t /\ pc[t] = from /\ ThreadMode /\ ~Pending
  BY DEF StepAt, ThreadMode, Pending
<1>2. tstate[t] # "READY" => dispatched
  BY <1>1 DEF CoreInv, AwayInv, ThreadMode, Pending
<1>3. dispatched => RightChoice(t)
  BY <1>1, SlotFacts DEF CoreInv, SchedInv, ThreadMode
<1> QED BY <1>2, <1>3 DEF RightChoice

(***************************************************************************)
(* An application that opens no critical sections of its own.  Masked are  *)
(* the labels inside those of kernel calls: one section is open exactly    *)
(* when the running task is at one of them.                                *)
(***************************************************************************)
NestInv(Masked) ==
  /\ \A t \in Task : pc[t] \in Masked => psp = t /\ nesting = 1
  /\ nesting > 0 => psp \in Task /\ pc[psp] \in Masked

\* A step that opens a section where none is open, closes it, or does neither.
LEMMA NestStep ==
  ASSUME NEW M, NestInv(M), NEW S, NEW L, CoreInv(S, L),
         NEW t \in Task, NEW from, NEW to, StepAt(t, from, to),
         \/ EnterCritical /\ from \notin M /\ to \in M
         \/ ExitCritical /\ to \notin M
         \/ UNCHANGED irqVars /\ (from \in M <=> to \in M)
  PROVE  NestInv(M)'
<1>0. nesting \in Nat /\ pc = [u \in Task |-> pc[u]]
  BY DEF CoreInv, MachineTypeOK
<1>1. /\ psp = t /\ psp' = t /\ pc[t] = from
      /\ pc' = [pc EXCEPT ![t] = to] /\ pc'[t] = to
  BY <1>0 DEF StepAt
<1>2. \A u \in Task \ {t} : pc[u] \notin M /\ pc'[u] = pc[u]
  BY <1>0, <1>1 DEF NestInv
<1>3. from \in M => nesting = 1
  BY <1>1 DEF NestInv
<1>4. from \notin M => nesting = 0
  BY <1>0, <1>1 DEF NestInv
<1>5. to \in M <=> nesting' = 1
  BY <1>3, <1>4 DEF EnterCritical, ExitCritical, irqVars
<1>6. to \notin M <=> nesting' = 0
  BY <1>3, <1>4 DEF EnterCritical, ExitCritical, irqVars
<1> QED BY <1>1, <1>2, <1>5, <1>6 DEF NestInv

\* No handler comes while a section is open, and sleep_ms's is one of them.
LEMMA NestKernel ==
  ASSUME MaxNesting = 0, NEW M, NestInv(M), NEW S, NEW L, CoreInv(S, L), KernelNext,
         "sleep_block" \in M, "sleep_exit" \in M, "user" \notin M, "sleep_yield" \notin M
  PROVE  NestInv(M)'
<1>1. CASE HandlerStep
  <2>1. UNCHANGED <<pc, nesting>> /\ (svPc = "inactive" => psp' = psp)
    BY <1>1, HandlerMoves DEF irqVars
  <2>2. nesting > 0 => svPc = "inactive"
    BY DEF CoreInv, CriticalInv, CriticalIsExclusive, ThreadMode
  <2>3. nesting \in Nat
    BY DEF CoreInv, MachineTypeOK
  <2> QED BY <2>1, <2>2, <2>3 DEF NestInv
<1>2. ASSUME NEW t \in Task, ThreadStep(t)
      PROVE  NestInv(M)'
  <2>1. CASE SleepEnter(t)
    BY <2>1, NestStep DEF SleepEnter, EnterAt
  <2>2. CASE SleepBlock(t)
    BY <2>2, NestStep DEF SleepBlock
  <2>3. CASE SleepExit(t) \/ UserExit(t)
    BY <2>3, NestStep DEF SleepExit, UserExit, ExitAt
  <2>4. CASE SleepYield(t) \/ UserYield(t)
    BY <2>4, NestStep DEF SleepYield, UserYield, YieldAt
  <2>5. ~UserEnter(t)
    BY DEF UserEnter, CoreInv, MachineTypeOK
  <2> QED BY <1>2, <2>1, <2>2, <2>3, <2>4, <2>5 DEF ThreadStep, SleepStep
<1> QED BY <1>1, <1>2 DEF KernelNext

LEMMA NestDevice ==
  ASSUME NEW M, NestInv(M), DeviceStep
  PROVE  NestInv(M)'
BY DEF NestInv, DeviceStep, irqVars

-----------------------------------------------------------------------------
(* The theorems *)

(***************************************************************************)
(* The inductive invariant holds of every behaviour of the kernel.         *)
(***************************************************************************)
THEOREM KernelInvariant == KernelSpec => []CoreInv({"user"}, {})
<1>1. KernelInit => CoreInv({"user"}, {})
  BY InitCore
<1>2. CoreInv({"user"}, {}) /\ [KernelNext]_kernelVars => CoreInv({"user"}, {})'
  <2> SUFFICES ASSUME CoreInv({"user"}, {}), [KernelNext]_kernelVars PROVE CoreInv({"user"}, {})'
    OBVIOUS
  <2> QED BY KernelCore, StutterCore
<1> QED BY <1>1, <1>2, PTL DEF KernelSpec

(***************************************************************************)
(* Context switches never mix up two tasks' contexts.                      *)
(***************************************************************************)
THEOREM ContextSafe == KernelSpec => []ContextIntegrity
<1>1. CoreInv({"user"}, {}) => ContextIntegrity
  BY DEF CoreInv, ContextInv, Leads, ContextIntegrity
<1> QED BY <1>1, KernelInvariant, PTL

(***************************************************************************)
(* While a critical section is open, no handler runs and none can start.   *)
(***************************************************************************)
THEOREM CriticalSafe == KernelSpec => []CriticalIsExclusive
<1>1. CoreInv({"user"}, {}) => CriticalIsExclusive
  BY DEF CoreInv, CriticalInv
<1> QED BY <1>1, KernelInvariant, PTL

(***************************************************************************)
(* Scheduling is by priority: application code with no switch pending is   *)
(* that of a ready task no ready task outranks.  The scan of select_next   *)
(* is not atomic; the argument is that what a tick changes under it is     *)
(* always followed by another scan.                                        *)
(***************************************************************************)
LEMMA CoreRunsHighest ==
  ASSUME NEW S, CoreInv(S, {}), "user" \in S
  PROVE  HighestReadyRuns
<1> SUFFICES ASSUME Quiescent, dispatched PROVE RunsHighestReady
  BY DEF HighestReadyRuns
<1>1. RightChoice(psp)
  BY SlotFacts DEF CoreInv, ContextInv, SchedInv, Quiescent, ThreadMode, Pending
<1> QED BY <1>1 DEF RightChoice, RunsHighestReady, Ready

THEOREM PrioritySafe == KernelSpec => []HighestReadyRuns
<1>1. CoreInv({"user"}, {}) => HighestReadyRuns
  BY CoreRunsHighest
<1> QED BY <1>1, KernelInvariant, PTL

(***************************************************************************)
(* Type correctness.                                                       *)
(***************************************************************************)
THEOREM KernelTypeSafe == KernelSpec => []KernelTypeOK
<1> DEFINE Labels == pc \in [Task -> KernelLabels]
<1>1. KernelInit => Labels
  BY DEF KernelInit, KernelLabels
<1>2. CoreInv({"user"}, {}) /\ Labels /\ [KernelNext]_kernelVars => Labels'
  <2> SUFFICES ASSUME CoreInv({"user"}, {}), Labels, [KernelNext]_kernelVars PROVE Labels'
    OBVIOUS
  <2>1. CASE HandlerStep \/ UNCHANGED kernelVars
    BY <2>1, HandlerMoves DEF kernelVars
  <2>2. ASSUME NEW t \in Task, ThreadStep(t) PROVE Labels'
    BY <2>2, CallMoves
  <2> QED BY <2>1, <2>2 DEF KernelNext
<1>3. CoreInv({"user"}, {}) => CoreTypeOK
  BY CoreTypes
<1> QED BY <1>1, <1>2, <1>3, KernelInvariant, PTL DEF KernelSpec, KernelTypeOK

-----------------------------------------------------------------------------
(* Sleeping: what the wake tick says of the time that has passed *)

\* The tick handler has yet to look at t.
AwaitsScan(t) == tickPc = "scan" /\ tickIdx <= t

\* wake_tick and RTOSK_SYSTICKS are as far apart as the ticks a sleeper has
\* counted and those it asked for, give or take one wrap.
LagInv(t) ==
  (ticks - wake[t]) - (elapsed[t] - asked[t]) \in {-TickModulus, 0, TickModulus}

\* A sleeper's time comes, if at all, with the tick whose scan is to look at
\* it next; a sleep of 0 is over with the first one.
TimeInv(t) ==
  IF AwaitsScan(t) THEN elapsed[t] > 0 /\ (elapsed[t] <= asked[t] \/ elapsed[t] = 1)
                   ELSE elapsed[t] < asked[t] \/ elapsed[t] = 0

SleepInv ==
  \A t \in Task : tstate[t] = "BLOCKED" => asked[t] \in SleepTimes /\ LagInv(t) /\ TimeInv(t)

\* One wrap either way leaves the residue alone.
LEMMA WrapFacts ==
  \A a \in Tick : /\ a % TickModulus = a
                  /\ (a - TickModulus) % TickModulus = a
                  /\ (a + TickModulus) % TickModulus = a
<1>1. \A a \in Tick : a % TickModulus = a
  BY TickAssumption DEF Tick
<1>2. \A a \in Tick : (a - TickModulus) % TickModulus = a
  BY TickAssumption DEF Tick
<1>3. \A a \in Tick : (a + TickModulus) % TickModulus = a
  BY TickAssumption DEF Tick
<1> QED BY <1>1, <1>2, <1>3

\* Half the counter's range, rounded down and up.
LEMMA HalfFacts ==
  /\ TickModulus \div 2 \in Nat /\ (TickModulus + 1) \div 2 \in Nat
  /\ 2 * (TickModulus \div 2) \in {TickModulus - 1, TickModulus}
  /\ 2 * ((TickModulus + 1) \div 2) \in {TickModulus, TickModulus + 1}
BY TickAssumption

\* What the signed comparison tells about a sleeper the scan looks at: it is
\* never late, and not early either unless the sleep is longer than half the
\* counter's range.
LEMMA DueFacts ==
  ASSUME TickModulus # 2, MachineTypeOK, NEW t \in Task, LagInv(t), TimeInv(t), AwaitsScan(t)
  PROVE  /\ elapsed[t] >= asked[t] => Due(t)
         /\ Due(t) /\ asked[t] <= TickModulus \div 2 + 1 => elapsed[t] >= asked[t]
<1> DEFINE x == elapsed[t] - asked[t]
<1>0. /\ elapsed[t] \in 1 .. TickModulus /\ asked[t] \in Tick /\ x \in Int
      /\ elapsed[t] <= asked[t] \/ elapsed[t] = 1
      /\ ticks \in Tick /\ wake[t] \in Tick /\ TickModulus \in Nat \ {0}
  BY TickAssumption DEF TimeInv, MachineTypeOK, Tick
<1>1. ticks - wake[t] \in {x - TickModulus, x, x + TickModulus}
  BY <1>0 DEF LagInv, Tick
<1>2. x <= 1 /\ x > -TickModulus
  BY <1>0 DEF Tick
<1>3. ASSUME x < 0
      PROVE  (ticks - wake[t]) % TickModulus = x + TickModulus
  <2>1. x + TickModulus \in Tick /\ ticks - wake[t] > -TickModulus
    BY <1>0, <1>2, <1>3 DEF Tick
  <2>2. ticks - wake[t] \in {x, x + TickModulus}
    BY <1>0, <1>1, <1>3, <2>1
  <2>3. x = (x + TickModulus) - TickModulus
    BY <1>0
  <2> QED BY <2>1, <2>2, <2>3, WrapFacts
<1>4. ASSUME x >= 0, x \in Tick
      PROVE  (ticks - wake[t]) % TickModulus = x
  BY <1>0, <1>1, <1>4, WrapFacts
<1>5. ASSUME elapsed[t] >= asked[t]
      PROVE  Due(t)
  <2>1. x \in {0, 1}
    BY <1>0, <1>2, <1>5 DEF Tick
  <2>2. CASE TickModulus = 1
    <3>1. ticks = 0 /\ wake[t] = 0
      BY <1>0, <2>2 DEF Tick
    <3> QED BY <2>2, <3>1, WrapFacts, HalfFacts DEF Due, Tick
  <2>3. CASE TickModulus > 2
    <3>1. x \in Tick /\ x < (TickModulus + 1) \div 2
      BY <1>0, <2>1, <2>3, HalfFacts DEF Tick
    <3> QED BY <2>1, <3>1, <1>4 DEF Due
  <2> QED BY <1>0, <2>2, <2>3
<1>6. ASSUME elapsed[t] < asked[t], asked[t] <= TickModulus \div 2 + 1
      PROVE  ~Due(t)
  <2>1. x < 0 /\ x >= -(TickModulus \div 2)
    BY <1>0, <1>6, HalfFacts DEF Tick
  <2>2. x + TickModulus >= (TickModulus + 1) \div 2
    BY <1>0, <2>1, HalfFacts
  <2> QED BY <1>0, <1>3, <2>1, <2>2, HalfFacts DEF Due
<1> QED BY <1>0, <1>5, <1>6 DEF Tick

\* Only the tick handler and a call to sleep_ms touch what a sleep is made of.
LEMMA OthersKeepSleep ==
  ASSUME SwitchStep \/ (\E t \in Task : SleepEnter(t) \/ SleepExit(t) \/ SleepYield(t)
                                          \/ UserYield(t) \/ UserEnter(t) \/ UserExit(t))
  PROVE  UNCHANGED <<tstate, tickVars, sleepVars>>
BY DEF SwitchStep, SwitchEnter, SelectBegin, SelectScan, SelectCommit, SwitchExit, SleepEnter,
   SleepExit, SleepYield, UserYield, UserEnter, UserExit, EnterAt, ExitAt, YieldAt, StepAt

LEMMA UnchangedSleep ==
  ASSUME SleepInv, UNCHANGED <<tstate, tickVars, sleepVars>>
  PROVE  SleepInv'
BY DEF SleepInv, LagInv, TimeInv, AwaitsScan, tickVars, sleepVars

LEMMA TickSleep ==
  ASSUME TickModulus # 2, MachineTypeOK, SleepInv, TickStep
  PROVE  SleepInv'
<1>0. /\ Task \subseteq Nat /\ NumTasks \in Nat /\ \A t \in Task : t < NumTasks
      /\ Task \subseteq Slot
      /\ tstate \in [Slot -> TaskState] /\ tickIdx \in 0 .. NumTasks
      /\ \A t \in Task : asked[t] \in Tick /\ elapsed[t] \in 0 .. TickModulus /\ wake[t] \in Tick
      /\ ticks \in Tick /\ Tick = 0 .. TickModulus - 1 /\ TickModulus \in Nat \ {0}
  BY SlotFacts, TickAssumption DEF MachineTypeOK, Tick
<1>1. CASE TickEnter
  <2>1. /\ UNCHANGED <<tstate, wake, asked>>
        /\ ticks' = (ticks + 1) % TickModulus
        /\ \A t \in Task : AwaitsScan(t)' /\ ~AwaitsScan(t)
    BY <1>0, <1>1 DEF TickEnter, AwaitsScan
  <2>2. ticks' \in {ticks + 1, ticks + 1 - TickModulus} /\ ticks' \in Tick
    <3>1. CASE ticks + 1 \in Tick
      BY <2>1, <3>1, WrapFacts
    <3>2. CASE ticks + 1 = TickModulus
      <4>1. ticks' = 0
        BY <1>0, <2>1, <3>2, WrapFacts
      <4> QED BY <1>0, <3>2, <4>1
    <3> QED BY <1>0, <3>1, <3>2
  <2>3. SUFFICES ASSUME NEW t \in Task, tstate[t] = "BLOCKED",
                        asked[t] \in SleepTimes, LagInv(t), TimeInv(t)
                 PROVE  LagInv(t)' /\ TimeInv(t)'
    BY <2>1 DEF SleepInv
  <2>4. elapsed[t] < asked[t] \/ elapsed[t] = 0
    BY <2>1, <2>3 DEF TimeInv
  <2>5. elapsed[t] < TickModulus
    BY <1>0, <2>4
  <2>6. elapsed'[t] = elapsed[t] + 1
    BY <1>1, <2>3, <2>5 DEF TickEnter
  <2>7. TimeInv(t)'
    BY <1>0, <2>1, <2>4, <2>6 DEF TimeInv
  <2>8. LagInv(t)'
    <3>1. (ticks - wake[t]) - (elapsed[t] - asked[t]) \in {-TickModulus, 0, TickModulus}
      BY <2>3 DEF LagInv
    <3>2. /\ asked[t] \in 0 .. TickModulus - 1 /\ elapsed[t] \in 0 .. TickModulus - 1
          /\ wake[t] \in 0 .. TickModulus - 1 /\ ticks' \in 0 .. TickModulus - 1
          /\ ticks \in 0 .. TickModulus - 1 /\ TickModulus \in Nat
      BY <1>0, <2>2, <2>5
    <3>3. (ticks' - wake[t]) - (elapsed'[t] - asked[t]) >= -TickModulus
      BY <2>4, <2>6, <3>2
    <3>4. (ticks' - wake[t]) - (elapsed'[t] - asked[t]) \in {-TickModulus, 0, TickModulus}
      <4>1. CASE ticks' = ticks + 1
        BY <2>6, <3>1, <3>2, <4>1
      <4>2. CASE ticks' = ticks + 1 - TickModulus
        <5>1. (ticks' - wake[t]) - (elapsed'[t] - asked[t])
                = (ticks - wake[t]) - (elapsed[t] - asked[t]) - TickModulus
          BY <2>6, <3>2, <4>2
        <5> QED BY <3>1, <3>2, <3>3, <5>1
      <4> QED BY <2>2, <4>1, <4>2
    <3> QED BY <2>1, <3>4 DEF LagInv
  <2> QED BY <2>7, <2>8
<1>2. CASE TickScan
  <2>1. /\ UNCHANGED <<ticks, wake, tickPc>> /\ tickPc = "scan"
        /\ tickIdx' = tickIdx + 1 /\ tickIdx < NumTasks
    BY <1>2 DEF TickScan
  <2>2. ASSUME NEW t \in Task, t # tickIdx
        PROVE  (tstate[t] = "BLOCKED" => asked[t] \in SleepTimes /\ LagInv(t) /\ TimeInv(t))'
    <3>1. tstate'[t] = tstate[t] /\ elapsed'[t] = elapsed[t] /\ asked'[t] = asked[t]
      BY <1>0, <1>2, <2>2 DEF TickScan, MachineTypeOK
    <3>2. AwaitsScan(t)' <=> AwaitsScan(t)
      BY <1>0, <2>1, <2>2 DEF AwaitsScan
    <3> QED BY <2>1, <3>1, <3>2 DEF SleepInv, LagInv, TimeInv
  <2>3. ASSUME NEW t \in Task, t = tickIdx, tstate'[t] = "BLOCKED"
        PROVE  (asked[t] \in SleepTimes /\ LagInv(t) /\ TimeInv(t))'
    <3>1. ~(tstate[t] = "BLOCKED" /\ Due(t))
      BY <1>0, <1>2, <2>3 DEF TickScan
    <3>2. UNCHANGED <<tstate, elapsed, asked>>
      BY <1>2, <2>3, <3>1 DEF TickScan
    <3>3. asked[t] \in SleepTimes /\ LagInv(t) /\ TimeInv(t) /\ ~Due(t)
      BY <2>3, <3>1, <3>2 DEF SleepInv
    <3>4. AwaitsScan(t) /\ ~AwaitsScan(t)'
      BY <1>0, <2>1, <2>3 DEF AwaitsScan
    <3>5. elapsed[t] < asked[t]
      BY <1>0, <3>3, <3>4, DueFacts
    <3> QED BY <2>1, <3>2, <3>3, <3>4, <3>5 DEF LagInv, TimeInv
  <2> QED BY <2>1, <2>2, <2>3 DEF SleepInv
<1>3. CASE TickExit
  <2>1. UNCHANGED <<tstate, ticks, sleepVars>>
        /\ \A t \in Task : ~AwaitsScan(t) /\ ~AwaitsScan(t)'
    BY <1>0, <1>3 DEF TickExit, AwaitsScan
  <2> QED BY <2>1 DEF SleepInv, LagInv, TimeInv, sleepVars
<1> QED BY <1>1, <1>2, <1>3 DEF TickStep

LEMMA BlockSleep ==
  ASSUME NEW S, NEW L, CoreInv(S, L), SleepInv, NEW t \in Task, SleepBlock(t)
  PROVE  SleepInv'
<1>0. /\ Task \subseteq Slot /\ Idle \notin Task /\ tickPc = "inactive"
      /\ tstate \in [Slot -> TaskState] /\ wake \in [Task -> Tick]
      /\ asked \in [Task -> Tick] /\ elapsed \in [Task -> 0 .. TickModulus]
      /\ ticks \in Tick /\ Tick = 0 .. TickModulus - 1 /\ TickModulus \in Nat \ {0}
  BY SlotFacts, TickAssumption DEF CoreInv, MachineTypeOK, Tick, SleepBlock, StepAt, ThreadMode
<1>1. current = t /\ UNCHANGED <<tickPc, tickIdx, ticks>>
  BY CurrentRuns DEF SleepBlock, StepAt, tickVars
<1>2. PICK ms \in SleepTimes :
        /\ BlockCurrentUntil((ticks + ms) % TickModulus)
        /\ asked' = [asked EXCEPT ![t] = ms]
  BY DEF SleepBlock
<1>3. /\ tstate' = [tstate EXCEPT ![t] = "BLOCKED"]
      /\ wake' = [wake EXCEPT ![t] = (ticks + ms) % TickModulus]
      /\ elapsed' = [elapsed EXCEPT ![t] = 0]
  BY <1>0, <1>1, <1>2 DEF BlockCurrentUntil, SleepBlock
<1>4. ms \in Tick
  BY <1>2, TickAssumption
<1>5. (ticks + ms) % TickModulus \in {ticks + ms, ticks + ms - TickModulus}
  <2>1. CASE ticks + ms \in Tick
    BY <2>1, WrapFacts
  <2>2. CASE ticks + ms >= TickModulus
    <3>1. ticks + ms - TickModulus \in Tick
      BY <1>0, <1>4, <2>2
    <3>2. ticks + ms = (ticks + ms - TickModulus) + TickModulus
      BY <1>0, <1>4
    <3> QED BY <3>1, <3>2, WrapFacts
  <2> QED BY <1>0, <1>4, <2>1, <2>2
<1>6. (asked[t] \in SleepTimes /\ LagInv(t) /\ TimeInv(t))'
  <2>1. asked'[t] = ms /\ elapsed'[t] = 0 /\ wake'[t] = (ticks + ms) % TickModulus
    BY <1>0, <1>2, <1>3
  <2>2. TimeInv(t)'
    BY <1>0, <1>1, <2>1 DEF TimeInv, AwaitsScan
  <2>3. (ticks - wake'[t]) - (0 - ms) \in {-TickModulus, 0, TickModulus}
    BY <1>0, <1>4, <1>5, <2>1
  <2> QED BY <1>1, <1>2, <2>1, <2>2, <2>3 DEF LagInv
<1>7. ASSUME NEW u \in Task \ {t}
      PROVE  (tstate[u] = "BLOCKED" => asked[u] \in SleepTimes /\ LagInv(u) /\ TimeInv(u))'
  <2>1. /\ tstate'[u] = tstate[u] /\ asked'[u] = asked[u] /\ elapsed'[u] = elapsed[u]
        /\ wake'[u] = wake[u]
    BY <1>0, <1>2, <1>3
  <2> QED BY <1>1, <2>1 DEF SleepInv, LagInv, TimeInv, AwaitsScan
<1> QED BY <1>6, <1>7 DEF SleepInv

(***************************************************************************)
(* The invariant of sleepers, for a counter of any width but one bit (for  *)
(* which a sleep of 0 is not over with the first tick).                    *)
(***************************************************************************)
THEOREM SleepInvariant ==
  ASSUME TickModulus # 2
  PROVE  KernelSpec => []SleepInv
<1>1. KernelInit => SleepInv
  BY SlotFacts DEF KernelInit, SleepInv
<1>2. CoreInv({"user"}, {}) /\ SleepInv /\ [KernelNext]_kernelVars => SleepInv'
  <2> SUFFICES ASSUME CoreInv({"user"}, {}), SleepInv, [KernelNext]_kernelVars
               PROVE  SleepInv'
    OBVIOUS
  <2>1. CASE TickStep
    BY <2>1, TickSleep DEF CoreInv
  <2>2. ASSUME NEW t \in Task, SleepBlock(t)
        PROVE  SleepInv'
    BY <2>2, BlockSleep
  <2>3. CASE UNCHANGED kernelVars
    BY <2>3, UnchangedSleep DEF kernelVars
  <2> QED
    BY <2>1, <2>2, <2>3, OthersKeepSleep, UnchangedSleep
    DEF KernelNext, HandlerStep, ThreadStep, SleepStep
<1> QED BY <1>1, <1>2, KernelInvariant, PTL DEF KernelSpec

(***************************************************************************)
(* No tick handler returns leaving a task asleep whose time has come.      *)
(***************************************************************************)
THEOREM SleepIsPrompt ==
  ASSUME TickModulus # 2
  PROVE  KernelSpec => []NoOversleep
<1>1. SleepInv => NoOversleep
  BY DEF SleepInv, TimeInv, AwaitsScan, NoOversleep
<1> QED BY <1>1, SleepInvariant, PTL

(***************************************************************************)
(* Sleeps of up to half the counter's range and one tick never end early,  *)
(* also across the wrap of RTOSK_SYSTICKS.                                 *)
(***************************************************************************)
THEOREM SleepIsNotCutShort ==
  ASSUME TickModulus # 2, \A ms \in SleepTimes : ms <= TickModulus \div 2 + 1
  PROVE  KernelSpec => NoEarlyWake
<1> DEFINE Wakes(t) == tstate[t] = "BLOCKED" /\ tstate'[t] = "READY"
           InTime == \A t \in Task : Wakes(t) => elapsed[t] >= asked[t]
<1>1. CoreInv({"user"}, {}) /\ SleepInv /\ [KernelNext]_kernelVars => [InTime]_kernelVars
  <2> SUFFICES ASSUME CoreInv({"user"}, {}), SleepInv, KernelNext, NEW t \in Task, Wakes(t)
               PROVE  elapsed[t] >= asked[t]
    OBVIOUS
  <2>0. MachineTypeOK /\ Task \subseteq Slot /\ Idle \notin Task
    BY SlotFacts DEF CoreInv
  <2>1. CASE TickStep
    <3>1. TickScan /\ tickIdx = t /\ Due(t)
      BY <2>0, <2>1 DEF TickStep, TickEnter, TickExit, TickScan, MachineTypeOK
    <3>2. AwaitsScan(t) /\ LagInv(t) /\ TimeInv(t) /\ asked[t] \in SleepTimes
      BY <2>0, <3>1, SlotFacts DEF TickScan, AwaitsScan, SleepInv
    <3> QED BY <2>0, <3>1, <3>2, DueFacts
  <2>2. ASSUME NEW u \in Task, SleepBlock(u)
        PROVE  FALSE
    BY <2>0, <2>2 DEF SleepBlock, BlockCurrentUntil, MachineTypeOK
  <2> QED
    BY <2>1, <2>2, OthersKeepSleep DEF KernelNext, HandlerStep, ThreadStep, SleepStep
<1> QED BY <1>1, SleepInvariant, KernelInvariant, PTL DEF KernelSpec, NoEarlyWake

=============================================================================
