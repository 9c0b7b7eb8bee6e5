# A TLA+ model of tinyrtos

tinyrtos is a small preemptive real-time kernel for one Cortex-M7 core
(NUCLEO-F756ZG): a tick, a priority scheduler, semaphores, mutexes, queues, a
serial console (OSI), and two example applications. This directory holds TLA+
modules that model the kernel from reset on, its synchronisation primitives, the
console and the GUI example's drawing protocol, TLC configurations that check
them on small instances, and TLAPS proofs of the invariants that matter most for
every number of tasks, every priority assignment and every line. Paths below are
relative to the repository root.

## 1. Inventory

| component | code | state | operations |
|---|---|---|---|
| Tick, sleep, critical sections | `src/kernel/kernel.c`, `task.c` | `RTOSK_SYSTICKS`, `RTOSK_CRITICAL_NESTING`, `RTOSK_CRITICAL_PRIMASK`, PRIMASK, each task's `state` and `wake_tick` | `rtosk_kernel_tick` (SysTick), `sleep_ms`, `delay_ms`, `yield`, `enter_critical`, `exit_critical` |
| Scheduler and context switch | `scheduler.c`, `port.c`, `task.c` | `RTOSK_CURRENT_TASK`, each task's `sp`, PSP, ICSR.PENDSVSET, the scan's locals | `rtosk_scheduler_select_next`, `PendSV_Handler`, `rtosk_task_save_stack_pointer`, `get_stack_pointer` |
| Boot and task creation | `kernel.c`, `task.c`, `port.c` | `RTOSK_TASK_COUNT`, `RTOSK_KERNEL_INIT`, initial stacks | `systick_init`, `create_task`, `kernel_start`, `SVC_Handler`, `rtosk_task_init_idle` |
| Semaphore | `semaphore.c` | `count`, `waiting_task` | `init`, `take`, `give`, `give_from_isr` |
| Mutex | `mutex.c` | `owner`, `waiting_task` | `init`, `lock`, `unlock` |
| Queue | `queue.c` | `buffer`, `head`, `tail`, `count`, `waiting_task` | `init`, `send`, `send_from_isr`, `receive` |
| OSI console | `src/osi/osi.c` | receive queue, transmit mutex, the line being typed, `saw_cr` | receive callback, console task, command dispatch (`rtosk_osi_init` is all others call) |
| Board support | `src/bsp/f756zg` | device registers, among them the output register all LEDs share | LED and USART3 register access, receive interrupt |
| Faults, diagnostics | `fault.c`, `task.c` | none of their own | register dump, `rtosk_task_get_info` |
| GUI example | `examples/gui` | the firmware's picture and angle; the host's port and frame parser | `scene_render`, framing, `gui_protocol_feed`, reconnection, drawing |
| OSI example | `examples/osi` | none | LED tasks that compute, sleep and yield |

**How they interact.** The kernel is called synchronously from tasks (thread
mode), and asynchronously by SysTick and by device interrupts. All kernel state
is shared memory. The only protection is PRIMASK, through
`rtosk_kernel_enter/exit_critical`; the handlers themselves mask nothing. A
switch is never done in place: whoever wants one sets PENDSVSET
(`rtosk_port_yield`) and PendSV, the exception of the lowest priority, does it
when nothing else is active. SysTick and device handlers preempt PendSV, so the
scheduler's scan runs while its input changes under it. A task that blocks marks
itself blocked *inside* its critical section, leaves it, and only then asks for
the switch: between those steps it runs although it is blocked, and may be
readied before it has gone to sleep. Semaphore, mutex and queue each remember
one waiting task. The OSI console is a task over a queue (filled by the USART3
interrupt) and a mutex (around polling output). The GUI example's firmware and
host share only a serial line: bytes go one way and nothing is acknowledged.

**What is hard here.** Preemption between any two steps that are not masked; a
tick or an interrupt in the middle of the scheduler's scan; the block/yield gap;
one waiter slot; the wrap of the 32-bit tick counter; critical sections that
nest around kernel calls; rings whose full and empty states have equal indexes.
`PROJECT.json` lists every hazard at its line with the properties that cover it.

**What makes each component correct.**

- *Scheduler and switch*: a switch restores the chosen task's own context, as it
  was saved when that task last ran; whenever application code runs with no
  switch pending, no ready task outranks it.
- *Tick and sleep*: a sleep ends neither before nor after the tick it asked for;
  sleepers wake whoever has the CPU.
- *Critical sections*: while one is open, at any depth, nothing else runs.
- *Semaphore*: no give is lost on a task that goes to sleep for it.
- *Mutex*: at most one task is inside; no task sleeps on a free mutex.
- *Queue*: accepted items come out once, unchanged, in order; no receiver sleeps
  on data.
- *Boot*: the first task starts in its own context with every other task's in
  place, whatever ticks come before.
- *Console*: each line ends once, whatever ends lines at the operator's terminal;
  it is carried out as edited; the system goes down for the line that says so and
  for no other; nothing overruns; the terminal shows the line.
- *LEDs*: tasks that toggle their own LED do not undo each other's toggles. They
  can; the property says exactly which.
- *GUI protocol*: the host draws what is sent, never something else, and finds
  the frames again after any loss; pictures lie inside the frame buffer, and the
  pixels of a line near it.

## 2. Plan

1. `Kernel` (done): the machine all else runs on. Runs, `KernelProofs`.
2. `Semaphore`, `Mutex`, `Queue` (done), each extending `Kernel`, so that a
   device interrupt, a tick or a switch can come between any two of their
   unmasked steps. Abstract specifications `SemaphoreSpec` and `QueueSpec` with
   refinements; `MutexProofs`, `SemaphoreProofs`, `QueueProofs`.
3. `Boot` (done), which extends `Kernel`: from reset on the main stack to the
   first switch, with ticks and PendSV before `svc`, the ways into HardFault, and
   the tasks of the OSI example. `BootProofs`. Left: tasks created at run time.
4. `Osi` (done): the console over the FIFO that `Queue` implements. `OsiProofs`.
5. `GuiScene`, `LineDrawing` and `GuiLink` (done), which composes the other two:
   the example's pictures as frames over a port that fails and is opened again,
   drawn pixel by pixel. `GuiProofs`.
6. Proofs (done): each safety property the passing runs check but one,
   `DrawsWhatIsSent` (section 7). `Folding`, a loop over a sequence as an operator
   that can be proved about, and `FoldProofs` serve the last two.

## 3. The modules

### Kernel

One core, three contexts: thread mode (the task whose context is live in PSP),
PendSV and SysTick. A step of the model is one access to state that another
context reads or writes; between two steps whatever the hardware allows may run.

| TLA+ | code |
|---|---|
| `tstate`, `wake`, `sp` | `RTOSK_TASKS[i].state`, `.wake_tick`, `.sp` |
| `current`, `ticks`, `nesting`, `savedmask` | `RTOSK_CURRENT_TASK`, `RTOSK_SYSTICKS`, `RTOSK_CRITICAL_NESTING`, `RTOSK_CRITICAL_PRIMASK` |
| `primask`, `pendsv`, `psp` | PRIMASK, ICSR.PENDSVSET, PSP with R4-R11 |
| `TickEnter`, `TickScan`, `TickExit` | `SysTick_Handler`: `rtosk_kernel_tick`, one turn of `rtosk_task_update_blocked` at a time |
| `SwitchEnter`, `SelectBegin`, `SelectScan`, `SelectCommit`, `SwitchExit` | `PendSV_Handler`: save, `rtosk_scheduler_select_next` one turn of its loop at a time, restore |
| `SleepEnter` ... `SleepYield` | `rtosk_kernel_sleep_ms` |
| `UserYield`, `UserEnter`, `UserExit` | the calls applications make directly |
| `StepAt`, `EnterCritical`, `ExitCritical`, `PendSwitch`, `BlockCurrentOn`, `SetReady` | the pieces every kernel call is made of |

A context is abstracted to whose it is: `sp[i]` names the task whose saved
context it leads to, and is `NoTask` as soon as that context has been restored
and runs on, so that a restore from a stale copy shows up as a wrong context.
`asked`, `elapsed` and `dispatched` are history variables no guard reads.

Taken from the architecture and from how `port.c` configures it (PendSV at the
lowest priority, SysTick above it): an unmasked pending PendSV is taken before
the next instruction of thread mode; SysTick preempts PendSV but not the other
way round; a handler does not preempt itself; PRIMASK holds off all of them. The
module starts where the SVC handler leaves off, with task 0 running
(`port.c:47-74`), whatever its priority; that this is where a reset leads is
checked by `Boot` (`StartsAsModelled`).

### Boot

Extends `Kernel` with what comes before it and after it. `bootPc` is `"main"`
while main runs on the main stack, `"svc"` from `RTOSK_KERNEL_INIT = 1` to the
svc, then `"running"`; `"stuck"` is the loop of a start without tasks, `"halted"`
the end of `HardFault_Handler`.

| TLA+ | code |
|---|---|
| `Init` | the zeroed statics; no context is saved, PSP is not set |
| `SystickInit`, `CreateTask`, `KernelStart` (`main`) | `rtosk_kernel_systick_init`, `rtosk_task_create` with `rtosk_task_build_stack`, `rtosk_kernel_start` with `rtosk_task_init_idle`. The two applications call them in different orders, so any order is allowed |
| `TickIgnored` | `rtosk_kernel_tick` while `RTOSK_KERNEL_INIT` is 0 |
| `EarlySave`, `EarlySelect`, `EarlyRestore`, `EarlyFault` | PendSV on top of main, between `kernel.c:83` and the svc: it pushes registers through a PSP that was never set. What PSP holds then is not known, so it either faults or files something that is no context under task 0 |
| `Svc` | `SVC_Handler`: starts the *current* task, which is not task 0 if PendSV came first |
| `StrayReturn`, `Halt` | a return through what is no context; `HardFault_Handler` and its endless loop |
| `ToggleRead`, `ToggleWrite` | `GPIOB->ODR ^= ...` of `led.c:69`: a load and a store of a register that holds all LEDs |

Of the LEDs only what the properties tell apart is kept: `stale[t]` is the set of
LEDs that have changed since task `t` read the register. `early` remembers that
PendSV came before the svc. The window is a few instructions once per boot, and
what its tick costs is task 0: the model shows that no other task loses anything,
whichever of them is chosen later.

### Osi

One action per character the console's task takes. `phase` is how far the system
is since its reset: `"off"`, `"delay"` (the second the task waits), `"console"`,
`"rebooting"` (the wait before `NVIC_SystemReset`), `"halted"` (the `fault`
command). The receive interrupt fills `rx`, the FIFO of `QueueSpec` with
`rtosk_queue_send_from_isr`'s drop when full, at any time from `rtosk_osi_init`
on, so also while the task waits. A command is `"answer"` (the six that only
print), `"fault"` or `"reboot"`; what it prints is left out, except that the
prompt follows. `screen` is the terminal's current line. `taken` and `answered`
are history variables. `LinesAreAsTyped` says from `taken` alone what lines a text
means: `EndsAt` where lines end (a CR, or an LF that does not follow one), `LineTo`
what the text since the previous end comes to, edit by edit (`Fold(Edit, <<>>, ...)`),
and `NumberOf` which answer is its.

The characters are two texts, CR, LF and one erasure (backspace and delete take
the same branch). Other control characters that a terminal may send are texts to
the code; that a terminal does not show them as one cell, and that a NUL ends a
command early, is left out. A character the receiver itself loses (an overrun)
never reaches the code and is as if it had not been typed.

### Semaphore, Mutex, Queue

Each extends `Kernel`, adds the object's fields, and has one action per access
of each function, in the code's order, with `pc` saying where each task is. The
test and the act it guards are separate steps (`TakeEmpty`/`TakeBlock`,
`LockFree`/`LockTake`, `SendRoom`/`SendCopy`/`SendPublish`): that nothing comes
in between is due to PRIMASK alone, and the runs' mutants show that opening a
critical section breaks the properties. The device handler (`GiveFromIsr`,
`SendFromIsr`) is one atomic step that may come wherever PRIMASK allows, also
between two steps of SysTick or PendSV; there is one such handler, so it is
preempted by nothing. Every task can also sleep, yield and compute as in
`Kernel`.

The steps come in four kinds, each an operator of `Kernel` with the label before
and after: `EnterAt` and `ExitAt` (a critical section begins, ends), `YieldAt` (a
switch is requested) and `AccessAt` (anything else under a mask).

- `Mutex` allows any task to call unlock, as the code does. Two history variables
  say whether a task has returned from a lock since its last unlock (`held`) and
  how many locks it has not yet matched by an unlock (`depth`). They differ only
  for a task that locks what it holds.
- `Queue` keeps the copy of an item apart from its publication, and the
  receiver's buffer `item` from `got`, the item its last completed receive took.
- `SemaphoreSpec`: a value and a set of blocked tasks; a give serves a blocked
  task or leaves one token. The mapping is `value <- count`, `blocked <-` the
  tasks in state BLOCKED_ON_SEMAPHORE.
- `QueueSpec`: a bounded sequence. The mapping reads the ring's `count` cells
  from `tail`.

### GuiScene, LineDrawing, GuiLink

`GuiScene` computes what `scene_render` draws: the projection of the cube in
integer arithmetic, as the firmware does it, for every angle, and the bytes of
each command's frame. A frame's bytes are those the C code computes, not
stand-ins, because whether a host out of step takes one byte for another depends
on them. The exclusive or of two bytes is written out in arithmetic (`XorOf`), and
the checksum is a `Fold` of it; the parser, which does the same byte by byte, never
uses the fold.

`LineDrawing` is `gui_renderer_draw_line`: `line` holds the call's arguments,
`pen` the point and the error term, and `DrawPixel` is one turn of its loop. It
is a module of its own, with a specification of its own (`LineSpec`), so that it
can be checked and proved for any ends, not only those of the animation.

`GuiLink` sends the frames (`Send`), hands them to the host's parser one byte at
a time (`Receive`, `gui_protocol_feed` with one action per state), and draws what
they say (`Draw`): no byte is read while a line is being drawn, as in the code,
where the parser calls the renderer. `Init` puts the host anywhere in any frame,
since it is started while the firmware runs. The host's port is `"open"`, `"dead"`
when it has failed and the host has not noticed (`Fail`), or `"closed"`. `Close` is
`gui_serial_read` noticing, by an error or by finding the port not healthy;
`Open` is the attempt of `gui_serial_open_auto` that succeeds. The firmware has got
to any later place by then; the parser has not moved.

Definitions named in comments as *faulty* (`LockEnterOpen`, `AfterLate`, ...)
are variants with a typical bug; no specification uses them. They serve to show that
each property notices the bug.

## 4. The runs

| run | instance | question | result |
|---|---|---|---|
| `kernel_safety` | 3 tasks with priorities 1, 2, 2; sleeps of 0, 1, 3 on a counter of 4; one application critical section | contexts, priorities, critical sections, sleep times | holds |
| `kernel_liveness` | from reset: 2 tasks with priorities 1, 2, a table of 2, each with a LED; one application critical section | the kernel starts as modelled; what a tick too early costs; sleepers wake; the higher task gets the CPU from one that never yields; which toggles are undone | holds (68,107 states) |
| `osi` | a line and a queue of 3; up to 7 characters out of 5 between two resets; commands of two and three letters | lines end once and are answered as edited; only a line that says so brings the system down; the screen shows the line | holds (249,653 states) |
| `semaphore` | a taker above two givers, the interrupt, one initial token | no lost give, a signal to its callers, the taker always served | holds |
| `mutex` | two lockers and a lower task that only unlocks | exclusion, no forgotten waiter, the higher locker gets in | holds |
| `queue` | a sender, a receiver above it, the interrupt, two cells, two contents | FIFO, no receiver asleep on data, receiver served | holds |
| `gui_link` | all 64 pictures of a turn, pixel by pixel; one outage within one picture | what is sent is drawn, near the line; the parser gets into step and back | holds (193,818 states) |
| `round_robin` | 2 tasks of equal priority | `README.md:26`: they take turns | violated |
| `sleep_wrap` | a sleep of 6 on a counter of 8 | `kernel.h:69`: it lasts as long as asked | violated |
| `sem_counting` | one taker, one giver | `README.md:31`: gives are counted | violated |
| `mutex_nested` | a task that locks twice | `mutex.h:48`: exclusive access | violated |
| `mutex_two_waiters` | three lockers | `mutex.h:69`: unlock wakes a waiting task | violated |

**What the violations show.**

- `round_robin`: the scan starts at the running task and replaces its choice
  only for a strictly higher priority (`scheduler.c:49-57`), so a running task is
  chosen again at every tick and its equals starve unless it blocks.
- `sleep_wrap`: the wake test is a signed difference (`task.c:197`), right only
  for sleeps of at most half the counter's range plus one tick (about 24.8 days);
  a longer one ends at the next tick. `kernel_safety` includes the longest sleep
  that works (3 on a counter of 4); this run takes the first that does not.
- `sem_counting`: a give with no waiter sets `count` to 1 (`semaphore.c:70`): the
  semaphore is binary. That is the abstract `Signal` of `SemaphoreSpec`.
- `mutex_nested`: lock by the owner is not counted (`mutex.c:56`).
- `mutex_two_waiters`: the second waiter overwrites the only slot
  (`mutex.c:60`); the first is never woken. `semaphore.c:55` and `queue.c:120`
  have the same slot, which is why the passing runs have one blocking task per
  object.

## 5. Bounds

- *Tasks.* Two tasks suffice for a preemption; three with one low and two equal
  high ones make the scan skip, replace and keep a candidate, start anywhere in
  the table and be overtaken by a tick on either side of its position. The
  synchronisation runs add a third party where one matters (a second giver, a
  task that unlocks what it does not own).
- *`TickModulus`.* The counter is reduced modulo a small number and wraps within
  every run of `Kernel`. In the synchronisation runs it is 1, with `SleepTimes`
  {0}: the counter carries no information, each sleep ends at the next tick, and
  since ticks may come at any rate a sleep can still last arbitrarily long.
- *`MaxNesting`.* One application section around the kernel's own gives nesting
  depth two; deeper ones are covered by the proofs. It is 0 in the synchronisation
  runs: a call that blocks inside an application's critical section cannot
  switch; no caller in the repository makes one.
- *`MaxDepth`* (of `Mutex`): 2, so that a task also locks what it holds; 1 in
  `mutex_two_waiters`, where nesting plays no part.
- *`Capacity` 2* gives the ring an empty, a partly filled and a full state at
  both positions of `head` and `tail`; two item contents tell items apart.
- *Waiters.* One blocking task per semaphore and queue: the code remembers one.
  `mutex` has two lockers, so one waits while the other holds.

- *`AngleCount` 64.* The code's angle is a byte, but the sine table is a turn of
  64 entries, so pictures repeat after 64. *`MaxOutages` 1, `OutageAngles` {9}*:
  an outage joins any place in the parser's treatment of one picture to any place
  of that picture; where it happens beyond that makes no difference to the
  parser, whose frames have the same four lengths in every picture.

- *`MaxTasks` 2* in `kernel_liveness`: main fills the table, so that the slot after
  the last task's is the idle task's.
- *`BufferSize` 3* (of `Osi`, 128 in the code, for the line and the queue alike):
  a line of two characters and the NUL. It is empty, partly filled and full, is
  overfilled and then edited; *`MaxTyped` 7* fills it, overfills it, ends it with
  CRLF and begins the next, and overruns the queue as well. One of the commands is
  as long as the line can be and one shorter.

Nothing else is bounded: the runs explore all reachable states.

## 6. Fairness

Safety is checked without any fairness. Liveness assumes:

- **SysTick recurs** (`SF` of `TickEnter`): the timer runs for ever and its
  request is latched while PRIMASK or the handler itself holds it off.
- **A handler that is active ends** (`WF` of the tick's steps, `SF` of the
  switch's: PendSV can be preempted by every tick, yet a tick is a millisecond
  away and the handler takes microseconds).
- **Kernel code that has the CPU proceeds** (`SF` of the steps inside kernel
  calls): straight-line code that can be preempted again and again and still
  gets its instructions done. No fairness is assumed of application code: a task
  may compute for ever, as `led1_task` of `examples/osi` does. It is assumed not
  to stay in a critical section for ever (`KernelFairness`), nor to keep a mutex
  for ever once it has the CPU (`Mutex!FairSpec`): without either, no kernel could
  promise anything.
- **Thread mode recurs** (`ThreadModeRecurs`, in the synchronisation modules):
  ticks and device interrupts do not take all of the CPU. Otherwise a handler
  could return and be re-entered for ever without one instruction of a task.
- **Once the kernel runs** (`Boot`): the same, of the kernel's steps from the svc
  on; a toggle that has begun gets done (`SF` of `ToggleWrite`); a return through
  what is no context faults (`WF` of `StrayReturn`). Nothing makes main start the
  kernel.
- **The firmware renders and the host reads and draws for ever** (`WF` of `Send`,
  `Receive` and `Draw`): the dispatcher task and `main` loop.
- **The port comes back** (`WF` of `Close` and `Open`): `gui_serial_read` looks at
  the port's health whenever it gets nothing, and `gui_serial_reconnect` tries
  until it succeeds; that the board is plugged in again is assumed.
- **The device keeps interrupting** (`SF` of `GiveFromIsr` and `SendFromIsr`,
  where the property is about being served).

## 7. Proofs

`KernelProofs`, `MutexProofs`, `SemaphoreProofs`, `QueueProofs` and `BootProofs` hold for
every number of tasks, every priority assignment, every width of the tick counter and
every set of sleep times, `OsiProofs` for every set of characters, commands and every
size of the line, `GuiProofs` for every number of angles up to the table's 256 and any
number of outages, and `FoldProofs` for every step function and sequence, under the assumptions named in the modules proved about. What a
theorem assumes beyond them:

| theorems | assumption | why |
|---|---|---|
| `SleepIsPrompt`, `SleepIsNotCutShort` | `TickModulus # 2` | the code's counter has 32 bits; on one of a single bit the tick after the next is also the one before it, and a sleep of 0 is not over with the first tick |
| `SleepIsNotCutShort` | sleeps of at most half the counter's range and one tick | `sleep_wrap` shows the first that is longer |
| `MutexWaiterSafe`, `MutexWakesSleepers` | at most two tasks lock (any number unlocks) | `mutex_two_waiters` shows three |
| `QueueWaiterSafe`, `QueueWakesReceiver` | one task receives (any number sends) | the queue has the same single slot |
| `SemaphoreWaiterSafe`, `SemaphoreIsSignal` | `MaxNesting = 0` | below |
| `SemaphoreIsSignal` | one task takes | below |
| `TogglesTurnTheirOwn` | no two tasks have the same priority | below |

The inductive invariant of the kernel is `CoreInv(Settled, Lost)`: the types and

- `ContextInv(Lost)`: outside PendSV the live context is the current task's; every
  saved pointer but the current task's is in place, and inside PendSV all are.
  `ContextIntegrity` alone does not say the latter, and the restore needs it. `Lost`
  are the tasks this need not hold of: none, but for task 0 in `Boot` when PendSV came
  before the svc.
- `CriticalInv`: nesting agrees with PRIMASK and the saved mask is open, so that
  the outermost exit unmasks.
- `SchedInv(Settled)`: the scheduling argument. `Pending` says that a switch is
  requested or that a tick is under way (which will request one). While nothing
  is `Pending`, the scan's `best` is the best of the tasks seen so far
  (`ScanInv`), the choice about to be restored is right (`RightChoice`), and so is
  the task that runs, if it is at a label where it owes nobody a switch. Whoever
  makes a task ready halfway through the scan makes a switch `Pending`, and the
  invariant asks nothing more of this round. That is why it is inductive
  although the scan may be stale, and why every `set_ready` in the code has to be
  followed by a yield.
- `AwayInv(Settled)`: before the scheduler has run for the first time, a task that is
  not ready and has got to a label where it owes no switch has at least requested it.

The lemmas are stated per fragment: `TickCore` and `SwitchCore` for the
handlers, `ThreadCore` for a masked or unmasked step that disturbs no task state,
`CallCore` for the kernel's calls, and `SectionCore`, `YieldCore`, `AccessCore` and
`DeviceCore` for the kinds of step a synchronisation call is made of. They take the set
of settled labels and the lost tasks as parameters, so that `MutexProofs`,
`SemaphoreProofs`, `QueueProofs` and `BootProofs` only add their own. From `CoreInv`
follow `ContextSafe`, `CriticalSafe`, `PrioritySafe` and `KernelTypeSafe`.

*Sleep.* What a sleeper knows of the time is `wake_tick`, and what it is promised is a
number of ticks. `LagInv` relates the two: `ticks - wake` and `elapsed - asked` are the
same up to one wrap of the counter either way. `TimeInv` says that the time of a
sleeper the scan has yet to look at has come just now if it has come at all, and that
of one it has looked at has not come (a sleep of 0 is over with its first tick). With
these the signed difference of `task.c:197` is zero or positive exactly for the
sleepers that are due (`SleepIsPrompt`: nobody sleeps on past a tick that should wake
it), and no sleep within the bound ends early (`SleepIsNotCutShort`), however often
RTOSK_SYSTICKS wraps. `SleepIsPrompt` needs no bound: a sleep that is too long ends too
early and not too late.

`MutexProofs` adds `MaskedInv` (a task at a masked label is the running one, in a
critical section, so no two are) and `OwnerInv` (who has returned from lock owns
the mutex until it unlocks; who has seen it free still sees it free). From these
follow `MutexExclusion`, for any number of lockers and also if they nest: what
nesting breaks is `NestedExclusion`, as `mutex_nested` shows. `MutexPrioritySafe`
carries the priority guarantee over to tasks that block on a mutex. For two lockers
`SleeperInv` adds who waits for whom: whoever is about to block has seen the other
own the mutex, whoever is blocked is registered, and the owner is then awake, so that
its unlock is still to come. The unlock readies the only task that can be blocked.
Hence `MutexWaiterSafe` and `MutexWakesSleepers`, also inside critical sections of the
caller: a lock tests again before it returns, so unlike a take it cannot come back
registered.

`SemaphoreProofs` adds `ReturnInv`: a task at the end of a take has its switch behind it
or still ahead of it. With the kernel's guarantee for settled labels this gives
`SemaphoreTakesAreGiven`, for any number of takers. The other two results assume
`MaxNesting = 0`, that is, that no task calls take inside a critical section of its
own: then `NestInv` (the open section is that of the running task's call, one deep)
shows that a take never returns without its switch, and `WaitInv` that the registered
waiter is blocked (`SemaphoreWaiterSafe`). If, besides, only one task takes, the
blocked task is the registered one (`AloneInv`), so a give serves it or finds nobody
blocked, and every step is one of `SemaphoreSpec` or none (`SemaphoreIsSignal`).
A take inside the caller's critical section cannot switch: it returns still registered,
and may be asleep or past its next take when the give comes, so `WaiterIsBlocked` does
not hold there. With two takers the second to block overwrites the registration of the
first, which a later give then does not serve. TLC finds both as soon as
`semaphore.cfg` gets `MaxNesting = 1` or a second taker.

`QueueProofs` first proves what the ring does as a sequence, without the kernel:
storing in the free cell at `head` changes nothing (`StoreKeepsRing`), publishing it
appends (`PushAppends`), advancing `tail` drops the first item (`PopTakesFirst`).
`RingInv` places `head`; `FoundInv` says that what a task has found out in its critical
section (there is room; the item copied is the oldest) is still so when it acts
on it, which needs `MaskedInv` against the other tasks and PRIMASK against the
interrupt. `QueueIsFifo` follows for every capacity and any number of senders and
receivers, nested or not. What several receivers lose is the wake-up, not the
order: for one, `SleeperInv` says that who is about to block has seen the queue empty
and nothing has been sent since, and that it stays empty for as long as somebody is
blocked, since the send that fills it readies the receiver in the same critical
section or handler (`QueueWakesReceiver`, `QueueWaiterSafe`).

`BootProofs` goes by phases. While main runs nothing else has moved (`MainInv`). From
`RTOSK_KERNEL_INIT = 1` to the svc PendSV may run on top of main: what it cannot
destroy is `CoreInv(Settled, {0})`, the kernel's own invariant with task 0 exempt, and
as long as it has not come the state is the one main left (`FreshInv`). So the svc
starts either a sound kernel or one that has lost task 0 and nobody else
(`BootLosesOnlyTaskZero`), and in the first case the state that `Kernel` starts from
(`BootStartsKernel`), which is what entitles the other modules to their `KernelInit`.
Of the LEDs `ToggleInv` says that the tasks in the middle of a toggle do not outrank
the one that runs, since it is chosen among ready tasks. Hence no toggle undoes one of
a lower task, whatever the priorities (`TogglesUndoUpwards`), and where no two tasks
have the same priority each turns its own LED (`TogglesTurnTheirOwn`). Among equals it
may not: with tasks 1 and 3 of a higher priority than 0 and 2, say, 0 and 2 can both
be preempted in the middle of their toggles (after a switch the scan begins at whoever
was running). When 2 has toggled and is in its next toggle, 0 puts LED 2 back to what it
was before, and 2's write then turns nothing. TLC finds this with four tasks of two
priorities.

`OsiProofs`: `OsiInv` is the types, `ScreenShowsLine` and `GoesDownAsTold` together, and
that nothing has been typed before the console starts. The lemmas are about sequences:
a prompt in front of a line is not reached when a character is added to the line or
taken from it (`AppendAfterPrompt`, `FrontAfterPrompt`). `ScreenIsTheLine`,
`GoesDownOnlyAsTold` and `OsiTypeSafe` follow.

`FoldProofs`: a loop that carries a value along a sequence has, after each element,
exactly one value (`FoldExists`, `FoldUnique`), so a fold of nothing is the value it
starts with, and a fold of a sequence with one more element is one step more
(`FoldAppend`). This is an induction, made by the least counterexample: of the numbers
of elements for which the claim fails there would be a least, since < is well-founded
on the naturals.

*What was typed.* `LinesAreAnswered` compares the lines the console has answered with
what the whole text so far means. `LinesInv` says what of that text has to be
remembered, which is what the code keeps: the line since the last end, in `cmd`, and in
`saw_cr` whether the last character was a CR. `LineOfAppend` shows what one more
character does to the meaning of a text: no line that has ended changes, and the line
under way is edited or ends. A CR, an LF or a CR LF therefore ends one line and no
more, and an erasure never reaches back over the end of a line.

`GuiProofs` has four parts.

- *The line drawing.* `LineIsNear`, for all integer ends: every pixel lies between the
  ends and at most half a pixel off the line. `NearTheLine` is not inductive, since it
  does not mention the error term. With `a` and `b` the longer and shorter side and `D`
  the deviation of the pen, `LineInv` adds `err = DeltaX - DeltaY + D` and `|2 D| <=
  max(DeltaX, DeltaY)`. The tests compare `2 err` with the sides, so each step taken
  keeps the bound (`DevStep`, `StaysNear`), and since a pen that has arrived in one
  direction can only step in the other (`DevAtEdge`), it never leaves the box
  (`StaysInBox`). `LinesAreNear` carries this over to the lines the host draws.
- *The pictures.* The sines of the table are at most 128, so the rotations, whose
  products and quotients are bounded by `ProductWithin` and `QuotientWithin`, leave every
  corner inside 31 to 223 by 7 to 135, for any two angles (`CornerOnScreen`): no
  coordinate wraps as the byte it is sent as (`PicturesFit`). Each picture is fourteen
  commands that the parser knows (`SceneIs`), and `FrameIs` says what byte is where in a
  command's frame.
- *The parser by itself.* `ParserInv` says that what it holds is what it has read of a
  frame: at `CHECKSUM` there are as many bytes in `payload` as `len` announced, and
  `checksum` is the `Checksum` of all of them. It holds whatever the bytes are, in step
  or not, so the copy into the payload's buffer stays inside it (`GuiTypeSafe`).
- *Firmware and parser together.* `StaysInStep` says that a parser in step has executed
  each frame when the next one begins. `InStepInv` adds how the two share a frame:
  what the parser has read (`Consumed`) and what is still on the line are together
  the frame being sent (`Matches`). A byte that is read moves that boundary by one
  (`FeedInStep`), the frame's checksum is right because the parser's is (`ParserInv`),
  and no frame is over before its checksum is read (`MoreToCome`). A failing port
  ends being in step, and only a frame that is executed at its end begins it anew, hence
  `EveryFrameIsExecuted`. That there will be such a frame is `GetsBackInStep`.

**Only model-checked**:

- liveness, since fairness and ENABLED are outside what TLAPS handles. That the pen of a
  line arrives, so that the loop ends, is part of `GetsBackInStep`, checked for every
  line of the animation.
- `DrawsWhatIsSent`: a host started in the middle of a frame executes nothing that was
  not sent either. The protocol does not promise this (bytes inside a frame, or across
  two, may look like one); it is so because of the very bytes these pictures consist
  of, and TLC goes through them.

## 8. Not modelled

- *The register dump* of `fault.c`: decodes flags and prints by polling; nothing
  follows it. `Boot` and `Osi` model when the handler is entered and that it never
  returns.
- *Diagnostics* (`rtosk_task_get_info`, stack watermarks): read only.
- *Board set-up and polling*: pins, clocks, baud rates and TXE have no state the
  rest depends on. The overrun flag of the USART, which `USART3_IRQHandler` never
  clears, is the chip's and not modelled. `rtosk_bsp_f756zg_set_on_board_led` has
  no caller.
- *Tasks created by tasks*: the API allows it and masks nothing while it does;
  both applications create theirs in main.
- *Stack contents, registers, FPU frames*: a context is one value that says
  whose it is. Stack overflow is not modelled, nor what else in memory PendSV may
  overwrite when it pushes through a PSP that was never set.
- *What console commands print*, and interrupts of two devices on one queue (each
  application has one).
- *The host's window, colours and choice of port*: SDL and operating system calls,
  and with them the polling for the window being closed. `gui_serial_write` and
  `gui_draw_pixel` have no caller.
