------------------------------- MODULE Queue -------------------------------
(***************************************************************************)
(* One rtosk_queue_t (queue.c), a ring buffer filled by tasks and by one   *)
(* interrupt handler and emptied by tasks, on the Kernel machine.  An item *)
(* is copied and then published by separate steps, so that the critical    *)
(* sections, and not the model, are what keeps the two together.           *)
(***************************************************************************)
EXTENDS Kernel, Sequences

CONSTANTS
  Receivers,  \* the tasks that call rtosk_queue_receive
  Senders,    \* the tasks that call rtosk_queue_send
  Capacity,   \* rtosk_queue_init's argument
  Item,       \* the contents an item may have
  NoItem      \* a receiver's buffer before its first receive

ASSUME QueueAssumption ==
  /\ Receivers \subseteq Task /\ Senders \subseteq Task
  /\ Capacity \in Nat \ {0} /\ NoItem \notin Item

Cell == 0 .. Capacity - 1

VARIABLES
  buffer, head, tail, count,  \* the queue's fields of the same names
  waiting,                    \* queue->waiting_task
  item                        \* each receiver's buffer, rtosk_queue_receive's argument

\* History: the item each receiver's last completed receive took.
VARIABLE got

queueVars == <<buffer, head, tail, count, waiting, item, got>>
vars == <<kernelVars, queueVars>>

\* What rtosk_queue_init leaves of a buffer with any contents.
Init ==
  /\ KernelInit
  /\ buffer \in [Cell -> Item]
  /\ head = 0 /\ tail = 0 /\ count = 0 /\ waiting = NoTask
  /\ item = [t \in Receivers |-> NoItem]
  /\ got = [t \in Receivers |-> NoItem]

-----------------------------------------------------------------------------

\* Faulty: wraps one cell late.
AfterLate(cell) == IF cell + 1 > Capacity THEN 0 ELSE cell + 1

After(cell) == IF cell + 1 >= Capacity THEN 0 ELSE cell + 1

\* rtosk_queue_copy of an item into the ring
CopyIn(x) == buffer' = [buffer EXCEPT ![head] = x]

\* Faulty: the waiter stays registered.
PublishKeepsWaiter ==
  /\ head' = After(head)
  /\ count' = count + 1
  /\ IF waiting # NoTask THEN SetReady(waiting) ELSE UNCHANGED tstate
  /\ UNCHANGED waiting

\* What both sends do next: the item counts, and the waiter is readied.
Publish ==
  /\ head' = After(head)
  /\ count' = count + 1
  /\ waiting' = NoTask
  /\ IF waiting # NoTask THEN SetReady(waiting) ELSE UNCHANGED tstate

(* rtosk_queue_send *)

\* Faulty: without its critical section.
SendEnterOpen(t) == AccessAt(t, "user", "send") /\ UNCHANGED <<tstate, queueVars>>

SendEnter(t) == EnterAt(t, "user", "send") /\ UNCHANGED queueVars

SendFull(t) ==
  /\ count >= Capacity
  /\ AccessAt(t, "send", "send_full")
  /\ UNCHANGED <<tstate, queueVars>>

SendRefused(t) == ExitAt(t, "send_full", "user") /\ UNCHANGED queueVars

\* Faulty: without the test for room.
SendRoomUntested(t) ==
  /\ AccessAt(t, "send", "send_copy")
  /\ UNCHANGED <<tstate, queueVars>>

SendRoom(t) ==
  /\ count < Capacity
  /\ AccessAt(t, "send", "send_copy")
  /\ UNCHANGED <<tstate, queueVars>>

SendCopy(t) ==
  /\ AccessAt(t, "send_copy", "send_copied")
  /\ \E x \in Item : CopyIn(x)
  /\ UNCHANGED <<tstate, head, tail, count, waiting, item, got>>

SendPublish(t) ==
  /\ AccessAt(t, "send_copied", "send_published")
  /\ Publish
  /\ UNCHANGED <<buffer, tail, item, got>>

SendExit(t) == ExitAt(t, "send_published", "send_yield") /\ UNCHANGED queueVars

SendYield(t) == YieldAt(t, "send_yield", "user") /\ UNCHANGED queueVars

SendStep(t) ==
  SendFull(t) \/ SendRefused(t) \/ SendRoom(t) \/ SendCopy(t) \/ SendPublish(t)
    \/ SendExit(t) \/ SendYield(t)

(***************************************************************************)
(* rtosk_queue_send_from_isr.  A full queue refuses the item: nothing      *)
(* changes.                                                                *)
(***************************************************************************)
SendFromIsr ==
  /\ DeviceStep
  /\ count < Capacity
  /\ \E x \in Item : CopyIn(x)
  /\ Publish
  /\ pendsv' = (pendsv \/ waiting # NoTask)
  /\ UNCHANGED <<tail, item, got>>

-----------------------------------------------------------------------------
(* rtosk_queue_receive: the loop starts again at "receive" *)

ReceiveCall(t) == AccessAt(t, "user", "receive") /\ UNCHANGED <<tstate, queueVars>>

\* Faulty: without its critical section.
ReceiveEnterOpen(t) ==
  /\ AccessAt(t, "receive", "receive_test")
  /\ UNCHANGED <<tstate, queueVars>>

ReceiveEnter(t) == EnterAt(t, "receive", "receive_test") /\ UNCHANGED queueVars

ReceiveCopy(t) ==
  /\ count > 0
  /\ AccessAt(t, "receive_test", "receive_copied")
  /\ item' = [item EXCEPT ![t] = buffer[tail]]
  /\ UNCHANGED <<tstate, buffer, head, tail, count, waiting, got>>

ReceiveAdvance(t) ==
  /\ AccessAt(t, "receive_copied", "receive_taken")
  /\ tail' = After(tail)
  /\ count' = count - 1
  /\ got' = [got EXCEPT ![t] = item[t]]
  /\ UNCHANGED <<tstate, buffer, head, waiting, item>>

ReceiveReturn(t) == ExitAt(t, "receive_taken", "user") /\ UNCHANGED queueVars

ReceiveEmpty(t) ==
  /\ count = 0
  /\ AccessAt(t, "receive_test", "receive_block")
  /\ UNCHANGED <<tstate, queueVars>>

ReceiveBlock(t) ==
  /\ AccessAt(t, "receive_block", "receive_blocked")
  /\ waiting' = current
  /\ BlockCurrentOn("BLOCKED_ON_QUEUE")
  /\ UNCHANGED <<buffer, head, tail, count, item, got>>

ReceiveBlockExit(t) ==
  /\ ExitAt(t, "receive_blocked", "receive_yield")
  /\ UNCHANGED queueVars

ReceiveYield(t) == YieldAt(t, "receive_yield", "receive") /\ UNCHANGED queueVars

ReceiveStep(t) ==
  ReceiveEnter(t) \/ ReceiveCopy(t) \/ ReceiveAdvance(t) \/ ReceiveReturn(t)
    \/ ReceiveEmpty(t) \/ ReceiveBlock(t) \/ ReceiveBlockExit(t) \/ ReceiveYield(t)

-----------------------------------------------------------------------------

QueueStep ==
  \/ \E t \in Senders : SendEnter(t) \/ SendStep(t)
  \/ SendFromIsr
  \/ \E t \in Receivers : ReceiveCall(t) \/ ReceiveStep(t)

Next == (KernelNext /\ UNCHANGED queueVars) \/ QueueStep

Spec == Init /\ [][Next]_vars

\* Kernel's fairness, the same for send and receive, and a device that recurs.
FairSpec ==
  /\ Spec
  /\ HandlerFairness
  /\ SF_vars(\/ \E t \in Task : SleepStep(t) /\ UNCHANGED queueVars
             \/ \E t \in Senders : SendStep(t)
             \/ \E t \in Receivers : ReceiveStep(t))
  /\ SF_vars(SendFromIsr)
  /\ ThreadModeRecurs

-----------------------------------------------------------------------------
(* Properties *)

QueueLabels ==
  KernelLabels \cup
    {"send", "send_full", "send_copy", "send_copied", "send_published", "send_yield",
     "receive", "receive_test", "receive_copied", "receive_taken", "receive_block",
     "receive_blocked", "receive_yield"}

TypeOK ==
  /\ CoreTypeOK
  /\ pc \in [Task -> QueueLabels]
  /\ buffer \in [Cell -> Item]
  /\ head \in Cell /\ tail \in Cell /\ count \in 0 .. Capacity
  /\ waiting \in Task \cup {NoTask}
  /\ item \in [Receivers -> Item \cup {NoItem}]
  /\ got \in [Receivers -> Item \cup {NoItem}]

(***************************************************************************)
(* The three indexes agree at every moment any other context can look:     *)
(* head is count cells after tail, so a full ring is never taken for an    *)
(* empty one and no accepted item is overwritten.                          *)
(***************************************************************************)
RingIsConsistent == head = (tail + count) % Capacity

BlockedOnQueue == {t \in Task : tstate[t] = "BLOCKED_ON_QUEUE"}

(***************************************************************************)
(* "Recieves one item from the queue, blocking until data is available"    *)
(* (queue.h:75): no receiver stays blocked while an item is there, unless  *)
(* another receiver is on its way to take it.                              *)
(***************************************************************************)
NoneBlockedWhileData ==
  count > 0 /\ BlockedOnQueue # {} =>
    \E t \in Receivers \ BlockedOnQueue : pc[t] # "user"

(***************************************************************************)
(* A blocked receiver is the registered waiter and the other way round, so *)
(* a send, also one from the interrupt that comes between the test of the  *)
(* count and the switch, readies that receiver and nobody else.            *)
(***************************************************************************)
WaiterIsBlocked == \A t \in Task : waiting = t <=> t \in BlockedOnQueue

\* The queue as its users see it: count items, oldest at tail.
Waiting == [i \in 1 .. count |-> buffer[(tail + i - 1) % Capacity]]

Abstract == INSTANCE QueueSpec WITH items <- Waiting

(***************************************************************************)
(* Every accepted item is received once, unchanged and in order, with      *)
(* sends from tasks and from the interrupt in any interleaving.            *)
(***************************************************************************)
ImplementsFifo == Abstract!FifoSpec

(***************************************************************************)
(* A receiver of the highest priority always comes out of its receive as   *)
(* long as the interrupt keeps sending.                                    *)
(***************************************************************************)
TopReceiverIsServed ==
  \A t \in Receivers : Outranks(t) /\ pc[t] = "receive" ~> pc[t] = "user"

=============================================================================
