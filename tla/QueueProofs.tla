---------------------------- MODULE QueueProofs ----------------------------
(***************************************************************************)
(* The queue as a bounded FIFO, for any capacity, items, senders,          *)
(* receivers and priorities, and any preemption by SysTick, PendSV and the *)
(* sending interrupt.                                                      *)
(***************************************************************************)
EXTENDS Queue, KernelProofs, SequenceTheorems

(* The ring buffer alone *)

\* n items from cell t on: the oldest first.
Ring(b, t, n) == [i \in 1 .. n |-> b[(t + i - 1) % Capacity]]

\* The cell n <= Capacity cells after t.
CellAt(t, n) == IF t + n >= Capacity THEN t + n - Capacity ELSE t + n

LEMMA Wraps ==
  ASSUME NEW t \in Cell, NEW n \in 0 .. Capacity
  PROVE  (t + n) % Capacity = CellAt(t, n) /\ CellAt(t, n) \in Cell
BY QueueAssumption DEF Cell, CellAt

LEMMA RingCells ==
  ASSUME NEW b \in [Cell -> Item], NEW t \in Cell, NEW n \in 0 .. Capacity
  PROVE  /\ Ring(b, t, n) \in Seq(Item) /\ Len(Ring(b, t, n)) = n
         /\ \A i \in 1 .. n : Ring(b, t, n)[i] = b[CellAt(t, i - 1)]
<1>1. \A i \in 1 .. n : (t + i - 1) % Capacity = CellAt(t, i - 1) /\ CellAt(t, i - 1) \in Cell
  <2> TAKE i \in 1 .. n
  <2>1. i - 1 \in 0 .. Capacity /\ t + i - 1 = t + (i - 1)
    BY QueueAssumption DEF Cell
  <2> QED BY <2>1, Wraps
<1>2. Ring(b, t, n) = [i \in 1 .. n |-> b[CellAt(t, i - 1)]]
  BY <1>1 DEF Ring
<1>3. Ring(b, t, n) \in [1 .. n -> Item]
  BY <1>1, <1>2
<1> QED BY <1>2, <1>3, QueueAssumption

\* A free cell's contents do not matter.
LEMMA StoreKeepsRing ==
  ASSUME NEW b \in [Cell -> Item], NEW t \in Cell, NEW n \in 0 .. Capacity, n < Capacity,
         NEW x \in Item
  PROVE  Ring([b EXCEPT ![CellAt(t, n)] = x], t, n) = Ring(b, t, n)
<1> DEFINE c == [b EXCEPT ![CellAt(t, n)] = x]
<1>1. c \in [Cell -> Item]
  OBVIOUS
<1>2. \A i \in 1 .. n : CellAt(t, i - 1) # CellAt(t, n) /\ CellAt(t, i - 1) \in Cell
  BY QueueAssumption DEF CellAt, Cell
<1>3. \A i \in 1 .. n : c[CellAt(t, i - 1)] = b[CellAt(t, i - 1)]
  BY <1>2
<1> HIDE DEF c
<1>4. /\ Ring(b, t, n) \in Seq(Item) /\ Ring(c, t, n) \in Seq(Item)
      /\ Len(Ring(b, t, n)) = n /\ Len(Ring(c, t, n)) = n
      /\ \A i \in 1 .. n : Ring(c, t, n)[i] = Ring(b, t, n)[i]
  BY <1>1, <1>3, RingCells
<1>5. Ring(c, t, n) = Ring(b, t, n)
  BY <1>4, SeqEqual
<1> QED BY <1>5 DEF c

\* Publishing the cell at head appends its contents.
LEMMA PushAppends ==
  ASSUME NEW b \in [Cell -> Item], NEW t \in Cell, NEW n \in 0 .. Capacity, n < Capacity
  PROVE  Ring(b, t, n + 1) = Append(Ring(b, t, n), b[CellAt(t, n)])
<1> DEFINE r == Ring(b, t, n)
           s == Ring(b, t, n + 1)
           x == b[CellAt(t, n)]
<1>1. n + 1 \in 0 .. Capacity /\ n \in Nat /\ CellAt(t, n) \in Cell
  BY Wraps, QueueAssumption
<1>2. x \in Item
  BY <1>1
<1>3. /\ r \in Seq(Item) /\ Len(r) = n
      /\ \A i \in 1 .. n : r[i] = b[CellAt(t, i - 1)]
  BY RingCells
<1>4. /\ s \in Seq(Item) /\ Len(s) = n + 1
      /\ \A i \in 1 .. n + 1 : s[i] = b[CellAt(t, i - 1)]
  BY <1>1, RingCells
<1>5. s[n + 1] = x
  BY <1>1, <1>4
<1> HIDE DEF r, s, x
<1>6. /\ Append(r, x) \in Seq(Item) /\ Len(Append(r, x)) = n + 1
      /\ \A i \in 1 .. n : Append(r, x)[i] = r[i]
      /\ Append(r, x)[n + 1] = x
  BY <1>2, <1>3, AppendProperties
<1>7. \A i \in 1 .. n + 1 : s[i] = Append(r, x)[i]
  <2>1. ASSUME NEW i \in 1 .. n
        PROVE  s[i] = r[i]
    <3>1. i \in 1 .. n + 1
      BY <1>1
    <3> QED BY <1>3, <1>4, <3>1
  <2>2. \A i \in 1 .. n + 1 : i \in 1 .. n \/ i = n + 1
    BY <1>1
  <2> QED BY <1>5, <1>6, <2>1, <2>2
<1>8. s = Append(r, x)
  BY <1>4, <1>6, <1>7, SeqEqual
<1> QED BY <1>8 DEF r, s, x

\* Advancing tail drops the oldest item.
LEMMA PopTakesFirst ==
  ASSUME NEW b \in [Cell -> Item], NEW t \in Cell, NEW n \in 1 .. Capacity
  PROVE  /\ Ring(b, t, n) # <<>> /\ Head(Ring(b, t, n)) = b[t]
         /\ Tail(Ring(b, t, n)) = Ring(b, After(t), n - 1)
<1> DEFINE r == Ring(b, t, n)
           s == Ring(b, After(t), n - 1)
<1>1. n \in 0 .. Capacity /\ n - 1 \in 0 .. Capacity /\ n \in Nat \ {0} /\ After(t) \in Cell
  BY QueueAssumption DEF After, Cell
<1>2. /\ r \in Seq(Item) /\ Len(r) = n
      /\ \A i \in 1 .. n : r[i] = b[CellAt(t, i - 1)]
  BY <1>1, RingCells
<1>3. /\ s \in Seq(Item) /\ Len(s) = n - 1
      /\ \A i \in 1 .. n - 1 : s[i] = b[CellAt(After(t), i - 1)]
  BY <1>1, RingCells
<1>4. \A i \in 1 .. n - 1 : CellAt(After(t), i - 1) = CellAt(t, i)
  BY <1>1, QueueAssumption DEF CellAt, After, Cell
<1>5. CellAt(t, 0) = t
  BY QueueAssumption DEF CellAt, Cell
<1>6. r[1] = b[t]
  BY <1>1, <1>2, <1>5
<1> HIDE DEF r, s
<1>7. r # <<>>
  BY <1>1, <1>2, EmptySeq
<1>8. /\ Tail(r) \in Seq(Item) /\ Len(Tail(r)) = n - 1
      /\ \A i \in 1 .. n - 1 : Tail(r)[i] = r[i + 1]
  BY <1>1, <1>2, <1>7, HeadTailProperties
<1>9. \A i \in 1 .. n - 1 : r[i + 1] = b[CellAt(t, i)]
  <2> TAKE i \in 1 .. n - 1
  <2>1. i + 1 \in 1 .. n /\ (i + 1) - 1 = i
    BY <1>1
  <2> QED BY <1>2, <2>1
<1>10. Tail(r) = s
  BY <1>3, <1>4, <1>8, <1>9, SeqEqual
<1>11. Head(r) = b[t]
  BY <1>6
<1> QED BY <1>7, <1>10, <1>11 DEF r, s

-----------------------------------------------------------------------------
(* The queue on the kernel *)

\* Labels at which a task owes nobody a switch request.
Settled ==
  {"user", "send", "send_full", "send_copy", "send_copied", "receive", "receive_test",
   "receive_copied", "receive_taken", "receive_block"}

\* Labels inside a critical section of send or receive.
Masked ==
  {"send", "send_full", "send_copy", "send_copied", "send_published", "receive_test",
   "receive_copied", "receive_taken", "receive_block", "receive_blocked"}

QueueTypes ==
  /\ pc \in [Task -> QueueLabels]
  /\ buffer \in [Cell -> Item]
  /\ head \in Cell /\ tail \in Cell /\ count \in 0 .. Capacity
  /\ waiting \in Task \cup {NoTask}
  /\ item \in [Receivers -> Item \cup {NoItem}]
  /\ got \in [Receivers -> Item \cup {NoItem}]

\* Only the running task is inside a critical section.
MaskedInv == \A t \in Task : pc[t] \in Masked => nesting > 0 /\ psp = t

RingInv == head = CellAt(tail, count)

\* What a task has found out inside its critical section is still so.
FoundInv ==
  \A t \in Task :
    /\ pc[t] \in {"send_copy", "send_copied"} => count < Capacity
    /\ pc[t] = "receive_copied" => count > 0 /\ item[t] = buffer[tail]

QueueInv == CoreInv(Settled, {}) /\ QueueTypes /\ MaskedInv /\ RingInv /\ FoundInv

\* A step of the abstract queue, or none.
FifoStep == [Abstract!Next]_(Abstract!specVars)

\* The steps of send and receive keep the machine's invariant.
LEMMA QueueCore ==
  ASSUME QueueInv, QueueStep
  PROVE  CoreInv(Settled, {})'
<1>0. /\ CoreInv(Settled, {}) /\ tstate \in [Slot -> TaskState] /\ pendsv \in BOOLEAN
      /\ Receivers \subseteq Task /\ Senders \subseteq Task
  BY QueueAssumption DEF QueueInv, CoreInv, MachineTypeOK
<1>1. ASSUME NEW t \in Task,
             SendEnter(t) \/ SendRefused(t) \/ SendExit(t) \/ ReceiveEnter(t)
               \/ ReceiveReturn(t) \/ ReceiveBlockExit(t)
      PROVE  CoreInv(Settled, {})'
  BY <1>0, <1>1, SectionCore
  DEF SendEnter, SendRefused, SendExit, ReceiveEnter, ReceiveReturn, ReceiveBlockExit, Settled
<1>2. ASSUME NEW t \in Task, SendYield(t) \/ ReceiveYield(t)
      PROVE  CoreInv(Settled, {})'
  BY <1>0, <1>2, YieldCore DEF SendYield, ReceiveYield
<1>3. ASSUME NEW t \in Task,
             SendFull(t) \/ SendRoom(t) \/ SendCopy(t) \/ ReceiveCall(t) \/ ReceiveCopy(t)
               \/ ReceiveAdvance(t) \/ ReceiveEmpty(t)
      PROVE  CoreInv(Settled, {})'
  <2>1. PICK from \in Settled, to \in Settled : AccessAt(t, from, to)
    BY <1>3 DEF SendFull, SendRoom, SendCopy, ReceiveCall, ReceiveCopy, ReceiveAdvance,
         ReceiveEmpty, Settled
  <2>2. tstate' = tstate
    BY <1>3 DEF SendFull, SendRoom, SendCopy, ReceiveCall, ReceiveCopy, ReceiveAdvance,
         ReceiveEmpty
  <2> QED BY <1>0, <2>1, <2>2, AccessCore
<1>4. ASSUME NEW t \in Task, ReceiveBlock(t)
      PROVE  CoreInv(Settled, {})'
  <2>1. tstate' = [tstate EXCEPT ![t] = "BLOCKED_ON_QUEUE"]
    BY <1>0, <1>4, CurrentRuns DEF ReceiveBlock, AccessAt, BlockCurrentOn
  <2>2. /\ tstate' \in [Slot -> TaskState]
        /\ \A u \in Task \ {t} : tstate'[u] \in {tstate[u], "READY"}
    BY <1>0, <2>1, SlotFacts DEF TaskState
  <2> QED BY <1>0, <1>4, <2>2, AccessCore DEF ReceiveBlock, Settled
<1>5. Publish => /\ tstate' \in [Slot -> TaskState]
                 /\ \A u \in Task : tstate'[u] \in {tstate[u], "READY"}
  BY <1>0, SlotFacts DEF Publish, SetReady, TaskState
<1>6. ASSUME NEW t \in Task, SendPublish(t)
      PROVE  CoreInv(Settled, {})'
  BY <1>0, <1>5, <1>6, AccessCore DEF SendPublish, Settled
<1>7. CASE SendFromIsr
  <2>1. pendsv' = (pendsv \/ waiting # NoTask) /\ Publish /\ DeviceStep
    BY <1>7 DEF SendFromIsr
  <2>2. pendsv' \/ tstate' = tstate
    BY <2>1 DEF Publish
  <2>3. pendsv' \in BOOLEAN /\ (pendsv => pendsv')
    BY <2>1
  <2> QED BY <1>0, <1>5, <2>1, <2>2, <2>3, DeviceCore
<1> QED
  BY <1>0, <1>1, <1>2, <1>3, <1>4, <1>6, <1>7 DEF QueueStep, SendStep, ReceiveStep

\* The kernel's own calls are made outside send and receive, and no handler
\* comes inside their critical sections.
LEMMA KernelKeepsQueue ==
  ASSUME QueueInv, KernelNext, UNCHANGED queueVars
  PROVE  QueueTypes' /\ MaskedInv' /\ RingInv' /\ FoundInv'
<1> USE DEF QueueInv, QueueTypes, queueVars
<1>0. /\ \A t \in Task : pc'[t] = pc[t] \/ {pc[t], pc'[t]} \subseteq KernelLabels
      /\ pc' = [t \in Task |-> pc'[t]]
  BY KernelMoves
<1>1. KernelLabels \cap (Masked \cup {"send_copy", "send_copied", "receive_copied"}) = {}
  BY DEF KernelLabels, Masked
<1>2. QueueTypes' /\ RingInv' /\ FoundInv'
  BY <1>0, <1>1 DEF RingInv, FoundInv, QueueLabels
<1>3. CASE HandlerStep
  <2>1. UNCHANGED <<pc, nesting>> /\ (svPc = "inactive" => psp' = psp)
    BY <1>3, HandlerMoves DEF irqVars
  <2>2. nesting > 0 => svPc = "inactive"
    BY DEF CoreInv, CriticalInv, CriticalIsExclusive, ThreadMode
  <2> QED BY <1>2, <2>1, <2>2 DEF MaskedInv
<1>4. ASSUME NEW t \in Task, ThreadStep(t)
      PROVE  MaskedInv'
  <2>1. psp = t /\ pc[t] \in KernelLabels
    BY <1>4, CallMoves
  <2> QED BY <1>0, <1>1, <2>1 DEF MaskedInv
<1> QED BY <1>2, <1>3, <1>4 DEF KernelNext

\* Publishing after tail + count keeps head there; so does taking at tail.
LEMMA RingMoves ==
  ASSUME QueueTypes, RingInv
  PROVE  /\ count < Capacity => After(head) \in Cell /\ After(head) = CellAt(tail, count + 1)
         /\ count > 0 => After(tail) \in Cell /\ head = CellAt(After(tail), count - 1)
BY QueueAssumption DEF QueueTypes, RingInv, CellAt, After, Cell

\* Sends and receives keep the queue's invariant, and each is a step of the
\* FIFO or none.
LEMMA QueueKeepsQueue ==
  ASSUME QueueInv, QueueStep
  PROVE  QueueTypes' /\ MaskedInv' /\ RingInv' /\ FoundInv' /\ FifoStep
<1> USE DEF QueueInv, QueueTypes, EnterAt, ExitAt, YieldAt, AccessAt
<1> DEFINE Kept == QueueTypes' /\ MaskedInv' /\ RingInv' /\ FoundInv' /\ FifoStep
<1>0. /\ Receivers \subseteq Task /\ Senders \subseteq Task /\ nesting \in Nat
      /\ Capacity \in Nat /\ count \in Nat
  BY QueueAssumption DEF CoreInv, MachineTypeOK
<1>1. ASSUME NEW t \in Task, NEW from, NEW to, StepAt(t, from, to)
      PROVE  /\ psp = t /\ psp' = t /\ current = t /\ pc[t] = from
             /\ pc' = [pc EXCEPT ![t] = to]
             /\ \A u \in Task \ {t} : pc[u] \notin Masked /\ pc'[u] = pc[u]
  BY <1>1, CurrentRuns DEF StepAt, MaskedInv
<1>2. Waiting = Ring(buffer, tail, count) /\ Waiting' = Ring(buffer', tail', count')
  BY DEF Waiting, Ring
<1>3. ASSUME UNCHANGED <<buffer, tail, count, got>>
      PROVE  FifoStep
  BY <1>2, <1>3 DEF FifoStep, Abstract!specVars
<1>4. ASSUME NEW t \in Task,
             SendEnter(t) \/ ReceiveEnter(t) \/ SendRefused(t) \/ SendExit(t)
               \/ ReceiveReturn(t) \/ ReceiveBlockExit(t) \/ SendYield(t) \/ ReceiveYield(t)
               \/ ReceiveCall(t)
      PROVE  Kept
  <2>1. UNCHANGED queueVars
    BY <1>4 DEF SendEnter, ReceiveEnter, SendRefused, SendExit, ReceiveReturn,
         ReceiveBlockExit, SendYield, ReceiveYield, ReceiveCall
  <2>2. CASE SendEnter(t) \/ ReceiveEnter(t)
    BY <1>0, <1>1, <1>3, <2>1, <2>2 DEF SendEnter, ReceiveEnter, EnterCritical, queueVars,
       QueueLabels, KernelLabels, Masked, MaskedInv, RingInv, FoundInv
  <2>3. CASE ~(SendEnter(t) \/ ReceiveEnter(t))
    BY <1>0, <1>1, <1>3, <1>4, <2>1, <2>3 DEF SendRefused, SendExit, ReceiveReturn,
       ReceiveBlockExit, SendYield, ReceiveYield, ReceiveCall, queueVars, QueueLabels,
       KernelLabels, Masked, MaskedInv, RingInv, FoundInv
  <2> QED BY <2>2, <2>3
<1>5. ASSUME NEW t \in Task, SendFull(t) \/ SendRoom(t) \/ ReceiveEmpty(t)
      PROVE  Kept
  BY <1>0, <1>1, <1>3, <1>5 DEF SendFull, SendRoom, ReceiveEmpty, irqVars, queueVars,
     QueueLabels, KernelLabels, Masked, MaskedInv, RingInv, FoundInv
<1>6. ASSUME NEW t \in Task, SendCopy(t)
      PROVE  Kept
  <2>1. PICK x \in Item : CopyIn(x)
    BY <1>6 DEF SendCopy
  <2>2. count < Capacity /\ head = CellAt(tail, count)
    BY <1>1, <1>6 DEF SendCopy, FoundInv, RingInv
  <2>3. Waiting' = Waiting
    <3>1. buffer' = [buffer EXCEPT ![CellAt(tail, count)] = x] /\ UNCHANGED <<tail, count>>
      BY <1>6, <2>1, <2>2 DEF SendCopy, CopyIn
    <3>2. Ring(buffer', tail, count) = Ring(buffer, tail, count)
      BY <2>2, <3>1, StoreKeepsRing
    <3> QED BY <1>2, <3>1, <3>2
  <2>4. FifoStep
    BY <1>6, <2>3 DEF SendCopy, FifoStep, Abstract!specVars
  <2> QED
    BY <1>0, <1>1, <1>6, <2>1, <2>2, <2>4 DEF SendCopy, CopyIn, irqVars, QueueLabels,
       KernelLabels, Masked, MaskedInv, RingInv, FoundInv
<1>7. ASSUME NEW t \in Task, SendPublish(t)
      PROVE  Kept
  <2>1. count < Capacity /\ head = CellAt(tail, count)
    BY <1>1, <1>7 DEF SendPublish, FoundInv, RingInv
  <2>2. /\ head' = After(head) /\ count' = count + 1 /\ waiting' = NoTask
        /\ UNCHANGED <<buffer, tail, item, got>>
    BY <1>7 DEF SendPublish, Publish
  <2>3. Waiting' = Append(Waiting, buffer[head])
    BY <1>2, <2>1, <2>2, PushAppends
  <2>4. Len(Waiting) < Capacity /\ buffer[head] \in Item
    BY <1>2, <2>1, RingCells
  <2>5. FifoStep
    BY <2>2, <2>3, <2>4 DEF FifoStep, Abstract!Next, Abstract!Accept
  <2>6. RingInv' /\ head' \in Cell /\ count' \in 0 .. Capacity
    BY <1>0, <2>1, <2>2, RingMoves DEF RingInv
  <2> QED
    BY <1>0, <1>1, <1>7, <2>2, <2>5, <2>6 DEF SendPublish, irqVars, QueueLabels, KernelLabels,
       Masked, MaskedInv, FoundInv
<1>8. ASSUME NEW t \in Receivers, ReceiveCopy(t)
      PROVE  Kept
  BY <1>0, <1>1, <1>3, <1>8 DEF ReceiveCopy, irqVars, QueueLabels, KernelLabels, Masked,
     MaskedInv, RingInv, FoundInv
<1>9. ASSUME NEW t \in Receivers, ReceiveAdvance(t)
      PROVE  Kept
  <2>1. count > 0 /\ item[t] = buffer[tail]
    BY <1>0, <1>1, <1>9 DEF ReceiveAdvance, FoundInv
  <2>2. /\ tail' = After(tail) /\ count' = count - 1 /\ got' = [got EXCEPT ![t] = buffer[tail]]
        /\ UNCHANGED <<buffer, head, waiting, item>>
    BY <1>9, <2>1 DEF ReceiveAdvance
  <2>3. count \in 1 .. Capacity
    BY <1>0, <2>1
  <2>4. Waiting # <<>> /\ Head(Waiting) = buffer[tail] /\ Waiting' = Tail(Waiting)
    BY <1>2, <2>2, <2>3, PopTakesFirst
  <2>5. FifoStep
    BY <2>2, <2>4 DEF FifoStep, Abstract!Next, Abstract!Deliver
  <2>6. RingInv' /\ tail' \in Cell /\ count' \in 0 .. Capacity
    BY <1>0, <2>1, <2>2, <2>3, RingMoves DEF RingInv
  <2>7. got' \in [Receivers -> Item \cup {NoItem}]
    BY <2>2
  <2> QED
    BY <1>0, <1>1, <1>9, <2>2, <2>5, <2>6, <2>7 DEF ReceiveAdvance, irqVars, QueueLabels,
       KernelLabels, Masked, MaskedInv, FoundInv
<1>10. ASSUME NEW t \in Task, ReceiveBlock(t)
       PROVE  Kept
  BY <1>0, <1>1, <1>3, <1>10 DEF ReceiveBlock, irqVars, QueueLabels, KernelLabels, Masked,
     MaskedInv, RingInv, FoundInv
<1>11. CASE SendFromIsr
  <2>1. \A t \in Task : pc[t] \notin Masked
    BY <1>11 DEF SendFromIsr, DeviceStep, MaskedInv, CoreInv, CriticalInv, CriticalIsExclusive
  <2>2. PICK x \in Item : CopyIn(x)
    BY <1>11 DEF SendFromIsr
  <2>3. /\ count < Capacity /\ head = CellAt(tail, count)
        /\ buffer' = [buffer EXCEPT ![head] = x]
        /\ head' = After(head) /\ count' = count + 1 /\ waiting' = NoTask
        /\ UNCHANGED <<tail, item, got, pc>>
    BY <1>11, <2>2 DEF SendFromIsr, CopyIn, Publish, DeviceStep, RingInv
  <2>4. buffer' \in [Cell -> Item] /\ buffer'[head] = x
    BY <2>3
  <2>5. Ring(buffer', tail, count) = Waiting
    BY <1>2, <2>3, StoreKeepsRing
  <2>6. Waiting' = Append(Waiting, x)
    BY <1>2, <2>3, <2>4, <2>5, PushAppends
  <2>7. Len(Waiting) < Capacity
    BY <1>2, <2>3, RingCells
  <2>8. FifoStep
    BY <2>3, <2>6, <2>7 DEF FifoStep, Abstract!Next, Abstract!Accept
  <2>9. RingInv' /\ head' \in Cell /\ count' \in 0 .. Capacity
    BY <1>0, <2>3, RingMoves DEF RingInv
  <2> QED
    BY <2>1, <2>3, <2>4, <2>8, <2>9 DEF MaskedInv, FoundInv, Masked
<1> QED
  BY <1>0, <1>4, <1>5, <1>6, <1>7, <1>8, <1>9, <1>10, <1>11
  DEF QueueStep, SendStep, ReceiveStep

(***************************************************************************)
(* The inductive invariant of the queue on the kernel.                     *)
(***************************************************************************)
THEOREM QueueInvariant == Spec => []QueueInv
<1>1. Init => QueueInv
  <2> SUFFICES ASSUME Init PROVE QueueInv
    OBVIOUS
  <2>1. CoreInv(Settled, {})
    BY InitCore DEF Init
  <2>2. \A t \in Task : pc[t] = "user"
    BY DEF Init, KernelInit
  <2>3. QueueTypes
    BY QueueAssumption DEF Init, KernelInit, QueueTypes, QueueLabels, KernelLabels, Cell
  <2>4. RingInv
    BY QueueAssumption DEF Init, RingInv, CellAt
  <2> QED
    BY <2>1, <2>2, <2>3, <2>4 DEF QueueInv, MaskedInv, FoundInv, Masked
<1>2. QueueInv /\ [Next]_vars => QueueInv'
  <2> SUFFICES ASSUME QueueInv, [Next]_vars PROVE QueueInv'
    OBVIOUS
  <2>1. CASE KernelNext /\ UNCHANGED queueVars
    <3>1. CoreInv(Settled, {})'
      BY <2>1, KernelCore DEF QueueInv, Settled
    <3> QED BY <2>1, <3>1, KernelKeepsQueue DEF QueueInv
  <2>2. CASE QueueStep
    BY <2>2, QueueCore, QueueKeepsQueue DEF QueueInv
  <2>3. CASE UNCHANGED vars
    <3>1. CoreInv(Settled, {})'
      BY <2>3, StutterCore DEF QueueInv, vars
    <3> QED
      BY <2>3, <3>1 DEF vars, kernelVars, irqVars, queueVars, QueueInv, QueueTypes, MaskedInv,
         RingInv, FoundInv
  <2> QED BY <2>1, <2>2, <2>3 DEF Next
<1> QED BY <1>1, <1>2, PTL DEF Spec

(***************************************************************************)
(* Type correctness of the queue on the kernel.                            *)
(***************************************************************************)
THEOREM QueueTypeSafe == Spec => []TypeOK
<1>1. QueueInv => TypeOK
  BY CoreTypes DEF QueueInv, QueueTypes, TypeOK
<1> QED BY <1>1, QueueInvariant, PTL

(***************************************************************************)
(* For any capacity head, tail and count agree at every moment any other   *)
(* context can look.                                                       *)
(***************************************************************************)
THEOREM QueueRingSafe == Spec => []RingIsConsistent
<1>1. QueueInv => RingIsConsistent
  BY Wraps DEF QueueInv, QueueTypes, RingInv, RingIsConsistent
<1> QED BY <1>1, QueueInvariant, PTL

(***************************************************************************)
(* Sends, also those of the interrupt, and receives leave scheduling by    *)
(* priority intact.                                                        *)
(***************************************************************************)
THEOREM QueuePrioritySafe == Spec => []HighestReadyRuns
<1>1. QueueInv => HighestReadyRuns
  BY CoreRunsHighest DEF QueueInv, Settled
<1> QED BY <1>1, QueueInvariant, PTL

(***************************************************************************)
(* For any number of senders and receivers, any capacity and the interrupt *)
(* in between, every accepted item is delivered once, unchanged and in     *)
(* order.                                                                  *)
(***************************************************************************)
THEOREM QueueIsFifo == Spec => ImplementsFifo
<1>1. Init => Abstract!Init
  <2> SUFFICES ASSUME Init PROVE Abstract!Init
    OBVIOUS
  <2>1. count = 0 /\ got = [t \in Receivers |-> NoItem]
    BY DEF Init
  <2>2. Waiting = <<>>
    BY <2>1 DEF Waiting
  <2> QED BY <2>1, <2>2 DEF Abstract!Init
<1>2. QueueInv /\ [Next]_vars => FifoStep
  <2>1. ASSUME UNCHANGED queueVars
        PROVE  FifoStep
    BY <2>1 DEF queueVars, FifoStep, Abstract!specVars, Waiting
  <2> QED BY <2>1, QueueKeepsQueue DEF Next, vars
<1> QED
  BY <1>1, <1>2, QueueInvariant, PTL DEF Spec, FifoStep, ImplementsFifo, Abstract!FifoSpec

-----------------------------------------------------------------------------
(* One receiver: it sleeps only while there is nothing to receive *)

\* Where a blocked receiver is, or comes back to when it is readied.
ReceiveLoop ==
  {"receive", "receive_test", "receive_block", "receive_blocked", "receive_yield"}

\* Who blocks has seen the queue empty, with no send since.
SleeperInv ==
  /\ \A t \in BlockedOnQueue : t \in Receivers /\ pc[t] \in ReceiveLoop
  /\ \A t \in Task : pc[t] = "receive_block" => count = 0
  /\ BlockedOnQueue # {} => count = 0
  /\ WaiterIsBlocked

OneReceiver == \A t, u \in Receivers : t = u

\* The machine's own calls leave those who wait for the queue alone.
LEMMA KernelKeepsSleepers ==
  ASSUME QueueInv, SleeperInv, KernelNext, UNCHANGED queueVars
  PROVE  SleeperInv'
<1>0. KernelLabels \cap ReceiveLoop = {} /\ "receive_block" \notin KernelLabels
  BY DEF KernelLabels, ReceiveLoop
<1>1. BlockedOnQueue' = BlockedOnQueue
  <2>1. \A t \in Task : pc[t] = "sleep_block" => tstate[t] # "BLOCKED_ON_QUEUE"
    BY <1>0 DEF SleeperInv, BlockedOnQueue, KernelLabels
  <2>2. \A t \in Task : tstate'[t] = "BLOCKED_ON_QUEUE" <=> tstate[t] = "BLOCKED_ON_QUEUE"
    BY <2>1, KernelKeepsBlocked DEF QueueInv
  <2> QED BY <2>2 DEF BlockedOnQueue
<1>2. \A t \in Task : pc'[t] = pc[t] \/ {pc[t], pc'[t]} \subseteq KernelLabels
  BY KernelMoves DEF QueueInv
<1>3. BlockedOnQueue \subseteq Task
  BY DEF BlockedOnQueue
<1> QED BY <1>0, <1>1, <1>2, <1>3 DEF SleeperInv, WaiterIsBlocked, queueVars

\* A send leaves nobody blocked.
LEMMA PublishServes ==
  ASSUME QueueInv, SleeperInv, OneReceiver, Publish
  PROVE  BlockedOnQueue' = {} /\ waiting' = NoTask
<1>0. /\ tstate \in [Slot -> TaskState] /\ Task \subseteq Slot /\ NoTask \notin Task
      /\ waiting \in Task \cup {NoTask} /\ \A u \in Task : u < NumTasks
      /\ NumTasks \in Nat /\ Task \subseteq Nat
  BY SlotFacts DEF QueueInv, QueueTypes, CoreInv, MachineTypeOK
<1>1. CASE waiting = NoTask
  <2>1. tstate' = tstate /\ BlockedOnQueue = {}
    BY <1>0, <1>1 DEF Publish, SleeperInv, WaiterIsBlocked, BlockedOnQueue
  <2> QED BY <2>1 DEF Publish, BlockedOnQueue
<1>2. CASE waiting \in Task
  <2>0. ~(waiting >= NumTasks)
    BY <1>0, <1>2
  <2>1. tstate' = [tstate EXCEPT ![waiting] = "READY"]
    BY <1>0, <1>2, <2>0 DEF Publish, SetReady
  <2>2. BlockedOnQueue = {waiting}
    BY <1>0, <1>2 DEF SleeperInv, WaiterIsBlocked, BlockedOnQueue
  <2> QED BY <1>0, <2>1, <2>2 DEF Publish, BlockedOnQueue
<1> QED BY <1>0, <1>1, <1>2

LEMMA QueueKeepsSleepers ==
  ASSUME QueueInv, SleeperInv, OneReceiver, QueueStep
  PROVE  SleeperInv'
<1> USE DEF QueueInv, QueueTypes, EnterAt, ExitAt, YieldAt, AccessAt
<1>0. /\ Receivers \subseteq Task /\ Senders \subseteq Task /\ NoTask \notin Task
      /\ tstate \in [Slot -> TaskState] /\ Task \subseteq Slot
      /\ BlockedOnQueue \subseteq Task
  BY QueueAssumption, SlotFacts DEF CoreInv, MachineTypeOK, BlockedOnQueue
<1>1. ASSUME NEW t \in Task, NEW from, NEW to, StepAt(t, from, to)
      PROVE  /\ current = t /\ pc[t] = from
             /\ pc' = [pc EXCEPT ![t] = to] /\ pc'[t] = to
             /\ \A u \in Task \ {t} : pc'[u] = pc[u]
             /\ from \in Masked => \A u \in Task \ {t} : pc[u] \notin Masked
  BY <1>1, CurrentRuns DEF StepAt, MaskedInv
\* Steps that neither publish or take an item nor block or ready anyone.
<1>2. ASSUME NEW t \in Task, NEW from, NEW to, StepAt(t, from, to),
             UNCHANGED <<tstate, count, waiting>>,
             from \notin ReceiveLoop \/ to \in ReceiveLoop \/ t \notin BlockedOnQueue,
             to = "receive_block" => count = 0
      PROVE  SleeperInv'
  <2>1. BlockedOnQueue' = BlockedOnQueue
    BY <1>2 DEF BlockedOnQueue
  <2> QED BY <1>0, <1>1, <1>2, <2>1 DEF SleeperInv, WaiterIsBlocked
<1>3. ASSUME NEW t \in Task,
             SendEnter(t) \/ SendFull(t) \/ SendRefused(t) \/ SendRoom(t) \/ SendCopy(t)
               \/ SendExit(t) \/ SendYield(t) \/ ReceiveReturn(t)
      PROVE  SleeperInv'
  <2>1. PICK from, to : /\ StepAt(t, from, to) /\ UNCHANGED <<tstate, count, waiting>>
                        /\ from \notin ReceiveLoop /\ to # "receive_block"
    BY <1>3 DEF SendEnter, SendFull, SendRefused, SendRoom, SendCopy, SendExit, SendYield,
       ReceiveReturn, queueVars, ReceiveLoop
  <2> QED BY <1>2, <2>1
<1>4. ASSUME NEW t \in Receivers,
             ReceiveCall(t) \/ ReceiveEnter(t) \/ ReceiveEmpty(t) \/ ReceiveBlockExit(t)
               \/ ReceiveYield(t)
      PROVE  SleeperInv'
  <2>1. PICK from, to : /\ StepAt(t, from, to) /\ UNCHANGED <<tstate, count, waiting>>
                        /\ to \in ReceiveLoop /\ (to = "receive_block" => count = 0)
    BY <1>4 DEF ReceiveCall, ReceiveEnter, ReceiveEmpty, ReceiveBlockExit, ReceiveYield,
       queueVars, ReceiveLoop
  <2> QED BY <1>0, <1>2, <2>1
<1>5. ASSUME NEW t \in Receivers, ReceiveCopy(t)
      PROVE  SleeperInv'
  <2>1. /\ StepAt(t, "receive_test", "receive_copied") /\ count > 0
        /\ UNCHANGED <<tstate, count, waiting>>
    BY <1>5 DEF ReceiveCopy
  <2>2. t \notin BlockedOnQueue
    BY <2>1 DEF SleeperInv
  <2> QED BY <1>0, <1>2, <2>1, <2>2
<1>6. ASSUME NEW t \in Receivers, ReceiveAdvance(t)
      PROVE  SleeperInv'
  <2>1. StepAt(t, "receive_copied", "receive_taken") /\ UNCHANGED <<tstate, waiting>>
    BY <1>6 DEF ReceiveAdvance
  <2>2. count > 0
    BY <1>0, <1>1, <2>1 DEF FoundInv
  <2>3. BlockedOnQueue = {} /\ BlockedOnQueue' = {}
    BY <2>1, <2>2 DEF SleeperInv, BlockedOnQueue
  <2>4. \A u \in Task : pc'[u] # "receive_block"
    BY <1>0, <1>1, <2>1 DEF Masked
  <2> QED BY <1>0, <2>1, <2>3, <2>4 DEF SleeperInv, WaiterIsBlocked
<1>7. ASSUME NEW t \in Receivers, ReceiveBlock(t)
      PROVE  SleeperInv'
  <2>1. /\ StepAt(t, "receive_block", "receive_blocked") /\ UNCHANGED count /\ waiting' = t
        /\ tstate' = [tstate EXCEPT ![t] = "BLOCKED_ON_QUEUE"]
    BY <1>0, <1>1, <1>7 DEF ReceiveBlock, BlockCurrentOn
  <2>2. count = 0
    BY <1>0, <1>1, <2>1 DEF SleeperInv
  <2>3. BlockedOnQueue' = {t}
    BY <1>0, <2>1 DEF BlockedOnQueue, SleeperInv, OneReceiver
  <2> QED BY <1>0, <1>1, <2>1, <2>2, <2>3 DEF SleeperInv, WaiterIsBlocked, ReceiveLoop
<1>8. ASSUME NEW t \in Senders, SendPublish(t)
      PROVE  SleeperInv'
  <2>1. BlockedOnQueue' = {} /\ waiting' = NoTask
    BY <1>8, PublishServes DEF SendPublish
  <2>2. \A u \in Task : pc'[u] # "receive_block"
    BY <1>0, <1>1, <1>8 DEF SendPublish, Masked
  <2> QED BY <1>0, <2>1, <2>2 DEF SleeperInv, WaiterIsBlocked
<1>9. CASE SendFromIsr
  <2>1. BlockedOnQueue' = {} /\ waiting' = NoTask
    BY <1>9, PublishServes DEF SendFromIsr
  <2>2. \A u \in Task : pc'[u] # "receive_block"
    BY <1>9 DEF SendFromIsr, DeviceStep, MaskedInv, CoreInv, CriticalInv, CriticalIsExclusive,
       Masked
  <2> QED BY <1>0, <2>1, <2>2 DEF SleeperInv, WaiterIsBlocked
<1> QED
  BY <1>0, <1>3, <1>4, <1>5, <1>6, <1>7, <1>8, <1>9 DEF QueueStep, SendStep, ReceiveStep

(***************************************************************************)
(* The inductive invariant of one receiver: an empty queue for as long as  *)
(* it sleeps.                                                              *)
(***************************************************************************)
THEOREM SleeperInvariant ==
  ASSUME OneReceiver
  PROVE  Spec => []SleeperInv
<1>1. Init => SleeperInv
  BY SlotFacts DEF Init, KernelInit, SleeperInv, WaiterIsBlocked, BlockedOnQueue
<1>2. QueueInv /\ SleeperInv /\ [Next]_vars => SleeperInv'
  <2>1. ASSUME SleeperInv, UNCHANGED vars
        PROVE  SleeperInv'
    BY <2>1 DEF vars, kernelVars, queueVars, SleeperInv, WaiterIsBlocked, BlockedOnQueue
  <2> QED BY <2>1, KernelKeepsSleepers, QueueKeepsSleepers DEF Next
<1> QED BY <1>1, <1>2, QueueInvariant, PTL DEF Spec

(***************************************************************************)
(* With one receiver, any number of sending tasks and the interrupt, the   *)
(* receiver is registered exactly while it is blocked.                     *)
(***************************************************************************)
THEOREM QueueWaiterSafe ==
  ASSUME OneReceiver
  PROVE  Spec => []WaiterIsBlocked
<1>1. SleeperInv => WaiterIsBlocked
  BY DEF SleeperInv
<1> QED BY <1>1, SleeperInvariant, PTL

(***************************************************************************)
(* With one receiver nobody stays blocked while the queue holds an item.   *)
(***************************************************************************)
THEOREM QueueWakesReceiver ==
  ASSUME OneReceiver
  PROVE  Spec => []NoneBlockedWhileData
<1>1. SleeperInv => NoneBlockedWhileData
  BY DEF SleeperInv, NoneBlockedWhileData
<1> QED BY <1>1, SleeperInvariant, PTL

=============================================================================
