----------------------------- MODULE QueueSpec -----------------------------
(***************************************************************************)
(* What users of a queue get, without the ring buffer, tasks' code,        *)
(* interrupts or a scheduler: items come out once each, in the order they  *)
(* were accepted, and never more than Capacity wait.                       *)
(***************************************************************************)
EXTENDS Naturals, Sequences

CONSTANTS Receivers, Capacity, Item, NoItem

VARIABLES
  items,  \* accepted and not yet received, oldest first
  got     \* what each receiver received last

specVars == <<items, got>>

Init == items = <<>> /\ got = [t \in Receivers |-> NoItem]

Accept(x) ==
  /\ Len(items) < Capacity
  /\ items' = Append(items, x)
  /\ UNCHANGED got

Deliver(t) ==
  /\ items # <<>>
  /\ got' = [got EXCEPT ![t] = Head(items)]
  /\ items' = Tail(items)

Next == (\E x \in Item : Accept(x)) \/ (\E t \in Receivers : Deliver(t))

FifoSpec == Init /\ [][Next]_specVars

=============================================================================
