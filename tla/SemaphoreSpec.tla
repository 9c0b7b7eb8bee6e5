---------------------------- MODULE SemaphoreSpec ----------------------------
(***************************************************************************)
(* What a caller gets from a semaphore, without tasks' code, interrupts or *)
(* a scheduler: a number of tokens, and the tasks blocked for want of one. *)
(* A give serves a blocked task if there is one and is remembered as one   *)
(* token otherwise, however often it happens before the next take.         *)
(***************************************************************************)
EXTENDS Naturals

CONSTANTS Takers, InitialCount

VARIABLES value, blocked

specVars == <<value, blocked>>

Init == value = InitialCount /\ blocked = {}

Take ==
  /\ value > 0
  /\ value' = value - 1
  /\ UNCHANGED blocked

Block ==
  /\ value = 0
  /\ \E t \in Takers \ blocked : blocked' = blocked \cup {t}
  /\ UNCHANGED value

Serve ==
  /\ \E t \in blocked : blocked' = blocked \ {t}
  /\ UNCHANGED value

Signal ==
  /\ blocked = {}
  /\ value' = 1
  /\ UNCHANGED blocked

SignalSpec == Init /\ [][Take \/ Block \/ Serve \/ Signal]_specVars

=============================================================================
