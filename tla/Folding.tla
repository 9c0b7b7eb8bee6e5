------------------------------ MODULE Folding -------------------------------
(***************************************************************************)
(* A loop over a sequence that carries one value along.  The step is a     *)
(* function, so that what the loop computes can be proved (FoldProofs).    *)
(***************************************************************************)
EXTENDS Integers, Sequences

\* f[<<...f[<<f[<<e, s[1]>>], s[2]>>]..., s[Len(s)]>>]
Fold(f, e, s) ==
  LET fold[i \in 0 .. Len(s)] == IF i = 0 THEN e ELSE f[<<fold[i - 1], s[i]>>]
  IN  fold[Len(s)]

=============================================================================
