----------------------------- MODULE FoldProofs -----------------------------
(***************************************************************************)
(* What Fold computes, for every step and every sequence: nothing on the   *)
(* empty sequence, and one step more on a sequence with one element more.  *)
(* The proofs are by the least counterexample.                             *)
(***************************************************************************)
EXTENDS Folding, SequenceTheorems, WellFoundedInduction, TLAPS

\* Any set of natural numbers has a least element.
LEMMA Least ==
  ASSUME NEW T, T \subseteq Nat, T # {}
  PROVE  \E m \in T : \A k \in T : m <= k
<1> DEFINE R == OpToRel(<, Nat)
<1>1. IsWellFoundedOn(R, Nat)
  BY NatLessThanWellFounded
<1>2. \A x, y \in Nat : x < y => <<x, y>> \in R
  BY DEF OpToRel
<1> HIDE DEF R
<1>3. PICK m \in T : \A y \in T : ~ (<<y, m>> \in R)
  BY <1>1, WFMin
<1>4. m \in Nat /\ \A k \in T : k \in Nat
  BY <1>3
<1>5. \A k \in T : ~(k < m)
  BY <1>2, <1>3, <1>4
<1>6. \A k \in T : m <= k
  BY <1>4, <1>5
<1> QED BY <1>6

-----------------------------------------------------------------------------

\* The steps of a loop over a sequence of Bs that carries an A along.
Steps(A, B) == [A \X B -> A]

\* g holds the values of the loop after each of the first n elements.
Folds(g, f, e, s, n) ==
  g = [i \in 0 .. n |-> IF i = 0 THEN e ELSE f[<<g[i - 1], s[i]>>]]

\* There are such values, of the type of the step's.
LEMMA FoldExists ==
  ASSUME NEW A, NEW B, NEW f \in Steps(A, B), NEW e \in A, NEW s \in Seq(B)
  PROVE  \A n \in 0 .. Len(s) : \E g \in [0 .. n -> A] : Folds(g, f, e, s, n)
<1> DEFINE Ok(n) == \E g \in [0 .. n -> A] : Folds(g, f, e, s, n)
           T == {n \in 0 .. Len(s) : ~ Ok(n)}
<1>0. Len(s) \in Nat /\ \A i \in 1 .. Len(s) : s[i] \in B
  BY LenProperties, ElementOfSeq
<1>1. Ok(0)
  <2> DEFINE g == [i \in 0 .. 0 |-> e]
  <2>1. g \in [0 .. 0 -> A] /\ Folds(g, f, e, s, 0)
    BY DEF Folds
  <2> QED BY <2>1
<1>2. ASSUME NEW n \in 0 .. Len(s) - 1, Ok(n)
      PROVE  Ok(n + 1)
  <2>1. PICK g \in [0 .. n -> A] : Folds(g, f, e, s, n)
    BY <1>2
  <2> DEFINE h == [i \in 0 .. n + 1 |-> IF i = n + 1 THEN f[<<g[n], s[n + 1]>>] ELSE g[i]]
  <2>2. n \in Nat /\ n + 1 \in 1 .. Len(s)
    BY <1>0
  <2>3. f[<<g[n], s[n + 1]>>] \in A
    BY <1>0, <2>2 DEF Steps
  <2>4. h \in [0 .. n + 1 -> A]
    BY <2>2, <2>3
  <2>5. ASSUME NEW i \in 0 .. n + 1
        PROVE  h[i] = IF i = 0 THEN e ELSE f[<<h[i - 1], s[i]>>]
    <3>1. CASE i = n + 1
      <4>1. h[i - 1] = g[n] /\ h[i] = f[<<g[n], s[n + 1]>>] /\ i # 0
        BY <3>1, <2>2
      <4> QED BY <4>1, <3>1
    <3>2. CASE i # n + 1
      <4>1. i \in 0 .. n /\ h[i] = g[i] /\ (i # 0 => h[i - 1] = g[i - 1])
        BY <3>2, <2>2
      <4>2. g[i] = IF i = 0 THEN e ELSE f[<<g[i - 1], s[i]>>]
        BY <4>1, <2>1 DEF Folds
      <4> QED BY <4>1, <4>2
    <3> QED BY <3>1, <3>2
  <2>6. h = [i \in 0 .. n + 1 |-> h[i]]
    OBVIOUS
  <2> HIDE DEF h
  <2>7. Folds(h, f, e, s, n + 1)
    BY <2>5, <2>6 DEF Folds
  <2> QED BY <2>4, <2>7
<1> HIDE DEF Ok
<1>3. T = {}
  <2> SUFFICES ASSUME T # {} PROVE FALSE
    OBVIOUS
  <2>1. T \subseteq Nat /\ T \subseteq 0 .. Len(s)
    BY <1>0
  <2>2. PICK m \in T : \A k \in T : m <= k
    BY <2>1, Least
  <2>3. m # 0 /\ m \in 0 .. Len(s) /\ ~ Ok(m)
    BY <1>1, <2>2
  <2>4. m - 1 \in 0 .. Len(s) - 1 /\ m - 1 + 1 = m /\ ~(m <= m - 1)
    BY <2>3, <1>0
  <2>5. Ok(m - 1)
    BY <2>4, <2>2, <1>0
  <2> QED BY <2>3, <2>4, <2>5, <1>2
<1> QED BY <1>3 DEF Ok

\* The first n elements of two sequences are the same.
Agree(s, t, n) == \A i \in 1 .. n : s[i] = t[i]

\* There is only one way to fold, and what follows does not matter.
LEMMA FoldUnique ==
  ASSUME NEW f, NEW e, NEW s, NEW t, NEW n \in Nat, NEW m \in Nat, n <= m,
         Agree(s, t, n),
         NEW g, Folds(g, f, e, s, n), NEW h, Folds(h, f, e, t, m)
  PROVE  \A i \in 0 .. n : g[i] = h[i]
<1> DEFINE T == {i \in 0 .. n : g[i] # h[i]}
<1>1. \A i \in 0 .. n : g[i] = IF i = 0 THEN e ELSE f[<<g[i - 1], s[i]>>]
  BY DEF Folds
<1>2. \A i \in 0 .. n : h[i] = IF i = 0 THEN e ELSE f[<<h[i - 1], t[i]>>]
  BY DEF Folds
<1>3. T = {}
  <2> SUFFICES ASSUME T # {} PROVE FALSE
    OBVIOUS
  <2>1. PICK i \in T : \A k \in T : i <= k
    <3>1. T \subseteq Nat
      OBVIOUS
    <3> HIDE DEF T
    <3> QED BY <3>1, Least
  <2>2. i \in 0 .. n /\ g[i] # h[i]
    BY <2>1
  <2>3. i # 0
    BY <2>2, <1>1, <1>2
  <2>4. i - 1 \in 0 .. n /\ ~(i <= i - 1) /\ i \in 1 .. n
    BY <2>2, <2>3
  <2>5. g[i - 1] = h[i - 1]
    BY <2>1, <2>4
  <2> QED BY <1>1, <1>2, <2>2, <2>3, <2>4, <2>5 DEF Agree
<1> QED BY <1>3

\* So Fold is the last of the values, and of their type.
LEMMA FoldIs ==
  ASSUME NEW A, NEW B, NEW f \in Steps(A, B), NEW e \in A, NEW s \in Seq(B)
  PROVE  /\ Fold(f, e, s) \in A
         /\ \E g : Folds(g, f, e, s, Len(s)) /\ Fold(f, e, s) = g[Len(s)]
<1> DEFINE n == Len(s)
           fold == CHOOSE g : g = [i \in 0 .. n |-> IF i = 0 THEN e ELSE f[<<g[i - 1], s[i]>>]]
<1>1. n \in Nat /\ n \in 0 .. n
  BY LenProperties
<1>2. PICK g \in [0 .. n -> A] : Folds(g, f, e, s, n)
  BY <1>1, FoldExists
<1>3. Folds(fold, f, e, s, n)
  BY <1>2 DEF Folds
<1>4. Fold(f, e, s) = fold[n]
  BY DEF Fold
<1> HIDE DEF fold
<1>5. fold[n] = g[n]
  <2>1. Agree(s, s, n) /\ n <= n
    BY <1>1 DEF Agree
  <2> HIDE DEF n
  <2> QED BY <1>1, <1>2, <1>3, <2>1, FoldUnique
<1>6. g[n] \in A
  BY <1>1, <1>2
<1> QED BY <1>2, <1>4, <1>5, <1>6

\* Without an element nothing is done.
LEMMA FoldEmpty ==
  ASSUME NEW A, NEW B, NEW f \in Steps(A, B), NEW e \in A, NEW s \in Seq(B)
  PROVE  Len(s) = 0 => Fold(f, e, s) = e
<1>1. PICK g : Folds(g, f, e, s, Len(s)) /\ Fold(f, e, s) = g[Len(s)]
  BY FoldIs
<1>2. Len(s) = 0 => g[0] = e
  BY <1>1 DEF Folds
<1> QED BY <1>1, <1>2

\* An element at the end is one step more.
GoesOn(f, e, s, b) == Fold(f, e, Append(s, b)) = f[<<Fold(f, e, s), b>>]

LEMMA FoldAppend ==
  ASSUME NEW A, NEW B, NEW f \in Steps(A, B), NEW e \in A, NEW s \in Seq(B),
         NEW b \in B
  PROVE  GoesOn(f, e, s, b)
<1> DEFINE t == Append(s, b)
           n == Len(s)
<1>1. /\ n \in Nat /\ t \in Seq(B) /\ Len(t) = n + 1
      /\ t[n + 1] = b /\ \A i \in 1 .. n : s[i] = t[i]
  BY LenProperties, AppendProperties
<1> HIDE DEF t
<1>2. PICK g : Folds(g, f, e, s, n) /\ Fold(f, e, s) = g[n]
  BY FoldIs
<1>3. PICK h : Folds(h, f, e, t, n + 1) /\ Fold(f, e, t) = h[n + 1]
  BY <1>1, FoldIs
<1>4. g[n] = h[n]
  <2>1. n + 1 \in Nat /\ n <= n + 1 /\ n \in 0 .. n /\ Agree(s, t, n)
    BY <1>1 DEF Agree
  <2> HIDE DEF n
  <2>2. \A i \in 0 .. n : g[i] = h[i]
    BY <1>1, <1>2, <1>3, <2>1, FoldUnique
  <2> QED BY <2>1, <2>2
<1>5. h[n + 1] = f[<<h[n], t[n + 1]>>]
  <2>1. \A i \in 0 .. n + 1 : h[i] = IF i = 0 THEN e ELSE f[<<h[i - 1], t[i]>>]
    BY <1>3 DEF Folds
  <2>2. n + 1 \in 0 .. n + 1 /\ n + 1 # 0 /\ n + 1 - 1 = n
    BY <1>1
  <2> QED BY <2>1, <2>2
<1> QED BY <1>1, <1>2, <1>3, <1>4, <1>5 DEF t, GoesOn

=============================================================================
