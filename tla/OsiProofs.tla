----------------------------- MODULE OsiProofs -----------------------------
(***************************************************************************)
(* Proofs about module Osi: for every set of characters, every table of    *)
(* commands and every size of the line, nothing overruns the line, the     *)
(* terminal shows the prompt and the line, the system goes down for a      *)
(* whole line that says so and for nothing else, and every line is         *)
(* answered once and as it was edited, however long the text.              *)
(***************************************************************************)
EXTENDS Osi, FoldProofs, FiniteSetTheorems, TLAPS

(* The sequences the console works on *)

\* A sequence ends with what was appended last.
LEMMA LastOfAppend ==
  ASSUME NEW S, NEW s \in Seq(S), NEW e \in S
  PROVE  Append(s, e) # <<>> /\ Last(Append(s, e)) = e
BY AppendProperties, LenProperties DEF Last

\* The front of a sequence is one shorter, and holds the same elements.
LEMMA FrontOf ==
  ASSUME NEW S, NEW s \in Seq(S), s # <<>>
  PROVE  /\ Front(s) \in Seq(S)
         /\ Len(Front(s)) = Len(s) - 1
         /\ \A i \in 1 .. Len(s) - 1 : Front(s)[i] = s[i]
<1>1. Len(s) \in Nat \ {0} /\ \A i \in 1 .. Len(s) : s[i] \in S
  BY EmptySeq, LenProperties, ElementOfSeq
<1>2. \A i \in 1 .. Len(s) - 1 : s[i] \in S
  BY <1>1
<1>3. PICK n \in Nat : n = Len(s) - 1
  BY <1>1
<1>4. /\ SubSeq(s, 1, n) \in Seq(S)
      /\ Len(SubSeq(s, 1, n)) = IF 1 <= n THEN n - 1 + 1 ELSE 0
      /\ \A i \in 1 .. n - 1 + 1 : SubSeq(s, 1, n)[i] = s[1 + i - 1]
  BY <1>2, <1>3, SubSeqProperties
<1>5. /\ SubSeq(s, 1, n) \in Seq(S) /\ Len(SubSeq(s, 1, n)) = n
      /\ \A i \in 1 .. n : SubSeq(s, 1, n)[i] = s[i]
  BY <1>4
<1>6. Front(s) = SubSeq(s, 1, n)
  BY <1>3 DEF Front
<1> QED
  BY <1>3, <1>5, <1>6

\* What stands in front of a line stays there when its last character goes.
LEMMA FrontAfterPrompt ==
  ASSUME NEW S, NEW s \in Seq(S), s # <<>>, NEW p \in S
  PROVE  Front(<<p>> \o s) = <<p>> \o Front(s)
<1> DEFINE t == <<p>> \o s
           u == <<p>> \o Front(s)
<1>1. <<p>> \in Seq(S) /\ Len(<<p>>) = 1 /\ <<p>>[1] = p
  OBVIOUS
<1>2. Len(s) \in Nat \ {0}
  BY EmptySeq
<1>3. /\ t \in Seq(S) /\ Len(t) = 1 + Len(s)
      /\ \A i \in 1 .. 1 + Len(s) : t[i] = IF i <= 1 THEN <<p>>[i] ELSE s[i - 1]
  BY <1>1, ConcatProperties
<1>4. /\ Front(s) \in Seq(S) /\ Len(Front(s)) = Len(s) - 1
      /\ \A i \in 1 .. Len(s) - 1 : Front(s)[i] = s[i]
  BY FrontOf
<1>5. /\ u \in Seq(S) /\ Len(u) = Len(s)
      /\ \A i \in 1 .. Len(s) :
           u[i] = IF i <= 1 THEN <<p>>[i] ELSE Front(s)[i - 1]
  <2>1. /\ u \in Seq(S) /\ Len(u) = 1 + Len(Front(s))
        /\ \A i \in 1 .. 1 + Len(Front(s)) :
             u[i] = IF i <= 1 THEN <<p>>[i] ELSE Front(s)[i - 1]
    BY <1>1, <1>4, ConcatProperties
  <2> QED
    BY <2>1, <1>2, <1>4
<1>6. t # <<>>
  BY <1>2, <1>3, EmptySeq
<1>7. /\ Front(t) \in Seq(S) /\ Len(Front(t)) = Len(s)
      /\ \A i \in 1 .. Len(s) : Front(t)[i] = t[i]
  <2>1. /\ Front(t) \in Seq(S) /\ Len(Front(t)) = Len(t) - 1
        /\ \A i \in 1 .. Len(t) - 1 : Front(t)[i] = t[i]
    BY <1>3, <1>6, FrontOf
  <2> QED
    BY <2>1, <1>2, <1>3
<1>8. ASSUME NEW i \in 1 .. Len(s)
      PROVE  Front(t)[i] = u[i]
  <2>1. CASE i = 1
    BY <2>1, <1>2, <1>3, <1>5, <1>7
  <2>2. CASE i # 1
    <3>1. i - 1 \in 1 .. Len(s) - 1 /\ ~(i <= 1) /\ i \in 1 .. 1 + Len(s)
      BY <2>2, <1>2
    <3> QED
      BY <3>1, <1>3, <1>4, <1>5, <1>7
  <2> QED
    BY <2>1, <2>2
<1> HIDE DEF t, u
<1>9. Front(t) = u
  BY <1>5, <1>7, <1>8, SeqEqual
<1> QED
  BY <1>9 DEF t, u

\* A character goes to the end of the screen and of the line alike.
LEMMA AppendAfterPrompt ==
  ASSUME NEW S, NEW s \in Seq(S), NEW p \in S, NEW c \in S
  PROVE  Append(<<p>> \o s, c) = <<p>> \o Append(s, c)
<1>1. <<p>> \in Seq(S) /\ <<c>> \in Seq(S) /\ <<p>> \o s \in Seq(S)
  BY ConcatProperties
<1>2. Append(<<p>> \o s, c) = (<<p>> \o s) \o <<c>>
  BY <1>1, AppendIsConcat
<1>3. Append(s, c) = s \o <<c>>
  BY AppendIsConcat
<1> QED
  BY <1>1, <1>2, <1>3, ConcatAssociative

\* No command is the empty line.
LEMMA NothingMeansNothing == Means(<<>>) = "unknown"
BY LiteralsAssumption DEF Means

\* A fresh prompt is something the terminal can show.
LEMMA PromptIsShown ==
  /\ <<"prompt">> \in Seq(Text \cup {"prompt"})
  /\ <<"prompt">> \o <<>> = <<"prompt">>
<1> DEFINE S == Text \cup {"prompt"}
<1>1. ASSUME NEW T, NEW p \in T
      PROVE  <<p>> \in Seq(T)
  OBVIOUS
<1>2. "prompt" \in S
  OBVIOUS
<1> HIDE DEF S
<1>3. <<"prompt">> \in Seq(S)
  BY <1>1, <1>2
<1>4. <<"prompt">> \o <<>> = <<"prompt">>
  BY <1>3, ConcatEmptySeq
<1> QED
  BY <1>3, <1>4 DEF S

-----------------------------------------------------------------------------
(* The inductive invariant *)

\* Before the console starts nothing has been typed into a line.
OsiInv ==
  /\ TypeOK /\ ScreenShowsLine /\ GoesDownAsTold
  /\ phase \in {"off", "delay"} => cmd = <<>> /\ answered = <<>>

\* At power-on and after a reset nothing has been typed.
LEMMA StartsClean == Init => OsiInv
<1> SUFFICES ASSUME Init
             PROVE  OsiInv
  OBVIOUS
<1> USE DEF Init
<1>1. Len(rx) <= BufferSize /\ Len(cmd) < BufferSize
  BY SizeAssumption
<1>2. /\ rx \in Seq(Char) /\ cmd \in Seq(Text) /\ taken \in Seq(Char)
      /\ screen \in Seq(Text \cup {"prompt"})
      /\ answered \in Seq(Seq(Text))
  BY EmptySeq
<1>3. TypeOK
  BY <1>1, <1>2 DEF TypeOK
<1>4. ScreenShowsLine /\ GoesDownAsTold
  BY DEF ScreenShowsLine, GoesDownAsTold
<1> QED
  BY <1>3, <1>4 DEF OsiInv

\* What the character that a turn of the loop takes may change.
Turn ==
  \/ HandleCr(Head(rx)) \/ HandleLf(Head(rx))
  \/ HandleErase(Head(rx)) \/ HandleText(Head(rx))

\* What a line's end, an erasure and a character leave behind.
LEMMA EndLineKeeps ==
  ASSUME OsiInv, phase = "console", EndLine
  PROVE  /\ phase' \in {"console", "halted", "rebooting"}
         /\ cmd' \in Seq(Text) /\ Len(cmd') < BufferSize
         /\ screen' \in Seq(Text \cup {"prompt"})
         /\ answered' \in Seq(Seq(Text))
         /\ ScreenShowsLine' /\ GoesDownAsTold'
<1>1. cmd \in Seq(Text) /\ Len(cmd) < BufferSize
      /\ answered \in Seq(Seq(Text))
  BY DEF OsiInv, TypeOK
<1>2. /\ answered' = Append(answered, cmd)
      /\ cmd' = (IF phase' = "console" THEN <<>> ELSE cmd)
      /\ screen' = (IF phase' = "console" THEN <<"prompt">> ELSE <<>>)
  BY DEF EndLine
<1>3. answered' \in Seq(Seq(Text)) /\ answered' # <<>> /\ Last(answered') = cmd
  BY <1>1, <1>2, AppendProperties, LastOfAppend
<1>4. phase' = CASE Means(cmd) = "fault" -> "halted"
                 [] Means(cmd) = "reboot" -> "rebooting"
                 [] OTHER -> "console"
  <2>1. CASE cmd = <<>>
    BY <2>1, NothingMeansNothing DEF EndLine
  <2>2. CASE cmd # <<>>
    BY <2>2 DEF EndLine, osi_invoke
  <2> QED
    BY <2>1, <2>2
<1>5. phase' \in {"halted", "rebooting"} <=> Means(cmd) \in {"fault", "reboot"}
  BY <1>4
<1>6. GoesDownAsTold'
  BY <1>3, <1>5 DEF GoesDownAsTold, Means
<1>7. cmd' \in Seq(Text) /\ Len(cmd') < BufferSize
  BY <1>1, <1>2, SizeAssumption
<1>8. screen' \in Seq(Text \cup {"prompt"})
  BY <1>2, PromptIsShown, EmptySeq
<1>9. ScreenShowsLine'
  BY <1>2, PromptIsShown DEF ScreenShowsLine
<1> QED
  BY <1>3, <1>4, <1>6, <1>7, <1>8, <1>9

LEMMA TurnKeeps ==
  ASSUME OsiInv, phase = "console", Turn
  PROVE  /\ phase' \in {"console", "halted", "rebooting"}
         /\ cmd' \in Seq(Text) /\ Len(cmd') < BufferSize
         /\ saw_cr' \in BOOLEAN
         /\ screen' \in Seq(Text \cup {"prompt"})
         /\ answered' \in Seq(Seq(Text))
         /\ ScreenShowsLine' /\ GoesDownAsTold'
<1> DEFINE c == Head(rx)
           Screen == Text \cup {"prompt"}
<1>1. /\ cmd \in Seq(Text) /\ Len(cmd) \in Nat /\ Len(cmd) < BufferSize
      /\ saw_cr \in BOOLEAN /\ screen \in Seq(Screen)
      /\ answered \in Seq(Seq(Text)) /\ BufferSize \in Nat
  BY SizeAssumption, LenProperties DEF OsiInv, TypeOK
<1>2. screen = <<"prompt">> \o cmd /\ cmd \in Seq(Screen) /\ "prompt" \in Screen
  BY <1>1, SeqMonotonic DEF OsiInv, ScreenShowsLine
<1>3. UNCHANGED <<phase, answered>> => GoesDownAsTold'
  BY DEF OsiInv, GoesDownAsTold, Means
<1>4. UNCHANGED <<phase, cmd, screen>> => ScreenShowsLine'
  BY DEF OsiInv, ScreenShowsLine
<1>5. CASE HandleCr(c)
  BY <1>5, EndLineKeeps DEF HandleCr
<1>6. CASE HandleLf(c)
  <2>1. CASE EndLine
    BY <2>1, <1>6, EndLineKeeps DEF HandleLf
  <2>2. CASE UNCHANGED <<phase, cmd, screen, answered>>
    BY <2>2, <1>1, <1>3, <1>4, <1>6 DEF HandleLf
  <2> QED
    BY <2>1, <2>2, <1>6 DEF HandleLf
<1>7. CASE HandleErase(c)
  <2>1. CASE cmd = <<>>
    BY <2>1, <1>1, <1>3, <1>4, <1>7 DEF HandleErase
  <2>2. CASE cmd # <<>>
    <3>1. /\ cmd' = Front(cmd) /\ screen' = Front(screen) /\ saw_cr' = FALSE
          /\ UNCHANGED <<phase, answered>>
      BY <2>2, <1>7 DEF HandleErase
    <3>2. Front(cmd) \in Seq(Text) /\ Len(Front(cmd)) = Len(cmd) - 1
      BY <2>2, <1>1, FrontOf
    <3>3. Front(screen) = <<"prompt">> \o Front(cmd)
      BY <2>2, <1>2, FrontAfterPrompt
    <3>4. Front(cmd) \in Seq(Screen)
      BY <2>2, <1>2, FrontOf
    <3>5. <<"prompt">> \o Front(cmd) \in Seq(Screen)
      <4>1. <<"prompt">> \in Seq(Screen)
        BY <1>2
      <4> QED
        BY <4>1, <3>4, ConcatProperties
    <3>6. ScreenShowsLine'
      BY <3>1, <3>3 DEF ScreenShowsLine
    <3>7. Len(cmd') < BufferSize
      BY <3>1, <3>2, <1>1
    <3>8. GoesDownAsTold'
      BY <3>1, <1>3
    <3> QED
      BY <3>1, <3>2, <3>3, <3>5, <3>6, <3>7, <3>8, <1>1
  <2> QED
    BY <2>1, <2>2
<1>8. CASE HandleText(c)
  <2>1. CASE Len(cmd) < BufferSize - 1
    <3>1. /\ cmd' = Append(cmd, c) /\ screen' = Append(screen, c)
          /\ saw_cr' = FALSE /\ c \in Text /\ UNCHANGED <<phase, answered>>
      BY <2>1, <1>8 DEF HandleText
    <3>2. Append(cmd, c) \in Seq(Text) /\ Len(Append(cmd, c)) = Len(cmd) + 1
      BY <3>1, <1>1, AppendProperties
    <3>3. Append(screen, c) \in Seq(Screen)
      BY <3>1, <1>1, AppendProperties
    <3>4. Append(screen, c) = <<"prompt">> \o Append(cmd, c)
      BY <3>1, <1>2, AppendAfterPrompt
    <3>5. ScreenShowsLine'
      BY <3>1, <3>4 DEF ScreenShowsLine
    <3>6. Len(cmd') < BufferSize
      BY <3>1, <3>2, <1>1, <2>1
    <3>7. GoesDownAsTold'
      BY <3>1, <1>3
    <3> QED
      BY <3>1, <3>2, <3>3, <3>5, <3>6, <3>7, <1>1
  <2>2. CASE ~(Len(cmd) < BufferSize - 1)
    BY <2>2, <1>1, <1>3, <1>4, <1>8 DEF HandleText
  <2> QED
    BY <2>1, <2>2
<1> QED
  BY <1>5, <1>6, <1>7, <1>8 DEF Turn

-----------------------------------------------------------------------------

\* The console's invariant holds always: what is typed, however fast, never
\* gets past the checks of rtosk_osi_task.
THEOREM OsiInvariant == Spec => []OsiInv
<1>1. Init => OsiInv
  BY StartsClean
<1>2. ASSUME OsiInv, [Next]_vars
      PROVE  OsiInv'
  <2>1. CASE rtosk_osi_init
    BY <1>2, <2>1 DEF rtosk_osi_init, OsiInv, TypeOK, ScreenShowsLine,
      GoesDownAsTold, Means
  <2>2. CASE Banner
    <3>1. cmd' = <<>> /\ screen' = <<"prompt">> /\ phase' = "console"
          /\ answered' = <<>> /\ UNCHANGED <<rx, saw_cr, taken>>
      BY <1>2, <2>2 DEF Banner, OsiInv
    <3>2. screen' \in Seq(Text \cup {"prompt"})
      BY <3>1, PromptIsShown
    <3>3. ScreenShowsLine'
      BY <3>1, PromptIsShown DEF ScreenShowsLine
    <3> QED
      BY <1>2, <3>1, <3>2, <3>3, SizeAssumption
      DEF OsiInv, TypeOK, GoesDownAsTold
  <2>3. CASE rtosk_osi_task
    <3>1. /\ phase = "console" /\ rx # <<>> /\ rx' = Tail(rx)
          /\ taken' = Append(taken, Head(rx)) /\ Turn
      BY <2>3 DEF rtosk_osi_task, Turn
    <3>2. rx \in Seq(Char) /\ Len(rx) <= BufferSize /\ taken \in Seq(Char)
          /\ Len(rx) \in Nat /\ BufferSize \in Nat
      BY <1>2, SizeAssumption, LenProperties DEF OsiInv, TypeOK
    <3>3. Head(rx) \in Char /\ Tail(rx) \in Seq(Char)
          /\ Len(Tail(rx)) = Len(rx) - 1
      BY <3>1, <3>2, HeadTailProperties
    <3>4. rx' \in Seq(Char) /\ Len(rx') <= BufferSize /\ taken' \in Seq(Char)
      BY <3>1, <3>2, <3>3, AppendProperties
    <3> QED
      BY <1>2, <3>1, <3>4, TurnKeeps DEF OsiInv, TypeOK
  <2>4. CASE Reset
    <3>1. Init'
      BY <2>4 DEF Reset, Init
    <3> QED
      BY <3>1, StartsClean, PTL
  <2>5. ASSUME NEW c \in Char, USART3_IRQHandler(c)
        PROVE  OsiInv'
    <3>1. rx \in Seq(Char) /\ Len(rx) <= BufferSize
          /\ Len(rx) \in Nat /\ BufferSize \in Nat
      BY <1>2, SizeAssumption, LenProperties DEF OsiInv, TypeOK
    <3>2. Append(rx, c) \in Seq(Char) /\ Len(Append(rx, c)) = Len(rx) + 1
      BY <3>1, AppendProperties
    <3>3. rx' \in Seq(Char) /\ Len(rx') <= BufferSize
      BY <3>1, <3>2, <2>5 DEF USART3_IRQHandler
    <3> QED
      BY <1>2, <3>3, <2>5 DEF USART3_IRQHandler, OsiInv, TypeOK, ScreenShowsLine,
        GoesDownAsTold, Means
  <2>6. CASE UNCHANGED vars
    BY <1>2, <2>6 DEF vars, OsiInv, TypeOK, ScreenShowsLine, GoesDownAsTold, Means
  <2> QED
    BY <1>2, <2>1, <2>2, <2>3, <2>4, <2>5, <2>6 DEF Next
<1> QED
  BY <1>1, <1>2, PTL DEF Spec

\* The line always has room for the NUL that ends it, and the queue never
\* holds more than its storage.
THEOREM OsiTypeSafe == Spec => []TypeOK
<1>1. OsiInv => TypeOK
  BY DEF OsiInv
<1> QED
  BY <1>1, OsiInvariant, PTL

\* While the console waits for a character the terminal shows the prompt and
\* exactly the line so far, whatever has been erased and whatever dropped.
THEOREM ScreenIsTheLine == Spec => []ScreenShowsLine
<1>1. OsiInv => ScreenShowsLine
  BY DEF OsiInv
<1> QED
  BY <1>1, OsiInvariant, PTL

\* The system halts or reboots for a whole line that says so and for nothing
\* else, and answers nothing after it.
THEOREM GoesDownOnlyAsTold == Spec => []GoesDownAsTold
<1>1. OsiInv => GoesDownAsTold
  BY DEF OsiInv
<1> QED
  BY <1>1, OsiInvariant, PTL

-----------------------------------------------------------------------------
(* The lines of a text *)

\* A bounded set of natural numbers that is not empty has a greatest element.
LEMMA Greatest ==
  ASSUME NEW n \in Nat, NEW T, T \subseteq 0 .. n, T # {}
  PROVE  Max(T) \in T /\ \A k \in T : k <= Max(T)
<1> DEFINE D == {n - k : k \in T}
<1>1. PICK d \in D : \A k \in D : d <= k
  <2>1. D \subseteq Nat
    OBVIOUS
  <2>2. D # {}
    <3>1. PICK k \in T : TRUE
      OBVIOUS
    <3>2. n - k \in D
      BY <3>1
    <3> QED BY <3>2
  <2> HIDE DEF D
  <2> QED BY <2>1, <2>2, Least
<1>2. PICK m \in T : d = n - m
  BY <1>1
<1>3. \A k \in T : m >= k
  <2> TAKE k \in T
  <2>1. n - k \in D
    OBVIOUS
  <2>2. n - m <= n - k
    BY <1>1, <1>2, <2>1
  <2> QED BY <2>2
<1>4. Max(T) \in T /\ \A k \in T : Max(T) >= k
  BY <1>3 DEF Max
<1> QED BY <1>4

\* The character would end a line after this text.
Ends(text, c) ==
  \/ c = "cr"
  \/ c = "lf" /\ (Len(text) = 0 \/ text[Len(text)] # "cr")

\* Whether a character ends a line depends on what is before it only.
LEMMA EndsOfAppend ==
  ASSUME NEW text \in Seq(Char), NEW c \in Char
  PROVE  EndsAt(Append(text, c)) =
           EndsAt(text) \cup (IF Ends(text, c) THEN {Len(text) + 1} ELSE {})
<1> DEFINE t == Append(text, c)
           n == Len(text)
<1>1. /\ n \in Nat /\ t \in Seq(Char) /\ Len(t) = n + 1
      /\ t[n + 1] = c /\ \A i \in 1 .. n : t[i] = text[i]
  BY LenProperties, AppendProperties
<1>2. DOMAIN t = 1 .. n + 1 /\ DOMAIN text = 1 .. n
  BY <1>1, LenProperties
<1> HIDE DEF t
<1>3. ASSUME NEW i \in 1 .. n
      PROVE  i \in EndsAt(t) <=> i \in EndsAt(text)
  <2>1. i \in DOMAIN t /\ i \in DOMAIN text /\ t[i] = text[i]
    BY <1>1, <1>2
  <2>2. i # 1 => t[i - 1] = text[i - 1]
    BY <1>1
  <2> QED BY <2>1, <2>2 DEF EndsAt
<1>4. n + 1 \in EndsAt(t) <=> Ends(text, c)
  <2>1. n + 1 \in DOMAIN t /\ n + 1 - 1 = n /\ (n + 1 = 1 <=> n = 0)
    BY <1>1, <1>2
  <2>2. n # 0 => t[n] = text[n]
    BY <1>1
  <2> QED BY <1>1, <2>1, <2>2 DEF EndsAt, Ends
<1>5. EndsAt(t) \subseteq 1 .. n + 1 /\ EndsAt(text) \subseteq 1 .. n
  BY <1>2 DEF EndsAt
<1>6. n + 1 \notin 1 .. n /\ 1 .. n + 1 = (1 .. n) \cup {n + 1}
  BY <1>1
<1>7. EndsAt(t) = EndsAt(text) \cup (IF Ends(text, c) THEN {n + 1} ELSE {})
  <2> DEFINE new == IF Ends(text, c) THEN {n + 1} ELSE {}
  <2>1. \A i : i \in EndsAt(t) <=> i \in EndsAt(text) \/ i \in new
    <3> HIDE DEF n
    <3>1. \A i : i \in new <=> i = n + 1 /\ Ends(text, c)
      OBVIOUS
    <3> HIDE DEF new
    <3> QED BY <3>1, <1>3, <1>4, <1>5, <1>6
  <2> HIDE DEF new
  <2>2. EndsAt(t) = EndsAt(text) \cup new
    BY <2>1
  <2> QED BY <2>2 DEF new
<1> QED BY <1>7 DEF t

\* Lines end at characters, and there are finitely many of them.
LEMMA EndsInside ==
  ASSUME NEW text \in Seq(Char)
  PROVE  /\ EndsAt(text) \subseteq 1 .. Len(text)
         /\ IsFiniteSet(EndsAt(text)) /\ Cardinality(EndsAt(text)) \in Nat
<1>1. Len(text) \in Nat /\ EndsAt(text) \subseteq 1 .. Len(text)
  BY LenProperties DEF EndsAt
<1>2. IsFiniteSet(1 .. Len(text))
  BY <1>1, FS_Interval
<1>3. IsFiniteSet(EndsAt(text))
  BY <1>1, <1>2, FS_Subset
<1> QED BY <1>1, <1>3, FS_CardinalityType

\* Where the line that ends at the given place begins, less one.
BeginOf(text, end) == Max({0} \cup {i \in EndsAt(text) : i < end})

\* A line begins after a line of the text, or with it.
LEMMA BeginInside ==
  ASSUME NEW text \in Seq(Char), NEW end \in Int
  PROVE  BeginOf(text, end) \in 0 .. Len(text)
<1> DEFINE T == {0} \cup {i \in EndsAt(text) : i < end}
<1>1. Len(text) \in Nat /\ T \subseteq 0 .. Len(text) /\ T # {}
  BY EndsInside, LenProperties
<1>2. Max(T) \in T
  <2> HIDE DEF T
  <2> QED BY <1>1, Greatest
<1> QED BY <1>1, <1>2 DEF BeginOf

\* An edited line is a line.
LEMMA EditType == Edit \in Steps(Seq(Text), Char)
<1>1. ASSUME NEW line \in Seq(Text), NEW c \in Char
      PROVE  Edited(line, c) \in Seq(Text)
  <2>1. CASE c = "erase" /\ line # <<>>
    <3>1. Front(line) \in Seq(Text)
      BY <2>1, FrontOf
    <3>2. ~(c \in Text)
      BY <2>1, TextAssumption
    <3> QED BY <2>1, <3>1, <3>2 DEF Edited
  <2>2. CASE c \in Text /\ Len(line) < BufferSize - 1
    <3>1. c # "erase" /\ Append(line, c) \in Seq(Text)
      BY <2>2, TextAssumption, AppendProperties
    <3> QED BY <2>2, <3>1 DEF Edited
  <2>3. CASE ~(c = "erase" /\ line # <<>>) /\ ~(c \in Text /\ Len(line) < BufferSize - 1)
    BY <2>3 DEF Edited
  <2> QED BY <2>1, <2>2, <2>3
<1> QED BY <1>1 DEF Edit, Steps

\* Editing goes on where it was.
LEMMA EditFold ==
  /\ Fold(Edit, <<>>, <<>>) = <<>>
  /\ \A text \in Seq(Char), c \in Char :
       Fold(Edit, <<>>, Append(text, c)) = Edit[<<Fold(Edit, <<>>, text), c>>]
<1> DEFINE A == Seq(Text)
           B == Char
           e == <<>>
<1>1. e \in A /\ e \in Seq(B) /\ Len(e) = 0 /\ Edit \in Steps(A, B)
  BY EmptySeq, EditType
<1> HIDE DEF A, B, e
<1>2. Fold(Edit, e, e) = e
  BY <1>1, FoldEmpty
<1>3. ASSUME NEW text \in Seq(B), NEW c \in B
      PROVE  GoesOn(Edit, e, text, c)
  BY <1>1, FoldAppend
<1> QED BY <1>2, <1>3 DEF B, e, GoesOn

\* A character that ends no line goes to the line being typed; what came
\* before it stays what it was.
LEMMA LineOfAppend ==
  ASSUME NEW text \in Seq(Char), NEW c \in Char
  PROVE  LET t == Append(text, c)
             n == Len(text)
         IN  /\ \A end \in 1 .. n + 1 : LineTo(t, end) = LineTo(text, end)
             /\ Ends(text, c) => LineTo(t, n + 2) = <<>>
             /\ ~ Ends(text, c) =>
                  LineTo(t, n + 2) = Edit[<<LineTo(text, n + 1), c>>]
<1> DEFINE t == Append(text, c)
           n == Len(text)
<1>1. /\ n \in Nat /\ t \in Seq(Char) /\ Len(t) = n + 1
      /\ t[n + 1] = c /\ \A i \in 1 .. n : t[i] = text[i] /\ text[i] \in Char
  BY LenProperties, AppendProperties, ElementOfSeq
<1>2. /\ EndsAt(t) = EndsAt(text) \cup (IF Ends(text, c) THEN {n + 1} ELSE {})
      /\ EndsAt(text) \subseteq 1 .. n
  BY EndsOfAppend, EndsInside
<1> HIDE DEF t
<1>3. ASSUME NEW end \in 1 .. n + 1
      PROVE  BeginOf(t, end) = BeginOf(text, end)
  <2>1. {i \in EndsAt(t) : i < end} = {i \in EndsAt(text) : i < end}
    BY <1>1, <1>2
  <2> QED BY <2>1 DEF BeginOf
<1>4. ASSUME NEW b \in 0 .. n, NEW m \in 0 .. n
      PROVE  /\ SubSeq(t, b + 1, m) = SubSeq(text, b + 1, m)
             /\ SubSeq(text, b + 1, m) \in Seq(Char)
             /\ Len(SubSeq(text, b + 1, m)) = IF b < m THEN m - b ELSE 0
             /\ \A i \in 1 .. m - b : SubSeq(text, b + 1, m)[i] = text[b + i]
  <2> DEFINE u == SubSeq(text, b + 1, m)
             w == SubSeq(t, b + 1, m)
  <2>1. \A i \in b + 1 .. m : text[i] \in Char /\ t[i] = text[i]
    BY <1>1
  <2>2. /\ u \in Seq(Char) /\ Len(u) = (IF b + 1 <= m THEN m - (b + 1) + 1 ELSE 0)
        /\ \A i \in 1 .. m - (b + 1) + 1 : u[i] = text[b + 1 + i - 1]
    BY <1>1, <2>1, SubSeqProperties
  <2>3. /\ w \in Seq(Char) /\ Len(w) = (IF b + 1 <= m THEN m - (b + 1) + 1 ELSE 0)
        /\ \A i \in 1 .. m - (b + 1) + 1 : w[i] = t[b + 1 + i - 1]
    BY <1>1, <2>1, SubSeqProperties
  <2> HIDE DEF u, w
  <2>4. Len(u) = Len(w) /\ Len(u) = (IF b < m THEN m - b ELSE 0)
    BY <2>2, <2>3, <1>1
  <2>5. ASSUME NEW i \in 1 .. Len(u)
        PROVE  w[i] = u[i]
    <3>1. i \in 1 .. m - (b + 1) + 1 /\ b + 1 + i - 1 \in b + 1 .. m
      <4>1. i \in 1 .. m - b
        BY <2>4
      <4>2. ASSUME NEW x \in Int, NEW y \in Int, NEW k \in 1 .. y - x
            PROVE  k \in 1 .. y - (x + 1) + 1 /\ x + 1 + k - 1 \in x + 1 .. y
        OBVIOUS
      <4> QED BY <1>1, <4>1, <4>2
    <3> QED BY <3>1, <2>1, <2>2, <2>3
  <2>6. w = u
    BY <2>2, <2>3, <2>4, <2>5, SeqEqual
  <2>7. \A i \in 1 .. m - b : u[i] = text[b + i]
    BY <2>2, <1>1
  <2> QED BY <2>2, <2>4, <2>6, <2>7 DEF u, w
<1>5. ASSUME NEW end \in 1 .. n + 1
      PROVE  LineTo(t, end) = LineTo(text, end)
  <2>1. BeginOf(text, end) \in 0 .. n /\ end - 1 \in 0 .. n
    BY <1>1, BeginInside
  <2>2. LineTo(text, end) = Fold(Edit, <<>>, SubSeq(text, BeginOf(text, end) + 1, end - 1))
    BY DEF LineTo, BeginOf
  <2>3. LineTo(t, end) = Fold(Edit, <<>>, SubSeq(t, BeginOf(t, end) + 1, end - 1))
    BY DEF LineTo, BeginOf
  <2> QED BY <1>3, <1>4, <2>1, <2>2, <2>3
<1>6. n + 2 \in Int /\ n + 2 - 1 = n + 1 /\ n + 1 \in 1 .. n + 1
  BY <1>1
<1>7. LineTo(t, n + 2) = Fold(Edit, <<>>, SubSeq(t, BeginOf(t, n + 2) + 1, n + 1))
  BY <1>6 DEF LineTo, BeginOf
<1>8. ASSUME Ends(text, c)
      PROVE  LineTo(t, n + 2) = <<>>
  <2> DEFINE T == {0} \cup {i \in EndsAt(t) : i < n + 2}
  <2>1. n + 1 \in T /\ T \subseteq 0 .. n + 1
    BY <1>1, <1>2, <1>8
  <2>2. Max(T) \in T /\ \A k \in T : k <= Max(T)
    <3> HIDE DEF T
    <3>1. n + 1 \in Nat
      BY <1>1
    <3> QED BY <2>1, <3>1, Greatest
  <2>3. Max(T) = n + 1
    <3> HIDE DEF T
    <3>1. Max(T) \in 0 .. n + 1 /\ n + 1 <= Max(T)
      BY <2>1, <2>2
    <3> QED BY <3>1, <1>1
  <2>4. BeginOf(t, n + 2) = n + 1
    BY <2>3 DEF BeginOf
  <2>5. SubSeq(t, n + 1 + 1, n + 1) = <<>>
    BY <1>1, SubSeqEmpty
  <2>6. Fold(Edit, <<>>, <<>>) = <<>>
    BY EditFold
  <2> QED BY <1>7, <2>4, <2>5, <2>6
<1>9. ASSUME ~ Ends(text, c)
      PROVE  LineTo(t, n + 2) = Edit[<<LineTo(text, n + 1), c>>]
  <2> DEFINE b == BeginOf(text, n + 1)
             u == SubSeq(text, b + 1, n)
             w == SubSeq(t, b + 1, n + 1)
  <2>1. {i \in EndsAt(t) : i < n + 2} = {i \in EndsAt(text) : i < n + 1}
    BY <1>1, <1>2, <1>9
  <2>2. BeginOf(t, n + 2) = b
    BY <2>1 DEF BeginOf
  <2>3. b \in 0 .. n /\ n \in 0 .. n
    BY <1>1, BeginInside
  <2> HIDE DEF b
  <2>4. u \in Seq(Char) /\ Len(u) = n - b /\ \A i \in 1 .. n - b : u[i] = text[b + i]
    BY <1>1, <1>4, <2>3
  <2>5. w \in Seq(Char) /\ Len(w) = n - b + 1 /\ \A i \in 1 .. n - b + 1 : w[i] = t[b + i]
    <3>1. \A i \in b + 1 .. n + 1 : t[i] \in Char
      BY <1>1, <2>3
    <3>2. /\ w \in Seq(Char) /\ Len(w) = (IF b + 1 <= n + 1 THEN n + 1 - (b + 1) + 1 ELSE 0)
          /\ \A i \in 1 .. n + 1 - (b + 1) + 1 : w[i] = t[b + 1 + i - 1]
      BY <1>1, <2>3, <3>1, SubSeqProperties
    <3> HIDE DEF w
    <3> QED BY <3>2, <1>1, <2>3
  <2> DEFINE v == Append(u, c)
  <2> HIDE DEF u, w
  <2>6. /\ v \in Seq(Char) /\ Len(v) = n - b + 1 /\ v[n - b + 1] = c
        /\ \A i \in 1 .. n - b : v[i] = u[i]
    BY <2>4, AppendProperties
  <2> HIDE DEF v
  <2>7. ASSUME NEW i \in 1 .. n - b + 1
        PROVE  w[i] = v[i]
    <3>1. CASE i \in 1 .. n - b
      <4>1. b + i \in 1 .. n /\ i \in 1 .. n - b + 1
        BY <3>1, <1>1, <2>3
      <4> QED BY <3>1, <4>1, <1>1, <2>4, <2>5, <2>6
    <3>2. CASE i = n - b + 1
      <4>1. b + i = n + 1
        BY <3>2, <1>1, <2>3
      <4> QED BY <3>2, <4>1, <1>1, <2>5, <2>6
    <3> QED BY <3>1, <3>2, <1>1, <2>3
  <2>8. w = v
    BY <2>5, <2>6, <2>7, SeqEqual
  <2>9. Fold(Edit, <<>>, v) = Edit[<<Fold(Edit, <<>>, u), c>>]
    BY <2>4, EditFold DEF v
  <2>10. LineTo(text, n + 1) = Fold(Edit, <<>>, u)
    <3>1. n + 1 - 1 = n
      BY <1>1
    <3> QED BY <3>1 DEF LineTo, BeginOf, b, u
  <2>11. LineTo(t, n + 2) = Fold(Edit, <<>>, w)
    BY <1>7, <2>2 DEF w
  <2> QED BY <2>8, <2>9, <2>10, <2>11
<1> QED BY <1>5, <1>8, <1>9 DEF t

\* Before anything is typed there is no line and nothing on it.
LEMMA LineOfNothing ==
  EndsAt(<<>>) = {} /\ LineTo(<<>>, 1) = <<>>
<1> DEFINE e == <<>>
<1>1. e \in Seq(Char)
  BY EmptySeq
<1>2. Len(e) = 0
  BY EmptySeq
<1> HIDE DEF e
<1>3. EndsAt(e) = {} /\ BeginOf(e, 1) = 0
  <2>1. EndsAt(e) \subseteq 1 .. Len(e)
    BY <1>1, EndsInside
  <2>2. BeginOf(e, 1) \in 0 .. Len(e)
    BY <1>1, BeginInside
  <2> QED BY <1>2, <2>1, <2>2
<1>4. SubSeq(e, 0 + 1, 1 - 1) = <<>>
  BY SubSeqEmpty
<1>5. LineTo(e, 1) = Fold(Edit, <<>>, SubSeq(e, BeginOf(e, 1) + 1, 1 - 1))
  BY DEF LineTo, BeginOf
<1> QED BY <1>3, <1>4, <1>5, EditFold DEF e

\* The answers to the lines of a text.
AnswersTo(text, answers) ==
  /\ Len(answers) = Cardinality(EndsAt(text))
  /\ \A end \in EndsAt(text) : answers[NumberOf(text, end)] = LineTo(text, end)

\* A line is answered when it ends, and no answer is given twice.
LEMMA AnswersGoOn ==
  ASSUME NEW text \in Seq(Char), NEW c \in Char, NEW answers \in Seq(Seq(Text)),
         AnswersTo(text, answers), NEW line \in Seq(Text),
         line = LineTo(text, Len(text) + 1)
  PROVE  AnswersTo(Append(text, c),
                   IF Ends(text, c) THEN Append(answers, line) ELSE answers)
<1> DEFINE t == Append(text, c)
           n == Len(text)
           E == EndsAt(text)
           F == EndsAt(t)
<1>1. n \in Nat /\ E \subseteq 1 .. n /\ IsFiniteSet(E) /\ Cardinality(E) \in Nat
  BY EndsInside, LenProperties
<1>2. F = E \cup (IF Ends(text, c) THEN {n + 1} ELSE {})
  BY EndsOfAppend
<1>3. \A end \in 1 .. n + 1 : LineTo(t, end) = LineTo(text, end)
  BY LineOfAppend
<1>4. Len(answers) = Cardinality(E) /\ \A end \in E : answers[NumberOf(text, end)] = LineTo(text, end)
  BY DEF AnswersTo
<1> HIDE DEF t, E, F
<1>5. ASSUME NEW end \in E
      PROVE  /\ NumberOf(t, end) = NumberOf(text, end)
             /\ NumberOf(text, end) \in 1 .. Len(answers)
  <2> DEFINE T == {i \in E : i <= end}
  <2>1. {i \in F : i <= end} = T
    BY <1>1, <1>2
  <2>2. NumberOf(t, end) = Cardinality(T) /\ NumberOf(text, end) = Cardinality(T)
    BY <2>1 DEF NumberOf, E, F
  <2>3. IsFiniteSet(T) /\ Cardinality(T) <= Cardinality(E)
    BY <1>1, FS_Subset
  <2>4. end \in T
    BY <1>1
  <2>5. Cardinality(T) \in Nat /\ Cardinality(T) # 0
    BY <2>3, <2>4, FS_EmptySet, FS_CardinalityType
  <2> HIDE DEF T
  <2>6. Cardinality(T) \in 1 .. Cardinality(E)
    BY <2>3, <2>5, <1>1
  <2> QED BY <2>2, <2>6, <1>4
<1>6. CASE Ends(text, c)
  <2> DEFINE more == Append(answers, line)
  <2>1. /\ Len(more) = Len(answers) + 1 /\ more[Len(answers) + 1] = line
        /\ \A i \in 1 .. Len(answers) : more[i] = answers[i]
    BY AppendProperties
  <2> HIDE DEF more
  <2>2. F = E \cup {n + 1} /\ n + 1 \notin E
    BY <1>1, <1>2, <1>6
  <2>3. Cardinality(F) = Cardinality(E) + 1
    BY <2>2, <1>1, FS_AddElement
  <2>4. ASSUME NEW end \in E
        PROVE  more[NumberOf(t, end)] = LineTo(t, end)
    <3>1. end \in 1 .. n + 1
      BY <1>1
    <3> QED BY <3>1, <1>3, <1>4, <1>5, <2>1
  <2>5. more[NumberOf(t, n + 1)] = LineTo(t, n + 1)
    <3>1. {i \in F : i <= n + 1} = F
      <4>1. \A i \in F : i <= n + 1
        BY <1>1, <2>2
      <4> QED BY <4>1
    <3>2. NumberOf(t, n + 1) = Len(answers) + 1
      BY <3>1, <2>3, <1>4 DEF NumberOf, F
    <3>3. n + 1 \in 1 .. n + 1
      BY <1>1
    <3> QED BY <3>2, <3>3, <1>3, <2>1
  <2>6. AnswersTo(t, more)
    BY <1>4, <2>1, <2>2, <2>3, <2>4, <2>5 DEF AnswersTo, F
  <2> QED BY <2>6, <1>6 DEF more, t
<1>7. CASE ~ Ends(text, c)
  <2>1. F = E
    BY <1>2, <1>7
  <2>2. ASSUME NEW end \in E
        PROVE  answers[NumberOf(t, end)] = LineTo(t, end)
    <3>1. end \in 1 .. n + 1
      BY <1>1
    <3> QED BY <3>1, <1>3, <1>4, <1>5
  <2>3. AnswersTo(t, answers)
    BY <1>4, <2>1, <2>2 DEF AnswersTo, F
  <2> QED BY <2>3, <1>7 DEF t
<1> QED BY <1>6, <1>7

-----------------------------------------------------------------------------
(* The inductive invariant about lines *)

\* The flag says whether the last character was a CR; before the console
\* starts nothing has been taken.
LinesInv ==
  /\ AnswersTo(taken, answered)
  /\ phase = "console" => cmd = LineTo(taken, Len(taken) + 1)
  /\ saw_cr <=> Len(taken) # 0 /\ taken[Len(taken)] = "cr"
  /\ phase \in {"off", "delay"} => taken = <<>>

\* At power-on and after a reset there is no line yet.
LEMMA StartsWithoutLines == Init => LinesInv
<1> SUFFICES ASSUME Init
             PROVE  LinesInv
  OBVIOUS
<1>1. Len(<<>>) = 0
  BY EmptySeq
<1>2. Cardinality({}) = 0
  BY FS_EmptySet
<1>3. AnswersTo(<<>>, <<>>)
  BY <1>1, <1>2, LineOfNothing DEF AnswersTo
<1> QED BY <1>1, <1>3 DEF Init, LinesInv

\* What a character does, as the text before it says.
TextSays(c) ==
  /\ c \in Char /\ (saw_cr' <=> c = "cr")
  /\ Ends(taken, c) => answered' = Append(answered, cmd)
                       /\ (phase' = "console" => cmd' = <<>>)
  /\ ~ Ends(taken, c) => answered' = answered /\ phase' = "console"
                         /\ cmd' = Edited(cmd, c)

\* The task, which looks at its flag only, does what the text says.
LEMMA TurnEdits ==
  ASSUME OsiInv, LinesInv, phase = "console", rx # <<>>, Turn
  PROVE  TextSays(Head(rx))
<1> DEFINE c == Head(rx)
<1>1. rx \in Seq(Char) /\ c \in Char
  BY HeadTailProperties DEF OsiInv, TypeOK
<1> SUFFICES TextSays(c)
  OBVIOUS
<1> HIDE DEF c
<1>2. "cr" \notin Text /\ "lf" \notin Text /\ "erase" \notin Text
  BY TextAssumption
<1>3. saw_cr \in BOOLEAN /\ (saw_cr <=> Len(taken) # 0 /\ taken[Len(taken)] = "cr")
  BY DEF OsiInv, TypeOK, LinesInv
<1>4. CASE HandleCr(c)
  BY <1>1, <1>4 DEF HandleCr, EndLine, Ends, TextSays
<1>5. CASE HandleLf(c)
  <2>1. c = "lf" /\ saw_cr' = FALSE
    BY <1>5 DEF HandleLf
  <2>2. CASE saw_cr
    <3>1. ~ Ends(taken, c) /\ Edited(cmd, c) = cmd
      BY <2>1, <2>2, <1>2, <1>3 DEF Ends, Edited
    <3> QED BY <1>1, <1>5, <2>1, <2>2, <3>1 DEF HandleLf, TextSays
  <2>3. CASE ~ saw_cr
    BY <1>1, <1>3, <1>5, <2>1, <2>3 DEF HandleLf, EndLine, Ends, TextSays
  <2> QED BY <2>2, <2>3
<1>6. CASE HandleErase(c)
  <2>1. c = "erase" /\ saw_cr' = FALSE /\ ~ Ends(taken, c) /\ UNCHANGED <<phase, answered>>
    BY <1>6 DEF HandleErase, Ends
  <2>2. cmd' = Edited(cmd, c)
    BY <1>6, <1>2, <2>1 DEF HandleErase, Edited
  <2> QED BY <1>1, <2>1, <2>2 DEF TextSays
<1>7. CASE HandleText(c)
  <2>1. /\ c \in Text /\ saw_cr' = FALSE /\ c # "cr" /\ ~ Ends(taken, c)
        /\ UNCHANGED <<phase, answered>>
    BY <1>7, <1>2 DEF HandleText, Ends
  <2>2. cmd' = Edited(cmd, c)
    BY <1>7, <1>2, <2>1 DEF HandleText, Edited
  <2> QED BY <1>1, <2>1, <2>2 DEF TextSays
<1> QED BY <1>4, <1>5, <1>6, <1>7 DEF Turn, c

\* The flag and the line so far are all the task needs to remember of the
\* text: its answers stay those that the whole text tells.
THEOREM LinesInvariant == Spec => []LinesInv
<1>1. Init => LinesInv
  BY StartsWithoutLines
<1>2. ASSUME OsiInv, LinesInv, [Next]_vars
      PROVE  LinesInv'
  <2>1. CASE rtosk_osi_init
    BY <1>2, <2>1 DEF rtosk_osi_init, LinesInv
  <2>2. CASE Banner
    <3>1. cmd' = <<>> /\ taken' = <<>> /\ taken = <<>> /\ UNCHANGED <<saw_cr, answered>>
      BY <1>2, <2>2 DEF Banner, OsiInv, LinesInv
    <3>2. Len(<<>>) = 0
      BY EmptySeq
    <3>3. cmd' = LineTo(taken', Len(taken') + 1)
      BY <3>1, <3>2, LineOfNothing
    <3> QED BY <1>2, <2>2, <3>1, <3>3 DEF Banner, LinesInv
  <2>3. CASE rtosk_osi_task
    <3> DEFINE c == Head(rx)
               n == Len(taken)
    <3>1. phase = "console" /\ rx # <<>> /\ taken' = Append(taken, c) /\ Turn
      BY <2>3 DEF rtosk_osi_task, Turn
    <3>2. /\ c \in Char /\ (saw_cr' <=> c = "cr")
          /\ Ends(taken, c) => answered' = Append(answered, cmd)
                               /\ (phase' = "console" => cmd' = <<>>)
          /\ ~ Ends(taken, c) => answered' = answered /\ phase' = "console"
                                 /\ cmd' = Edited(cmd, c)
      BY <1>2, <3>1, TurnEdits DEF TextSays
    <3> HIDE DEF c
    <3>3. /\ taken \in Seq(Char) /\ answered \in Seq(Seq(Text)) /\ cmd \in Seq(Text)
          /\ cmd = LineTo(taken, n + 1) /\ AnswersTo(taken, answered)
      BY <1>2, <3>1 DEF OsiInv, TypeOK, LinesInv
    <3>4. Len(taken') = n + 1 /\ n \in Nat /\ taken'[n + 1] = c
      BY <3>1, <3>2, <3>3, AppendProperties, LenProperties
    <3>5. AnswersTo(taken', answered')
      BY <3>1, <3>2, <3>3, AnswersGoOn
    <3>6. phase' = "console" => cmd' = LineTo(taken', n + 2)
      <4>1. CASE Ends(taken, c)
        BY <3>1, <3>2, <3>3, <4>1, LineOfAppend
      <4>2. CASE ~ Ends(taken, c)
        <5>1. LineTo(taken', n + 2) = Edit[<<cmd, c>>]
          BY <3>1, <3>2, <3>3, <4>2, LineOfAppend
        <5>2. Edit[<<cmd, c>>] = Edited(cmd, c)
          BY <3>2, <3>3 DEF Edit
        <5> QED BY <3>2, <4>2, <5>1, <5>2
      <4> QED BY <4>1, <4>2
    <3>7. n + 1 + 1 = n + 2 /\ n + 1 # 0
      BY <3>4
    <3>8. phase' \notin {"off", "delay"}
      BY <1>2, <3>1, TurnKeeps
    <3> HIDE DEF n
    <3> QED BY <3>2, <3>4, <3>5, <3>6, <3>7, <3>8 DEF LinesInv
  <2>4. CASE Reset
    <3>1. Init'
      BY <2>4 DEF Reset, Init
    <3> QED
      BY <3>1, StartsWithoutLines, PTL
  <2>5. ASSUME NEW c \in Char, USART3_IRQHandler(c)
        PROVE  LinesInv'
    BY <1>2, <2>5 DEF USART3_IRQHandler, LinesInv
  <2>6. CASE UNCHANGED vars
    BY <1>2, <2>6 DEF vars, LinesInv
  <2> QED
    BY <1>2, <2>1, <2>2, <2>3, <2>4, <2>5, <2>6 DEF Next
<1> QED
  BY <1>1, <1>2, OsiInvariant, PTL DEF Spec

\* Every line typed, however it ends, is answered once, as it was edited and
\* in order, and the line being typed is what has been typed since.
THEOREM LinesAreAnswered == Spec => []LinesAreAsTyped
<1>1. LinesInv => LinesAreAsTyped
  BY DEF LinesInv, AnswersTo, LinesAreAsTyped
<1> QED
  BY <1>1, LinesInvariant, PTL

=============================================================================
