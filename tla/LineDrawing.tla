---------------------------- MODULE LineDrawing -----------------------------
(***************************************************************************)
(* gui_renderer_draw_line (renderer.c): the pen goes from one end of a     *)
(* line to the other, a pixel at a time, in integers.                      *)
(***************************************************************************)
EXTENDS Integers

CONSTANT Coord  \* what an end's coordinates may be

ASSUME CoordAssumption == Coord \subseteq Int

VARIABLES
  line, \* the arguments of the call: x0, y0, x1, y1 and a colour; NoLine
        \* between two calls
  pen   \* ix0, iy0 and err

NoLine == <<>>
NoPen == [x |-> 0, y |-> 0, err |-> 0]

Abs(n) == IF n < 0 THEN -n ELSE n
Larger(m, n) == IF m < n THEN n ELSE m

\* The code's dx and sx; its dy is -DeltaY, and its sy SignY.
DeltaX(l) == Abs(l[3] - l[1])
DeltaY(l) == Abs(l[4] - l[2])
SignX(l) == IF l[1] < l[3] THEN 1 ELSE -1
SignY(l) == IF l[2] < l[4] THEN 1 ELSE -1

Begin(l) == [x |-> l[1], y |-> l[2], err |-> DeltaX(l) - DeltaY(l)]

Arrived(l, p) == p.x = l[3] /\ p.y = l[4]

StepsX(l, p) == 2 * p.err >= -DeltaY(l)
StepsY(l, p) == 2 * p.err <= DeltaX(l)

\* Faulty: e2 is err.
StepUndoubled(l, p) ==
  LET right == IF p.err >= -DeltaY(l) THEN 1 ELSE 0
      down  == IF p.err <= DeltaX(l) THEN 1 ELSE 0
  IN  [x   |-> p.x + right * SignX(l),
       y   |-> p.y + down * SignY(l),
       err |-> p.err - right * DeltaY(l) + down * DeltaX(l)]

\* Where the pen goes after a pixel: both tests are of the err before.
Step(l, p) ==
  [x   |-> IF StepsX(l, p) THEN p.x + SignX(l) ELSE p.x,
   y   |-> IF StepsY(l, p) THEN p.y + SignY(l) ELSE p.y,
   err |-> p.err - (IF StepsX(l, p) THEN DeltaY(l) ELSE 0)
                 + (IF StepsY(l, p) THEN DeltaX(l) ELSE 0)]

LineInit ==
  /\ \E x0, y0, x1, y1 \in Coord : line = <<x0, y0, x1, y1>>
  /\ pen = Begin(line)

\* One turn of the loop: a pixel, and on unless it was the last.
DrawPixel ==
  /\ line # NoLine
  /\ IF Arrived(line, pen)
       THEN line' = NoLine /\ pen' = NoPen
       ELSE line' = line /\ pen' = Step(line, pen)

LineSpec == LineInit /\ [][DrawPixel]_<<line, pen>>

-----------------------------------------------------------------------------

(***************************************************************************)
(* How far the pen is off the line through the two ends: the difference,   *)
(* in y if the line is wide and in x if it is high, times the longer side. *)
(***************************************************************************)
Deviation(l, p) ==
  Abs(p.y - l[2]) * DeltaX(l) - Abs(p.x - l[1]) * DeltaY(l)

\* From m to n, whichever is greater.
Between(k, m, n) == (m <= k /\ k <= n) \/ (n <= k /\ k <= m)

(***************************************************************************)
(* Every pixel lies between the ends, and never more than half a pixel off *)
(* the line: the error the loop adds up and its two tests, of the same err *)
(* in one turn, fit together for every slope and direction (renderer.c:114 *)
(* to 124).                                                                *)
(***************************************************************************)
NearTheLine ==
  line # NoLine =>
    /\ Between(pen.x, line[1], line[3]) /\ Between(pen.y, line[2], line[4])
    /\ 2 * Abs(Deviation(line, pen)) <= Larger(DeltaX(line), DeltaY(line))

=============================================================================
