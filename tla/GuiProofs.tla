----------------------------- MODULE GuiProofs ------------------------------
(***************************************************************************)
(* Proofs about the GUI: what a line of LineDrawing draws, what the        *)
(* pictures of GuiScene are made of, and what GuiLink's parser makes of    *)
(* the frames, for any number of angles and outages.                       *)
(*                                                                         *)
(* A line is counted from its first end: u and v pixels done of the a and  *)
(* b there are.  The pen's err is then a - b + D, where D = v * a - u * b  *)
(* is its deviation, and what the two tests decide by is how 2 * D         *)
(* compares with b - 2 * a and 2 * b - a.                                  *)
(*                                                                         *)
(* The parser is in step while it and the line share the frame that is     *)
(* being sent: what it has had of it is in its variables, and the rest is  *)
(* on the line.  What it has had agrees with its checksum in every state,  *)
(* for the checksum of a longer payload is the fold's next step.           *)
(***************************************************************************)
EXTENDS GuiLink, FoldProofs, TLAPS

\* The deviation after u and v pixels.
Dev(u, v, a, b) == v * a - u * b

\* Within half a pixel of the line.
Near(d, a, b) == -Larger(a, b) <= 2 * d /\ 2 * d <= Larger(a, b)

-----------------------------------------------------------------------------
(* Integers *)

\* What one pixel adds to the deviation, in either direction.
LEMMA DevStep ==
  ASSUME NEW u \in Int, NEW v \in Int, NEW a \in Int, NEW b \in Int
  PROVE  /\ Dev(u, v, a, b) \in Int
         /\ Dev(u + 1, v, a, b) = Dev(u, v, a, b) - b
         /\ Dev(u, v + 1, a, b) = Dev(u, v, a, b) + a
         /\ Dev(u + 1, v + 1, a, b) = Dev(u, v, a, b) + a - b
<1>1. (v + 1) * a = v * a + a  OBVIOUS
<1>2. (u + 1) * b = u * b + b  OBVIOUS
<1>3. v * a \in Int /\ u * b \in Int  OBVIOUS
<1>4. QED  BY <1>1, <1>2, <1>3 DEF Dev

\* At one end of the box the deviation tells how far the pen is from the other.
LEMMA DevAtEdge ==
  ASSUME NEW a \in Nat, NEW b \in Nat, NEW u \in Nat, NEW v \in Nat
  PROVE  /\ v < b => Dev(a, v, a, b) <= -a
         /\ u < a => Dev(u, b, a, b) >= b
<1>1. ASSUME NEW m \in Nat, NEW n \in Nat, NEW k \in Nat, m < n
      PROVE  m * k <= n * k - k
  <2>1. PICK d \in Nat : n = m + 1 + d  BY <1>1
  <2>2. n * k = m * k + k + d * k  BY <2>1
  <2>3. d * k \in Nat /\ m * k \in Nat  OBVIOUS
  <2>4. QED  BY <2>2, <2>3
<1>2. a * b = b * a /\ a * b \in Nat  OBVIOUS
<1>3. v < b => v * a <= b * a - a  BY <1>1
<1>4. u < a => u * b <= a * b - b  BY <1>1
<1>5. v * a \in Nat /\ u * b \in Nat  OBVIOUS
<1>6. QED  BY <1>2, <1>3, <1>4, <1>5 DEF Dev

\* Before it has arrived, a pen that is near the line never leaves the box.
LEMMA StaysInBox ==
  ASSUME NEW a \in Nat, NEW b \in Nat, NEW u \in 0 .. a, NEW v \in 0 .. b,
         Near(Dev(u, v, a, b), a, b), ~(u = a /\ v = b)
  PROVE  /\ 2 * Dev(u, v, a, b) >= b - 2 * a => u < a
         /\ 2 * Dev(u, v, a, b) <= 2 * b - a => v < b
<1>1. Dev(u, v, a, b) \in Int  BY DevStep
<1>2. ASSUME 2 * Dev(u, v, a, b) >= b - 2 * a, u = a PROVE FALSE
  <2>1. v < b  BY <1>2
  <2>2. Dev(u, v, a, b) <= -a  BY <2>1, <1>2, DevAtEdge
  <2>3. QED  BY <1>1, <1>2, <2>1, <2>2 DEF Near, Larger
<1>3. ASSUME 2 * Dev(u, v, a, b) <= 2 * b - a, v = b PROVE FALSE
  <2>1. u < a  BY <1>3
  <2>2. Dev(u, v, a, b) >= b  BY <2>1, <1>3, DevAtEdge
  <2>3. QED  BY <1>1, <1>3, <2>1, <2>2 DEF Near, Larger
<1>4. QED  BY <1>1, <1>2, <1>3

\* A turn of the loop keeps a pen that is near the line near it.
LEMMA StaysNear ==
  ASSUME NEW a \in Nat, NEW b \in Nat, NEW d \in Int, Near(d, a, b)
  PROVE  LET e == d - (IF 2 * d >= b - 2 * a THEN b ELSE 0)
                    + (IF 2 * d <= 2 * b - a THEN a ELSE 0)
         IN  Near(e, a, b)
BY DEF Near, Larger

-----------------------------------------------------------------------------
(* The invariant *)

\* What the pen p of a line l has done of it.
OnLine(l, p) ==
  /\ l[1] \in Int /\ l[2] \in Int /\ l[3] \in Int /\ l[4] \in Int
  /\ p \in [x : Int, y : Int, err : Int]
  /\ Between(p.x, l[1], l[3]) /\ Between(p.y, l[2], l[4])
  /\ p.err = DeltaX(l) - DeltaY(l) + Deviation(l, p)
  /\ Near(Deviation(l, p), DeltaX(l), DeltaY(l))

LineInv == line # NoLine => OnLine(line, pen)

\* One coordinate, seen from the first end: how far the pen is, and that a
\* step towards the other end takes it one further.
LEMMA Along ==
  ASSUME NEW m \in Int, NEW n \in Int, NEW k \in Int, Between(k, m, n)
  PROVE  /\ Abs(n - m) \in Nat /\ Abs(k - m) \in 0 .. Abs(n - m)
         /\ Abs(k - m) = Abs(n - m) <=> k = n
         /\ Abs(k - m) < Abs(n - m) =>
              LET next == k + (IF m < n THEN 1 ELSE -1)
              IN  Between(next, m, n) /\ Abs(next - m) = Abs(k - m) + 1
BY DEF Between, Abs

\* A line begins on itself.
LEMMA BeginsOnLine ==
  ASSUME NEW l, l[1] \in Int, l[2] \in Int, l[3] \in Int, l[4] \in Int
  PROVE  OnLine(l, Begin(l))
<1> DEFINE p == Begin(l)
<1>1. p = [x |-> l[1], y |-> l[2], err |-> DeltaX(l) - DeltaY(l)]
  BY DEF Begin
<1>2. DeltaX(l) \in Nat /\ DeltaY(l) \in Nat  BY DEF DeltaX, DeltaY, Abs
<1>3. p.x = l[1] /\ p.y = l[2] /\ p.err = DeltaX(l) - DeltaY(l)  BY <1>1
<1>4. p \in [x : Int, y : Int, err : Int]
  <2> HIDE DEF p
  <2>1. DeltaX(l) - DeltaY(l) \in Int  BY <1>2
  <2> QED  BY <1>1, <2>1
<1> HIDE DEF p
<1>5. Abs(p.x - l[1]) = 0 /\ Abs(p.y - l[2]) = 0  BY <1>3 DEF Abs
<1>6. Deviation(l, p) = 0  BY <1>2, <1>5 DEF Deviation
<1>7. Between(p.x, l[1], l[3]) /\ Between(p.y, l[2], l[4])
  BY <1>3 DEF Between
<1>8. Near(0, DeltaX(l), DeltaY(l))  BY <1>2 DEF Near, Larger
<1>9. OnLine(l, p)  BY <1>2, <1>3, <1>4, <1>6, <1>7, <1>8 DEF OnLine
<1> QED  BY <1>9 DEF p

\* And so does a line that is called for.
LEMMA LineInitInv == LineInit => LineInv
<1> SUFFICES ASSUME LineInit PROVE OnLine(line, pen)  BY DEF LineInv
<1>1. PICK x0, y0, x1, y1 \in Coord : line = <<x0, y0, x1, y1>>  BY DEF LineInit
<1>2. line[1] \in Int /\ line[2] \in Int /\ line[3] \in Int /\ line[4] \in Int
  BY <1>1, CoordAssumption
<1> QED  BY <1>2, BeginsOnLine DEF LineInit

\* The err, the tests and the coordinates go together in every turn.
LEMMA LineStepInv == LineInv /\ [DrawPixel]_<<line, pen>> => LineInv'
<1> SUFFICES ASSUME LineInv, [DrawPixel]_<<line, pen>> PROVE LineInv'
  OBVIOUS
<1>1. CASE UNCHANGED <<line, pen>>
  BY <1>1 DEF LineInv, OnLine, Deviation, DeltaX, DeltaY
<1>2. CASE DrawPixel /\ Arrived(line, pen)
  BY <1>2 DEF DrawPixel, LineInv
<1>3. CASE DrawPixel /\ ~Arrived(line, pen)
  <2> DEFINE a == DeltaX(line)
             b == DeltaY(line)
             u == Abs(pen.x - line[1])
             v == Abs(pen.y - line[2])
             d == Dev(u, v, a, b)
             right == 2 * d >= b - 2 * a
             down  == 2 * d <= 2 * b - a
  <2>1. /\ line # NoLine /\ line' = line
        /\ pen' = Step(line, pen)
    BY <1>3 DEF DrawPixel
  <2>2. /\ line[1] \in Int /\ line[2] \in Int /\ line[3] \in Int /\ line[4] \in Int
        /\ pen \in [x : Int, y : Int, err : Int]
        /\ Between(pen.x, line[1], line[3]) /\ Between(pen.y, line[2], line[4])
        /\ pen.err = a - b + d
        /\ Near(d, a, b)
    BY <2>1 DEF LineInv, OnLine, Deviation, Dev
  <2>3. a \in Nat /\ u \in 0 .. a /\ (u = a <=> pen.x = line[3])
    BY <2>2, Along DEF DeltaX
  <2>4. b \in Nat /\ v \in 0 .. b /\ (v = b <=> pen.y = line[4])
    BY <2>2, Along DEF DeltaY
  <2>5. ~(u = a /\ v = b)  BY <1>3, <2>3, <2>4 DEF Arrived
  <2>6. (right => u < a) /\ (down => v < b)
    BY <2>2, <2>3, <2>4, <2>5, StaysInBox
  <2>7. d \in Int
    <3>1. u \in Int /\ v \in Int /\ a \in Int /\ b \in Int  BY <2>3, <2>4
    <3> HIDE DEF a, b, u, v
    <3> QED  BY <3>1, DevStep
  <2>8. StepsX(line, pen) <=> right
    <3> HIDE DEF d, u, v
    <3> QED  BY <2>2, <2>3, <2>4, <2>7 DEF StepsX
  <2>9. StepsY(line, pen) <=> down
    <3> HIDE DEF d, u, v
    <3> QED  BY <2>2, <2>3, <2>4, <2>7 DEF StepsY
  <2>10. /\ pen'.x = IF right THEN pen.x + SignX(line) ELSE pen.x
         /\ pen'.y = IF down THEN pen.y + SignY(line) ELSE pen.y
         /\ pen'.err = pen.err - (IF right THEN b ELSE 0) + (IF down THEN a ELSE 0)
         /\ pen' \in [x : Int, y : Int, err : Int]
    <3>1. SignX(line) \in Int /\ SignY(line) \in Int  BY DEF SignX, SignY
    <3> HIDE DEF right, down, a, b
    <3>2. a \in Int /\ b \in Int  BY <2>3, <2>4
    <3> USE DEF a, b
    <3>3. pen' = [x   |-> IF right THEN pen.x + SignX(line) ELSE pen.x,
                  y   |-> IF down THEN pen.y + SignY(line) ELSE pen.y,
                  err |-> pen.err - (IF right THEN b ELSE 0) + (IF down THEN a ELSE 0)]
      BY <2>1, <2>8, <2>9 DEF Step
    <3> HIDE DEF a, b
    <3> QED  BY <2>2, <3>1, <3>2, <3>3
  <2>11. /\ Between(pen'.x, line[1], line[3])
         /\ Abs(pen'.x - line[1]) = IF right THEN u + 1 ELSE u
    <3> HIDE DEF right
    <3>1. CASE right
      <4>1. u < a /\ pen'.x = pen.x + SignX(line)  BY <3>1, <2>6, <2>10
      <4> DEFINE k == pen.x
                 m == line[1]
                 n == line[3]
      <4>2. k \in Int /\ m \in Int /\ n \in Int /\ Between(k, m, n)
        BY <2>2
      <4>3. u = Abs(k - m) /\ a = Abs(n - m) /\ pen'.x = k + (IF m < n THEN 1 ELSE -1)
        BY <4>1 DEF SignX, DeltaX
      <4> HIDE DEF k, m, n, u, a
      <4>4. Between(pen'.x, m, n) /\ Abs(pen'.x - m) = u + 1
        <5> DEFINE next == k + (IF m < n THEN 1 ELSE -1)
        <5>1. Between(next, m, n) /\ Abs(next - m) = u + 1
          BY <4>1, <4>2, <4>3, Along
        <5> HIDE DEF next
        <5>2. pen'.x = next
          BY <4>3 DEF next
        <5> QED  BY <5>1, <5>2
      <4> QED  BY <3>1, <4>4 DEF k, m, n, u
    <3>2. CASE ~right
      BY <3>2, <2>2, <2>10
    <3> QED  BY <3>1, <3>2
  <2>12. /\ Between(pen'.y, line[2], line[4])
         /\ Abs(pen'.y - line[2]) = IF down THEN v + 1 ELSE v
    <3> HIDE DEF down
    <3>1. CASE down
      <4>1. v < b /\ pen'.y = pen.y + SignY(line)  BY <3>1, <2>6, <2>10
      <4> DEFINE k == pen.y
                 m == line[2]
                 n == line[4]
      <4>2. k \in Int /\ m \in Int /\ n \in Int /\ Between(k, m, n)
        BY <2>2
      <4>3. v = Abs(k - m) /\ b = Abs(n - m) /\ pen'.y = k + (IF m < n THEN 1 ELSE -1)
        BY <4>1 DEF SignY, DeltaY
      <4> HIDE DEF k, m, n, v, b
      <4>4. Between(pen'.y, m, n) /\ Abs(pen'.y - m) = v + 1
        <5> DEFINE next == k + (IF m < n THEN 1 ELSE -1)
        <5>1. Between(next, m, n) /\ Abs(next - m) = v + 1
          BY <4>1, <4>2, <4>3, Along
        <5> HIDE DEF next
        <5>2. pen'.y = next
          BY <4>3 DEF next
        <5> QED  BY <5>1, <5>2
      <4> QED  BY <3>1, <4>4 DEF k, m, n, v
    <3>2. CASE ~down
      BY <3>2, <2>2, <2>10
    <3> QED  BY <3>1, <3>2
  <2> DEFINE e == d - (IF right THEN b ELSE 0) + (IF down THEN a ELSE 0)
  <2>13. Deviation(line, pen') = e
    <3> DEFINE u1 == IF right THEN u + 1 ELSE u
               v1 == IF down THEN v + 1 ELSE v
    <3>1. Deviation(line, pen') = Dev(u1, v1, a, b)
      BY <2>11, <2>12 DEF Deviation, Dev
    <3>2. u \in Int /\ v \in Int /\ a \in Int /\ b \in Int  BY <2>3, <2>4
    <3> HIDE DEF a, b, u, v, right, down
    <3>3. Dev(u1, v1, a, b) = e
      <4>1. /\ d \in Int
            /\ Dev(u + 1, v, a, b) = d - b
            /\ Dev(u, v + 1, a, b) = d + a
            /\ Dev(u + 1, v + 1, a, b) = d + a - b
        BY <3>2, DevStep
      <4>2. Dev(u, v, a, b) = d  OBVIOUS
      <4> HIDE DEF d
      <4>3. CASE right /\ down    BY <4>1, <4>3, <3>2
      <4>4. CASE right /\ ~down   BY <4>1, <4>4, <3>2
      <4>5. CASE ~right /\ down   BY <4>1, <4>5, <3>2
      <4>6. CASE ~right /\ ~down  BY <4>1, <4>2, <4>6, <3>2
      <4> QED  BY <4>3, <4>4, <4>5, <4>6
    <3> QED  BY <3>1, <3>3
  <2>14. Near(e, a, b)
    <3> HIDE DEF a, b, d
    <3> QED  BY <2>2, <2>3, <2>4, <2>7, StaysNear
  <2>15. pen'.err = a - b + e
    <3> HIDE DEF a, b, d, right, down
    <3> QED  BY <2>2, <2>3, <2>4, <2>7, <2>10
  <2>16. Deviation(line, pen)' = Deviation(line, pen')
    BY <2>1 DEF Deviation, DeltaX, DeltaY
  <2>17. DeltaX(line)' = a /\ DeltaY(line)' = b  BY <2>1 DEF DeltaX, DeltaY
  <2> HIDE DEF a, b, d, e, u, v
  <2>18. QED
    BY <2>1, <2>2, <2>10, <2>11, <2>12, <2>13, <2>14, <2>15, <2>16, <2>17 DEF LineInv, OnLine
<1>4. QED  BY <1>1, <1>2, <1>3

-----------------------------------------------------------------------------

\* A pen that is on the line is between its ends and near it.
LEMMA LineInvIsNear == LineInv => NearTheLine
<1> SUFFICES ASSUME LineInv, line # NoLine
             PROVE  2 * Abs(Deviation(line, pen)) <= Larger(DeltaX(line), DeltaY(line))
  BY DEF LineInv, OnLine, NearTheLine
<1> DEFINE d == Deviation(line, pen)
           m == Larger(DeltaX(line), DeltaY(line))
<1>1. DeltaX(line) \in Nat /\ DeltaY(line) \in Nat
  BY DEF LineInv, OnLine, DeltaX, DeltaY, Abs
<1>2. m \in Nat  BY <1>1 DEF Larger
<1>3. Abs(pen.y - line[2]) \in Int /\ Abs(pen.x - line[1]) \in Int
  BY DEF LineInv, OnLine, Abs
<1>4. d \in Int  BY <1>1, <1>3 DEF Deviation
<1>5. -m <= 2 * d /\ 2 * d <= m  BY DEF LineInv, OnLine, Near
<1> HIDE DEF d, m
<1>6. 2 * Abs(d) <= m  BY <1>2, <1>4, <1>5 DEF Abs
<1> QED  BY <1>6 DEF d, m

(***************************************************************************)
(* For all ends, every pixel gui_renderer_draw_line draws lies between     *)
(* them and within half a pixel of the line.                               *)
(***************************************************************************)
THEOREM LineIsNear == LineSpec => []NearTheLine
BY LineInitInv, LineStepInv, LineInvIsNear, PTL DEF LineSpec

-----------------------------------------------------------------------------
(* The bytes and the projection *)

\* No further from 0 than n.
Within(n) == -n .. n

\* A sum or a difference is no larger than its parts allow, whatever their signs.
LEMMA SumWithin ==
  ASSUME NEW m \in Nat, NEW n \in Nat, NEW a \in Within(m), NEW b \in Within(n)
  PROVE  a + b \in Within(m + n) /\ a - b \in Within(m + n) /\ -a + b \in Within(m + n)
BY DEF Within

\* Nor is a product.
LEMMA ProductWithin ==
  ASSUME NEW m \in Nat, NEW n \in Nat, NEW a \in Within(m), NEW b \in Within(n)
  PROVE  a * b \in Within(m * n)
<1>1. ASSUME NEW c \in 0 .. m, NEW d \in 0 .. n
      PROVE  c * d \in 0 .. m * n
  <2>1. c * d <= c * n /\ c * n <= m * n /\ 0 <= c * d
    OBVIOUS
  <2> QED BY <2>1
<1>2. a \in Int /\ b \in Int /\ -m <= a /\ a <= m /\ -n <= b /\ b <= n
  BY DEF Within
<1>3. a * b = (-a) * (-b) /\ a * b = -((-a) * b) /\ a * b = -(a * (-b))
  BY <1>2
<1>4. \/ a * b \in 0 .. m * n
      \/ (-a) * b \in 0 .. m * n
      \/ a * (-b) \in 0 .. m * n
      \/ (-a) * (-b) \in 0 .. m * n
  <2>1. a \in 0 .. m \/ -a \in 0 .. m
    BY <1>2
  <2>2. b \in 0 .. n \/ -b \in 0 .. n
    BY <1>2
  <2> QED BY <1>1, <2>1, <2>2
<1>5. ASSUME NEW i \in Int, NEW k \in Int, i \in 0 .. k \/ -i \in 0 .. k
      PROVE  i \in Within(k)
  BY <1>5 DEF Within
<1>6. a * b \in Int /\ m * n \in Int
  BY <1>2
<1> QED BY <1>3, <1>4, <1>5, <1>6

\* Nor a quotient, though \div rounds down.
LEMMA QuotientWithin ==
  ASSUME NEW k \in Nat, NEW d \in Nat \ {0}, NEW a \in Within(k * d)
  PROVE  a \div d \in Within(k)
<1> DEFINE q == a \div d
           r == a % d
<1>1. a \in Int /\ -(k * d) <= a /\ a <= k * d
  BY DEF Within
<1>2. q \in Int /\ r \in 0 .. d - 1 /\ a = q * d + r
  BY <1>1
<1> HIDE DEF q, r
<1>3. ASSUME q > k PROVE FALSE
  <2>1. q * d >= (k + 1) * d
    BY <1>2, <1>3
  <2> QED BY <1>1, <1>2, <2>1
<1>4. ASSUME q < -k PROVE FALSE
  <2>1. q * d <= (-k - 1) * d
    BY <1>2, <1>4
  <2> QED BY <1>1, <1>2, <2>1
<1>5. q \in Within(k)
  BY <1>2, <1>3, <1>4 DEF Within
<1> QED BY <1>5 DEF q

\* The exclusive or of two bytes is a byte, and that with 0 is the other.
LEMMA XorOfIs ==
  /\ XorOf \in Steps(Byte, Byte)
  /\ \A b \in Byte : XorOf[<<0, b>>] = b
<1> DEFINE bit(x, y, n) == n * ((x \div n + y \div n) % 2)
           sum(x, y) == bit(x, y, 1) + bit(x, y, 2) + bit(x, y, 4) + bit(x, y, 8)
                          + bit(x, y, 16) + bit(x, y, 32) + bit(x, y, 64) + bit(x, y, 128)
<1>1. ASSUME NEW x \in Byte, NEW y \in Byte
      PROVE  /\ bit(x, y, 1) \in 0 .. 1 /\ bit(x, y, 2) \in 0 .. 2
             /\ bit(x, y, 4) \in 0 .. 4 /\ bit(x, y, 8) \in 0 .. 8
             /\ bit(x, y, 16) \in 0 .. 16 /\ bit(x, y, 32) \in 0 .. 32
             /\ bit(x, y, 64) \in 0 .. 64 /\ bit(x, y, 128) \in 0 .. 128
  BY DEF Byte
<1>2. ASSUME NEW x \in Byte, NEW y \in Byte
      PROVE  sum(x, y) \in Byte
  <2>1. ASSUME NEW m \in Nat, NEW n \in Nat, NEW a \in 0 .. m, NEW b \in 0 .. n
        PROVE  a + b \in 0 .. m + n
    OBVIOUS
  <2>2. /\ bit(x, y, 1) \in 0 .. 1 /\ bit(x, y, 2) \in 0 .. 2
        /\ bit(x, y, 4) \in 0 .. 4 /\ bit(x, y, 8) \in 0 .. 8
        /\ bit(x, y, 16) \in 0 .. 16 /\ bit(x, y, 32) \in 0 .. 32
        /\ bit(x, y, 64) \in 0 .. 64 /\ bit(x, y, 128) \in 0 .. 128
    BY <1>1
  <2> HIDE DEF bit
  <2> DEFINE low == bit(x, y, 1) + bit(x, y, 2) + bit(x, y, 4) + bit(x, y, 8)
             high == low + bit(x, y, 16) + bit(x, y, 32)
  <2>3. low \in 0 .. 15
    <3>1. low \in 0 .. 1 + 2 + 4 + 8
      BY <2>1, <2>2
    <3> QED BY <3>1
  <2> HIDE DEF low
  <2>4. high \in 0 .. 63
    <3>1. high \in 0 .. 15 + 16 + 32
      BY <2>1, <2>2, <2>3
    <3> QED BY <3>1
  <2>5. sum(x, y) = high + bit(x, y, 64) + bit(x, y, 128)
    BY DEF low
  <2> HIDE DEF high, sum
  <2>6. high + bit(x, y, 64) \in 0 .. 63 + 64
    BY <2>1, <2>2, <2>4
  <2>7. high + bit(x, y, 64) + bit(x, y, 128) \in 0 .. 63 + 64 + 128
    BY <2>1, <2>2, <2>6
  <2>8. 63 + 64 + 128 = 255
    OBVIOUS
  <2> QED BY <2>5, <2>7, <2>8 DEF Byte
<1>3. ASSUME NEW b \in Byte
      PROVE  sum(0, b) = b
  BY DEF Byte
<1>4. \A p \in Byte \X Byte : p[1] \in Byte /\ p[2] \in Byte
  OBVIOUS
<1>5. XorOf = [p \in Byte \X Byte |-> sum(p[1], p[2])]
  BY DEF XorOf
<1>6. 0 \in Byte
  BY DEF Byte
<1> HIDE DEF sum
<1>7. XorOf \in Steps(Byte, Byte)
  BY <1>2, <1>4, <1>5 DEF Steps
<1>8. ASSUME NEW b \in Byte
      PROVE  XorOf[<<0, b>>] = b
  BY <1>3, <1>5, <1>6
<1> QED BY <1>7, <1>8

\* A quarter of a turn is mirrored: no sine is larger than the table's.
LEMMA Sine == \A a \in 0 .. 511 : fsin[a] \in Within(128)
<1>1. \A i \in 1 .. 17 : Quarter[i] \in 0 .. 127
  BY DEF Quarter
<1>2. ASSUME NEW a \in 0 .. 511
      PROVE  fsin[a] \in Within(128)
  <2> DEFINE half == a % 32
             size == IF half <= 16 THEN Quarter[half + 1] ELSE Quarter[33 - half]
  <2>1. half \in 0 .. 31
    OBVIOUS
  <2>2. size \in 0 .. 127
    <3> HIDE DEF half
    <3>1. CASE half <= 16
      BY <3>1, <2>1, <1>1
    <3>2. CASE ~(half <= 16)
      BY <3>2, <2>1, <1>1
    <3> QED BY <3>1, <3>2
  <2>3. fsin[a] = IF a % 64 < 32 THEN size ELSE -size
    BY DEF fsin
  <2> HIDE DEF size
  <2> QED BY <2>2, <2>3 DEF Within
<1> QED BY <1>2

\* What project takes of an angle.
LEMMA Cosine ==
  ASSUME NEW a \in Byte
  PROVE  fsin[a] \in Within(128) /\ fcos[a] \in Within(128)
<1>1. a \in 0 .. 511 /\ a + 16 \in 0 .. 511
  BY DEF Byte
<1>2. fcos[a] = fsin[a + 16]
  BY DEF fcos
<1> QED BY <1>1, <1>2, Sine

\* Where the corners can be.
Placed(p) == p.x \in 31 .. 223 /\ p.y \in 7 .. 135

\* No corner of the cube leaves the picture, however it is turned.
LEMMA CornerOnScreen ==
  ASSUME NEW p \in [x : {-16, 16}, y : {-16, 16}, z : {-16, 16}], NEW ax \in Byte, NEW ay \in Byte
  PROVE  Placed(project(p, ax, ay))
<1> DEFINE y1 == (p.y * fcos[ax] - p.z * fsin[ax]) \div 128
           z1 == (p.y * fsin[ax] + p.z * fcos[ax]) \div 128
           x2 == (p.x * fcos[ay] + z1 * fsin[ay]) \div 128
           z2 == (-(p.x * fsin[ay]) + z1 * fcos[ay]) \div 128
           s  == (96 * 64) \div (z2 + 96)
           right == (x2 * s) \div 64
           down == (y1 * s) \div 64
<1>1. project(p, ax, ay) = [x |-> 127 + right, y |-> 71 + down]
  <2>1. Width \div 2 = 127 /\ Height \div 2 = 71
    BY DEF Width, Height
  <2>2. project(p, ax, ay) = [x |-> Width \div 2 + right, y |-> Height \div 2 + down]
    BY DEF project
  <2> QED BY <2>1, <2>2
<1> HIDE DEF y1, z1, x2, z2, s, right, down
<1>2. /\ fsin[ax] \in Within(128) /\ fcos[ax] \in Within(128)
      /\ fsin[ay] \in Within(128) /\ fcos[ay] \in Within(128)
  BY Cosine
<1>3. ASSUME NEW a \in {-16, 16}, NEW b \in Within(128)
      PROVE  a * b \in Within(2048)
  <2>1. 16 * 128 = 2048 /\ a \in Within(16)
    BY DEF Within
  <2> QED BY <2>1, ProductWithin
<1>4. y1 \in Within(32) /\ z1 \in Within(32)
  <2>1. ASSUME NEW a \in Within(2048), NEW b \in Within(2048)
        PROVE  (a + b) \div 128 \in Within(32) /\ (a - b) \div 128 \in Within(32)
    <3>1. 2048 + 2048 = 32 * 128
      OBVIOUS
    <3>2. a + b \in Within(32 * 128) /\ a - b \in Within(32 * 128)
      BY <3>1, SumWithin
    <3> QED BY <3>2, QuotientWithin
  <2>2. /\ p.y * fcos[ax] \in Within(2048) /\ p.z * fsin[ax] \in Within(2048)
        /\ p.y * fsin[ax] \in Within(2048) /\ p.z * fcos[ax] \in Within(2048)
    BY <1>2, <1>3
  <2> QED BY <2>1, <2>2 DEF y1, z1
<1>5. x2 \in Within(48) /\ z2 \in Within(48)
  <2>1. ASSUME NEW a \in Within(2048), NEW b \in Within(128)
        PROVE  (a + z1 * b) \div 128 \in Within(48) /\ (-a + z1 * b) \div 128 \in Within(48)
    <3>1. 2048 + 32 * 128 = 48 * 128 /\ 32 * 128 \in Nat
      OBVIOUS
    <3>2. z1 * b \in Within(32 * 128)
      BY <1>4, ProductWithin
    <3>3. a + z1 * b \in Within(48 * 128) /\ -a + z1 * b \in Within(48 * 128)
      BY <3>1, <3>2, SumWithin
    <3> QED BY <3>3, QuotientWithin
  <2>2. p.x * fcos[ay] \in Within(2048) /\ p.x * fsin[ay] \in Within(2048)
    BY <1>2, <1>3
  <2> QED BY <1>2, <2>1, <2>2 DEF x2, z2
<1>6. s \in Within(128)
  <2>1. z2 + 96 \in Nat \ {0} /\ 96 * 64 \in Within(128 * (z2 + 96))
    BY <1>5 DEF Within
  <2> QED BY <2>1, QuotientWithin DEF s
<1>7. right \in Within(96) /\ down \in Within(64)
  <2>1. 48 * 128 = 96 * 64 /\ 32 * 128 = 64 * 64
    OBVIOUS
  <2>2. x2 * s \in Within(96 * 64) /\ y1 * s \in Within(64 * 64)
    BY <1>4, <1>5, <1>6, <2>1, ProductWithin
  <2> QED BY <2>2, QuotientWithin DEF right, down
<1>8. 127 + right \in 31 .. 223 /\ 71 + down \in 7 .. 135
  BY <1>7 DEF Within
<1> QED BY <1>1, <1>8 DEF Placed

-----------------------------------------------------------------------------
(* The tables of the scene *)

\* A function over 1 .. n is a sequence.
LEMMA IsSequence ==
  ASSUME NEW n \in Nat, NEW S, NEW f \in [1 .. n -> S]
  PROVE  f \in Seq(S) /\ Len(f) = n
<1>1. f \in Seq(S)
  OBVIOUS
<1> QED BY <1>1

\* And a table stays what it is when TLC is told to compute it once.
LEMMA TableIs ==
  ASSUME NEW n \in Nat, NEW f, f = [i \in 1 .. n |-> f[i]]
  PROVE  Len(f) = n /\ <<>> \o f = f
<1> DEFINE S == {f[i] : i \in 1 .. n}
<1>1. f \in [1 .. n -> S]
  OBVIOUS
<1> HIDE DEF S
<1> QED BY <1>1, IsSequence, ConcatEmptySeq

\* What the table of the corners holds.
LEMMA CornersAre ==
  ASSUME NEW n \in 1 .. 256
  PROVE  /\ DOMAIN Corners[n] = 1 .. 8
         /\ \A i \in 1 .. 8 : Placed(Corners[n][i])
<1> DEFINE corners(m) == [i \in 1 .. 8 |-> project(Cube[i], m - 1, (m + 10) % 256)]
           table == [m \in 1 .. 256 |-> <<>> \o corners(m)]
<1>1. <<>> \o table = table
  <2>1. table = [m \in 1 .. 256 |-> table[m]]
    OBVIOUS
  <2> HIDE DEF table
  <2> QED BY <2>1, TableIs
<1>2. Corners[n] = <<>> \o corners(n)
  BY <1>1 DEF Corners
<1>3. <<>> \o corners(n) = corners(n)
  <2> DEFINE c == corners(n)
  <2>1. c = [i \in 1 .. 8 |-> c[i]]
    OBVIOUS
  <2> HIDE DEF c
  <2>2. <<>> \o c = c
    BY <2>1, TableIs
  <2> QED BY <2>2 DEF c
<1>4. n - 1 \in Byte /\ (n + 10) % 256 \in Byte
  BY DEF Byte
<1>5. \A i \in 1 .. 8 : Cube[i] \in [x : {-16, 16}, y : {-16, 16}, z : {-16, 16}]
  BY DEF Cube
<1>6. \A i \in 1 .. 8 : Placed(corners(n)[i])
  BY <1>4, <1>5, CornerOnScreen
<1>7. Corners[n] = corners(n) /\ DOMAIN corners(n) = 1 .. 8
  BY <1>2, <1>3
<1> HIDE DEF corners
<1> QED BY <1>6, <1>7

\* A command the renderer knows, of bytes.
Commands ==
  {c \in [cmd : Byte, args : Seq(Byte)] : <<c.cmd, Len(c.args)>> \in Known}

\* What scene_render sends are commands the renderer knows.
LEMMA CommandsAre ==
  /\ Clear(0) \in Commands /\ Present \in Commands
  /\ \A p, q \in [x : Byte, y : Byte], color \in Byte : DrawLine(p, q, color) \in Commands
<1>0. 0 \in Byte /\ 1 \in Byte /\ 3 \in Byte /\ 4 \in Byte
  BY DEF Byte
<1>1. Clear(0) \in Commands
  BY <1>0 DEF Clear, Commands, Known
<1>2. Present \in Commands
  BY <1>0 DEF Present, Commands, Known
<1>3. ASSUME NEW p \in [x : Byte, y : Byte], NEW q \in [x : Byte, y : Byte], NEW color \in Byte
      PROVE  DrawLine(p, q, color) \in Commands
  <2> DEFINE args == <<p.x, p.y, q.x, q.y, color>>
  <2>1. args \in Seq(Byte) /\ Len(args) = 5
    OBVIOUS
  <2>2. DrawLine(p, q, color) = [cmd |-> 3, args |-> args]
    BY DEF DrawLine
  <2> HIDE DEF args
  <2> QED BY <1>0, <2>1, <2>2 DEF Commands, Known
<1> QED BY <1>1, <1>2, <1>3

\* Every edge has two of the corners and a colour of a byte.
LEMMA EdgesAre ==
  /\ DOMAIN Edges = 1 .. 12
  /\ \A e \in 1 .. 12 : Edges[e][1] \in 1 .. 8 /\ Edges[e][2] \in 1 .. 8 /\ Edges[e][3] \in Byte
BY DEF Edges, RGB332, Byte

\* A picture is fourteen commands: clear, twelve lines, present.
LEMMA PictureIs ==
  ASSUME NEW n \in 1 .. 256
  PROVE  Picture(n) \in Seq(Commands) /\ Len(Picture(n)) = 14
<1> DEFINE corner(e, k) == AsBytes(Corners[n][Edges[e][k]])
           lines == [e \in DOMAIN Edges |-> DrawLine(corner(e, 1), corner(e, 2), Edges[e][3])]
<1>1. ASSUME NEW e \in 1 .. 12
      PROVE  DrawLine(corner(e, 1), corner(e, 2), Edges[e][3]) \in Commands
  <2>1. ASSUME NEW k \in 1 .. 8
        PROVE  AsBytes(Corners[n][k]) \in [x : Byte, y : Byte]
    <3>1. Placed(Corners[n][k])
      BY CornersAre
    <3>2. ASSUME NEW i \in Int
          PROVE  i % 256 \in Byte
      BY DEF Byte
    <3>3. Corners[n][k].x \in Int /\ Corners[n][k].y \in Int
      BY <3>1 DEF Placed
    <3> QED BY <3>2, <3>3 DEF AsBytes
  <2>2. Edges[e][1] \in 1 .. 8 /\ Edges[e][2] \in 1 .. 8 /\ Edges[e][3] \in Byte
    BY EdgesAre
  <2> QED BY <2>1, <2>2, CommandsAre
<1>2. lines \in [1 .. 12 -> Commands]
  BY <1>1, EdgesAre
<1>3. Picture(n) = <<Clear(0)>> \o lines \o <<Present>>
  BY DEF Picture
<1> HIDE DEF lines
<1>4. lines \in Seq(Commands) /\ Len(lines) = 12
  BY <1>2, IsSequence
<1>5. /\ <<Clear(0)>> \in Seq(Commands) /\ Len(<<Clear(0)>>) = 1
      /\ <<Present>> \in Seq(Commands) /\ Len(<<Present>>) = 1
  <2>1. ASSUME NEW S, NEW c \in S
        PROVE  <<c>> \in Seq(S) /\ Len(<<c>>) = 1
    OBVIOUS
  <2> QED BY <2>1, CommandsAre
<1> DEFINE first == <<Clear(0)>>
           last == <<Present>>
<1> HIDE DEF first, last
<1>6. first \o lines \in Seq(Commands) /\ Len(first \o lines) = 13
  <2>1. first \in Seq(Commands) /\ Len(first) = 1
    BY <1>5 DEF first
  <2>2. lines \in Seq(Commands)
    BY <1>4
  <2>3. first \o lines \in Seq(Commands) /\ Len(first \o lines) = Len(first) + Len(lines)
    BY <2>1, <2>2, ConcatProperties
  <2> QED BY <2>1, <2>3, <1>4
<1>7. first \o lines \o last \in Seq(Commands) /\ Len(first \o lines \o last) = 14
  BY <1>5, <1>6, ConcatProperties DEF last
<1> QED BY <1>3, <1>7 DEF first, last

\* What scene_render sends, and as which frames.
LEMMA SceneIs ==
  ASSUME NEW n \in 1 .. 256
  PROVE  /\ Len(Frames[n]) = 14
         /\ \A i \in 1 .. 14 : /\ scene_render[n][i] \in Commands
                               /\ Frames[n][i] = Frame(scene_render[n][i])
<1> DEFINE pictures == [m \in 1 .. 256 |-> Picture(m)]
           frames(m) == [i \in 1 .. 14 |-> Frame(scene_render[m][i])]
           all == [m \in 1 .. 256 |-> <<>> \o frames(m)]
<1>1. scene_render[n] = Picture(n)
  <2>1. pictures = [m \in 1 .. 256 |-> pictures[m]]
    OBVIOUS
  <2>2. scene_render = <<>> \o pictures /\ pictures[n] = Picture(n)
    BY DEF scene_render
  <2> HIDE DEF pictures
  <2>3. <<>> \o pictures = pictures
    BY <2>1, TableIs
  <2> QED BY <2>2, <2>3
<1>2. \A i \in 1 .. 14 : scene_render[n][i] \in Commands
  BY <1>1, PictureIs, ElementOfSeq
<1>3. Frames[n] = <<>> \o frames(n)
  <2>1. all = [m \in 1 .. 256 |-> all[m]]
    OBVIOUS
  <2>2. Frames = <<>> \o all /\ all[n] = <<>> \o frames(n)
    BY DEF Frames
  <2> HIDE DEF all
  <2>3. <<>> \o all = all
    BY <2>1, TableIs
  <2> QED BY <2>2, <2>3
<1>4. <<>> \o frames(n) = frames(n) /\ Len(frames(n)) = 14
  <2> DEFINE f == frames(n)
  <2>1. f = [i \in 1 .. 14 |-> f[i]]
    OBVIOUS
  <2> HIDE DEF f
  <2>2. <<>> \o f = f /\ Len(f) = 14
    BY <2>1, TableIs
  <2> QED BY <2>2 DEF f
<1>5. \A i \in 1 .. 14 : frames(n)[i] = Frame(scene_render[n][i])
  OBVIOUS
<1> HIDE DEF frames
<1> QED BY <1>2, <1>3, <1>4, <1>5

-----------------------------------------------------------------------------
(* Frames *)

\* The checksum of a payload that has one byte more, and of none.
LEMMA ChecksumIs ==
  ASSUME NEW c \in Byte, NEW n \in Byte, NEW p \in Seq(Byte)
  PROVE  /\ Checksum(<<c, n>> \o p) \in Byte
         /\ Checksum(<<c, n>> \o <<>>) = XorOf[<<c, n>>]
         /\ \A b \in Byte : Checksum(<<c, n>> \o Append(p, b)) = XorOf[<<Checksum(<<c, n>> \o p), b>>]
<1> DEFINE head == <<c, n>>
<1>1. head \in Seq(Byte) /\ Len(head) = 2 /\ head[1] = c /\ head[2] = n
  OBVIOUS
<1>2. 0 \in Byte /\ XorOf \in Steps(Byte, Byte) /\ \A b \in Byte : XorOf[<<0, b>>] = b
  BY XorOfIs DEF Byte
<1>3. ASSUME NEW s \in Seq(Byte)
      PROVE  Checksum(s) \in Byte /\ \A b \in Byte : Checksum(Append(s, b)) = XorOf[<<Checksum(s), b>>]
  <2>1. Fold(XorOf, 0, s) \in Byte
    BY <1>2, FoldIs
  <2>2. \A b \in Byte : GoesOn(XorOf, 0, s, b)
    BY <1>2, FoldAppend
  <2> QED BY <2>1, <2>2 DEF GoesOn, Checksum
<1> HIDE DEF head
<1>4. head \o p \in Seq(Byte)
  BY <1>1, ConcatProperties
<1>5. ASSUME NEW b \in Byte
      PROVE  head \o Append(p, b) = Append(head \o p, b)
  <2>1. <<b>> \in Seq(Byte) /\ Append(p, b) = p \o <<b>> /\ Append(head \o p, b) = (head \o p) \o <<b>>
    BY <1>4, AppendIsConcat
  <2> QED BY <2>1, <1>1, ConcatAssociative
<1>6. Checksum(head \o <<>>) = XorOf[<<c, n>>]
  <2> DEFINE e == <<>>
             one == Append(e, c)
             two == Append(one, n)
  <2>1. e \in Seq(Byte) /\ Len(e) = 0
    BY EmptySeq
  <2>2. Checksum(e) = 0
    <3> HIDE DEF e
    <3> QED BY <1>2, <2>1, FoldEmpty DEF Checksum
  <2>3. one \in Seq(Byte) /\ Len(one) = 1 /\ one[1] = c
    BY <2>1, AppendProperties
  <2>4. Checksum(one) = c
    <3> HIDE DEF e
    <3>1. Checksum(one) = XorOf[<<0, c>>]
      BY <1>3, <2>1, <2>2
    <3> QED BY <1>2, <3>1
  <2> HIDE DEF one
  <2>5. /\ two \in Seq(Byte) /\ Len(two) = 2 /\ two[1] = c /\ two[2] = n
        /\ Checksum(two) = XorOf[<<c, n>>]
    <3>1. /\ two \in Seq(Byte) /\ Len(two) = Len(one) + 1 /\ two[Len(one) + 1] = n
          /\ \A i \in 1 .. Len(one) : two[i] = one[i]
      <4>1. one \in Seq(Byte)
        BY <2>3
      <4> QED BY <4>1, AppendProperties
    <3>2. Checksum(two) = XorOf[<<Checksum(one), n>>]
      BY <1>3, <2>3
    <3> QED BY <2>3, <2>4, <3>1, <3>2
  <2> HIDE DEF two
  <2>6. two = head
    <3>1. \A i \in 1 .. Len(two) : i = 1 \/ i = 2
      BY <2>5
    <3> QED BY <1>1, <2>5, <3>1, SeqEqual
  <2>7. head \o <<>> = head
    BY <1>1, ConcatEmptySeq
  <2> QED BY <2>5, <2>6, <2>7
<1> QED BY <1>3, <1>4, <1>5, <1>6 DEF head

\* Where the parts of a command are in its frame.
LEMMA FrameIs ==
  ASSUME NEW c \in Commands
  PROVE  LET n == Len(c.args)
         IN  /\ n \in 0 .. 5
             /\ Frame(c) \in Seq(Byte) /\ Len(Frame(c)) = n + 5
             /\ Frame(c)[1] = SOF0 /\ Frame(c)[2] = SOF1
             /\ Frame(c)[3] = c.cmd /\ Frame(c)[4] = n
             /\ \A i \in 1 .. n : Frame(c)[4 + i] = c.args[i]
             /\ Frame(c)[n + 5] = Checksum(<<c.cmd, n>> \o c.args)
<1> DEFINE n == Len(c.args)
           a == c.args
           start == <<SOF0, SOF1>>
           head == <<c.cmd, n>>
           body == head \o a
           cs == Checksum(body)
           end == <<cs>>
<1>1. c.cmd \in Byte /\ a \in Seq(Byte) /\ <<c.cmd, n>> \in Known
  BY DEF Commands
<1>2. n \in 0 .. 5
  BY <1>1 DEF Known
<1>3. n \in Byte /\ SOF0 \in Byte /\ SOF1 \in Byte
  BY <1>2 DEF Byte, SOF0, SOF1
<1>4. cs \in Byte
  BY <1>1, <1>3, ChecksumIs
<1> HIDE DEF cs
<1>5. /\ start \in Seq(Byte) /\ Len(start) = 2 /\ start[1] = SOF0 /\ start[2] = SOF1
      /\ head \in Seq(Byte) /\ Len(head) = 2 /\ head[1] = c.cmd /\ head[2] = n
      /\ end \in Seq(Byte) /\ Len(end) = 1 /\ end[1] = cs
  <2>1. ASSUME NEW x \in Byte, NEW y \in Byte
        PROVE  /\ <<x, y>> \in Seq(Byte) /\ Len(<<x, y>>) = 2 /\ <<x, y>>[1] = x /\ <<x, y>>[2] = y
               /\ <<x>> \in Seq(Byte) /\ Len(<<x>>) = 1 /\ <<x>>[1] = x
    OBVIOUS
  <2> QED BY <1>1, <1>3, <1>4, <2>1
<1>6. Frame(c) = start \o body \o end
  BY DEF Frame, cs
<1> HIDE DEF start, head, end, a, n
<1>7. /\ body \in Seq(Byte) /\ Len(body) = n + 2
      /\ \A i \in 1 .. n + 2 : body[i] = IF i <= 2 THEN head[i] ELSE a[i - 2]
  <2>1. /\ body \in Seq(Byte) /\ Len(body) = Len(head) + Len(a)
        /\ \A i \in 1 .. Len(head) + Len(a) : body[i] = IF i <= Len(head) THEN head[i] ELSE a[i - Len(head)]
    BY <1>1, <1>5, ConcatProperties
  <2> QED BY <2>1, <1>2, <1>5 DEF n, a
<1> DEFINE front == start \o body
<1> HIDE DEF body
<1>8. /\ front \in Seq(Byte) /\ Len(front) = n + 4
      /\ \A i \in 1 .. n + 4 : front[i] = IF i <= 2 THEN start[i] ELSE body[i - 2]
  <2>1. /\ front \in Seq(Byte) /\ Len(front) = Len(start) + Len(body)
        /\ \A i \in 1 .. Len(start) + Len(body) :
             front[i] = IF i <= Len(start) THEN start[i] ELSE body[i - Len(start)]
    <3>1. start \in Seq(Byte) /\ body \in Seq(Byte)
      BY <1>5, <1>7
    <3> QED BY <3>1, ConcatProperties
  <2> HIDE DEF front
  <2> QED BY <2>1, <1>2, <1>5, <1>7
<1> DEFINE frame == front \o end
<1> HIDE DEF front
<1>9. /\ frame \in Seq(Byte) /\ Len(frame) = n + 5
      /\ \A i \in 1 .. n + 5 : frame[i] = IF i <= n + 4 THEN front[i] ELSE end[i - (n + 4)]
  <2>1. /\ frame \in Seq(Byte) /\ Len(frame) = Len(front) + Len(end)
        /\ \A i \in 1 .. Len(front) + Len(end) :
             frame[i] = IF i <= Len(front) THEN front[i] ELSE end[i - Len(front)]
    BY <1>5, <1>8, ConcatProperties
  <2> HIDE DEF frame
  <2> QED BY <2>1, <1>2, <1>5, <1>8
<1>10. frame = Frame(c)
  BY <1>6 DEF front
<1> HIDE DEF frame
<1>11. /\ frame[1] = SOF0 /\ frame[2] = SOF1 /\ frame[3] = c.cmd /\ frame[4] = n
       /\ frame[n + 5] = cs
  BY <1>2, <1>5, <1>7, <1>8, <1>9
<1>12. ASSUME NEW i \in 1 .. n
       PROVE  frame[4 + i] = a[i]
  <2>1. /\ 4 + i \in 1 .. n + 5 /\ 4 + i <= n + 4 /\ 4 + i \in 1 .. n + 4 /\ ~(4 + i <= 2)
        /\ 4 + i - 2 \in 1 .. n + 2 /\ ~(4 + i - 2 <= 2) /\ 4 + i - 2 - 2 = i
    BY <1>2
  <2> QED BY <2>1, <1>7, <1>8, <1>9
<1> QED BY <1>2, <1>9, <1>10, <1>11, <1>12 DEF cs, body, head, n, a

-----------------------------------------------------------------------------
(* The parser *)

\* What the parser holds is what it has read of a frame since its beginning.
ParserInv ==
  /\ state \in {"SOF0", "SOF1", "CMD", "LEN0", "PAYLOAD", "CHECKSUM"}
  /\ cmd \in Byte /\ len \in 0 .. MaxPayload /\ checksum \in Byte
  /\ payload \in Seq(Byte)
  /\ state \in {"SOF0", "SOF1", "CMD", "LEN0"} => Len(payload) = 0
  /\ state = "LEN0" => checksum = cmd
  /\ state = "PAYLOAD" => Len(payload) < len
  /\ state = "CHECKSUM" => Len(payload) = len
  /\ state \in {"PAYLOAD", "CHECKSUM"} => checksum = Checksum(<<cmd, len>> \o payload)

GuiInv ==
  /\ angle \in 0 .. AngleCount - 1 /\ place \in 1 .. Len(Frames[angle + 1])
  /\ wire \in Seq(Byte)
  /\ port \in {"open", "dead", "closed"} /\ outages \in 0 .. MaxOutages
  /\ line = NoLine \/ line = executed.args
  /\ inStep \in BOOLEAN
  /\ ParserInv

\* The command at a place of a picture, and its frame.
LEMMA AtPlace ==
  ASSUME NEW a \in 0 .. AngleCount - 1, NEW i \in 1 .. Len(Frames[a + 1])
  PROVE  /\ scene_render[a + 1][i] \in Commands
         /\ Frames[a + 1][i] = Frame(scene_render[a + 1][i])
         /\ Frames[a + 1][i] \in Seq(Byte)
         /\ \A rest : Anywhere(a, i, rest) => rest \in Seq(Byte)
<1> DEFINE frame == Frames[a + 1][i]
<1>1. a + 1 \in 1 .. 256
  BY ScopeAssumption
<1>2. scene_render[a + 1][i] \in Commands /\ frame = Frame(scene_render[a + 1][i])
  BY <1>1, SceneIs
<1>3. frame \in Seq(Byte)
  BY <1>2, FrameIs
<1>4. ASSUME NEW n \in 0 .. Len(frame)
      PROVE  SubSeq(frame, n + 1, Len(frame)) \in Seq(Byte)
  <2> HIDE DEF frame
  <2>1. Len(frame) \in Nat /\ n + 1 \in Int /\ Len(frame) \in Int
    BY <1>3, LenProperties
  <2>2. \A j \in n + 1 .. Len(frame) : frame[j] \in Byte
    BY <1>3, <2>1, ElementOfSeq
  <2> QED BY <2>1, <2>2, SubSeqProperties
<1>5. \A rest : Anywhere(a, i, rest) => rest \in Seq(Byte)
  BY <1>4 DEF Anywhere
<1> QED BY <1>2, <1>3, <1>5

\* A parser that starts again holds nothing.
LEMMA RestartKeeps == Restart => ParserInv'
<1>1. Len(<<>>) = 0 /\ <<>> \in Seq(Byte)
  BY EmptySeq
<1> QED BY <1>1 DEF Restart, ParserInv, Byte, MaxPayload

\* Whatever the byte is, the parser holds what it has read.
LEMMA FeedKeeps ==
  ASSUME GuiInv, NEW b \in Byte, gui_protocol_feed(b)
  PROVE  ParserInv'
<1>1. /\ cmd \in Byte /\ len \in 0 .. MaxPayload /\ checksum \in Byte
      /\ payload \in Seq(Byte) /\ Len(payload) \in Nat /\ len \in Byte
  BY LenProperties DEF GuiInv, ParserInv, MaxPayload, Byte
<1>2. CASE FeedSof0(b)
  BY <1>2 DEF FeedSof0, GuiInv, ParserInv
<1>3. CASE FeedSof1(b)
  BY <1>3 DEF FeedSof1, GuiInv, ParserInv
<1>4. CASE FeedCmd(b)
  BY <1>4 DEF FeedCmd, GuiInv, ParserInv
<1>5. CASE FeedLen(b)
  <2>1. CASE b > MaxPayload
    BY <2>1, <1>5, RestartKeeps DEF FeedLen
  <2>2. CASE ~(b > MaxPayload)
    <3>1. /\ state' = (IF b = 0 THEN "CHECKSUM" ELSE "PAYLOAD")
          /\ len' = b /\ checksum' = XorOf[<<checksum, b>>] /\ cmd' = cmd /\ payload' = payload
          /\ Len(payload) = 0 /\ checksum = cmd
      BY <2>2, <1>5 DEF FeedLen, GuiInv, ParserInv
    <3>2. b \in 0 .. MaxPayload /\ (b # 0 => 0 < b)
      BY <2>2 DEF Byte, MaxPayload
    <3>3. payload = <<>>
      BY <1>1, <3>1
    <3>4. Checksum(<<cmd, b>> \o payload) = XorOf[<<cmd, b>>] /\ XorOf[<<cmd, b>>] \in Byte
      <4>1. Checksum(<<cmd, b>> \o <<>>) = XorOf[<<cmd, b>>]
        BY <1>1, ChecksumIs
      <4>2. XorOf[<<cmd, b>>] \in Byte
        BY <1>1, XorOfIs DEF Steps
      <4> QED BY <4>1, <4>2, <3>3
    <3> QED BY <1>1, <3>1, <3>2, <3>4 DEF ParserInv
  <2> QED BY <2>1, <2>2
<1>6. CASE FeedPayload(b)
  <2>1. /\ payload' = Append(payload, b) /\ checksum' = XorOf[<<checksum, b>>]
        /\ state' = (IF Len(payload') >= len THEN "CHECKSUM" ELSE "PAYLOAD")
        /\ cmd' = cmd /\ len' = len
        /\ Len(payload) < len /\ checksum = Checksum(<<cmd, len>> \o payload)
    BY <1>6 DEF FeedPayload, GuiInv, ParserInv
  <2>2. payload' \in Seq(Byte) /\ Len(payload') = Len(payload) + 1
    BY <1>1, <2>1, AppendProperties
  <2>3. checksum' = Checksum(<<cmd, len>> \o payload') /\ checksum' \in Byte
    <3>1. /\ Checksum(<<cmd, len>> \o Append(payload, b)) = XorOf[<<Checksum(<<cmd, len>> \o payload), b>>]
          /\ Checksum(<<cmd, len>> \o payload') \in Byte
      BY <1>1, <2>2, ChecksumIs
    <3> QED BY <2>1, <3>1
  <2>4. len \in Nat /\ (Len(payload') >= len => Len(payload') = len)
        /\ (~(Len(payload') >= len) => Len(payload') < len)
    BY <1>1, <2>1, <2>2
  <2> QED BY <1>1, <2>1, <2>2, <2>3, <2>4 DEF ParserInv
<1>7. CASE FeedChecksum(b)
  BY <1>7, RestartKeeps DEF FeedChecksum
<1> QED BY <1>2, <1>3, <1>4, <1>5, <1>6, <1>7 DEF gui_protocol_feed

\* What a frame may make the renderer do.
LEMMA FeedDraws ==
  ASSUME gui_protocol_feed(Head(wire))
  PROVE  \/ UNCHANGED <<executed, line, pen>>
         \/ /\ state = "CHECKSUM" /\ <<cmd, len>> \in Known /\ executed' = [cmd |-> cmd, args |-> payload]
            /\ \/ cmd = 3 /\ line' = payload /\ pen' = Begin(payload)
               \/ UNCHANGED <<line, pen>>
BY DEF gui_protocol_feed, FeedSof0, FeedSof1, FeedCmd, FeedLen, FeedPayload, FeedChecksum, exec_cmd, drawVars

\* The host's port is opened with the parser at the start.
LEMMA GuiInit == Init => GuiInv
<1> SUFFICES ASSUME Init PROVE GuiInv
  OBVIOUS
<1>1. /\ angle \in 0 .. AngleCount - 1 /\ place \in 1 .. Len(Frames[angle + 1])
      /\ Anywhere(angle, place, wire)
  BY DEF Init
<1>2. wire \in Seq(Byte)
  BY <1>1, AtPlace
<1>3. Len(<<>>) = 0 /\ <<>> \in Seq(Byte)
  BY EmptySeq
<1>4. 0 \in 0 .. MaxOutages
  BY ScopeAssumption
<1>5. ParserInv
  <2>1. state = "SOF0" /\ cmd = 0 /\ payload = <<>> /\ len = 0 /\ checksum = 0
    BY DEF Init
  <2>2. payload \in Seq(Byte) /\ Len(payload) = 0
    BY <2>1, <1>3
  <2>3. 0 \in Byte /\ 0 \in 0 .. MaxPayload
    BY DEF Byte, MaxPayload
  <2> QED BY <2>1, <2>2, <2>3 DEF ParserInv
<1>6. port = "open" /\ outages = 0 /\ line = NoLine /\ inStep = FALSE
  BY DEF Init
<1> QED BY <1>1, <1>2, <1>4, <1>5, <1>6 DEF GuiInv

\* What the firmware, the port, the parser and the pen do keeps it.
LEMMA GuiStep == GuiInv /\ [Next]_vars => GuiInv'
<1> SUFFICES ASSUME GuiInv, [Next]_vars PROVE GuiInv'
  OBVIOUS
<1>1. CASE Send
  <2>1. angle' \in 0 .. AngleCount - 1 /\ place' \in 1 .. Len(Frames[angle' + 1])
    <3>1. CASE place < Len(Frames[angle + 1])
      <4>1. angle \in 0 .. AngleCount - 1 /\ angle + 1 \in 1 .. 256
        BY ScopeAssumption DEF GuiInv
      <4>2. Len(Frames[angle + 1]) = 14
        BY <4>1, SceneIs
      <4>3. angle' = angle /\ place' = place + 1
        BY <1>1, <3>1 DEF Send
      <4>4. place \in 1 .. Len(Frames[angle + 1])
        BY DEF GuiInv
      <4>5. place + 1 \in 1 .. 14
        BY <3>1, <4>2, <4>4
      <4> QED BY <4>1, <4>2, <4>3, <4>5
    <3>2. CASE ~(place < Len(Frames[angle + 1]))
      <4>1. angle' = (angle + 1) % AngleCount /\ place' = 1
        BY <1>1, <3>2 DEF Send
      <4>2. angle' \in 0 .. AngleCount - 1 /\ angle' + 1 \in 1 .. 256
        <5>1. ASSUME NEW m \in 1 .. 256, NEW a \in 0 .. m - 1
              PROVE  (a + 1) % m \in 0 .. m - 1 /\ ((a + 1) % m) + 1 \in 1 .. 256
          OBVIOUS
        <5> QED BY <4>1, <5>1, ScopeAssumption DEF GuiInv
      <4>3. Len(Frames[angle' + 1]) = 14
        BY <4>2, SceneIs
      <4> QED BY <4>1, <4>2, <4>3
    <3> QED BY <3>1, <3>2
  <2>2. wire' \in Seq(Byte)
    BY <1>1, <2>1, AtPlace DEF Send
  <2> QED BY <1>1, <2>1, <2>2 DEF Send, GuiInv, ParserInv, serialVars, parserVars, drawVars
<1>2. CASE Fail
  <2>1. outages' \in 0 .. MaxOutages
    BY <1>2, ScopeAssumption DEF Fail, GuiInv
  <2>2. <<>> \in Seq(Byte)
    BY EmptySeq
  <2> QED BY <1>2, <2>1, <2>2 DEF Fail, GuiInv, ParserInv, parserVars, drawVars
<1>3. CASE Close
  BY <1>3 DEF Close, gui_serial_close, GuiInv, ParserInv, firmwareVars, parserVars, drawVars
<1>4. CASE Open
  <2>1. angle' \in 0 .. AngleCount - 1 /\ place' \in 1 .. Len(Frames[angle' + 1])
        /\ Anywhere(angle', place', wire')
    BY <1>4, ScopeAssumption DEF Open
  <2>2. wire' \in Seq(Byte)
    BY <2>1, AtPlace
  <2> QED BY <1>4, <2>1, <2>2 DEF Open, GuiInv, ParserInv, parserVars, drawVars
<1>5. CASE Receive
  <2>1. /\ line = NoLine /\ wire # <<>> /\ wire' = Tail(wire) /\ gui_protocol_feed(Head(wire))
        /\ UNCHANGED <<angle, place, port, outages>> /\ wire \in Seq(Byte)
    BY <1>5 DEF Receive, serialVars, GuiInv
  <2>2. Head(wire) \in Byte /\ wire' \in Seq(Byte)
    BY <2>1, HeadTailProperties
  <2>3. ParserInv'
    BY <2>1, <2>2, FeedKeeps
  <2>4. line' = NoLine \/ line' = executed'.args
    BY <2>1, FeedDraws
  <2>5. inStep' \in BOOLEAN
    BY <1>5 DEF Receive, GuiInv
  <2> QED BY <2>1, <2>2, <2>3, <2>4, <2>5 DEF GuiInv
<1>6. CASE Draw
  <2>1. line' = NoLine \/ line' = executed'.args
    BY <1>6 DEF Draw, DrawPixel, GuiInv
  <2> QED BY <1>6, <2>1 DEF Draw, GuiInv, ParserInv, firmwareVars, serialVars, parserVars
<1>7. CASE UNCHANGED vars
  BY <1>7 DEF vars, GuiInv, ParserInv, firmwareVars, serialVars, parserVars, drawVars
<1> QED BY <1>1, <1>2, <1>3, <1>4, <1>5, <1>6, <1>7 DEF Next

(***************************************************************************)
(* The inductive invariant: the types, and that what the parser holds is   *)
(* what it has read of a frame, with the checksum of just that.            *)
(***************************************************************************)
THEOREM GuiInvariant == Spec => []GuiInv
BY GuiInit, GuiStep, PTL DEF Spec

(***************************************************************************)
(* gui_protocol_feed never writes past payload[GUI_MAX_PAYLOAD], whatever  *)
(* the bytes are and whenever they stop.                                   *)
(***************************************************************************)
THEOREM GuiTypeSafe == Spec => []TypeOK
<1>1. GuiInv => TypeOK
  <2> SUFFICES ASSUME GuiInv PROVE Len(payload) <= len
    BY DEF GuiInv, ParserInv, TypeOK
  <2>1. len \in Nat /\ Len(payload) \in Nat
    BY LenProperties DEF GuiInv, ParserInv, MaxPayload
  <2> QED BY <2>1 DEF GuiInv, ParserInv
<1> QED BY <1>1, GuiInvariant, PTL

(***************************************************************************)
(* No corner of the cube leaves the frame buffer at any angle: project's   *)
(* shifts and its division bound it, and scene_render's conversion to      *)
(* bytes loses nothing.                                                    *)
(***************************************************************************)
THEOREM PicturesFit == Spec => []OnScreen
<1>1. GuiInv => OnScreen
  <2> SUFFICES ASSUME GuiInv PROVE OnScreen
    OBVIOUS
  <2>1. angle + 1 \in 1 .. 256
    BY ScopeAssumption DEF GuiInv
  <2>2. DOMAIN Corners[angle + 1] = 1 .. 8 /\ \A i \in 1 .. 8 : Placed(Corners[angle + 1][i])
    BY <2>1, CornersAre
  <2>3. Width - 1 = 254 /\ Height - 1 = 142
    BY DEF Width, Height
  <2>4. ASSUME NEW p \in Range(Corners[angle + 1])
        PROVE  p.x \in 0 .. Width - 1 /\ p.y \in 0 .. Height - 1
    <3>1. Placed(p)
      <4> DEFINE corners == Corners[angle + 1]
      <4>1. \A q \in Range(corners) : \E i \in DOMAIN corners : q = corners[i]
        BY DEF Range
      <4> QED BY <2>2, <4>1
    <3>2. p.x \in 0 .. 254 /\ p.y \in 0 .. 142
      BY <3>1 DEF Placed
    <3> QED BY <2>3, <3>2
  <2> QED BY <2>4 DEF OnScreen
<1> QED BY <1>1, GuiInvariant, PTL

-----------------------------------------------------------------------------
(* What is drawn *)

\* A line is drawn from its command's payload, which has its ends.
LEMMA LineKept == GuiInv /\ LineInv /\ [Next]_vars => LineInv'
<1> SUFFICES ASSUME GuiInv, LineInv, [Next]_vars
             PROVE  LineInv'
  OBVIOUS
<1>1. CASE UNCHANGED <<line, pen>>
  BY <1>1, LineStepInv
<1>2. CASE Draw
  BY <1>2, LineStepInv DEF Draw
<1>3. CASE Receive
  <2>1. CASE /\ state = "CHECKSUM" /\ <<cmd, len>> \in Known /\ cmd = 3
             /\ line' = payload /\ pen' = Begin(payload)
    <3>1. len = 5 /\ payload \in Seq(Byte) /\ Len(payload) = 5
      BY <2>1 DEF GuiInv, ParserInv, Known
    <3>2. payload[1] \in Int /\ payload[2] \in Int /\ payload[3] \in Int /\ payload[4] \in Int
      <4>1. payload \in Seq(Byte)
        BY <3>1
      <4>2. \A i \in 1 .. Len(payload) : payload[i] \in Byte
        BY <4>1, ElementOfSeq
      <4>3. 1 .. Len(payload) = 1 .. 5
        BY <3>1
      <4>4. \A i \in 1 .. 5 : payload[i] \in Byte
        BY <4>2, <4>3, Zenon
      <4> QED BY <4>4 DEF Byte
    <3>3. OnLine(payload, Begin(payload))
      BY <3>2, BeginsOnLine
    <3>4. OnLine(line, pen)' <=> OnLine(line', pen')
      BY DEF OnLine, Between, Near, Larger, Deviation, DeltaX, DeltaY, Abs
    <3> QED BY <2>1, <3>3, <3>4 DEF LineInv
  <2> QED BY <1>1, <1>3, <2>1, FeedDraws DEF Receive
<1> QED BY <1>1, <1>2, <1>3
     DEF Next, Send, Fail, Close, Open, drawVars, vars

(***************************************************************************)
(* Whatever the renderer is given, every pixel of a line lies between the  *)
(* line's ends and within half a pixel of it: a line is only ever begun    *)
(* with the five bytes its command has.                                    *)
(***************************************************************************)
THEOREM LinesAreNear == Spec => []NearTheLine
<1>1. Init => LineInv
  BY DEF Init, LineInv
<1> QED BY <1>1, LineKept, LineInvIsNear, GuiInvariant, PTL DEF Spec

-----------------------------------------------------------------------------
(* In step *)

\* How many bytes of its frame the parser has had.
Consumed ==
  CASE state = "SOF0" -> 0
    [] state = "SOF1" -> 1
    [] state = "CMD"  -> 2
    [] state = "LEN0" -> 3
    [] state \in {"PAYLOAD", "CHECKSUM"} -> 4 + Len(payload)

\* The line has what is left of a frame after k bytes.
Rest(frame, k) ==
  /\ Len(wire) = Len(frame) - k
  /\ \A i \in 1 .. Len(wire) : wire[i] = frame[k + i]

\* The parser has read, and the line still has, the frame that is being sent.
Matches ==
  /\ Rest(Frames[angle + 1][place], Consumed)
  /\ state \in {"LEN0", "PAYLOAD", "CHECKSUM"} => cmd = sent.cmd
  /\ state \in {"PAYLOAD", "CHECKSUM"} =>
       /\ len = Len(sent.args)
       /\ \A i \in 1 .. Len(payload) : payload[i] = sent.args[i]

InStepInv ==
  inStep =>
    /\ port = "open"
    /\ Matches \/ (state = "SOF0" /\ wire = <<>> /\ executed = sent)

\* The frame that is being sent.
LEMMA SentIs ==
  ASSUME GuiInv
  PROVE  LET n == Len(sent.args)
             frame == Frames[angle + 1][place]
         IN  /\ sent.cmd \in Byte /\ sent.args \in Seq(Byte) /\ <<sent.cmd, n>> \in Known
             /\ sent = [cmd |-> sent.cmd, args |-> sent.args]
             /\ n \in 0 .. 5 /\ frame \in Seq(Byte) /\ Len(frame) = n + 5
             /\ frame[1] = SOF0 /\ frame[2] = SOF1 /\ frame[3] = sent.cmd /\ frame[4] = n
             /\ \A i \in 1 .. n : frame[4 + i] = sent.args[i]
             /\ frame[n + 5] = Checksum(<<sent.cmd, n>> \o sent.args)
<1>1. angle \in 0 .. AngleCount - 1 /\ place \in 1 .. Len(Frames[angle + 1])
  BY DEF GuiInv
<1>2. sent \in Commands /\ Frames[angle + 1][place] = Frame(sent)
  BY <1>1, AtPlace DEF sent
<1> HIDE DEF sent
<1>3. sent.cmd \in Byte /\ sent.args \in Seq(Byte) /\ <<sent.cmd, Len(sent.args)>> \in Known
      /\ sent = [cmd |-> sent.cmd, args |-> sent.args]
  BY <1>2 DEF Commands
<1> QED BY <1>2, <1>3, FrameIs

\* A frame that is not over has not all been read: its checksum is to come.
LEMMA MoreToCome ==
  ASSUME GuiInv, Matches
  PROVE  Len(wire) > 0 /\ (state = "CHECKSUM" => Len(wire) = 1)
<1> DEFINE n == Len(sent.args)
<1>1. n \in 0 .. 5 /\ Len(Frames[angle + 1][place]) = n + 5
  BY SentIs
<1>2. Len(wire) = Len(Frames[angle + 1][place]) - Consumed
  BY DEF Matches, Rest
<1>3. Consumed \in 0 .. n + 4 /\ (state = "CHECKSUM" => Consumed = n + 4)
  <2>1. Len(payload) \in Nat /\ len \in Nat
    BY LenProperties DEF GuiInv, ParserInv, MaxPayload
  <2>2. CASE state \in {"SOF0", "SOF1", "CMD", "LEN0"}
    BY <1>1, <2>2 DEF Consumed
  <2>3. CASE state \in {"PAYLOAD", "CHECKSUM"}
    <3>1. len = n /\ Len(payload) <= len /\ (state = "CHECKSUM" => Len(payload) = len)
      BY <2>1, <2>3 DEF Matches, GuiInv, ParserInv
    <3>2. Consumed = 4 + Len(payload)
      BY <2>3 DEF Consumed
    <3> HIDE DEF n
    <3> QED BY <1>1, <2>1, <3>1, <3>2
  <2> QED BY <2>2, <2>3 DEF GuiInv, ParserInv
<1> HIDE DEF n
<1> QED BY <1>1, <1>2, <1>3

\* The next byte of the line is the frame's next, and then the one after it.
LEMMA NextByte ==
  ASSUME NEW frame \in Seq(Byte), NEW k \in Nat,
         wire \in Seq(Byte), wire # <<>>, wire' = Tail(wire), Rest(frame, k)
  PROVE  /\ Head(wire) = frame[k + 1]
         /\ Len(wire') = Len(frame) - (k + 1)
         /\ \A i \in 1 .. Len(wire') : wire'[i] = frame[k + 1 + i]
<1>1. /\ Head(wire) = wire[1] /\ Len(wire) \in Nat /\ Len(wire) # 0
      /\ Len(wire') = Len(wire) - 1
      /\ \A i \in 1 .. Len(wire') : wire'[i] = wire[i + 1]
  BY HeadTailProperties, LenProperties, EmptySeq
<1>2. Len(frame) \in Nat
  BY LenProperties
<1>3. Len(wire) = Len(frame) - k /\ \A i \in 1 .. Len(wire) : wire[i] = frame[k + i]
  BY DEF Rest
<1>4. ASSUME NEW i \in 1 .. Len(wire')
      PROVE  wire'[i] = frame[k + 1 + i]
  <2>1. i + 1 \in 1 .. Len(wire) /\ k + (i + 1) = k + 1 + i
    BY <1>1
  <2> QED BY <1>1, <1>3, <2>1
<1>5. 1 \in 1 .. Len(wire)
  BY <1>1
<1> QED BY <1>1, <1>2, <1>3, <1>4, <1>5

\* The parser takes the next byte of the frame for what it is, and with the
\* last of them it executes the command.
LEMMA FeedInStep ==
  ASSUME GuiInv, Matches, Receive
  PROVE  Matches' \/ (state' = "SOF0" /\ wire' = <<>> /\ executed' = sent)
<1> DEFINE n == Len(sent.args)
           frame == Frames[angle + 1][place]
           b == Head(wire)
<1>1. /\ sent.cmd \in Byte /\ sent.args \in Seq(Byte) /\ <<sent.cmd, n>> \in Known
      /\ sent = [cmd |-> sent.cmd, args |-> sent.args]
      /\ n \in 0 .. 5 /\ frame \in Seq(Byte) /\ Len(frame) = n + 5
      /\ frame[1] = SOF0 /\ frame[2] = SOF1 /\ frame[3] = sent.cmd /\ frame[4] = n
      /\ \A i \in 1 .. n : frame[4 + i] = sent.args[i]
      /\ frame[n + 5] = Checksum(<<sent.cmd, n>> \o sent.args)
  BY SentIs
<1>2. /\ wire \in Seq(Byte) /\ wire # <<>> /\ wire' = Tail(wire) /\ gui_protocol_feed(b)
      /\ frame' = frame /\ sent' = sent /\ n' = n
  BY DEF Receive, GuiInv, sent
<1>3. /\ state \in {"SOF0", "SOF1", "CMD", "LEN0", "PAYLOAD", "CHECKSUM"}
      /\ len \in Nat /\ payload \in Seq(Byte) /\ Len(payload) \in Nat
      /\ state \in {"SOF0", "SOF1", "CMD", "LEN0"} => Len(payload) = 0
      /\ state = "PAYLOAD" => Len(payload) < len
      /\ state = "CHECKSUM" => Len(payload) = len
      /\ state = "CHECKSUM" => checksum = Checksum(<<cmd, len>> \o payload)
  BY LenProperties DEF GuiInv, ParserInv, MaxPayload
<1>4. /\ Rest(frame, Consumed)
      /\ state \in {"LEN0", "PAYLOAD", "CHECKSUM"} => cmd = sent.cmd
      /\ state \in {"PAYLOAD", "CHECKSUM"} =>
           len = n /\ \A i \in 1 .. Len(payload) : payload[i] = sent.args[i]
  BY DEF Matches
<1> HIDE DEF sent, frame, n, b
<1>5. ASSUME NEW k \in Nat, Consumed = k
      PROVE  /\ b = frame[k + 1]
             /\ Consumed' = k + 1 => Rest(frame, Consumed)'
  <2>1. /\ b = frame[k + 1] /\ Len(wire') = Len(frame) - (k + 1)
        /\ \A i \in 1 .. Len(wire') : wire'[i] = frame[k + 1 + i]
    BY <1>1, <1>2, <1>4, <1>5, NextByte DEF b
  <2>2. ASSUME Consumed' = k + 1
        PROVE  Rest(frame, Consumed)'
    BY <1>2, <2>1, <2>2 DEF Rest
  <2> QED BY <2>1, <2>2
<1>6. /\ state = "SOF0" /\ gui_protocol_feed(b) => FeedSof0(b)
      /\ state = "SOF1" /\ gui_protocol_feed(b) => FeedSof1(b)
      /\ state = "CMD" /\ gui_protocol_feed(b) => FeedCmd(b)
      /\ state = "LEN0" /\ gui_protocol_feed(b) => FeedLen(b)
      /\ state = "PAYLOAD" /\ gui_protocol_feed(b) => FeedPayload(b)
      /\ state = "CHECKSUM" /\ gui_protocol_feed(b) => FeedChecksum(b)
  BY DEF gui_protocol_feed, FeedSof0, FeedSof1, FeedCmd, FeedLen, FeedPayload, FeedChecksum
<1>7. CASE state = "SOF0"
  <2>1. Consumed = 0
    BY <1>7 DEF Consumed
  <2>2. b = SOF0
    BY <1>1, <1>5, <2>1
  <2>3. state' = "SOF1"
    BY <1>2, <1>6, <1>7, <2>2 DEF FeedSof0
  <2>4. Consumed' = 1
    BY <2>3 DEF Consumed
  <2>5. Rest(frame, Consumed)'
    BY <1>5, <2>1, <2>4
  <2> QED BY <2>3, <2>5 DEF Matches, frame
<1>8. CASE state = "SOF1"
  <2>1. Consumed = 1
    BY <1>8 DEF Consumed
  <2>2. b = SOF1
    BY <1>1, <1>5, <2>1
  <2>3. state' = "CMD"
    BY <1>2, <1>6, <1>8, <2>2 DEF FeedSof1
  <2>4. Consumed' = 2
    BY <2>3 DEF Consumed
  <2>5. Rest(frame, Consumed)'
    BY <1>5, <2>1, <2>4
  <2> QED BY <2>3, <2>5 DEF Matches, frame
<1>9. CASE state = "CMD"
  <2>1. Consumed = 2
    BY <1>9 DEF Consumed
  <2>2. b = sent.cmd
    BY <1>1, <1>5, <2>1
  <2>3. state' = "LEN0" /\ cmd' = sent.cmd
    BY <1>2, <1>6, <1>9, <2>2 DEF FeedCmd
  <2>4. Consumed' = 3
    BY <2>3 DEF Consumed
  <2>5. Rest(frame, Consumed)'
    BY <1>5, <2>1, <2>4
  <2> QED BY <1>2, <2>3, <2>5 DEF Matches, frame
<1>10. CASE state = "LEN0"
  <2>1. Consumed = 3
    BY <1>10 DEF Consumed
  <2>2. b = n /\ ~(b > MaxPayload)
    BY <1>1, <1>5, <2>1 DEF MaxPayload
  <2>3. /\ state' \in {"PAYLOAD", "CHECKSUM"} /\ cmd' = sent.cmd /\ len' = n
        /\ payload' = payload
    BY <1>2, <1>4, <1>6, <1>10, <2>2 DEF FeedLen
  <2>4. Len(payload') = 0
    BY <1>3, <1>10, <2>3
  <2>5. Consumed' = 4
    BY <2>3, <2>4 DEF Consumed
  <2>6. Rest(frame, Consumed)'
    BY <1>5, <2>1, <2>5
  <2>7. \A i \in 1 .. Len(payload') : payload'[i] = sent.args[i]
    BY <2>4
  <2> QED BY <1>2, <2>3, <2>6, <2>7 DEF Matches, frame, n
<1>11. CASE state = "PAYLOAD"
  <2> DEFINE k == Len(payload)
  <2>1. Consumed = 4 + k
    BY <1>11 DEF Consumed
  <2>2. k \in Nat /\ k + 1 \in 1 .. n
    BY <1>1, <1>3, <1>4, <1>11
  <2>3. /\ state' \in {"PAYLOAD", "CHECKSUM"} /\ cmd' = sent.cmd /\ len' = n
        /\ payload' = Append(payload, b)
    BY <1>2, <1>4, <1>6, <1>11 DEF FeedPayload
  <2>4. b = sent.args[k + 1]
    <3> HIDE DEF k
    <3>1. 4 + k \in Nat /\ 4 + k + 1 = 4 + (k + 1)
      BY <2>2
    <3>2. b = frame[4 + k + 1]
      BY <1>5, <2>1, <3>1
    <3> QED BY <1>1, <2>2, <3>1, <3>2
  <2>5. /\ Len(payload') = k + 1 /\ payload'[k + 1] = b
        /\ \A i \in 1 .. k : payload'[i] = payload[i]
    <3>1. b \in Byte
      BY <1>2, HeadTailProperties DEF b
    <3>2. payload \in Seq(Byte)
      BY <1>3
    <3> QED BY <2>3, <3>1, <3>2, AppendProperties
  <2>6. Rest(frame, Consumed)'
    <3> HIDE DEF k
    <3>1. Consumed' = 4 + (k + 1)
      BY <2>3, <2>5 DEF Consumed
    <3>2. 4 + k \in Nat /\ 4 + (k + 1) = 4 + k + 1
      BY <2>2
    <3> QED BY <1>5, <2>1, <3>1, <3>2
  <2>7. ASSUME NEW i \in 1 .. k + 1
        PROVE  payload'[i] = sent.args[i]
    <3>1. CASE i = k + 1
      BY <2>4, <2>5, <3>1
    <3>2. CASE i # k + 1
      <4>1. i \in 1 .. k
        BY <2>2, <3>2
      <4> QED BY <1>4, <1>11, <2>5, <4>1
    <3> QED BY <3>1, <3>2
  <2>8. \A i \in 1 .. Len(payload') : payload'[i] = sent.args[i]
    BY <2>5, <2>7
  <2> QED BY <1>2, <2>3, <2>6, <2>8 DEF Matches, frame, n
<1>12. CASE state = "CHECKSUM"
  <2>1. Consumed = n + 4
    BY <1>1, <1>3, <1>4, <1>12 DEF Consumed
  <2>2. payload = sent.args /\ len = n /\ cmd = sent.cmd
    <3>1. payload \in Seq(Byte) /\ sent.args \in Seq(Byte) /\ Len(payload) = Len(sent.args)
      BY <1>1, <1>3, <1>4, <1>12 DEF n
    <3>2. \A i \in 1 .. Len(payload) : payload[i] = sent.args[i]
      BY <1>4, <1>12
    <3> QED BY <1>4, <1>12, <3>1, <3>2, SeqEqual
  <2>3. b = Checksum(<<sent.cmd, n>> \o sent.args)
    <3>1. n + 4 \in Nat /\ n + 4 + 1 = n + 5
      BY <1>1
    <3>2. b = frame[n + 4 + 1]
      BY <1>5, <2>1, <3>1
    <3> QED BY <1>1, <3>1, <3>2
  <2>4. b = checksum
    BY <1>3, <1>12, <2>2, <2>3
  <2>5. executed' = [cmd |-> cmd, args |-> payload] /\ state' = "SOF0"
    BY <1>1, <1>2, <1>6, <1>12, <2>2, <2>4 DEF FeedChecksum, exec_cmd, Restart
  <2>6. executed' = sent
    BY <1>1, <2>2, <2>5
  <2>7. wire' = <<>>
    <3>1. Len(wire) = 1
      BY <1>12, MoreToCome
    <3> QED BY <1>2, <3>1, HeadTailProperties, EmptySeq
  <2> QED BY <2>5, <2>6, <2>7
<1> QED BY <1>3, <1>7, <1>8, <1>9, <1>10, <1>11, <1>12

\* Between two frames nothing of one is left.
LEMMA InStepIs ==
  ASSUME GuiInv, InStepInv, inStep, wire = <<>>
  PROVE  port = "open" /\ state = "SOF0" /\ executed = sent
<1>1. Len(wire) = 0
  BY EmptySeq
<1> QED BY <1>1, MoreToCome DEF InStepInv

\* Every step keeps the parser and the line on the same frame.
LEMMA InStepKept == GuiInv /\ InStepInv /\ [Next]_vars => InStepInv'
<1> SUFFICES ASSUME GuiInv, InStepInv, [Next]_vars, inStep'
             PROVE  port' = "open" /\ (Matches' \/ (state' = "SOF0" /\ wire' = <<>> /\ executed' = sent'))
  BY DEF InStepInv
<1>1. CASE Send
  <2>1. inStep /\ port' = "open" /\ state' = state
    BY <1>1 DEF Send, serialVars, parserVars
  <2>2. state' = "SOF0"
    BY <1>1, <2>1, InStepIs DEF Send
  <2>3. wire' = Frames[angle + 1][place]'
    BY <1>1 DEF Send
  <2>4. wire' \in Seq(Byte)
    <3>1. GuiInv'
      BY GuiStep
    <3> QED BY <3>1 DEF GuiInv
  <2>5. Consumed' = 0
    BY <2>2 DEF Consumed
  <2>6. Rest(Frames[angle + 1][place], Consumed)'
    <3>1. Len(wire') \in Nat
      BY <2>4, LenProperties
    <3>2. \A i \in 1 .. Len(wire') : 0 + i = i
      BY <3>1
    <3> QED BY <2>3, <2>5, <3>1, <3>2 DEF Rest
  <2> QED BY <2>1, <2>2, <2>6 DEF Matches
<1>2. CASE Fail
  BY <1>2 DEF Fail
<1>3. CASE Close
  BY <1>3 DEF Close, Healthy, InStepInv, GuiInv
<1>4. CASE Open
  BY <1>4 DEF Open, InStepInv
<1>5. CASE Receive
  <2>1. /\ port' = port /\ port = "open" /\ wire # <<>> /\ sent' = sent
        /\ inStep \/ (wire' = <<>> /\ state = "CHECKSUM" /\ executed' = sent)
    BY <1>5 DEF Receive, serialVars, sent
  <2>2. CASE inStep
    <3>1. Matches
      BY <2>1, <2>2 DEF InStepInv
    <3> QED BY <1>5, <2>1, <3>1, FeedInStep
  <2>3. CASE wire' = <<>> /\ state = "CHECKSUM" /\ executed' = sent
    <3>1. state' = "SOF0"
      BY <1>5, <2>3 DEF Receive, gui_protocol_feed, FeedSof0, FeedSof1, FeedCmd, FeedLen,
                        FeedPayload, FeedChecksum, Restart
    <3> QED BY <2>1, <2>3, <3>1
  <2> QED BY <2>1, <2>2, <2>3
<1>6. CASE UNCHANGED <<firmwareVars, serialVars, parserVars, executed, inStep>>
  BY <1>6 DEF InStepInv, Matches, Rest, Consumed, sent, firmwareVars, serialVars, parserVars
<1> QED BY <1>1, <1>2, <1>3, <1>4, <1>5, <1>6 DEF Next, Draw, vars, drawVars

(***************************************************************************)
(* Once a frame has got through, every further one is executed unchanged   *)
(* and in order until bytes are lost, whatever the picture is and however  *)
(* often the port is lost: parser and firmware agree byte by byte.         *)
(***************************************************************************)
THEOREM EveryFrameIsExecuted == Spec => []StaysInStep
<1>1. Init => InStepInv
  BY DEF Init, InStepInv
<1>2. GuiInv /\ InStepInv => StaysInStep
  BY InStepIs DEF StaysInStep
<1> QED BY <1>1, <1>2, InStepKept, GuiInvariant, PTL DEF Spec

=============================================================================
