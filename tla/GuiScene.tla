----------------------------- MODULE GuiScene ------------------------------
(***************************************************************************)
(* What examples/gui draws: scene_render's commands for every angle of its *)
(* rotating cube (scene.c), and the frames of bytes they are sent as       *)
(* (primitives.c).                                                         *)
(***************************************************************************)
EXTENDS Folding, SequencesExt

Byte == 0 .. 255
Width  == 255                    \* TINYRTOS_FRAMEBUFFER_WIDTH and _HEIGHT
Height == (Width * 9) \div 16

-----------------------------------------------------------------------------
(* Commands and frames *)

SOF0 == 165           \* TINYRTOS_GUI_SOF0 and _SOF1
SOF1 == 90

\* gui_clear, gui_draw_line, gui_present
Clear(color) == [cmd |-> 1, args |-> <<color>>]
DrawLine(p, q, color) == [cmd |-> 3, args |-> <<p.x, p.y, q.x, q.y, color>>]
Present == [cmd |-> 4, args |-> <<>>]

\* Exclusive or of two bytes.
XorOf == [p \in Byte \X Byte |->
  LET bit(n) == n * ((p[1] \div n + p[2] \div n) % 2)
  IN  bit(1) + bit(2) + bit(4) + bit(8) + bit(16) + bit(32) + bit(64) + bit(128)]

Checksum(bytes) == Fold(XorOf, 0, bytes)

\* send_cmd
Frame(c) ==
  LET body == <<c.cmd, Len(c.args)>> \o c.args
  IN  <<SOF0, SOF1>> \o body \o <<Checksum(body)>>

-----------------------------------------------------------------------------
(* The scene *)

\* SIN_LUT: a quarter of the turn, mirrored.
Quarter == <<0, 12, 25, 37, 49, 60, 71, 81, 90, 98, 106, 112, 118, 122, 125, 127, 127>>
fsin == [a \in 0 .. 511 |->
  LET half == a % 32
      size == IF half <= 16 THEN Quarter[half + 1] ELSE Quarter[33 - half]
  IN  IF a % 64 < 32 THEN size ELSE -size]
fcos == [a \in Byte |-> fsin[a + 16]]

\* The corners CUBE and the EDGES between them, counted from 1, with the colours
\* EDGE_COLORS as RGB332 packs them.
Cube ==
  [i \in 1 .. 8 |-> [x |-> IF i % 4 \in {2, 3} THEN 16 ELSE -16,
                     y |-> IF i % 4 \in {3, 0} THEN 16 ELSE -16,
                     z |-> IF i > 4 THEN 16 ELSE -16]]

RGB332(r, g, b) == r * 32 + g * 4 + (b % 4)

Edges ==
  << <<1, 2, RGB332(7, 0, 0)>>, <<2, 3, RGB332(0, 7, 0)>>, <<3, 4, RGB332(0, 0, 3)>>,
     <<4, 1, RGB332(7, 7, 0)>>, <<5, 6, RGB332(7, 0, 3)>>, <<6, 7, RGB332(0, 7, 3)>>,
     <<7, 8, RGB332(7, 3, 0)>>, <<8, 5, RGB332(3, 7, 0)>>, <<1, 5, RGB332(3, 0, 3)>>,
     <<2, 6, RGB332(0, 3, 3)>>, <<3, 7, RGB332(7, 7, 7)>>, <<4, 8, RGB332(4, 4, 7)>> >>

\* Faulty: with the camera among the corners.
projectNear(p, ax, ay) ==
  LET y1 == (p.y * fcos[ax] - p.z * fsin[ax]) \div 128
      z1 == (p.y * fsin[ax] + p.z * fcos[ax]) \div 128
      x2 == (p.x * fcos[ay] + z1 * fsin[ay]) \div 128
      z2 == (-(p.x * fsin[ay]) + z1 * fcos[ay]) \div 128
      s  == (96 * 64) \div (z2 + 32)
  IN  [x |-> Width \div 2 + (x2 * s) \div 64, y |-> Height \div 2 + (y1 * s) \div 64]

\* project: \div rounds down, as C's >> does here; the one division of C's
\* has positive operands.
project(p, ax, ay) ==
  LET y1 == (p.y * fcos[ax] - p.z * fsin[ax]) \div 128
      z1 == (p.y * fsin[ax] + p.z * fcos[ax]) \div 128
      x2 == (p.x * fcos[ay] + z1 * fsin[ay]) \div 128
      z2 == (-(p.x * fsin[ay]) + z1 * fcos[ay]) \div 128
      s  == (96 * 64) \div (z2 + 96)
  IN  [x |-> Width \div 2 + (x2 * s) \div 64, y |-> Height \div 2 + (y1 * s) \div 64]

\* p[8], the corners on the screen at this angle, before the conversion to
\* bytes.  Tables over the angle are sequences made with \o, which TLC
\* computes once: the entry of an angle is its successor's.
Corners ==
  <<>> \o [n \in 1 .. 256 |->
            <<>> \o [i \in 1 .. 8 |-> project(Cube[i], n - 1, (n + 10) % 256)]]

AsBytes(p) == [x |-> p.x % 256, y |-> p.y % 256]

\* scene_render's calls at an angle.
Picture(n) ==
  <<Clear(0)>>
    \o [e \in DOMAIN Edges |->
          LET corner(k) == AsBytes(Corners[n][Edges[e][k]])
          IN  DrawLine(corner(1), corner(2), Edges[e][3])]
    \o <<Present>>

scene_render == <<>> \o [n \in 1 .. 256 |-> Picture(n)]
Frames == <<>> \o [n \in 1 .. 256 |->
                     <<>> \o [i \in 1 .. 14 |-> Frame(scene_render[n][i])]]

=============================================================================
