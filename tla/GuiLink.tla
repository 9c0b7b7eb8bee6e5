------------------------------ MODULE GuiLink ------------------------------
(***************************************************************************)
(* The drawing protocol of examples/gui: the firmware's dispatcher task    *)
(* renders one picture after another and writes every command as a frame   *)
(* of bytes on the serial line (dispatcher.c); the host's renderer reads   *)
(* the line byte by byte (main.c, serial.c), parses frames out of it       *)
(* (parser.c) and draws what they say (renderer.c).  Nothing is            *)
(* acknowledged.  When the host's port fails it is closed and opened again *)
(* until that works; what is sent meanwhile is lost, and the parser goes   *)
(* on in whatever state it was.                                            *)
(***************************************************************************)
EXTENDS GuiScene, LineDrawing

CONSTANTS
  AngleCount,    \* 256; 64 give the same pictures, for SIN_LUT is a turn of 64
  OutageAngles,  \* bound: the angles at which an outage may begin and end
  MaxOutages     \* bound: how often the port is lost

ASSUME ScopeAssumption ==
  AngleCount \in 1 .. 256 /\ OutageAngles \subseteq 0 .. AngleCount - 1 /\ MaxOutages \in Nat

MaxPayload == 32      \* GUI_MAX_PAYLOAD

\* exec_cmd: the commands there are, each with the length of its payload.
Known == {<<1, 1>>, <<2, 3>>, <<3, 5>>, <<4, 0>>}

NoCommand == [cmd |-> 0, args |-> <<>>]

VARIABLES
  angle, place, \* scene_render: the picture, and the command of it being sent
  wire,         \* the bytes of its frame that the host has not had yet
  port,         \* the host's: "open", "dead" if it has failed and the host does
                \* not know it yet, or "closed"
  outages,
  state, cmd, payload, len, checksum,  \* parser.c's variables; index is Len(payload)
  executed      \* the last command the renderer was given

\* History: a frame has been executed at its end and no byte lost since.
VARIABLE inStep

firmwareVars == <<angle, place, wire>>
serialVars   == <<port, outages>>
parserVars   == <<state, cmd, payload, len, checksum>>
drawVars     == <<executed, line, pen>>
vars == <<firmwareVars, serialVars, parserVars, drawVars, inStep>>

\* The command being sent.
sent == scene_render[angle + 1][place]

\* The line may be anywhere in the command at this place of this picture.
Anywhere(a, i, rest) ==
  LET frame == Frames[a + 1][i]
  IN  \E n \in 0 .. Len(frame) : rest = SubSeq(frame, n + 1, Len(frame))

\* The host has opened its port (main) while the firmware renders.
Init ==
  /\ angle \in 0 .. AngleCount - 1
  /\ place \in 1 .. Len(Frames[angle + 1])
  /\ Anywhere(angle, place, wire)
  /\ port = "open" /\ outages = 0
  /\ state = "SOF0" /\ cmd = 0 /\ payload = <<>> /\ len = 0 /\ checksum = 0
  /\ executed = NoCommand /\ line = NoLine /\ pen = NoPen
  /\ inStep = FALSE

-----------------------------------------------------------------------------
(* The firmware, and the line *)

\* The next of scene_render's calls; dispatch_bytes waits for every byte.
Send ==
  /\ port = "open" /\ wire = <<>>
  /\ IF place < Len(Frames[angle + 1])
       THEN place' = place + 1 /\ UNCHANGED angle
       ELSE place' = 1 /\ angle' = (angle + 1) % AngleCount
  /\ wire' = Frames[angle' + 1][place']
  /\ UNCHANGED <<serialVars, parserVars, drawVars, inStep>>

-----------------------------------------------------------------------------
(* The host's port *)

\* gui_port_is_healthy
Healthy == port # "dead"

gui_serial_close == port' = "closed"

\* The board is unplugged, or the line fails.
Fail ==
  /\ port = "open" /\ port' = "dead"
  /\ outages < MaxOutages /\ outages' = outages + 1
  /\ angle \in OutageAngles /\ wire' = <<>>
  /\ inStep' = FALSE
  /\ UNCHANGED <<angle, place, parserVars, drawVars>>

\* gui_serial_read gets an error, or no byte from a port that is not healthy:
\* gui_serial_reconnect closes it.
Close ==
  /\ ~Healthy /\ line = NoLine
  /\ gui_serial_close
  /\ UNCHANGED <<firmwareVars, outages, parserVars, drawVars, inStep>>

\* gui_serial_open_auto succeeds after any number of attempts that do not:
\* meanwhile the firmware has got to any place of any later picture.
Open ==
  /\ port = "closed" /\ port' = "open"
  /\ angle' \in OutageAngles
  /\ place' \in 1 .. Len(Frames[angle' + 1])
  /\ Anywhere(angle', place', wire')
  /\ UNCHANGED <<outages, parserVars, drawVars, inStep>>

-----------------------------------------------------------------------------
(* gui_protocol_feed *)

\* Back to looking for a frame.  What is left in the other variables is
\* overwritten before it is read.
Restart ==
  /\ state' = "SOF0"
  /\ cmd' = 0 /\ payload' = <<>> /\ len' = 0 /\ checksum' = 0

FeedSof0(b) ==
  /\ state = "SOF0"
  /\ state' = IF b = SOF0 THEN "SOF1" ELSE "SOF0"
  /\ UNCHANGED <<cmd, payload, len, checksum, drawVars>>

FeedSof1(b) ==
  /\ state = "SOF1"
  /\ state' = IF b = SOF1 THEN "CMD" ELSE "SOF0"
  /\ UNCHANGED <<cmd, payload, len, checksum, drawVars>>

FeedCmd(b) ==
  /\ state = "CMD" /\ state' = "LEN0"
  /\ cmd' = b /\ checksum' = b
  /\ UNCHANGED <<payload, len, drawVars>>

\* Faulty: without the bound.
FeedLenUnbounded(b) ==
  /\ state = "LEN0" /\ state' = IF b = 0 THEN "CHECKSUM" ELSE "PAYLOAD"
  /\ len' = b /\ checksum' = XorOf[<<checksum, b>>]
  /\ UNCHANGED <<cmd, payload, drawVars>>

FeedLen(b) ==
  /\ state = "LEN0"
  /\ IF b > MaxPayload
       THEN Restart
       ELSE /\ state' = IF b = 0 THEN "CHECKSUM" ELSE "PAYLOAD"
            /\ len' = b /\ checksum' = XorOf[<<checksum, b>>]
            /\ UNCHANGED <<cmd, payload>>
  /\ UNCHANGED drawVars

\* Faulty: one byte too many.
FeedPayloadLong(b) ==
  /\ state = "PAYLOAD"
  /\ payload' = Append(payload, b) /\ checksum' = XorOf[<<checksum, b>>]
  /\ state' = IF Len(payload') > len THEN "CHECKSUM" ELSE "PAYLOAD"
  /\ UNCHANGED <<cmd, len, drawVars>>

FeedPayload(b) ==
  /\ state = "PAYLOAD"
  /\ payload' = Append(payload, b) /\ checksum' = XorOf[<<checksum, b>>]
  /\ state' = IF Len(payload') >= len THEN "CHECKSUM" ELSE "PAYLOAD"
  /\ UNCHANGED <<cmd, len, drawVars>>

\* exec_cmd on what the parser holds.  Everything is drawn at once, but a line
\* that is begun.
exec_cmd ==
  IF <<cmd, len>> \in Known
    THEN /\ executed' = [cmd |-> cmd, args |-> payload]
         /\ IF cmd = 3 THEN line' = payload /\ pen' = Begin(payload)
                       ELSE UNCHANGED <<line, pen>>
    ELSE UNCHANGED drawVars

\* Faulty: a frame with a wrong checksum is not given up.
FeedChecksumKeeps(b) ==
  /\ state = "CHECKSUM"
  /\ IF b = checksum THEN exec_cmd /\ Restart ELSE UNCHANGED <<parserVars, drawVars>>

FeedChecksum(b) ==
  /\ state = "CHECKSUM"
  /\ IF b = checksum THEN exec_cmd ELSE UNCHANGED drawVars
  /\ Restart

gui_protocol_feed(b) ==
  FeedSof0(b) \/ FeedSof1(b) \/ FeedCmd(b) \/ FeedLen(b) \/ FeedPayload(b) \/ FeedChecksum(b)

\* main's loop, when the last byte has been dealt with: the next one of
\* gui_serial_read.
Receive ==
  /\ port = "open" /\ line = NoLine
  /\ wire # <<>> /\ wire' = Tail(wire)
  /\ gui_protocol_feed(Head(wire))
  /\ inStep' = (inStep \/ (wire' = <<>> /\ state = "CHECKSUM" /\ executed' = sent))
  /\ UNCHANGED <<angle, place, serialVars>>

\* gui_renderer_draw_line goes on.
Draw ==
  /\ DrawPixel
  /\ UNCHANGED <<firmwareVars, serialVars, parserVars, executed, inStep>>

-----------------------------------------------------------------------------

Next == Send \/ Fail \/ Close \/ Open \/ Receive \/ Draw

Spec == Init /\ [][Next]_vars

\* The firmware renders for ever, the host reads and draws for ever, and a board
\* that is lost is plugged in again.
FairSpec ==
  /\ Spec
  /\ WF_vars(Send) /\ WF_vars(Receive) /\ WF_vars(Draw)
  /\ WF_vars(Close) /\ WF_vars(Open)

-----------------------------------------------------------------------------
(* Properties *)

\* Type invariant; the parser never writes past payload[GUI_MAX_PAYLOAD].
TypeOK ==
  /\ angle \in 0 .. AngleCount - 1 /\ place \in 1 .. Len(Frames[angle + 1])
  /\ wire \in Seq(Byte)
  /\ port \in {"open", "dead", "closed"} /\ outages \in 0 .. MaxOutages
  /\ state \in {"SOF0", "SOF1", "CMD", "LEN0", "PAYLOAD", "CHECKSUM"}
  /\ cmd \in Byte /\ len \in 0 .. MaxPayload /\ checksum \in Byte
  /\ payload \in Seq(Byte) /\ Len(payload) <= len
  /\ line = NoLine \/ line = executed.args
  /\ inStep \in BOOLEAN

(***************************************************************************)
(* The corners of every picture lie inside the frame buffer, so that       *)
(* scene_render's conversion to bytes loses nothing.                       *)
(***************************************************************************)
OnScreen ==
  \A p \in Range(Corners[angle + 1]) : p.x \in 0 .. Width - 1 /\ p.y \in 0 .. Height - 1

(***************************************************************************)
(* A host that comes in the middle of a frame takes nothing in it for a    *)
(* command: until bytes are lost it draws exactly what is sent, or nothing *)
(* yet.  The bytes of the pictures must not look like frames.              *)
(***************************************************************************)
DrawsWhatIsSent ==
  outages = 0 /\ wire = <<>> => executed \in {NoCommand, sent}

(***************************************************************************)
(* Once a frame has got through, every further one is executed unchanged   *)
(* and in order until bytes are lost, whatever its coordinates and colours *)
(* are.                                                                    *)
(***************************************************************************)
StaysInStep ==
  inStep /\ wire = <<>> => state = "SOF0" /\ executed = sent

(***************************************************************************)
(* After the last outage the parser finds the frames again, though it may  *)
(* be anywhere in a frame that never ends, take a coordinate for a length, *)
(* or swallow the beginning of a good frame.                               *)
(***************************************************************************)
GetsBackInStep == <>[]inStep

=============================================================================
