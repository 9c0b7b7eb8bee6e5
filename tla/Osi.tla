-------------------------------- MODULE Osi ---------------------------------
(***************************************************************************)
(* The operator's console (osi.c, usart3.c): the receive interrupt puts    *)
(* the characters that are typed into a queue, and the console's task      *)
(* takes them out one at a time, edits and echoes a line, and carries it   *)
(* out when it ends.                                                       *)
(*                                                                         *)
(* The queue is here what module Queue implements, the FIFO of QueueSpec;  *)
(* the task's output goes to the terminal in order, for the mutex around   *)
(* every write is module Mutex's.  The task takes its character before it  *)
(* does anything else, so that characters which arrive while it handles it *)
(* might as well arrive afterwards: one action handles one character.      *)
(***************************************************************************)
EXTENDS Folding, SequencesExt

CONSTANTS
  Text,      \* the characters that are neither line ends nor erasures
  Literals,  \* OSI_COMMAND_LITERALS: what to type for each command
  BufferSize,\* RTOSK_OSI_CMD_BUFFER_SIZE
  MaxTyped   \* bound: the characters typed between two resets

\* "answer" stands for the six commands that only print.
Command == {"answer", "fault", "reboot"}

\* CR, LF, and backspace or delete.
Char == Text \cup {"cr", "lf", "erase"}

ASSUME TextAssumption == Text \cap {"cr", "lf", "erase", "prompt"} = {}
ASSUME LiteralsAssumption == Literals \in [Command -> Seq(Text) \ {<<>>}]
ASSUME SizeAssumption == BufferSize \in Nat \ {0} /\ MaxTyped \in Nat

VARIABLES
  phase,  \* how far the system is since its last reset
  rx,     \* OSI_USART3_RX_QUEUE
  cmd,    \* the line so far, cmd[0 .. len - 1]
  saw_cr, \* a CR was the last character
  screen  \* the terminal's current line

\* History, since the last reset: the characters the task has taken, and the
\* lines it has answered, with a prompt at least.
VARIABLES taken, answered

vars == <<phase, rx, cmd, saw_cr, screen, taken, answered>>

\* What the terminal showed before the reset is of no account.
Init ==
  /\ phase = "off"
  /\ rx = <<>> /\ cmd = <<>> /\ saw_cr = FALSE /\ screen = <<>>
  /\ taken = <<>> /\ answered = <<>>

-----------------------------------------------------------------------------
(* Starting up, and the receive interrupt *)

\* rtosk_osi_init: from now on characters are received.  It does so once.
rtosk_osi_init ==
  /\ phase = "off" /\ phase' = "delay"
  /\ UNCHANGED <<rx, cmd, saw_cr, screen, taken, answered>>

\* The task has waited for a second and prints its banner and the prompt.
Banner ==
  /\ phase = "delay" /\ phase' = "console"
  /\ screen' = <<"prompt">>
  /\ UNCHANGED <<rx, cmd, saw_cr, taken, answered>>

\* The receiver and its interrupt are on.
Receiving == phase \in {"delay", "console", "rebooting"}

\* USART3_IRQHandler: rtosk_queue_send_from_isr drops what finds no room.
USART3_IRQHandler(c) ==
  /\ Receiving
  /\ Len(taken) + Len(rx) < MaxTyped
  /\ rx' = IF Len(rx) < BufferSize THEN Append(rx, c) ELSE rx
  /\ UNCHANGED <<phase, cmd, saw_cr, screen, taken, answered>>

-----------------------------------------------------------------------------
(* rtosk_osi_task: what it does with a character *)

\* The command a line stands for.
Means(line) ==
  IF \E k \in Command : Literals[k] = line
    THEN CHOOSE k \in Command : Literals[k] = line
    ELSE "unknown"

\* Faulty: compares a literal's length only (strncmp), the fault's first.
osi_invokePrefix(line) ==
  phase' = CASE IsPrefix(Literals["fault"], line) -> "halted"
             [] IsPrefix(Literals["reboot"], line) -> "rebooting"
             [] OTHER -> "console"

\* rtosk_osi_dispatch_command and osi_invoke.  A fault halts the system, a
\* reboot waits before it resets; every other line gets some output, and
\* then the prompt.
osi_invoke(line) ==
  phase' = CASE Means(line) = "fault" -> "halted"
             [] Means(line) = "reboot" -> "rebooting"
             [] OTHER -> "console"

\* The line ends: "\r\n", the command if there is one, "> ".
EndLine ==
  /\ IF cmd = <<>> THEN UNCHANGED phase ELSE osi_invoke(cmd)
  /\ answered' = Append(answered, cmd)
  /\ cmd' = IF phase' = "console" THEN <<>> ELSE cmd
  /\ screen' = IF phase' = "console" THEN <<"prompt">> ELSE <<>>

HandleCr(c) == c = "cr" /\ saw_cr' = TRUE /\ EndLine

\* Faulty: the CR is not forgotten, and swallows every LF that follows.
HandleLfKeeps(c) ==
  /\ c = "lf"
  /\ IF saw_cr THEN UNCHANGED <<phase, cmd, screen, answered>> ELSE EndLine
  /\ UNCHANGED saw_cr

\* The LF of a CRLF ends no line.
HandleLf(c) ==
  /\ c = "lf" /\ saw_cr' = FALSE
  /\ IF saw_cr THEN UNCHANGED <<phase, cmd, screen, answered>> ELSE EndLine

\* Faulty: rubs out whatever is to the left.
HandleEraseAlways(c) ==
  /\ c = "erase" /\ saw_cr' = FALSE
  /\ cmd' = IF cmd = <<>> THEN cmd ELSE Front(cmd)
  /\ screen' = IF screen = <<>> THEN screen ELSE Front(screen)
  /\ UNCHANGED <<phase, answered>>

\* "\b \b" takes the terminal's last character away.
HandleErase(c) ==
  /\ c = "erase" /\ saw_cr' = FALSE
  /\ IF cmd = <<>> THEN UNCHANGED <<cmd, screen>>
                   ELSE cmd' = Front(cmd) /\ screen' = Front(screen)
  /\ UNCHANGED <<phase, answered>>

\* Faulty: leaves no room for the NUL.
HandleTextToTheEnd(c) ==
  /\ c \in Text /\ saw_cr' = FALSE
  /\ IF Len(cmd) < BufferSize
       THEN cmd' = Append(cmd, c) /\ screen' = Append(screen, c)
       ELSE UNCHANGED <<cmd, screen>>
  /\ UNCHANGED <<phase, answered>>

\* What finds no room is neither kept nor echoed.
HandleText(c) ==
  /\ c \in Text /\ saw_cr' = FALSE
  /\ IF Len(cmd) < BufferSize - 1
       THEN cmd' = Append(cmd, c) /\ screen' = Append(screen, c)
       ELSE UNCHANGED <<cmd, screen>>
  /\ UNCHANGED <<phase, answered>>

\* One turn of the task's loop; without a character it sleeps.
rtosk_osi_task ==
  /\ phase = "console" /\ rx # <<>>
  /\ rx' = Tail(rx)
  /\ taken' = Append(taken, Head(rx))
  /\ LET c == Head(rx)
     IN  HandleCr(c) \/ HandleLf(c) \/ HandleErase(c) \/ HandleText(c)

\* NVIC_SystemReset, after the delay.
Reset ==
  /\ phase = "rebooting" /\ phase' = "off"
  /\ rx' = <<>> /\ cmd' = <<>> /\ saw_cr' = FALSE /\ screen' = <<>>
  /\ taken' = <<>> /\ answered' = <<>>

-----------------------------------------------------------------------------

Next ==
  \/ rtosk_osi_init \/ Banner \/ rtosk_osi_task \/ Reset
  \/ \E c \in Char : USART3_IRQHandler(c)

Spec == Init /\ [][Next]_vars

-----------------------------------------------------------------------------
(* Properties *)

\* Type invariant; cmd has room for the NUL that ends it.
TypeOK ==
  /\ phase \in {"off", "delay", "console", "rebooting", "halted"}
  /\ rx \in Seq(Char) /\ Len(rx) <= BufferSize
  /\ cmd \in Seq(Text) /\ Len(cmd) < BufferSize
  /\ saw_cr \in BOOLEAN
  /\ screen \in Seq(Text \cup {"prompt"})
  /\ taken \in Seq(Char) /\ answered \in Seq(Seq(Text))

(***************************************************************************)
(* What a text of lines means, told from the text alone: every CR and      *)
(* every LF ends a line, but a CR with a LF after it is one end.  A line   *)
(* is what is left of its characters once the erasures have been carried   *)
(* out, and what did not fit is missing.                                   *)
(***************************************************************************)
EndsAt(text) ==
  {i \in DOMAIN text :
     \/ text[i] = "cr"
     \/ text[i] = "lf" /\ (i = 1 \/ text[i - 1] # "cr")}

Edited(line, c) ==
  CASE c = "erase" /\ line # <<>> -> Front(line)
    [] c \in Text /\ Len(line) < BufferSize - 1 -> Append(line, c)
    [] OTHER -> line

Edit == [p \in Seq(Text) \X Char |-> Edited(p[1], p[2])]

\* The line that ends at the given place, and what comes after the last one.
LineTo(text, end) ==
  LET begin == Max({0} \cup {i \in EndsAt(text) : i < end})
  IN  Fold(Edit, <<>>, SubSeq(text, begin + 1, end - 1))

\* Which line of the text it is that ends there.
NumberOf(text, end) == Cardinality({i \in EndsAt(text) : i <= end})

(***************************************************************************)
(* Whatever terminal is used and however fast it types, every line that    *)
(* reaches the task ends once, at a CR, a LF or a CRLF, and is answered as *)
(* it was edited, in order (osi.c:219), and the line being typed is never  *)
(* mixed up with the one before.                                           *)
(***************************************************************************)
LinesAreAsTyped ==
  /\ Len(answered) = Cardinality(EndsAt(taken))
  /\ \A end \in EndsAt(taken) : answered[NumberOf(taken, end)] = LineTo(taken, end)
  /\ phase = "console" => cmd = LineTo(taken, Len(taken) + 1)

(***************************************************************************)
(* The system goes down for a whole line that says so and for nothing      *)
(* else, and answers nothing after it (osi.c:160-168, 183).                *)
(***************************************************************************)
GoesDownAsTold ==
  phase \in {"halted", "rebooting"} <=>
    answered # <<>> /\ Means(Last(answered)) \in {"fault", "reboot"}

(***************************************************************************)
(* While it waits for a character the terminal shows the prompt and then   *)
(* exactly the line so far: no erasure eats into the prompt, and what did  *)
(* not fit is not shown.                                                   *)
(***************************************************************************)
ScreenShowsLine ==
  phase = "console" => screen = <<"prompt">> \o cmd

=============================================================================
