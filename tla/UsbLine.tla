------------------------------- MODULE UsbLine -------------------------------
(***************************************************************************)
(* Command lines over USB: USBCmdThread (threads.cpp) and, with another    *)
(* buffer size, CmdThread of Motor_tool gather bytes until a newline and   *)
(* dispatch the text.  A character is named by its line and its place in   *)
(* it, so that a dispatched text shows where it came from.                 *)
(***************************************************************************)
EXTENDS Naturals, Sequences

CONSTANTS
  LineSize,    \* sizeof(s_line)
  MaxLength,   \* characters of a host line
  MaxLines     \* bound: host lines

LineAssumption == LineSize \in Nat \ {0} /\ MaxLength \in Nat /\ MaxLines \in Nat

VARIABLES
  s_line,      \* the text gathered: s_len characters
  line, sent,  \* the host's line, and how many characters of it were sent
  spliced,     \* history: the cable was pulled since the last newline
  dispatched   \* history: what the last newline gave to usb_cmd_dispatch

vars == <<s_line, line, sent, spliced, dispatched>>

Char(l, i) == [line |-> l, at |-> i]

\* The characters first..last of line l.
Part(l, first, last) == [i \in 1 .. last + 1 - first |-> Char(l, first + i - 1)]

-----------------------------------------------------------------------------
\* Mutant: the bound is off by one.
Gathered_Early(c) == IF Len(s_line) + 2 < LineSize THEN Append(s_line, c) ELSE <<>>

\* A character that does not fit empties the buffer and is itself dropped.
Gathered(c) == IF Len(s_line) < LineSize - 1 THEN Append(s_line, c) ELSE <<>>

Byte ==
  /\ line <= MaxLines /\ sent < MaxLength
  /\ sent' = sent + 1
  /\ s_line' = Gathered(Char(line, sent'))
  /\ UNCHANGED <<line, spliced, dispatched>>

\* '\n' or '\r': the text, unless it is empty, is dispatched.
Newline ==
  /\ line <= MaxLines
  /\ dispatched' = [text |-> s_line, line |-> line, length |-> sent, spliced |-> spliced]
  /\ s_line' = <<>>
  /\ line' = line + 1 /\ sent' = 0 /\ spliced' = FALSE

\* The queue is suspended: chnGetTimeout returns MSG_RESET, which leaves
\* s_len as it is.  The host's next line is a new one.
Unplug ==
  /\ line < MaxLines /\ sent > 0
  /\ line' = line + 1 /\ sent' = 0 /\ spliced' = TRUE
  /\ UNCHANGED <<s_line, dispatched>>

Init ==
  /\ s_line = <<>> /\ line = 1 /\ sent = 0 /\ spliced = FALSE
  /\ dispatched = [text |-> <<>>, line |-> 0, length |-> 0, spliced |-> FALSE]

Next == Byte \/ Newline \/ Unplug

Spec == Init /\ [][Next]_vars

-----------------------------------------------------------------------------
(***************************************************************************)
(* A command is the end of one line the host sent, and all of it if the    *)
(* line fits: nothing of an earlier line, overlong or dispatched, is left. *)
(* A pulled cable spoils one command at most, the one begun before it.     *)
(***************************************************************************)
CommandIsLine ==
  LET d == dispatched IN
  ~d.spliced =>
    \E first \in 1 .. d.length + 1 :
      /\ d.text = Part(d.line, first, d.length)
      /\ d.length < LineSize => first = 1
=============================================================================
