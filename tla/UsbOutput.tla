----------------------------- MODULE UsbOutput -----------------------------
(***************************************************************************)
(* What the firmware writes to USB (threads.cpp): USBCmdThread's replies   *)
(* and log downloads and DebugThread's telemetry lines share SDU1 under    *)
(* s_usb_write_mtx.  A line is written in two pieces, the second of which  *)
(* ends it; the output queue holds Capacity pieces and the host may stop   *)
(* reading for a while.                                                    *)
(***************************************************************************)
EXTENDS Naturals, Sequences

CONSTANTS
  Capacity,    \* pieces the output queue holds
  Chunks,      \* chunks of the file that is downloaded
  MaxStalls    \* bound: times the host stops reading

OutputAssumption == Capacity \in Nat \ {0} /\ {Chunks, MaxStalls} \subseteq Nat

VARIABLES
  s_usb_write_mtx,  \* the owner: "none", "cmd" or "dbg"
  queue,       \* SDU1's output queue
  last,        \* history: the piece written last
  c_pc,        \* USBCmdThread: "idle", "lock", "begin", "end" or "data"
  c_left,      \* chunks of the download still to be read
  d_pc,        \* DebugThread: "idle", "begin" or "end"
  reading,     \* the host reads
  stalls       \* counter for the bound

vars == <<s_usb_write_mtx, queue, last, c_pc, c_left, d_pc, reading, stalls>>

\* A piece: who wrote it, and which part of a line, or file data, it is.
Piece(who, part) == [who |-> who, part |-> part]

Put(piece) ==
  /\ Len(queue) < Capacity
  /\ queue' = Append(queue, piece) /\ last' = piece

\* A write with a timeout gives up on a full queue nobody reads.
TimedOut == Len(queue) = Capacity /\ ~reading /\ UNCHANGED <<queue, last>>

\* chMtxUnlock hands the mutex to the thread that waits for it.
Unlocked(waiting) == IF waiting THEN "cmd" ELSE "none"

-----------------------------------------------------------------------------
(* USBCmdThread *)

\* A command: one line in reply, or LOG,get with a file to send.
CmdReply(chunks) ==
  /\ c_pc = "idle" /\ c_pc' = "lock" /\ c_left' = chunks
  /\ UNCHANGED <<s_usb_write_mtx, queue, last, d_pc, reading, stalls>>

CmdLock ==
  /\ c_pc = "lock" /\ s_usb_write_mtx \in {"none", "cmd"}
  /\ s_usb_write_mtx' = "cmd" /\ c_pc' = "begin"
  /\ UNCHANGED <<queue, last, c_left, d_pc, reading, stalls>>

\* chprintf waits for room as long as it takes.
CmdLine ==
  /\ c_pc \in {"begin", "end"}
  /\ Put(Piece("cmd", c_pc))
  /\ c_pc' = IF c_pc = "begin" THEN "end" ELSE "data"
  /\ UNCHANGED <<s_usb_write_mtx, c_left, d_pc, reading, stalls>>

\* chnWriteTimeout of a chunk, whose result is not looked at.
CmdData ==
  /\ c_pc = "data" /\ c_left > 0
  /\ Put(Piece("cmd", "data")) \/ TimedOut
  /\ c_left' = c_left - 1
  /\ UNCHANGED <<s_usb_write_mtx, c_pc, d_pc, reading, stalls>>

CmdUnlock ==
  /\ c_pc = "data" /\ c_left = 0
  /\ s_usb_write_mtx' = "none" /\ c_pc' = "idle"
  /\ UNCHANGED <<queue, last, c_left, d_pc, reading, stalls>>

-----------------------------------------------------------------------------
(* DebugThread *)

\* Mutant: the result of chMtxTryLock is not looked at.
DbgTryLock_Ignored ==
  /\ d_pc = "idle" /\ d_pc' = "begin"
  /\ s_usb_write_mtx' = IF s_usb_write_mtx = "none" THEN "dbg" ELSE s_usb_write_mtx
  /\ UNCHANGED <<queue, last, c_pc, c_left, reading, stalls>>

\* A telemetry line is dropped when the mutex is taken.
DbgTryLock ==
  /\ d_pc = "idle" /\ s_usb_write_mtx = "none"
  /\ s_usb_write_mtx' = "dbg" /\ d_pc' = "begin"
  /\ UNCHANGED <<queue, last, c_pc, c_left, reading, stalls>>

DbgBegin ==
  /\ d_pc = "begin" /\ d_pc' = "end"
  /\ Put(Piece("dbg", "begin"))
  /\ UNCHANGED <<s_usb_write_mtx, c_pc, c_left, reading, stalls>>

DbgEnd ==
  /\ d_pc = "end" /\ d_pc' = "idle"
  /\ Put(Piece("dbg", "end"))
  /\ s_usb_write_mtx' = Unlocked(c_pc = "lock")
  /\ UNCHANGED <<c_pc, c_left, reading, stalls>>

\* Mutant: a timeout leaves the mutex locked.
DbgTimeout_KeepsLock ==
  /\ d_pc \in {"begin", "end"} /\ TimedOut /\ d_pc' = "idle"
  /\ UNCHANGED <<s_usb_write_mtx, c_pc, c_left, reading, stalls>>

\* After 50 ms the rest of the line is given up.
DbgTimeout ==
  /\ d_pc \in {"begin", "end"} /\ TimedOut /\ d_pc' = "idle"
  /\ s_usb_write_mtx' = Unlocked(c_pc = "lock")
  /\ UNCHANGED <<c_pc, c_left, reading, stalls>>

-----------------------------------------------------------------------------
(* The host *)

HostRead ==
  /\ reading /\ queue # <<>> /\ queue' = Tail(queue)
  /\ UNCHANGED <<s_usb_write_mtx, last, c_pc, c_left, d_pc, reading, stalls>>

Stall ==
  /\ reading /\ stalls < MaxStalls
  /\ reading' = FALSE /\ stalls' = stalls + 1
  /\ UNCHANGED <<s_usb_write_mtx, queue, last, c_pc, c_left, d_pc>>

Resume ==
  /\ ~reading /\ reading' = TRUE
  /\ UNCHANGED <<s_usb_write_mtx, queue, last, c_pc, c_left, d_pc, stalls>>

Init ==
  /\ s_usb_write_mtx = "none" /\ queue = <<>> /\ last = Piece("cmd", "end")
  /\ c_pc = "idle" /\ c_left = 0 /\ d_pc = "idle"
  /\ reading = TRUE /\ stalls = 0

Cmd == CmdLock \/ CmdLine \/ CmdData \/ CmdUnlock
Dbg == DbgBegin \/ DbgEnd \/ DbgTimeout

Next ==
  \/ Cmd \/ Dbg \/ DbgTryLock
  \/ \E chunks \in 0 .. Chunks : CmdReply(chunks)
  \/ HostRead \/ Stall \/ Resume

\* The threads run when they can and a host that reads goes on reading.
Fairness == WF_vars(Cmd) /\ WF_vars(Dbg) /\ WF_vars(HostRead)

Spec == Init /\ [][Next]_vars /\ Fairness

-----------------------------------------------------------------------------
Writes(piece) == Len(queue') > Len(queue) /\ last' = piece

(***************************************************************************)
(* Replies, downloads and telemetry never mix: what continues a line or a  *)
(* file follows directly on its own beginning.                             *)
(***************************************************************************)
NeverInterleaved ==
  [][ /\ \A who \in {"cmd", "dbg"} : Writes(Piece(who, "end")) => last = Piece(who, "begin")
      /\ Writes(Piece("cmd", "data")) => last \in {Piece("cmd", "end"), Piece("cmd", "data")} ]_vars

(***************************************************************************)
(* A command is answered to its end if the host reads on, however often    *)
(* telemetry gets in first or a write of it has timed out.                 *)
(***************************************************************************)
CommandsFinish == <>[]reading => (c_pc # "idle" ~> c_pc = "idle")
=============================================================================
