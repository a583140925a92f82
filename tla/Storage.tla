------------------------------- MODULE Storage -------------------------------
(***************************************************************************)
(* What the robot stores and what it says to the host: the calibration in  *)
(* flash (CalFlash, extended), the log files and their bytes (LogFiles,    *)
(* LogRing), the battery monitor's transfers (BatteryInfo), the transmit   *)
(* counters (CanTx) and the USB line, in and out (UsbLine, UsbOutput).     *)
(* They share no state: `part`, chosen at the start, says which of them    *)
(* moves, and the others keep their initial state.  The behaviours of      *)
(* each, and their fairness, are those it has alone.                       *)
(***************************************************************************)
EXTENDS CalFlash

CONSTANTS
  LastIndex, OldFiles, MaxFaults, MaxResets,             \* LogFiles
  BUF_SIZE, FLUSH_CHUNK, SYNC_INTERVAL, HDR, Schema, Pass,
  MaxPasses, MaxFills,                                   \* LogRing
  Node, FRAMES, TidMod, MaxTransfers, MaxLost,           \* BatteryInfo
  Threads, MaxCalls,                                     \* CanTx
  LineSize, MaxLength, MaxLines,                         \* UsbLine
  Capacity, Chunks, MaxStalls                            \* UsbOutput

VARIABLES part,
  files, mounted, l_pc, l_n, _open, cur, err, u_pc, u_cur, u_seen, u_due,
  u_dir, faults, resets,                                        \* LogFiles
  _buf, _head, _tail, ring_open, _sync_count, next, passes, count, file,
  synced, full, fills, stream, ends, from,                      \* LogRing
  sent, lost, missed, s_pending, g_power,                       \* BatteryInfo
  t_pc, res, reg, tx, motor_tx, returned,                       \* CanTx
  s_line, line, line_sent, spliced, dispatched,                 \* UsbLine
  s_usb_write_mtx, queue, last, c_pc, c_left, d_pc, reading,
  stalls                                                        \* UsbOutput

fvars == <<files, mounted, l_pc, l_n, _open, cur, err, u_pc, u_cur, u_seen, u_due, u_dir, faults, resets>>
rvars == <<_buf, _head, _tail, ring_open, _sync_count, next, passes, count, file, synced, full, fills,
           stream, ends, from>>
bvars == <<sent, lost, missed, s_pending, g_power>>
tvars == <<t_pc, res, reg, tx, motor_tx, returned>>
uvars == <<s_line, line, line_sent, spliced, dispatched>>
ovars == <<s_usb_write_mtx, queue, last, c_pc, c_left, d_pc, reading, stalls>>

-----------------------------------------------------------------------------
Files == INSTANCE LogFiles

Ring == INSTANCE LogRing WITH _open <- ring_open

Battery == INSTANCE BatteryInfo

Tx == INSTANCE CanTx WITH pc <- t_pc

Line == INSTANCE UsbLine WITH sent <- line_sent

Output == INSTANCE UsbOutput

ASSUME FilesAssumption == Files!IndexAssumption
ASSUME RingAssumption == Ring!SizesAssumption /\ Ring!RatesFit
ASSUME BatteryAssumption == Battery!FramesAssumption /\ Battery!TidAssumption
ASSUME TxAssumption == Tx!BoundsAssumption
ASSUME LineSizes == Line!LineAssumption
ASSUME OutputSizes == Output!OutputAssumption

-----------------------------------------------------------------------------
StorageInit ==
  /\ part \in {"cal", "files", "ring", "battery", "tx", "line", "output"}
  /\ Init /\ Files!Init /\ Ring!Init /\ Battery!Init /\ Tx!Init /\ Line!Init /\ Output!Init

CalStep     == part = "cal" /\ Next /\ UNCHANGED <<part, fvars, rvars, bvars, tvars, uvars, ovars>>
FilesStep   == part = "files" /\ Files!Next /\ UNCHANGED <<part, vars, rvars, bvars, tvars, uvars, ovars>>
RingStep    == part = "ring" /\ Ring!Next /\ UNCHANGED <<part, vars, fvars, bvars, tvars, uvars, ovars>>
BatteryStep == part = "battery" /\ Battery!Next /\ UNCHANGED <<part, vars, fvars, rvars, tvars, uvars, ovars>>
TxStep      == part = "tx" /\ Tx!Next /\ UNCHANGED <<part, vars, fvars, rvars, bvars, uvars, ovars>>
LineStep    == part = "line" /\ Line!Next /\ UNCHANGED <<part, vars, fvars, rvars, bvars, tvars, ovars>>
OutputStep  == part = "output" /\ Output!Next /\ UNCHANGED <<part, vars, fvars, rvars, bvars, tvars, uvars>>

StorageNext ==
  \/ CalStep \/ FilesStep \/ RingStep \/ BatteryStep \/ TxStep \/ LineStep \/ OutputStep

\* The fairness of LogFiles and of UsbOutput while they are the ones to move.
StorageFairness ==
  /\ WF_fvars(part = "files" /\ (Files!SdcStart \/ Files!Mount \/ Files!FindNext \/ Files!OpenLog))
  /\ WF_ovars(part = "output" /\ Output!Cmd) /\ WF_ovars(part = "output" /\ Output!Dbg)
  /\ WF_ovars(part = "output" /\ Output!HostRead)

StorageSpec ==
  /\ StorageInit
  /\ [][StorageNext]_<<part, vars, fvars, rvars, bvars, tvars, uvars, ovars>>
  /\ StorageFairness

-----------------------------------------------------------------------------
(***************************************************************************)
(* find_next_log_index, Logger::init and usb_log_erase: starting a log     *)
(* never touches an earlier one, and a log disappears only through         *)
(* LOG,erase, not while LOG,erase knows it as the current one.             *)
(***************************************************************************)
LogsSurvive == Files!LogsSurvive

(***************************************************************************)
(* LogThread: card faults that end do not keep the robot from logging,     *)
(* unless a write has failed since or every index is taken.                *)
(***************************************************************************)
EventuallyLogs == part = "files" => Files!EventuallyLogs

(***************************************************************************)
(* Logger's ring and flush: until the card first runs full, the file       *)
(* followed by the ring is exactly what LogThread wrote, wherever the wrap *)
(* falls, and after a failed write still a prefix of it; a full card loses *)
(* bytes and keeps the order of the others.                                *)
(***************************************************************************)
LogIsStream == Ring!LogIsStream

(***************************************************************************)
(* Logger::flush: what f_sync has secured ends on a record boundary until  *)
(* the card first runs full, and a log that goes on after that goes on at  *)
(* one.                                                                    *)
(***************************************************************************)
SyncedAreRecords == Ring!SyncedAreRecords

(***************************************************************************)
(* battery_info_cb: voltage and current published together come from the   *)
(* same node and, up to the reach of a transfer ID, the same transfer,     *)
(* from its frames 1 and 2 unless frame 2 was lost.                        *)
(***************************************************************************)
OneTransfer == Battery!OneTransfer

(***************************************************************************)
(* can_send: the unlocked diagnostic counters may lose a transmission but  *)
(* never invent one.                                                       *)
(***************************************************************************)
DiagNeverOver == Tx!DiagNeverOver

(***************************************************************************)
(* USBCmdThread: a command is the end of one line the host sent, and all   *)
(* of it if the line fits, after any number of overlong lines; a pulled    *)
(* cable spoils one command at most.                                       *)
(***************************************************************************)
CommandIsLine == Line!CommandIsLine

(***************************************************************************)
(* s_usb_write_mtx: replies, downloads and telemetry never mix.            *)
(***************************************************************************)
NeverInterleaved == Output!NeverInterleaved

(***************************************************************************)
(* A command is answered to its end if the host reads on, however often    *)
(* DebugThread gets in first or a write of it has timed out.               *)
(***************************************************************************)
CommandsFinish == part = "output" => Output!CommandsFinish
==============================================================================
