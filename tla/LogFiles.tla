------------------------------ MODULE LogFiles ------------------------------
(***************************************************************************)
(* The log files on the SD card: Logger::init with its retries, the choice *)
(* of a file name, the end of logging on a write error (logging/Logger.cpp,*)
(* LogThread) and LOG,erase on USBCmdThread (threads.cpp).  The two threads*)
(* share FatFS, which is locked per call only (ffconf.h: FF_FS_REENTRANT 1,*)
(* FF_FS_LOCK 0), so each FatFS or SDC call is one step, and each may fail.*)
(***************************************************************************)
EXTENDS Naturals

CONSTANTS
  LastIndex,   \* LOG0001.BIN .. LOG9999.BIN
  OldFiles,    \* the log files on the card at power-up
  MaxFaults,   \* bound: failing SD calls
  MaxResets    \* bound: resets (BOOT or power)

IndexAssumption == LastIndex \in Nat \ {0} /\ OldFiles \subseteq 1 .. LastIndex

Index == 1 .. LastIndex
NoFile == 0

VARIABLES
  files,       \* the indices in /LOGS
  mounted,     \* a file system is mounted at "/"
  l_pc,        \* LogThread: the call it makes next
  l_n,         \* the index find_next_log_index looks at, then the path
  _open, cur,  \* Logger::_open and _current_path
  err,         \* Logger::_last_init_err
  u_pc,        \* USBCmdThread inside usb_log_erase
  u_cur,       \* the current file as it read it, or NoFile for nullptr
  u_seen,      \* directory entries f_readdir has returned
  u_due,       \* entries it must still return: those present at f_opendir
  u_dir,       \* the DIR object is still valid
  faults, resets  \* counters for the bounds

lvars == <<l_pc, l_n, _open, cur, err>>
uvars == <<u_pc, u_cur, u_seen, u_due, u_dir>>
vars  == <<files, mounted, lvars, uvars, faults, resets>>

\* A call that fails uses up one fault.
Fails == faults < MaxFaults /\ faults' = faults + 1
Works == faults' = faults

-----------------------------------------------------------------------------
(* LogThread *)

\* Mutant: a failed init() is not tried again.
InitFailed_GivesUp(code) == err' = code /\ l_pc' = "stopped" /\ UNCHANGED <<l_n, _open, cur>>

\* init() returns false: LogThread sleeps five seconds and tries again.
InitFailed(code) == err' = code /\ l_pc' = "start" /\ UNCHANGED <<l_n, _open, cur>>

\* sdcStart (error 1) and sdcConnect (error 2).
SdcStart ==
  /\ l_pc \in {"start", "connect"}
  /\ \/ Fails /\ InitFailed(IF l_pc = "start" THEN 1 ELSE 2)
     \/ Works /\ l_pc' = (IF l_pc = "start" THEN "connect" ELSE "mount")
        /\ UNCHANGED <<l_n, _open, cur, err>>
  /\ UNCHANGED <<files, mounted, uvars, resets>>

\* f_mount (error 3), then f_mkdir, whose result is ignored.
Mount ==
  /\ l_pc = "mount"
  /\ \/ Fails /\ InitFailed(3) /\ UNCHANGED mounted
     \/ /\ Works /\ mounted' = TRUE
        /\ l_pc' = "find" /\ l_n' = 1 /\ UNCHANGED <<_open, cur, err>>
  /\ u_dir' = FALSE
  /\ UNCHANGED <<files, u_pc, u_cur, u_seen, u_due, resets>>

\* One f_stat of find_next_log_index: any error is a free slot, a failing card
\* too; past the last index the last is taken.
FindNext ==
  /\ l_pc = "find"
  /\ \/ /\ Works /\ l_n \in files /\ l_n < LastIndex
        /\ l_n' = l_n + 1 /\ UNCHANGED l_pc
     \/ /\ IF l_n \in files /\ l_n < LastIndex THEN Fails ELSE Works
        /\ l_pc' = "open" /\ UNCHANGED l_n
  /\ UNCHANGED <<files, mounted, _open, cur, err, uvars, resets>>

\* f_open with FA_CREATE_NEW (error 4 unmounts); on success the path is
\* published and the schema header is queued.
OpenLog ==
  /\ l_pc = "open"
  /\ \/ /\ IF l_n \in files THEN Works ELSE Fails
        /\ InitFailed(4)
        /\ mounted' = FALSE /\ u_dir' = FALSE
        /\ UNCHANGED files
     \/ /\ l_n \notin files /\ Works
        /\ files' = files \cup {l_n}
        /\ _open' = TRUE /\ cur' = l_n /\ err' = 5 /\ l_pc' = "log"
        /\ UNCHANGED <<l_n, mounted, u_dir>>
  /\ UNCHANGED <<u_pc, u_cur, u_seen, u_due, resets>>

\* A pass of the 50 Hz loop.  A failed f_write (a timeout on the FatFS lock
\* too) clears _open; nothing calls init() again and the passes go on idle.
FlushFails ==
  /\ l_pc = "log" /\ _open
  /\ Fails
  /\ _open' = FALSE
  /\ UNCHANGED <<files, mounted, l_pc, l_n, cur, err, uvars, resets>>

-----------------------------------------------------------------------------
(* USBCmdThread: usb_log_erase *)

\* current_path() is read first ...
EraseStart ==
  /\ u_pc = "idle"
  /\ u_cur' = IF _open THEN cur ELSE NoFile
  /\ u_pc' = "opendir"
  /\ UNCHANGED <<files, mounted, lvars, u_seen, u_due, u_dir, faults, resets>>

\* ... then the directory is opened: LOG,ERR,no_sd when nothing is mounted.
EraseOpendir ==
  /\ u_pc = "opendir"
  /\ \/ /\ mounted /\ Works
        /\ u_pc' = "readdir" /\ u_dir' = TRUE /\ u_seen' = {} /\ u_due' = files
     \/ /\ IF mounted THEN Fails ELSE Works
        /\ u_pc' = "idle" /\ UNCHANGED <<u_dir, u_seen, u_due>>
  /\ UNCHANGED <<files, mounted, lvars, u_cur, resets>>

\* Mutant: the current file is not skipped.
EraseEntry_All(f) ==
  /\ u_pc = "readdir" /\ u_dir /\ f \in files \ u_seen
  /\ u_seen' = u_seen \cup {f} /\ files' = files \ {f} /\ Works
  /\ UNCHANGED <<mounted, lvars, u_pc, u_cur, u_due, u_dir, resets>>

\* One f_readdir and, unless it is the current file, f_unlink: FatFS does not
\* know which files are open, so only this comparison protects the log.
EraseEntry(f) ==
  /\ u_pc = "readdir" /\ u_dir
  /\ f \in files \ u_seen
  /\ u_seen' = u_seen \cup {f}
  /\ \/ f = u_cur /\ Works /\ UNCHANGED files
     \/ f # u_cur /\ Works /\ files' = files \ {f}
     \/ f # u_cur /\ Fails /\ UNCHANGED files
  /\ UNCHANGED <<mounted, lvars, u_pc, u_cur, u_due, u_dir, resets>>

\* f_readdir reports the end or fails.  A file created meanwhile may be missed.
EraseDone ==
  /\ u_pc = "readdir"
  /\ IF ~u_dir \/ u_due \cap files \subseteq u_seen THEN Works ELSE Fails
  /\ u_pc' = "idle" /\ u_seen' = {} /\ u_due' = {} /\ u_dir' = FALSE
  /\ u_cur' = NoFile
  /\ UNCHANGED <<files, mounted, lvars, resets>>

-----------------------------------------------------------------------------
Boot ==
  /\ mounted' = FALSE /\ l_pc' = "start" /\ l_n' = 1
  /\ _open' = FALSE /\ cur' = NoFile /\ err' = 0
  /\ u_pc' = "idle" /\ u_cur' = NoFile /\ u_seen' = {} /\ u_due' = {} /\ u_dir' = FALSE

Reset == resets < MaxResets /\ resets' = resets + 1 /\ Boot /\ UNCHANGED <<files, faults>>

Init ==
  /\ files = OldFiles /\ mounted = FALSE
  /\ l_pc = "start" /\ l_n = 1 /\ _open = FALSE /\ cur = NoFile /\ err = 0
  /\ u_pc = "idle" /\ u_cur = NoFile /\ u_seen = {} /\ u_due = {} /\ u_dir = FALSE
  /\ faults = 0 /\ resets = 0

LogStep   == SdcStart \/ Mount \/ FindNext \/ OpenLog \/ FlushFails
EraseStep == EraseStart \/ EraseOpendir \/ EraseDone \/ \E f \in Index : EraseEntry(f)

Next == LogStep \/ EraseStep \/ Reset

\* LogThread's waits all end (SD calls time out, the retry sleep is timed), and
\* it outranks USBCmdThread.
Fairness == WF_vars(SdcStart \/ Mount \/ FindNext \/ OpenLog)

Spec == Init /\ [][Next]_vars /\ Fairness

-----------------------------------------------------------------------------
(***************************************************************************)
(* Starting a log never touches an earlier one, not even when every index  *)
(* is taken; a log disappears only through LOG,erase, and not while        *)
(* LOG,erase knows it as the current one.                                  *)
(***************************************************************************)
LogsSurvive ==
  [][ /\ ~_open /\ _open' => cur' \notin files
      /\ files \subseteq files' \/ u_pc = "readdir"
      /\ _open /\ u_cur = cur /\ cur \in files => cur \in files' ]_vars

(***************************************************************************)
(* Card faults that end do not keep the robot from logging: it is          *)
(* eventually logging, or a write has failed since, or every index is      *)
(* taken.                                                                  *)
(***************************************************************************)
EventuallyLogs == <>[](_open \/ l_pc = "log" \/ files = Index)

(***************************************************************************)
(* tools/logs.py promises that LOG,erase erases completed log files: the   *)
(* file being written stays in the directory.                              *)
(***************************************************************************)
ErasesOnlyCompleted == _open => cur \in files
=============================================================================
