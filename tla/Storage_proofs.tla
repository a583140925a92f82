--------------------------- MODULE Storage_proofs ---------------------------
(***************************************************************************)
(* What the robot stores and says, for any sizes of its buffers, any       *)
(* threads and any nodes.                                                  *)
(***************************************************************************)
EXTENDS Storage, Integers, Sequences, FiniteSetTheorems, SequenceTheorems, TLAPS

svars == <<part, vars, fvars, rvars, bvars, tvars, uvars, ovars>>

\* A step of the composition is one of a component, or leaves it alone.
LEMMA StepOf ==
  [StorageNext]_svars =>
    /\ [Files!Next]_fvars /\ [Ring!Next]_rvars /\ [Battery!Next]_bvars
    /\ [Tx!Next]_tvars /\ [Line!Next]_uvars /\ [Output!Next]_ovars
  BY DEF StorageNext, CalStep, FilesStep, RingStep, BatteryStep, TxStep, LineStep, OutputStep, svars

-----------------------------------------------------------------------------
(* The log files *)

(***************************************************************************)
(* Logger::init, find_next_log_index and usb_log_erase, for any card: a    *)
(* new log is a new file, only LOG,erase removes one, and never the one it *)
(* knows as current.                                                       *)
(***************************************************************************)
THEOREM LogsAreKept == StorageSpec => LogsSurvive
<1>1. [Files!Next]_fvars =>
        [ /\ ~_open /\ _open' => cur' \notin files
          /\ files \subseteq files' \/ u_pc = "readdir"
          /\ _open /\ u_cur = cur /\ cur \in files => cur \in files' ]_(Files!vars)
  <2>0. UNCHANGED fvars => UNCHANGED Files!vars
    BY DEF fvars, Files!vars, Files!lvars, Files!uvars
  <2> SUFFICES ASSUME Files!Next
               PROVE  /\ ~_open /\ _open' => cur' \notin files
                      /\ files \subseteq files' \/ u_pc = "readdir"
                      /\ _open /\ u_cur = cur /\ cur \in files => cur \in files'
    BY <2>0
  <2>1. CASE Files!LogStep
    BY <2>1 DEF Files!LogStep, Files!SdcStart, Files!Mount, Files!FindNext, Files!OpenLog,
                Files!FlushFails, Files!InitFailed
  <2>2. CASE Files!EraseStep
    BY <2>2 DEF Files!EraseStep, Files!EraseStart, Files!EraseOpendir, Files!EraseDone,
                Files!EraseEntry, Files!lvars
  <2>3. CASE Files!Reset
    BY <2>3 DEF Files!Reset, Files!Boot
  <2> QED
    BY <2>1, <2>2, <2>3 DEF Files!Next
<1> QED
  BY <1>1, StepOf, PTL DEF StorageSpec, LogsSurvive, Files!LogsSurvive, svars

-----------------------------------------------------------------------------
(* What is written to USB *)

\* Who holds the mutex, and what the last piece written leaves to be continued.
OutputInv ==
  /\ queue \in Seq([who : {"cmd", "dbg"}, part : {"begin", "end", "data"}])
  /\ c_pc \in {"begin", "end", "data"} => s_usb_write_mtx = "cmd"
  /\ d_pc \in {"begin", "end"} => s_usb_write_mtx = "dbg"
  /\ c_pc = "end" => last = Output!Piece("cmd", "begin")
  /\ c_pc = "data" => last \in {Output!Piece("cmd", "end"), Output!Piece("cmd", "data")}
  /\ d_pc = "end" => last = Output!Piece("dbg", "begin")

\* The mutex keeps the other thread from writing in between.
LEMMA OutputNext == OutputInv /\ [Output!Next]_ovars => OutputInv'
<1> SUFFICES ASSUME OutputInv, [Output!Next]_ovars PROVE OutputInv'
  OBVIOUS
<1> USE DEF OutputInv, Output!Piece, Output!Put, Output!TimedOut, Output!Unlocked
<1>1. CASE Output!Cmd
  <2>1. CASE Output!CmdLock
    BY <2>1 DEF Output!CmdLock
  <2>2. CASE Output!CmdLine
    <3>1. CASE c_pc = "begin"
      BY <2>2, <3>1 DEF Output!CmdLine
    <3>2. CASE c_pc = "end"
      BY <2>2, <3>2 DEF Output!CmdLine
    <3> QED
      BY <2>2, <3>1, <3>2 DEF Output!CmdLine
  <2>3. CASE Output!CmdData
    <3>1. CASE Output!Put(Output!Piece("cmd", "data"))
      BY <2>3, <3>1 DEF Output!CmdData
    <3>2. CASE Output!TimedOut
      BY <2>3, <3>2 DEF Output!CmdData
    <3> QED
      BY <2>3, <3>1, <3>2 DEF Output!CmdData
  <2>4. CASE Output!CmdUnlock
    BY <2>4 DEF Output!CmdUnlock
  <2> QED
    BY <1>1, <2>1, <2>2, <2>3, <2>4 DEF Output!Cmd
<1>2. CASE Output!Dbg
  <2>1. CASE Output!DbgBegin
    BY <2>1 DEF Output!DbgBegin
  <2>2. CASE Output!DbgEnd
    BY <2>2 DEF Output!DbgEnd
  <2>3. CASE Output!DbgTimeout
    BY <2>3 DEF Output!DbgTimeout
  <2> QED
    BY <1>2, <2>1, <2>2, <2>3 DEF Output!Dbg
<1>3. CASE Output!DbgTryLock
  BY <1>3 DEF Output!DbgTryLock
<1>4. CASE \E chunks \in 0 .. Chunks : Output!CmdReply(chunks)
  BY <1>4 DEF Output!CmdReply
<1>5. CASE Output!HostRead
  BY <1>5 DEF Output!HostRead
<1>6. CASE Output!Stall \/ Output!Resume
  BY <1>6 DEF Output!Stall, Output!Resume
<1>7. CASE UNCHANGED ovars
  BY <1>7 DEF ovars
<1> QED
  BY <1>1, <1>2, <1>3, <1>4, <1>5, <1>6, <1>7 DEF Output!Next

(***************************************************************************)
(* s_usb_write_mtx, for any queue and any file: what continues a line or a *)
(* download follows directly on its own beginning.                         *)
(***************************************************************************)
THEOREM OutputIsWhole == StorageSpec => NeverInterleaved
<1> DEFINE Follows ==
      /\ \A who \in {"cmd", "dbg"} :
           Output!Writes(Output!Piece(who, "end")) => last = Output!Piece(who, "begin")
      /\ Output!Writes(Output!Piece("cmd", "data")) =>
           last \in {Output!Piece("cmd", "end"), Output!Piece("cmd", "data")}
<1>1. StorageInit => OutputInv
  BY DEF StorageInit, Output!Init, OutputInv
<1>2. OutputInv /\ [Output!Next]_ovars => [Follows]_(Output!vars)
  <2>0. UNCHANGED ovars => UNCHANGED Output!vars
    BY DEF ovars, Output!vars
  <2> SUFFICES ASSUME OutputInv, Output!Next PROVE Follows
    BY <2>0
  <2> USE DEF OutputInv, Output!Writes, Output!Piece, Output!Put, Output!TimedOut
  <2>1. CASE Output!CmdLine
    <3>1. CASE c_pc = "begin"
      BY <2>1, <3>1 DEF Output!CmdLine
    <3>2. CASE c_pc = "end"
      BY <2>1, <3>2 DEF Output!CmdLine
    <3> QED
      BY <2>1, <3>1, <3>2 DEF Output!CmdLine
  <2>2. CASE Output!CmdData
    BY <2>2 DEF Output!CmdData
  <2>3. CASE Output!DbgBegin \/ Output!DbgEnd
    BY <2>3 DEF Output!DbgBegin, Output!DbgEnd
  <2>4. CASE Output!HostRead
    BY <2>4 DEF Output!HostRead
  <2>5. CASE UNCHANGED queue
    BY <2>5
  <2> QED
    BY <2>1, <2>2, <2>3, <2>4, <2>5 DEF Output!Next, Output!Cmd, Output!Dbg, Output!CmdLock,
       Output!CmdUnlock, Output!DbgTimeout, Output!DbgTryLock, Output!CmdReply, Output!Stall, Output!Resume
<1>3. OutputInv /\ [StorageNext]_svars => OutputInv'
  BY StepOf, OutputNext
<1> QED
  BY <1>1, <1>2, <1>3, StepOf, PTL DEF StorageSpec, NeverInterleaved, Output!NeverInterleaved, svars

-----------------------------------------------------------------------------
(* Command lines *)

\* A text is what is left of n characters of line l: the last ones, and all of
\* them while they fit.
IsLine(text, l, n) ==
  \E first \in 1 .. n + 1 :
    /\ text = Line!Part(l, first, n)
    /\ n < LineSize => first = 1

\* What is gathered is the end of the line so far.
LineInv ==
  /\ line_sent \in Nat
  /\ ~spliced => IsLine(s_line, line, line_sent)
  /\ CommandIsLine

\* One character more, or the buffer emptied.
LEMMA Gathers ==
  ASSUME NEW text, NEW l, NEW n \in Nat, IsLine(text, l, n)
  PROVE  IsLine(IF Len(text) < LineSize - 1 THEN Append(text, Line!Char(l, n + 1)) ELSE <<>>, l, n + 1)
<1>1. PICK first \in 1 .. n + 1 : text = Line!Part(l, first, n) /\ (n < LineSize => first = 1)
  BY DEF IsLine
<1>2. LineSize \in Nat \ {0}
  BY LineSizes DEF Line!LineAssumption
<1>3. n + 1 - first \in Nat /\ Len(text) = n + 1 - first
  BY <1>1 DEF Line!Part
<1>4. CASE Len(text) < LineSize - 1
  <2>1. Append(text, Line!Char(l, n + 1)) = Line!Part(l, first, n + 1)
    <3> DEFINE m == n + 1 - first
               c(i) == Line!Char(l, first + i - 1)
               t == [i \in 1 .. m |-> c(i)]
    <3>1. text = t /\ Line!Part(l, first, n + 1) = [i \in 1 .. m + 1 |-> c(i)]
      BY <1>1 DEF Line!Part
    <3>2. m \in Nat /\ first + (m + 1) - 1 = n + 1
      BY <1>3
    <3>3. c(m + 1) = Line!Char(l, n + 1)
      BY <3>2
    <3> HIDE DEF m, c
    <3>4. Append(t, c(m + 1)) = [i \in 1 .. m + 1 |-> c(i)]
      BY <3>2
    <3> QED
      BY <3>1, <3>3, <3>4
  <2>2. first \in 1 .. (n + 1) + 1 /\ (n + 1 < LineSize => first = 1)
    BY <1>1, <1>2
  <2> QED
    BY <1>4, <2>1, <2>2 DEF IsLine
<1>5. CASE ~(Len(text) < LineSize - 1)
  <2>1. ~(n + 1 < LineSize)
    BY <1>1, <1>2, <1>3, <1>5
  <2>2. <<>> = Line!Part(l, n + 2, n + 1)
    BY DEF Line!Part
  <2>3. n + 2 \in 1 .. (n + 1) + 1
    OBVIOUS
  <2> QED
    BY <1>5, <2>1, <2>2, <2>3 DEF IsLine
<1> QED
  BY <1>4, <1>5

\* Every byte, time-out and command keeps the line.
LEMMA LineNext == LineInv /\ [Line!Next]_uvars => LineInv'
<1> SUFFICES ASSUME LineInv, [Line!Next]_uvars PROVE LineInv'
  OBVIOUS
<1>1. CASE Line!Byte
  <2>1. /\ line_sent' = line_sent + 1 /\ UNCHANGED <<line, spliced, dispatched>>
        /\ s_line' = IF Len(s_line) < LineSize - 1
                     THEN Append(s_line, Line!Char(line, line_sent + 1)) ELSE <<>>
    BY <1>1 DEF Line!Byte, Line!Gathered
  <2>2. ~spliced' => IsLine(s_line', line', line_sent')
    BY <2>1, Gathers DEF LineInv
  <2> QED
    BY <2>1, <2>2 DEF LineInv, CommandIsLine, Line!CommandIsLine
<1>2. CASE Line!Newline
  <2>1. IsLine(<<>>, line + 1, 0)
    <3>1. <<>> = Line!Part(line + 1, 1, 0)
      BY DEF Line!Part
    <3> QED
      BY <3>1 DEF IsLine
  <2>2. /\ dispatched' = [text |-> s_line, line |-> line, length |-> line_sent, spliced |-> spliced]
        /\ s_line' = <<>> /\ line' = line + 1 /\ line_sent' = 0
    BY <1>2 DEF Line!Newline
  <2>3. CommandIsLine'
    BY <2>2 DEF LineInv, IsLine, CommandIsLine, Line!CommandIsLine
  <2> QED
    BY <2>1, <2>2, <2>3 DEF LineInv
<1>3. CASE Line!Unplug
  BY <1>3 DEF Line!Unplug, LineInv, CommandIsLine, Line!CommandIsLine
<1>4. CASE UNCHANGED uvars
  BY <1>4 DEF uvars, LineInv, CommandIsLine, Line!CommandIsLine
<1> QED
  BY <1>1, <1>2, <1>3, <1>4 DEF Line!Next

(***************************************************************************)
(* USBCmdThread, for any buffer and any lines: a command is the end of one *)
(* line the host sent, all of it if it fits, unless the cable was pulled   *)
(* while that line was gathered.                                           *)
(***************************************************************************)
THEOREM CommandsAreLines == StorageSpec => []CommandIsLine
<1>1. StorageInit => LineInv
  <2> SUFFICES ASSUME StorageInit PROVE LineInv
    OBVIOUS
  <2>1. /\ s_line = <<>> /\ line_sent = 0 /\ line = 1
        /\ dispatched = [text |-> <<>>, line |-> 0, length |-> 0, spliced |-> FALSE]
    BY DEF StorageInit, Line!Init
  <2>2. <<>> = Line!Part(1, 1, 0) /\ <<>> = Line!Part(0, 1, 0)
    BY DEF Line!Part
  <2> QED
    BY <2>1, <2>2 DEF LineInv, IsLine, CommandIsLine, Line!CommandIsLine
<1>2. LineInv /\ [StorageNext]_svars => LineInv'
  BY StepOf, LineNext
<1>3. LineInv => CommandIsLine
  BY DEF LineInv
<1> QED
  BY <1>1, <1>2, <1>3, PTL DEF StorageSpec, svars

-----------------------------------------------------------------------------
(* The battery monitor's transfers *)

\* Two transfers that the ID does not tell apart are TidMod or more apart.
LEMMA TidReach ==
  ASSUME NEW M \in Nat \ {0}, NEW a \in Nat, NEW b \in Nat, a < b, a % M = b % M
  PROVE  b - a >= M
<1>1. a = (a \div M) * M + (a % M) /\ b = (b \div M) * M + (b % M)
  OBVIOUS
<1>2. a \div M \in Nat /\ b \div M \in Nat /\ a % M \in 0 .. M - 1
  OBVIOUS
<1> DEFINE p == a \div M
           q == b \div M
<1>3. b - a = (q - p) * M
  BY <1>1, <1>2
<1> HIDE DEF p, q
<1>4. p \in Nat /\ q \in Nat
  BY <1>2 DEF p, q
<1>5. q > p
  BY <1>3, <1>4
<1>6. (q - p) * M >= M
  BY <1>4, <1>5
<1> QED
  BY <1>3, <1>6

\* A stashed start frame of transfer t of node n, while n has sent up to
\* <<a, k>>: each later start frame of n was lost, and frame 2 of t too.
StashOf(p, n, t) ==
  /\ n \in Node /\ t \in Nat
  /\ p.node = n /\ p.from = <<n, t, 1>> /\ p.tid = t % TidMod /\ p.toggle = TRUE

Since(t, a, k, x) == t <= a /\ ((a = t /\ k = 1) \/ x >= a - t + 1)

\* A stash that waits for the transfer under way, beyond its frame 2: that
\* frame was lost.
Overtaken(p, x, y) ==
  \A n \in Node : p.node = n /\ p.tid = x[n][1] % TidMod /\ x[n][2] >= 2 => n \in y

BatteryInv ==
  /\ lost \in Nat
  /\ sent \in [Node -> Nat \X (1 .. FRAMES)]
  /\ s_pending.valid =>
       /\ \E n \in Node, t \in Nat :
            StashOf(s_pending, n, t) /\ Since(t, sent[n][1], sent[n][2], lost)
       /\ Overtaken(s_pending, sent, missed)

\* A publication as OneTransfer wants it.
Published(p, x, y) ==
  /\ p.voltage[1] = p.node /\ p.current[1] = p.node
  /\ x <= TidMod => p.voltage[2] = p.current[2]
  /\ p.voltage[3] = 1
  /\ p.current[3] = 2 \/ p.current[1] \in y

\* What follows on the frame sent last.
LEMMA FrameAfterIs ==
  ASSUME BatteryInv, NEW n \in Node
  PROVE  LET s == Battery!FrameAfter(n) IN
         /\ s \in Nat \X (1 .. FRAMES)
         /\ s[2] = 1 => s[1] = sent[n][1] + 1 /\ sent[n][2] = FRAMES
         /\ s[2] # 1 => s[1] = sent[n][1] /\ s[2] = sent[n][2] + 1
<1>1. FRAMES \in Nat /\ FRAMES >= 3
  BY BatteryAssumption DEF Battery!FramesAssumption
<1>2. sent[n] \in Nat \X (1 .. FRAMES)
  BY DEF BatteryInv
<1>3. CASE sent[n][2] = FRAMES
  BY <1>1, <1>2, <1>3 DEF Battery!FrameAfter
<1>4. CASE sent[n][2] # FRAMES
  BY <1>1, <1>2, <1>4 DEF Battery!FrameAfter
<1> QED
  BY <1>3, <1>4

\* A frame more of node n, other than frame 2 of the stashed transfer, delivered
\* or lost; and any frame lost.
LEMMA SinceStep ==
  ASSUME NEW t \in Nat, NEW a \in Nat, NEW k \in 1 .. FRAMES, NEW x \in Nat, Since(t, a, k, x),
         NEW b \in Nat, NEW j \in 1 .. FRAMES,
         j = 1 => b = a + 1 /\ k = FRAMES,
         j # 1 => b = a /\ j = k + 1
  PROVE  /\ Since(t, b, j, x + 1)
         /\ j # 1 /\ ~(b = t /\ j = 2) => Since(t, b, j, x)
         /\ j # 1 /\ b > t => x >= b - t + 1
<1>1. FRAMES \in Nat /\ FRAMES >= 3
  BY BatteryAssumption DEF Battery!FramesAssumption
<1> QED
  BY <1>1 DEF Since

\* A frame of the monitor reaches the reassembly.
LEMMA BatteryDeliver ==
  ASSUME BatteryInv, NEW n \in Node, Battery!Deliver(n)
  PROVE  BatteryInv' /\ (g_power' # g_power => Published(g_power', lost, missed))
<1> DEFINE s == Battery!FrameAfter(n)
           b == s[1]
           j == s[2]
           f == Battery!Frame(n, b, j)
<1>1. /\ sent' = [sent EXCEPT ![n] = s] /\ lost' = lost
      /\ missed' = IF j = 1 THEN missed \ {n} ELSE missed
      /\ Battery!battery_info_cb(f)
  BY DEF Battery!Deliver
<1>2. /\ s \in Nat \X (1 .. FRAMES) /\ b \in Nat /\ j \in 1 .. FRAMES
      /\ j = 1 => b = sent[n][1] + 1 /\ sent[n][2] = FRAMES
      /\ j # 1 => b = sent[n][1] /\ j = sent[n][2] + 1
  BY FrameAfterIs
<1>3. sent' \in [Node -> Nat \X (1 .. FRAMES)] /\ lost' \in Nat
  BY <1>1, <1>2 DEF BatteryInv
<1>4. sent'[n] = s /\ \A m \in Node : m # n => sent'[m] = sent[m]
  BY <1>1 DEF BatteryInv
<1>5. FRAMES \in Nat /\ FRAMES >= 3 /\ TidMod \in Nat \ {0}
  BY BatteryAssumption DEF Battery!FramesAssumption, Battery!TidAssumption
<1>6. ASSUME NEW m \in Node PROVE sent[m][1] \in Nat /\ sent[m][2] \in 1 .. FRAMES
  BY DEF BatteryInv
<1>f. /\ f.node = n /\ f.tid = b % TidMod /\ f.from = <<n, b, j>>
      /\ f.sot <=> j = 1
      /\ f.full <=> j < FRAMES
      /\ j = 1 => f.toggle = FALSE
      /\ j = 2 => f.toggle = TRUE
  <2>1. f = [node |-> n, tid |-> b % TidMod, sot |-> j = 1, toggle |-> j % 2 = 0,
             full |-> j < FRAMES, from |-> <<n, b, j>>]
    BY DEF Battery!Frame
  <2> HIDE DEF s, f
  <2>2. f.node = n /\ f.tid = b % TidMod /\ f.from = <<n, b, j>>
    BY <2>1
  <2>3. f.sot = (j = 1) /\ f.full = (j < FRAMES) /\ f.toggle = (j % 2 = 0)
    BY <2>1, Zenon
  <2>4. j = 1 => ~(j % 2 = 0)
    OBVIOUS
  <2>5. j = 1 => f.toggle = FALSE
    BY <2>3, <2>4, Zenon
  <2>6. j = 2 => j % 2 = 0
    OBVIOUS
  <2>7. j = 2 => f.toggle = TRUE
    BY <2>3, <2>6, Zenon
  <2> QED
    BY <2>2, <2>3, <2>5, <2>7
<1> HIDE DEF s, f
\* The frame changes neither the stash nor what is published.
<1>7. ASSUME UNCHANGED <<s_pending, g_power>>, j # 1,
             ~(j = 2 /\ s_pending.valid /\ s_pending.node = n /\ s_pending.tid = b % TidMod)
      PROVE  BatteryInv'
  <2>1. ASSUME s_pending.valid PROVE Overtaken(s_pending, sent', missed')
    <3> SUFFICES ASSUME NEW m \in Node, s_pending.node = m, s_pending.tid = sent'[m][1] % TidMod,
                        sent'[m][2] >= 2
                 PROVE  m \in missed
      BY <1>1, <1>7 DEF Overtaken
    <3>1. Overtaken(s_pending, sent, missed)
      BY <2>1 DEF BatteryInv
    <3>2. CASE m # n
      BY <1>4, <3>1, <3>2 DEF Overtaken
    <3>3. CASE m = n
      <4>1. s_pending.tid = b % TidMod /\ j # 2
        BY <1>4, <1>7, <2>1, <3>3
      <4>2. sent[n][2] >= 2 /\ s_pending.tid = sent[n][1] % TidMod
        BY <1>2, <1>6, <1>7, <4>1
      <4> QED
        BY <3>1, <3>3, <4>2 DEF Overtaken
    <3> QED
      BY <3>2, <3>3
  <2>2. ASSUME s_pending.valid
        PROVE  \E m \in Node, t \in Nat :
                 StashOf(s_pending, m, t) /\ Since(t, sent'[m][1], sent'[m][2], lost)
    <3>1. PICK m \in Node, t \in Nat :
            StashOf(s_pending, m, t) /\ Since(t, sent[m][1], sent[m][2], lost)
      BY <2>2 DEF BatteryInv
    <3>2. CASE m # n
      BY <1>4, <3>1, <3>2
    <3>3. CASE m = n
      <4>1. ~(b = t /\ j = 2)
        BY <1>7, <2>2, <3>1, <3>3 DEF StashOf
      <4>2. Since(t, b, j, lost)
        BY <1>2, <1>3, <1>1, <1>6, <1>7, <3>1, <3>3, <4>1, SinceStep
      <4> QED
        BY <1>4, <3>1, <3>3, <4>2
    <3> QED
      BY <3>2, <3>3
  <2> QED
    BY <1>1, <1>3, <1>7, <2>1, <2>2 DEF BatteryInv
<1>8. CASE j = FRAMES
  <2>1. UNCHANGED <<s_pending, g_power>>
    BY <1>1, <1>5, <1>8, <1>f DEF Battery!battery_info_cb
  <2> QED
    BY <1>5, <1>7, <1>8, <2>1
<1>9. CASE j = 1
  <2>1. /\ s_pending' = [valid |-> TRUE, node |-> n, tid |-> b % TidMod, toggle |-> ~FALSE,
                         from |-> <<n, b, 1>>]
        /\ g_power' = g_power
    BY <1>1, <1>5, <1>9, <1>f DEF Battery!battery_info_cb, Battery!Pending
  <2>2. StashOf(s_pending', n, b)
    BY <1>2, <2>1 DEF StashOf
  <2>3. Since(b, sent'[n][1], sent'[n][2], lost')
    BY <1>2, <1>4, <1>9 DEF Since
  <2>4. Overtaken(s_pending', sent', missed')
    <3>1. s_pending'.node = n /\ sent'[n][2] = 1
      BY <1>4, <1>9, <2>1
    <3> QED
      BY <3>1 DEF Overtaken
  <2> QED
    BY <1>2, <1>3, <2>1, <2>2, <2>3, <2>4 DEF BatteryInv
<1>10. CASE j # 1 /\ j # FRAMES /\ ~Battery!Matches(f)
  <2>1. UNCHANGED <<s_pending, g_power>>
    BY <1>1, <1>2, <1>5, <1>10, <1>f DEF Battery!battery_info_cb
  <2>2. ASSUME j = 2, s_pending.valid, s_pending.node = n, s_pending.tid = b % TidMod
        PROVE  FALSE
    <3>1. s_pending.toggle = TRUE
      BY <2>2 DEF BatteryInv, StashOf
    <3> QED
      BY <1>10, <1>f, <2>2, <3>1 DEF Battery!Matches
  <2> QED
    BY <1>7, <1>10, <2>1, <2>2
<1>11. CASE j # 1 /\ j # FRAMES /\ Battery!Matches(f)
  <2>1. /\ s_pending' = [s_pending EXCEPT !.valid = FALSE]
        /\ g_power' = [valid |-> TRUE, node |-> n, voltage |-> s_pending.from, current |-> <<n, b, j>>]
        /\ s_pending.valid /\ s_pending.node = n /\ s_pending.tid = b % TidMod
    <3>1. f.full /\ ~f.sot
      BY <1>2, <1>5, <1>11, <1>f
    <3> QED
      BY <1>1, <1>11, <1>f, <3>1 DEF Battery!battery_info_cb, Battery!Matches
  <2>2. PICK m \in Node, t \in Nat :
          StashOf(s_pending, m, t) /\ Since(t, sent[m][1], sent[m][2], lost)
    BY <2>1 DEF BatteryInv
  <2>3. m = n /\ t % TidMod = b % TidMod /\ s_pending.from = <<n, t, 1>>
    BY <2>1, <2>2 DEF StashOf
  <2>4. lost <= TidMod => t = b
    <3>1. t <= b /\ (b > t => lost >= b - t + 1)
      <4>1. b > t => lost >= b - t + 1
        BY <1>1, <1>2, <1>3, <1>6, <1>11, <2>2, <2>3, SinceStep
      <4> QED
        BY <1>2, <1>6, <1>11, <2>2, <2>3, <4>1 DEF Since
    <3>2. b > t => b - t >= TidMod
      BY <1>2, <1>5, <2>2, <2>3, TidReach
    <3> QED
      BY <1>1, <1>2, <1>3, <1>5, <3>1, <3>2
  <2>5. j = 2 \/ n \in missed
    <3>1. Overtaken(s_pending, sent, missed)
      BY <2>1 DEF BatteryInv
    <3>2. j # 2 => sent[n][2] >= 2
      BY <1>2, <1>6, <1>11
    <3> QED
      BY <1>2, <1>11, <2>1, <3>1, <3>2 DEF Overtaken
  <2>6. g_power' = [valid |-> TRUE, node |-> n, voltage |-> <<n, t, 1>>, current |-> <<n, b, j>>]
    BY <2>1, <2>3
  <2>7. Published(g_power', lost, missed)
    BY <2>4, <2>5, <2>6 DEF Published
  <2>8. ~s_pending'.valid
    BY <2>1
  <2> QED
    BY <1>3, <2>7, <2>8 DEF BatteryInv
<1> QED
  BY <1>8, <1>9, <1>10, <1>11

\* A frame of the monitor is lost: nothing changes at the receiver.
LEMMA BatteryLose ==
  ASSUME BatteryInv, NEW n \in Node, Battery!Lose(n) PROVE BatteryInv' /\ g_power' = g_power
<1> DEFINE s == Battery!FrameAfter(n)
           b == s[1]
           j == s[2]
<1>1. /\ sent' = [sent EXCEPT ![n] = s] /\ lost' = lost + 1 /\ lost \in Nat
      /\ missed' = IF j = 1 THEN missed \ {n} ELSE IF j = 2 THEN missed \cup {n} ELSE missed
      /\ UNCHANGED <<s_pending, g_power>>
  BY DEF Battery!Lose, BatteryInv
<1>2. /\ s \in Nat \X (1 .. FRAMES) /\ b \in Nat /\ j \in 1 .. FRAMES
      /\ j = 1 => b = sent[n][1] + 1 /\ sent[n][2] = FRAMES
      /\ j # 1 => b = sent[n][1] /\ j = sent[n][2] + 1
  BY FrameAfterIs
<1>3. /\ sent' \in [Node -> Nat \X (1 .. FRAMES)]
      /\ sent'[n] = s /\ \A m \in Node : m # n => sent'[m] = sent[m]
  BY <1>1, <1>2 DEF BatteryInv
<1>4. ASSUME NEW m \in Node PROVE sent[m][1] \in Nat /\ sent[m][2] \in 1 .. FRAMES
  BY DEF BatteryInv
<1> HIDE DEF s
<1>5. ASSUME s_pending.valid
      PROVE  \E m \in Node, t \in Nat :
               StashOf(s_pending, m, t) /\ Since(t, sent'[m][1], sent'[m][2], lost + 1)
  <2>1. PICK m \in Node, t \in Nat :
          StashOf(s_pending, m, t) /\ Since(t, sent[m][1], sent[m][2], lost)
    BY <1>5 DEF BatteryInv
  <2>2. CASE m # n
    <3>1. Since(t, sent[m][1], sent[m][2], lost + 1)
      BY <1>1, <1>4, <2>1 DEF Since
    <3> QED
      BY <1>3, <2>1, <2>2, <3>1
  <2>3. CASE m = n
    <3>1. Since(t, b, j, lost + 1)
      <4>1. /\ sent[n][1] \in Nat /\ sent[n][2] \in 1 .. FRAMES /\ lost \in Nat
            /\ Since(t, sent[n][1], sent[n][2], lost)
        BY <1>1, <1>4, <2>1, <2>3
      <4> HIDE DEF b, j
      <4> QED
        BY <1>2, <4>1, SinceStep
    <3> QED
      BY <1>3, <2>1, <2>3, <3>1
  <2> QED
    BY <2>2, <2>3
<1>6. ASSUME s_pending.valid PROVE Overtaken(s_pending, sent', missed')
  <2> SUFFICES ASSUME NEW m \in Node, s_pending.node = m, s_pending.tid = sent'[m][1] % TidMod,
                      sent'[m][2] >= 2
               PROVE  m \in missed'
    BY DEF Overtaken
  <2>1. Overtaken(s_pending, sent, missed)
    BY <1>6 DEF BatteryInv
  <2>2. CASE m # n
    <3>1. m \in missed
      BY <1>3, <2>1, <2>2 DEF Overtaken
    <3> QED
      BY <1>1, <2>2, <3>1
  <2>3. CASE m = n
    <3>1. j # 1 /\ s_pending.tid = b % TidMod
      BY <1>2, <1>3, <2>3
    <3>2. j # 2 => sent[n][2] >= 2 /\ s_pending.tid = sent[n][1] % TidMod
      BY <1>2, <1>4, <3>1
    <3>3. j # 2 => n \in missed
      BY <2>1, <2>3, <3>2 DEF Overtaken
    <3> QED
      BY <1>1, <2>3, <3>1, <3>3
  <2> QED
    BY <2>2, <2>3
<1> QED
  BY <1>1, <1>3, <1>5, <1>6 DEF BatteryInv

(***************************************************************************)
(* battery_info_cb, for any power modules, any length of a transfer and    *)
(* any losses: voltage and current published together are of one node and, *)
(* while no more frames are lost than there are transfer IDs, of one       *)
(* transfer; the voltage is that of its frame 1, and the current that of   *)
(* its frame 2 unless frame 2 was lost.                                    *)
(***************************************************************************)
THEOREM PublishedTogether == StorageSpec => OneTransfer
<1>1. StorageInit => BatteryInv
  <2>1. FRAMES \in 1 .. FRAMES
    BY BatteryAssumption DEF Battery!FramesAssumption
  <2> QED
    BY <2>1 DEF StorageInit, Battery!Init, BatteryInv
<1>2. BatteryInv /\ [StorageNext]_svars =>
        BatteryInv' /\ [g_power' # g_power => Published(g_power', lost, missed)]_(Battery!vars)
  <2> SUFFICES ASSUME BatteryInv, [Battery!Next]_bvars
               PROVE  BatteryInv' /\ [g_power' # g_power =>
                                        Published(g_power', lost, missed)]_(Battery!vars)
    BY StepOf
  <2>1. CASE UNCHANGED bvars
    BY <2>1 DEF bvars, Battery!vars, BatteryInv
  <2> QED
    BY <2>1, BatteryDeliver, BatteryLose DEF Battery!Next
<1>3. (g_power' # g_power => Published(g_power', lost, missed)) <=>
      (g_power' # g_power =>
         LET v == g_power'.voltage
             c == g_power'.current
         IN  /\ v[1] = g_power'.node /\ c[1] = g_power'.node
             /\ lost <= TidMod => v[2] = c[2]
             /\ v[3] = 1
             /\ c[3] = 2 \/ c[1] \in missed)
  BY DEF Published
<1> QED
  BY <1>1, <1>2, <1>3, PTL DEF StorageSpec, OneTransfer, Battery!OneTransfer, svars

-----------------------------------------------------------------------------
(* The transmit counters *)

\* The threads that have a transmission to count with result r.
Uncounted(p, q, r) == {t \in Threads : p[t] \in {"count", "store"} /\ q[t] = r}

Stages == {"idle", "sending", "count", "store", "record"}

\* What is not counted yet is missing in the counter; a thread that has loaded
\* it is overtaken only by threads that store more.
TxInv ==
  /\ t_pc \in [Threads -> Stages] /\ res \in [Threads -> Tx!Result]
  /\ reg \in [Threads -> Nat] /\ tx \in [Tx!Result -> Nat] /\ returned \in [Tx!Result -> Nat]
  /\ \A r \in Tx!Result : tx[r] + Cardinality(Uncounted(t_pc, res, r)) <= returned[r]
  /\ \A t \in Threads : t_pc[t] = "store" => reg[t] <= tx[res[t]]
  /\ \A t, u \in Threads :
       t < u /\ t_pc[t] = "store" /\ t_pc[u] = "store" /\ res[t] = res[u] => reg[t] <= reg[u]

\* Only finitely many threads have a result they have not counted.
LEMMA UncountedFinite ==
  ASSUME NEW p, NEW q, NEW r
  PROVE  IsFiniteSet(Uncounted(p, q, r)) /\ Cardinality(Uncounted(p, q, r)) \in Nat
<1>1. IsFiniteSet(Threads)
  BY TxAssumption DEF Tx!BoundsAssumption, Tx!IsFiniteSet, IsFiniteSet
<1>2. Uncounted(p, q, r) \subseteq Threads
  BY DEF Uncounted
<1> QED
  BY <1>1, <1>2, FS_Subset, FS_CardinalityType

\* A thread whose stage changes outside counting leaves the sets as they are.
LEMMA UncountedSame ==
  ASSUME TxInv, NEW t \in Threads, NEW s, NEW r,
         (t_pc[t] \in {"count", "store"}) <=> (s \in {"count", "store"})
  PROVE  Uncounted([t_pc EXCEPT ![t] = s], res, r) = Uncounted(t_pc, res, r)
  BY DEF Uncounted, TxInv

\* A thread begins a call, or counts its frame for the motor: the bus counters stay.
LEMMA TxCall == ASSUME TxInv, NEW t \in Threads, Tx!Call(t) \/ Tx!motor_record_tx(t) PROVE TxInv'
<1>1. PICK s \in {"sending", "idle"} :
        /\ t_pc' = [t_pc EXCEPT ![t] = s] /\ t_pc[t] \notin {"count", "store"}
        /\ UNCHANGED <<res, reg, tx, returned>>
  BY DEF Tx!Call, Tx!motor_record_tx
<1>2. \A r \in Tx!Result : Uncounted(t_pc', res, r) = Uncounted(t_pc, res, r)
  BY <1>1, UncountedSame
<1>3. t_pc' \in [Threads -> Stages]
  BY <1>1 DEF TxInv, Stages
<1>4. \A u \in Threads : t_pc'[u] = "store" => t_pc[u] = "store"
  BY <1>1 DEF TxInv
<1> QED
  BY <1>1, <1>2, <1>3, <1>4 DEF TxInv

\* canTransmit returns: its result is now one to count.
LEMMA TxTransmit == ASSUME TxInv, NEW t \in Threads, Tx!canTransmit(t) PROVE TxInv'
<1>1. PICK r \in Tx!Result :
        /\ res' = [res EXCEPT ![t] = r] /\ returned' = [returned EXCEPT ![r] = @ + 1]
        /\ t_pc' = [t_pc EXCEPT ![t] = "count"] /\ t_pc[t] = "sending"
        /\ UNCHANGED <<reg, tx>>
  BY DEF Tx!canTransmit
<1>2. /\ t_pc' \in [Threads -> Stages] /\ res' \in [Threads -> Tx!Result]
      /\ returned' \in [Tx!Result -> Nat]
      /\ returned'[r] = returned[r] + 1 /\ \A q \in Tx!Result : q # r => returned'[q] = returned[q]
  BY <1>1 DEF TxInv, Stages
<1>3. /\ Uncounted(t_pc', res', r) = Uncounted(t_pc, res, r) \cup {t}
      /\ t \notin Uncounted(t_pc, res, r)
      /\ \A q \in Tx!Result : q # r => Uncounted(t_pc', res', q) = Uncounted(t_pc, res, q)
  BY <1>1 DEF Uncounted, TxInv
<1>4. Cardinality(Uncounted(t_pc', res', r)) = Cardinality(Uncounted(t_pc, res, r)) + 1
  BY <1>3, UncountedFinite, FS_AddElement
<1>5. \A u \in Threads : t_pc'[u] = "store" => t_pc[u] = "store" /\ res'[u] = res[u]
  BY <1>1 DEF TxInv
<1>6. ASSUME NEW q \in Tx!Result
      PROVE  tx[q] + Cardinality(Uncounted(t_pc', res', q)) <= returned'[q]
  <2>1. /\ tx[q] + Cardinality(Uncounted(t_pc, res, q)) <= returned[q]
        /\ tx[q] \in Nat /\ returned[q] \in Nat
    BY DEF TxInv
  <2>2. Cardinality(Uncounted(t_pc, res, q)) \in Nat
    BY UncountedFinite
  <2>3. CASE q = r
    BY <1>2, <1>4, <2>1, <2>2, <2>3
  <2>4. CASE q # r
    BY <1>2, <1>3, <2>1, <2>4
  <2> QED
    BY <2>3, <2>4
<1> QED
  BY <1>1, <1>2, <1>5, <1>6 DEF TxInv

\* The first half of an unlocked increment.
LEMMA TxLoad == ASSUME TxInv, NEW t \in Threads, Tx!CountLoad(t) PROVE TxInv'
<1>1. /\ reg' = [reg EXCEPT ![t] = tx[res[t]]] /\ t_pc' = [t_pc EXCEPT ![t] = "store"]
      /\ t_pc[t] = "count" /\ UNCHANGED <<res, tx, returned>>
      /\ \A u \in Threads : u > t => t_pc[u] # "store"
  BY DEF Tx!CountLoad, Tx!May, Tx!Running
<1>2. \A r \in Tx!Result : Uncounted(t_pc', res, r) = Uncounted(t_pc, res, r)
  BY <1>1, UncountedSame
<1>3. /\ t_pc' \in [Threads -> Stages] /\ reg' \in [Threads -> Nat]
      /\ reg'[t] = tx[res[t]] /\ tx[res[t]] \in Nat
      /\ \A u \in Threads : u # t => reg'[u] = reg[u] /\ t_pc'[u] = t_pc[u]
  BY <1>1 DEF TxInv, Stages
<1>4. Threads \subseteq Nat
  BY TxAssumption DEF Tx!BoundsAssumption
<1>5. \A u \in Threads : t_pc'[u] = "store" => reg'[u] <= tx[res[u]]
  BY <1>3 DEF TxInv
<1>6. ASSUME NEW w \in Threads, NEW u \in Threads, w < u, t_pc'[w] = "store", t_pc'[u] = "store",
             res[w] = res[u]
      PROVE  reg'[w] <= reg'[u]
  <2>1. CASE u = t
    BY <1>3, <1>4, <1>6, <2>1 DEF TxInv
  <2>2. CASE u # t
    BY <1>1, <1>3, <1>4, <1>6, <2>2 DEF TxInv
  <2> QED
    BY <2>1, <2>2
<1> QED
  BY <1>1, <1>2, <1>3, <1>5, <1>6 DEF TxInv

\* The second half, which may undo what others counted and never adds more than one.
LEMMA TxStore == ASSUME TxInv, NEW t \in Threads, Tx!CountStore(t) PROVE TxInv'
<1> DEFINE r == res[t]
<1>1. /\ tx' = [tx EXCEPT ![r] = reg[t] + 1] /\ t_pc' = [t_pc EXCEPT ![t] = "record"]
      /\ t_pc[t] = "store" /\ UNCHANGED <<res, reg, returned>>
      /\ \A u \in Threads : u > t => t_pc[u] # "store"
  BY DEF Tx!CountStore, Tx!Counted, Tx!May, Tx!Running
<1>2. /\ r \in Tx!Result /\ reg[t] \in Nat /\ tx[r] \in Nat /\ reg[t] <= tx[r]
      /\ t_pc' \in [Threads -> Stages] /\ tx' \in [Tx!Result -> Nat]
      /\ tx'[r] = reg[t] + 1 /\ \A q \in Tx!Result : q # r => tx'[q] = tx[q]
      /\ \A u \in Threads : t_pc'[u] = "store" => t_pc[u] = "store" /\ u # t
  BY <1>1 DEF TxInv, Stages
<1>3. Threads \subseteq Nat
  BY TxAssumption DEF Tx!BoundsAssumption
<1>4. /\ Uncounted(t_pc, res, r) = Uncounted(t_pc', res, r) \cup {t}
      /\ t \notin Uncounted(t_pc', res, r)
      /\ \A q \in Tx!Result : q # r => Uncounted(t_pc', res, q) = Uncounted(t_pc, res, q)
  BY <1>1 DEF Uncounted, TxInv
<1>5. Cardinality(Uncounted(t_pc, res, r)) = Cardinality(Uncounted(t_pc', res, r)) + 1
  BY <1>4, UncountedFinite, FS_AddElement
<1>6. ASSUME NEW q \in Tx!Result
      PROVE  tx'[q] + Cardinality(Uncounted(t_pc', res, q)) <= returned[q]
  <2>1. /\ tx[q] + Cardinality(Uncounted(t_pc, res, q)) <= returned[q]
        /\ tx[q] \in Nat /\ returned[q] \in Nat
    BY DEF TxInv
  <2>2. Cardinality(Uncounted(t_pc', res, q)) \in Nat
    BY UncountedFinite
  <2>3. CASE q = r
    BY <1>2, <1>5, <2>1, <2>2, <2>3
  <2>4. CASE q # r
    BY <1>2, <1>4, <2>1, <2>4
  <2> QED
    BY <2>3, <2>4
<1>7. ASSUME NEW u \in Threads, t_pc'[u] = "store"
      PROVE  reg[u] <= tx'[res[u]]
  <2>1. t_pc[u] = "store" /\ u < t /\ res[u] \in Tx!Result /\ reg[u] \in Nat
    BY <1>1, <1>2, <1>3, <1>7 DEF TxInv
  <2>2. CASE res[u] = r
    <3>1. reg[u] <= reg[t]
      BY <1>1, <2>1, <2>2 DEF TxInv
    <3> QED
      BY <1>2, <2>1, <2>2, <3>1
  <2>3. CASE res[u] # r
    BY <1>2, <2>1, <2>3 DEF TxInv
  <2> QED
    BY <2>2, <2>3
<1> QED
  BY <1>1, <1>2, <1>6, <1>7 DEF TxInv

(***************************************************************************)
(* can_send, for any threads and their priorities: the unlocked counters   *)
(* may lose a transmission but never invent one.                           *)
(***************************************************************************)
THEOREM CountersNeverOver == StorageSpec => []DiagNeverOver
<1>1. StorageInit => TxInv
  <2> SUFFICES ASSUME StorageInit PROVE TxInv
    OBVIOUS
  <2>1. /\ t_pc = [t \in Threads |-> "idle"] /\ res = [t \in Threads |-> "ok"]
        /\ reg = [t \in Threads |-> 0] /\ tx = [r \in Tx!Result |-> 0]
        /\ returned = [r \in Tx!Result |-> 0]
    BY DEF StorageInit, Tx!Init
  <2>2. \A r : Uncounted(t_pc, res, r) = {}
    BY <2>1 DEF Uncounted
  <2>3. Cardinality({}) = 0
    BY FS_EmptySet
  <2> QED
    BY <2>1, <2>2, <2>3 DEF TxInv, Tx!Result, Stages
<1>2. TxInv /\ [StorageNext]_svars => TxInv'
  <2> SUFFICES ASSUME TxInv, [Tx!Next]_tvars PROVE TxInv'
    BY StepOf
  <2>1. CASE UNCHANGED tvars
    BY <2>1 DEF tvars, TxInv
  <2> QED
    BY <2>1, TxCall, TxTransmit, TxLoad, TxStore DEF Tx!Next
<1>3. TxInv => DiagNeverOver
  <2> SUFFICES ASSUME TxInv, NEW r \in Tx!Result PROVE tx[r] <= returned[r]
    BY DEF DiagNeverOver, Tx!DiagNeverOver
  <2> DEFINE c == Cardinality(Uncounted(t_pc, res, r))
  <2>1. c \in Nat
    BY UncountedFinite
  <2>2. tx[r] + c <= returned[r] /\ tx[r] \in Nat /\ returned[r] \in Nat
    BY DEF TxInv
  <2> HIDE DEF c
  <2> QED
    BY <2>1, <2>2
<1> QED
  BY <1>1, <1>2, <1>3, PTL DEF StorageSpec, svars

-----------------------------------------------------------------------------
(* The bytes of a log *)

Byte == Nat \X Nat

\* The bytes between tail and head, and where the i-th of them is.
Used(head, tail) == IF head >= tail THEN head - tail ELSE BUF_SIZE - tail + head
At(tail, i) == IF tail + i - 1 < BUF_SIZE THEN tail + i - 1 ELSE tail + i - 1 - BUF_SIZE

\* The sizes of the ring and of what is written into it.
LEMMA RingConstants ==
  /\ BUF_SIZE \in Nat \ {0} /\ FLUSH_CHUNK \in Nat /\ HDR \in Nat /\ Len(Pass) \in Nat
  /\ Ring!Slot = 0 .. BUF_SIZE - 1
  /\ \A k \in 0 .. Len(Pass) : Ring!End(Pass, k) \in Nat
  /\ Ring!Size(Schema) \in Nat /\ Ring!Size(Pass) \in Nat
<1>1. /\ BUF_SIZE \in Nat /\ FLUSH_CHUNK \in Nat /\ HDR \in Nat
      /\ Schema \in Seq(Nat) /\ Pass \in Seq(Nat)
  BY RingAssumption DEF Ring!SizesAssumption
<1>2. ASSUME NEW l \in Seq(Nat), NEW k \in 0 .. Len(l)
      PROVE  Ring!End(l, k) \in Nat
  BY DEF Ring!End
<1>3. Ring!Size(Schema) \in Nat /\ Ring!Size(Pass) \in Nat
  BY <1>1, <1>2 DEF Ring!Size
<1>4. BUF_SIZE # 0
  BY <1>1, <1>3, RingAssumption DEF Ring!RatesFit
<1> QED
  BY <1>1, <1>2, <1>3, <1>4 DEF Ring!Slot

\* Where an index that has run past the end comes out.
LEMMA Wrap ==
  ASSUME NEW x \in 0 .. 2 * BUF_SIZE - 1
  PROVE  x % BUF_SIZE = IF x < BUF_SIZE THEN x ELSE x - BUF_SIZE
<1> DEFINE q == x \div BUF_SIZE
           r == x % BUF_SIZE
<1>1. BUF_SIZE \in Nat \ {0} /\ x \in Nat
  BY RingConstants
<1>2. q \in Nat /\ r \in 0 .. BUF_SIZE - 1 /\ x = q * BUF_SIZE + r
  BY <1>1
<1> HIDE DEF q, r
<1>3. q = 0 \/ q = 1
  <2>1. ASSUME q >= 2 PROVE q * BUF_SIZE >= 2 * BUF_SIZE
    BY <1>1, <1>2, <2>1
  <2> QED
    BY <1>1, <1>2, <2>1
<1>4. r = IF x < BUF_SIZE THEN x ELSE x - BUF_SIZE
  BY <1>1, <1>2, <1>3
<1> QED
  BY <1>4 DEF r

\* The bytes in use and the free space add up to the ring less the one byte kept free.
LEMMA UsedIs ==
  ASSUME NEW head \in Ring!Slot, NEW tail \in Ring!Slot
  PROVE  /\ Used(head, tail) \in 0 .. BUF_SIZE - 1
         /\ Ring!free_space(head, tail) = BUF_SIZE - 1 - Used(head, tail)
         /\ \A i \in 1 .. BUF_SIZE : At(tail, i) \in Ring!Slot
  BY RingConstants DEF Used, At, Ring!free_space

\* What comes behind the used part is found from the head on.
LEMMA AtHead ==
  ASSUME NEW tail \in 0 .. BUF_SIZE - 1, NEW head \in 0 .. BUF_SIZE - 1,
         NEW i \in Nat, 1 <= i, Used(head, tail) + i <= BUF_SIZE
  PROVE  At(tail, Used(head, tail) + i) = At(head, i)
  BY RingConstants DEF Used, At

\* memcpy.
LEMMA CopyIs ==
  ASSUME NEW b \in [Ring!Slot -> Byte], NEW at \in Nat, NEW s \in Seq(Byte)
  PROVE  /\ Ring!Copy(b, at, s) \in [Ring!Slot -> Byte]
         /\ \A i \in Ring!Slot :
              Ring!Copy(b, at, s)[i] = IF i >= at /\ i < at + Len(s) THEN s[i - at + 1] ELSE b[i]
<1>1. \A i \in Ring!Slot :
        (IF i >= at /\ i < at + Len(s) THEN s[i - at + 1] ELSE b[i]) \in Byte
  <2> SUFFICES ASSUME NEW i \in Ring!Slot, i >= at, i < at + Len(s) PROVE s[i - at + 1] \in Byte
    OBVIOUS
  <2>1. i - at + 1 \in 1 .. Len(s)
    BY RingConstants
  <2> QED
    BY <2>1
<1> QED
  BY <1>1 DEF Ring!Copy

\* Logger::ring_write: what was in the ring stays, what is written follows it.
LEMMA RingWrites ==
  ASSUME _tail \in Ring!Slot, NEW b \in [Ring!Slot -> Byte], NEW head \in Ring!Slot,
         NEW s \in Seq(Byte), NEW u, u = Used(head, _tail), NEW n, n = Len(s), u + n < BUF_SIZE,
         NEW w, w = Ring!ring_write([ok |-> TRUE, buf |-> b, head |-> head], s)
  PROVE  /\ w = [ok |-> TRUE, buf |-> w.buf, head |-> w.head]
         /\ w.buf \in [Ring!Slot -> Byte] /\ w.head \in Ring!Slot
         /\ Used(w.head, _tail) = u + n
         /\ \A i \in 1 .. u : w.buf[At(_tail, i)] = b[At(_tail, i)]
         /\ \A i \in 1 .. n : w.buf[At(_tail, u + i)] = s[i]
<1> DEFINE first == BUF_SIZE - head
<1>1. /\ BUF_SIZE \in Nat \ {0} /\ Ring!Slot = 0 .. BUF_SIZE - 1 /\ n \in Nat
      /\ head \in 0 .. BUF_SIZE - 1 /\ _tail \in 0 .. BUF_SIZE - 1 /\ u \in 0 .. BUF_SIZE - 1
      /\ first \in 1 .. BUF_SIZE /\ head + first = BUF_SIZE /\ head \in Nat
  BY RingConstants, UsedIs
<1>2. ~(n > Ring!free_space(head, _tail))
  BY <1>1, UsedIs
<1>3. \A i \in 1 .. BUF_SIZE : At(_tail, i) \in Ring!Slot
  BY UsedIs
<1>4. \/ head >= _tail /\ u = head - _tail
      \/ head < _tail /\ u = BUF_SIZE - _tail + head
  BY <1>1 DEF Used
<1>5. CASE head + n <= BUF_SIZE
  <2> DEFINE c == Ring!Copy(b, head, s)
             h == (head + n) % BUF_SIZE
  <2>1. w = [ok |-> TRUE, buf |-> c, head |-> h]
    BY <1>2, <1>5 DEF Ring!ring_write
  <2>2. h = IF head + n < BUF_SIZE THEN head + n ELSE 0
    <3>1. head + n \in 0 .. 2 * BUF_SIZE - 1
      BY <1>1, <1>5
    <3>2. h = IF head + n < BUF_SIZE THEN head + n ELSE head + n - BUF_SIZE
      <4> DEFINE x == head + n
      <4>1. x \in 0 .. 2 * BUF_SIZE - 1 /\ h = x % BUF_SIZE
        BY <3>1
      <4> HIDE DEF x, h
      <4>2. h = IF x < BUF_SIZE THEN x ELSE x - BUF_SIZE
        BY <4>1, Wrap
      <4> QED
        BY <1>1, <4>2 DEF x
    <3> HIDE DEF h
    <3> QED
      BY <1>1, <1>5, <3>2
  <2>3. /\ c \in [Ring!Slot -> Byte]
        /\ \A i \in Ring!Slot : c[i] = IF i >= head /\ i < head + Len(s) THEN s[i - head + 1] ELSE b[i]
    <3>1. head \in Nat
      BY <1>1
    <3> QED
      BY <3>1, CopyIs
  <2> HIDE DEF c, h
  <2>4. h \in Ring!Slot
    BY <1>1, <1>5, <2>2
  <2>5. Used(h, _tail) = u + n
    BY <1>1, <1>4, <1>5, <2>2 DEF Used
  <2>6. ASSUME NEW i \in 1 .. u PROVE c[At(_tail, i)] = b[At(_tail, i)]
    <3>1. ~(At(_tail, i) >= head /\ At(_tail, i) < head + n) /\ i \in 1 .. BUF_SIZE
      BY <1>1, <1>4, <1>5 DEF At
    <3> QED
      BY <1>3, <2>3, <3>1
  <2>7. ASSUME NEW i \in 1 .. n PROVE c[At(_tail, u + i)] = s[i]
    <3> DEFINE k == At(_tail, u + i)
    <3>1. u + i \in 1 .. BUF_SIZE /\ k = head + i - 1
      <4>1. u + i \in 1 .. BUF_SIZE /\ i \in Nat /\ 1 <= i
        BY <1>1
      <4>2. k = At(head, i)
        BY <1>1, <4>1, AtHead
      <4>3. At(head, i) = head + i - 1
        BY <1>1, <1>5, <4>1 DEF At
      <4> QED
        BY <4>1, <4>2, <4>3
    <3>0. k \in Ring!Slot
      BY <1>3, <3>1
    <3> HIDE DEF k
    <3>2. k \in Ring!Slot /\ k >= head /\ k < head + n /\ k - head + 1 = i
      BY <1>1, <3>0, <3>1
    <3>3. c[k] = s[i]
      BY <2>3, <3>2
    <3> QED
      BY <3>3 DEF k
  <2>8. w.buf = c /\ w.head = h
    BY <2>1
  <2> QED
    BY <2>1, <2>3, <2>4, <2>5, <2>6, <2>7, <2>8
<1>6. CASE ~(head + n <= BUF_SIZE)
  <2> DEFINE s1 == SubSeq(s, 1, first)
             s2 == SubSeq(s, first + 1, n)
             d == Ring!Copy(b, head, s1)
             c == Ring!Copy(d, 0, s2)
             h == n - first
  <2>1. w = [ok |-> TRUE, buf |-> c, head |-> h]
    BY <1>2, <1>6 DEF Ring!ring_write
  <2>2. first < n /\ h \in Nat /\ h = n - first
    BY <1>1, <1>6
  <2>3. /\ s1 \in Seq(Byte) /\ Len(s1) = first
        /\ \A i \in 1 .. first : s1[i] = s[i]
    <3>1. first <= n
      BY <1>1, <2>2
    <3> HIDE DEF first
    <3> QED
      BY <1>1, <3>1
  <2>4. /\ s2 \in Seq(Byte) /\ Len(s2) = n - first
        /\ \A i \in 1 .. n - first : s2[i] = s[first + i]
    <3>1. first <= n
      BY <1>1, <2>2
    <3> HIDE DEF first
    <3> QED
      BY <1>1, <3>1
  <2> HIDE DEF s1, s2, first, h
  <2>5. /\ d \in [Ring!Slot -> Byte]
        /\ \A i \in Ring!Slot : d[i] = IF i >= head /\ i < head + Len(s1) THEN s1[i - head + 1] ELSE b[i]
    <3>1. head \in Nat
      BY <1>1
    <3> QED
      BY <2>3, <3>1, CopyIs
  <2> HIDE DEF d
  <2>6. /\ c \in [Ring!Slot -> Byte]
        /\ \A i \in Ring!Slot : c[i] = IF i >= 0 /\ i < 0 + Len(s2) THEN s2[i - 0 + 1] ELSE d[i]
    BY <2>4, <2>5, CopyIs
  <2> HIDE DEF c
  <2>7. h \in Ring!Slot /\ Used(h, _tail) = u + n
    <3>1. CASE head >= _tail
      BY <1>1, <1>4, <1>6, <2>2, <3>1 DEF Used
    <3>2. CASE head < _tail
      BY <1>1, <1>4, <1>6, <2>2, <3>2 DEF Used
    <3>3. head >= _tail \/ head < _tail
      BY <1>1
    <3> QED
      BY <3>1, <3>2, <3>3
  <2>8. ASSUME NEW i \in 1 .. u PROVE c[At(_tail, i)] = b[At(_tail, i)]
    <3> DEFINE k == At(_tail, i)
    <3>1. k < head /\ k >= n - first /\ i \in 1 .. BUF_SIZE
      BY <1>1, <1>4, <1>6, <2>2 DEF At
    <3>2. k \in Ring!Slot
      BY <1>3, <3>1
    <3> HIDE DEF k
    <3>3. c[k] = d[k]
      BY <1>1, <2>2, <2>4, <2>6, <3>1, <3>2
    <3>4. d[k] = b[k]
      BY <1>1, <2>5, <3>1, <3>2
    <3> QED
      BY <3>3, <3>4 DEF k
  <2>9. ASSUME NEW i \in 1 .. n PROVE c[At(_tail, u + i)] = s[i]
    <3> DEFINE k == At(_tail, u + i)
    <3>1. k = (IF i <= first THEN head + i - 1 ELSE i - first - 1) /\ u + i \in 1 .. BUF_SIZE
      <4>1. u + i \in 1 .. BUF_SIZE /\ i \in Nat /\ 1 <= i
        BY <1>1
      <4>2. k = At(head, i)
        BY <1>1, <4>1, AtHead
      <4>3. At(head, i) = IF i <= first THEN head + i - 1 ELSE i - first - 1
        BY <1>1, <4>1 DEF At, first
      <4> QED
        BY <4>1, <4>2, <4>3
    <3>2. k \in Ring!Slot
      BY <1>3, <3>1
    <3> HIDE DEF k
    <3>3. CASE i <= first
      <4>1. k - head + 1 = i /\ k >= head /\ k < head + first /\ ~(k < n - first)
        BY <1>1, <1>4, <1>6, <2>2, <3>1, <3>3
      <4>2. c[k] = d[k]
        BY <1>1, <2>2, <2>4, <2>6, <3>2, <4>1
      <4>3. d[k] = s1[i]
        BY <1>1, <2>3, <2>5, <3>2, <4>1
      <4> QED
        BY <2>3, <3>3, <4>2, <4>3 DEF k
    <3>4. CASE i > first
      <4>1. k >= 0 /\ k < n - first /\ k - 0 + 1 = i - first /\ i - first \in 1 .. n - first
            /\ first + (i - first) = i
        BY <1>1, <2>2, <3>1, <3>4
      <4>2. c[k] = s2[k - 0 + 1]
        BY <1>1, <2>2, <2>4, <2>6, <3>2, <4>1
      <4> QED
        BY <2>4, <4>1, <4>2 DEF k
    <3> QED
      BY <1>1, <3>3, <3>4
  <2>10. w.buf = c /\ w.head = h
    BY <2>1
  <2> QED
    BY <2>1, <2>6, <2>7, <2>8, <2>9, <2>10
<1> QED
  BY <1>5, <1>6

\* Logger::write: header and body follow what was in the ring.
LEMMA LoggerWrites ==
  ASSUME _tail \in Ring!Slot, _head \in Ring!Slot, _buf \in [Ring!Slot -> Byte],
         NEW s \in Seq(Byte), NEW u, u = Used(_head, _tail), NEW n, n = Len(s),
         HDR <= n, u + n < BUF_SIZE, NEW w, w = Ring!logger_write(s)
  PROVE  /\ w.buf \in [Ring!Slot -> Byte] /\ w.head \in Ring!Slot
         /\ Used(w.head, _tail) = u + n
         /\ \A i \in 1 .. u : w.buf[At(_tail, i)] = _buf[At(_tail, i)]
         /\ \A i \in 1 .. n : w.buf[At(_tail, u + i)] = s[i]
<1> DEFINE s1 == SubSeq(s, 1, HDR)
           s2 == SubSeq(s, HDR + 1, n)
           h == Ring!ring_write([ok |-> TRUE, buf |-> _buf, head |-> _head], s1)
           v == Ring!ring_write([ok |-> TRUE, buf |-> h.buf, head |-> h.head], s2)
<1>1. HDR \in Nat /\ n \in Nat /\ u \in Nat /\ BUF_SIZE \in Nat
  BY RingConstants, UsedIs
<1>2. /\ s1 \in Seq(Byte) /\ Len(s1) = HDR /\ \A i \in 1 .. HDR : s1[i] = s[i]
      /\ s2 \in Seq(Byte) /\ Len(s2) = n - HDR /\ \A i \in 1 .. n - HDR : s2[i] = s[HDR + i]
  BY <1>1
<1> HIDE DEF s1, s2
<1>3. u + HDR < BUF_SIZE /\ (u + HDR) + (n - HDR) < BUF_SIZE /\ (u + HDR) + (n - HDR) = u + n
  BY <1>1
<1>h. h = Ring!ring_write([ok |-> TRUE, buf |-> _buf, head |-> _head], s1)
  OBVIOUS
<1> HIDE DEF h
<1>4. /\ h = [ok |-> TRUE, buf |-> h.buf, head |-> h.head]
      /\ h.buf \in [Ring!Slot -> Byte] /\ h.head \in Ring!Slot
      /\ Used(h.head, _tail) = u + HDR
      /\ \A i \in 1 .. u : h.buf[At(_tail, i)] = _buf[At(_tail, i)]
      /\ \A i \in 1 .. HDR : h.buf[At(_tail, u + i)] = s1[i]
  <2>1. s1 \in Seq(Byte) /\ HDR = Len(s1) /\ u + HDR < BUF_SIZE
    BY <1>2, <1>3
  <2>2. h = [ok |-> TRUE, buf |-> h.buf, head |-> h.head]
    <3>1. ~(Len(s1) > Ring!free_space(_head, _tail))
      <4>1. Ring!free_space(_head, _tail) = BUF_SIZE - 1 - u
        BY UsedIs
      <4> QED
        BY <1>1, <2>1, <4>1
    <3>2. \E b, at : h = [ok |-> TRUE, buf |-> b, head |-> at]
      BY <1>h, <3>1 DEF Ring!ring_write
    <3> QED
      BY <3>2
  <2>3. /\ h.buf \in [Ring!Slot -> Byte] /\ h.head \in Ring!Slot
        /\ Used(h.head, _tail) = u + HDR
        /\ \A i \in 1 .. u : h.buf[At(_tail, i)] = _buf[At(_tail, i)]
        /\ \A i \in 1 .. HDR : h.buf[At(_tail, u + i)] = s1[i]
    BY <1>h, <2>1, RingWrites
  <2> QED
    BY <2>2, <2>3
<1>5. /\ v.buf \in [Ring!Slot -> Byte] /\ v.head \in Ring!Slot
      /\ Used(v.head, _tail) = (u + HDR) + (n - HDR)
      /\ \A i \in 1 .. u + HDR : v.buf[At(_tail, i)] = h.buf[At(_tail, i)]
      /\ \A i \in 1 .. n - HDR : v.buf[At(_tail, (u + HDR) + i)] = s2[i]
  BY <1>2, <1>3, <1>4, RingWrites
<1>6. w = v
  <2>1. h.ok
    BY <1>4
  <2>2. w = IF h.ok THEN Ring!ring_write(h, s2) ELSE h
    BY DEF Ring!logger_write, h, s1, s2
  <2> QED
    BY <1>4, <2>1, <2>2
<1> HIDE DEF v
<1>7. ASSUME NEW i \in 1 .. u PROVE w.buf[At(_tail, i)] = _buf[At(_tail, i)]
  BY <1>1, <1>4, <1>5, <1>6
<1>8. ASSUME NEW i \in 1 .. n PROVE w.buf[At(_tail, u + i)] = s[i]
  <2>1. CASE i <= HDR
    <3>1. u + i \in 1 .. u + HDR /\ i \in 1 .. HDR
      BY <1>1, <2>1
    <3> QED
      BY <1>2, <1>4, <1>5, <1>6, <3>1
  <2>2. CASE i > HDR
    <3>1. i - HDR \in 1 .. n - HDR /\ (u + HDR) + (i - HDR) = u + i /\ HDR + (i - HDR) = i
      BY <1>1, <2>2
    <3> DEFINE k == i - HDR
    <3>2. v.buf[At(_tail, (u + HDR) + k)] = s2[k] /\ s2[k] = s[HDR + k]
      BY <1>2, <1>5, <3>1
    <3> QED
      BY <1>6, <3>1, <3>2
  <2> QED
    BY <1>1, <2>1, <2>2
<1> QED
  BY <1>3, <1>5, <1>6, <1>7, <1>8

\* Logger::ring_read of all there is: oldest first, and the ring is empty.
LEMMA RingReads ==
  ASSUME _tail \in Ring!Slot, _head \in Ring!Slot, _buf \in [Ring!Slot -> Byte],
         NEW u, u = Used(_head, _tail), NEW chunk \in Nat, u <= chunk,
         NEW r, r = Ring!ring_read(chunk)
  PROVE  /\ r.out \in Seq(Byte) /\ Len(r.out) = u /\ r.tail = _head
         /\ \A i \in 1 .. u : r.out[i] = _buf[At(_tail, i)]
<1> DEFINE first == BUF_SIZE - _tail
<1>1. /\ BUF_SIZE \in Nat \ {0} /\ Ring!Slot = 0 .. BUF_SIZE - 1
      /\ _head \in 0 .. BUF_SIZE - 1 /\ _tail \in 0 .. BUF_SIZE - 1 /\ u \in 0 .. BUF_SIZE - 1
      /\ first \in 1 .. BUF_SIZE
  BY RingConstants, UsedIs
<1>2. Ring!avail = u
  BY DEF Ring!avail, Used
<1>3. (IF u < chunk THEN u ELSE chunk) = u
  BY <1>1
<1>4. ASSUME NEW at \in Nat, NEW n \in Nat, at + n <= BUF_SIZE
      PROVE  /\ Ring!Bytes(at, n) \in Seq(Byte) /\ Len(Ring!Bytes(at, n)) = n
             /\ \A i \in 1 .. n : Ring!Bytes(at, n)[i] = _buf[at + i - 1]
  <2>1. \A i \in 1 .. n : at + i - 1 \in Ring!Slot
    BY <1>1, <1>4
  <2>2. \A i \in 1 .. n : _buf[at + i - 1] \in Byte
    BY <2>1
  <2> QED
    BY <2>2 DEF Ring!Bytes
<1>5. CASE _tail + u <= BUF_SIZE
  <2> DEFINE o == Ring!Bytes(_tail, u)
             t == (_tail + u) % BUF_SIZE
  <2>1. r = [out |-> o, tail |-> t]
    BY <1>2, <1>3, <1>5 DEF Ring!ring_read
  <2>2. o \in Seq(Byte) /\ Len(o) = u /\ \A i \in 1 .. u : o[i] = _buf[_tail + i - 1]
    BY <1>1, <1>4, <1>5
  <2>3. t = _head
    <3> DEFINE x == _tail + u
    <3>0. u = IF _head >= _tail THEN _head - _tail ELSE BUF_SIZE - _tail + _head
      BY DEF Used
    <3>1. x \in 0 .. 2 * BUF_SIZE - 1 /\ (x = _head \/ (x = BUF_SIZE /\ _head = 0))
      <4>1. CASE _head >= _tail
        BY <1>1, <3>0, <4>1
      <4>2. CASE _head < _tail
        <5>1. x = BUF_SIZE + _head
          BY <1>1, <3>0, <4>2
        <5> QED
          BY <1>1, <1>5, <5>1
      <4> QED
        BY <1>1, <4>1, <4>2
    <3>2. t = x % BUF_SIZE
      OBVIOUS
    <3> HIDE DEF x, t
    <3>3. t = IF x < BUF_SIZE THEN x ELSE x - BUF_SIZE
      BY <3>1, <3>2, Wrap
    <3> QED
      BY <1>1, <3>1, <3>3
  <2>4. \A i \in 1 .. u : At(_tail, i) = _tail + i - 1
    BY <1>1, <1>5 DEF At
  <2> HIDE DEF o, t
  <2> QED
    BY <2>1, <2>2, <2>3, <2>4
<1>6. CASE ~(_tail + u <= BUF_SIZE)
  <2> DEFINE o1 == Ring!Bytes(_tail, first)
             o2 == Ring!Bytes(0, u - first)
             o == o1 \o o2
  <2>1. r = [out |-> o, tail |-> u - first]
    BY <1>2, <1>3, <1>6 DEF Ring!ring_read
  <2>2. first < u /\ u - first \in Nat /\ u - first = _head
    BY <1>1, <1>6 DEF Used
  <2>3. /\ o1 \in Seq(Byte) /\ Len(o1) = first /\ \A i \in 1 .. first : o1[i] = _buf[_tail + i - 1]
    <3>1. _tail \in Nat /\ first \in Nat /\ _tail + first <= BUF_SIZE
      BY <1>1
    <3> HIDE DEF first
    <3> QED
      BY <1>4, <3>1
  <2>4. /\ o2 \in Seq(Byte) /\ Len(o2) = u - first
        /\ \A i \in 1 .. u - first : o2[i] = _buf[0 + i - 1]
    <3>1. 0 + (u - first) <= BUF_SIZE
      BY <1>1, <2>2
    <3> DEFINE n == u - first
    <3>2. n \in Nat /\ 0 + n <= BUF_SIZE
      BY <2>2, <3>1
    <3> HIDE DEF n
    <3>3. /\ Ring!Bytes(0, n) \in Seq(Byte) /\ Len(Ring!Bytes(0, n)) = n
          /\ \A i \in 1 .. n : Ring!Bytes(0, n)[i] = _buf[0 + i - 1]
      BY <1>4, <3>2
    <3> QED
      BY <3>3 DEF n
  <2> HIDE DEF o1, o2
  <2>5. /\ o \in Seq(Byte) /\ Len(o) = first + (u - first)
        /\ \A i \in 1 .. first + (u - first) : o[i] = IF i <= first THEN o1[i] ELSE o2[i - first]
    <3>1. /\ o \in Seq(Byte) /\ Len(o) = Len(o1) + Len(o2)
          /\ \A i \in 1 .. Len(o1) + Len(o2) : o[i] = IF i <= Len(o1) THEN o1[i] ELSE o2[i - Len(o1)]
      BY <2>3, <2>4, ConcatProperties
    <3> HIDE DEF o, first
    <3> QED
      BY <2>3, <2>4, <3>1
  <2> HIDE DEF o
  <2>6. ASSUME NEW i \in 1 .. u PROVE o[i] = _buf[At(_tail, i)]
    <3>1. CASE i <= first
      <4>1. At(_tail, i) = _tail + i - 1
        BY <1>1, <3>1 DEF At
      <4>2. i \in 1 .. first /\ i \in 1 .. first + (u - first)
        BY <1>1, <2>2, <3>1
      <4>3. o[i] = o1[i]
        BY <2>5, <3>1, <4>2
      <4>4. o1[i] = _buf[_tail + i - 1]
        BY <2>3, <4>2
      <4> QED
        BY <4>1, <4>3, <4>4
    <3>2. CASE i > first
      <4>1. At(_tail, i) = 0 + (i - first) - 1
        BY <1>1, <3>2 DEF At
      <4>2. i - first \in 1 .. u - first /\ i \in 1 .. first + (u - first)
        BY <1>1, <2>2, <3>2
      <4>3. o[i] = o2[i - first]
        BY <1>1, <2>5, <3>2, <4>2
      <4>4. o2[i - first] = _buf[0 + (i - first) - 1]
        BY <2>4, <4>2
      <4> QED
        BY <4>1, <4>3, <4>4
    <3> QED
      BY <1>1, <3>1, <3>2
  <2>7. Len(o) = u
    BY <1>1, <2>2, <2>5
  <2> QED
    BY <2>1, <2>2, <2>5, <2>6, <2>7
<1> QED
  BY <1>5, <1>6

\* The bytes that have left the ring; it holds the rest of the stream.
Taken == Len(stream) - Used(_head, _tail)

Held(b, head, tail, s) ==
  /\ Used(head, tail) <= Len(s)
  /\ \A i \in 1 .. Used(head, tail) : b[At(tail, i)] = s[(Len(s) - Used(head, tail)) + i]

\* File f is drawn from the first t bytes of stream s, at the positions g: in
\* order, and behind a gap from a record's first byte on.
Drawn(f, g, s, e, t) ==
  /\ \A i \in 1 .. Len(f) : g[i] \in 1 .. t /\ f[i] = s[g[i]]
  /\ \A i \in 2 .. Len(f) : g[i - 1] < g[i]
  /\ \A i \in 1 .. Len(f) : g[i] = (IF i = 1 THEN 0 ELSE g[i - 1]) + 1 \/ g[i] - 1 \in e

\* What is in the ring before the next record of the pass: the records before
\* it, and in the first pass the schema.
Waiting(n, p) == Ring!End(Pass, n - 1) + (IF p = 0 THEN Ring!Size(Schema) ELSE 0)

RingInv ==
  /\ _buf \in [Ring!Slot -> Byte] /\ _head \in Ring!Slot /\ _tail \in Ring!Slot
  /\ next \in 1 .. Len(Pass) + 1 /\ passes \in Nat /\ count \in Nat
  /\ file \in Seq(Byte) /\ stream \in Seq(Byte) /\ from \in Seq(Nat) /\ Len(from) = Len(file)
  /\ Held(_buf, _head, _tail, stream)
  /\ Drawn(file, from, stream, ends, Taken)
  /\ ring_open => Used(_head, _tail) = Waiting(next, passes)
  /\ Len(stream) \in ends /\ Taken \in ends
  /\ full => fills # 0
  /\ fills \in Nat
  /\ fills = 0 => /\ \A i \in 1 .. Len(file) : from[i] = i
                  /\ ring_open => Len(file) = Taken
                  /\ synced \in ends /\ synced \in 0 .. Len(file)

\* The numbers of RingInv.
LEMMA RingNumbers ==
  ASSUME RingInv
  PROVE  /\ Used(_head, _tail) \in Nat /\ Used(_head, _tail) < BUF_SIZE /\ BUF_SIZE \in Nat \ {0}
         /\ Len(stream) \in Nat /\ Len(file) \in Nat /\ Taken \in Nat
         /\ Len(stream) = Taken + Used(_head, _tail)
         /\ \A i \in 1 .. Used(_head, _tail) : _buf[At(_tail, i)] = stream[Taken + i]
<1> DEFINE u == Used(_head, _tail)
<1>1. /\ u \in 0 .. BUF_SIZE - 1 /\ BUF_SIZE \in Nat \ {0}
      /\ Len(stream) \in Nat /\ Len(file) \in Nat /\ u <= Len(stream) /\ Taken = Len(stream) - u
      /\ \A i \in 1 .. u : _buf[At(_tail, i)] = stream[(Len(stream) - u) + i]
  BY UsedIs, RingConstants DEF RingInv, Held, Taken
<1> HIDE DEF u
<1>2. /\ u \in Nat /\ u < BUF_SIZE /\ Taken \in Nat /\ Len(stream) = Taken + u
      /\ \A i \in 1 .. u : _buf[At(_tail, i)] = stream[Taken + i]
  BY <1>1
<1> QED
  BY <1>1, <1>2 DEF u

\* The bytes of a record.
LEMMA RecordIs ==
  ASSUME NEW r \in Nat, NEW n \in Nat
  PROVE  Ring!Record(r, n) \in Seq(Byte) /\ Len(Ring!Record(r, n)) = n
<1>1. \A i \in 1 .. n : <<r, i>> \in Byte
  BY DEF Byte
<1> QED
  BY <1>1 DEF Ring!Record

\* The records of a pass follow each other and never outgrow the ring or a flush.
LEMMA PassFits ==
  ASSUME NEW n \in 1 .. Len(Pass) + 1, NEW p \in Nat
  PROVE  /\ Waiting(n, p) \in Nat /\ Waiting(n, p) <= FLUSH_CHUNK /\ Waiting(n, p) < BUF_SIZE
         /\ n <= Len(Pass) =>
              /\ Ring!End(Pass, n) - Ring!End(Pass, n - 1) \in Nat
              /\ HDR <= Ring!End(Pass, n) - Ring!End(Pass, n - 1)
              /\ Waiting(n, p) + (Ring!End(Pass, n) - Ring!End(Pass, n - 1)) = Waiting(n + 1, p)
              /\ Waiting(n + 1, p) < BUF_SIZE
<1> DEFINE E(k) == Ring!End(Pass, k)
           S == Ring!Size(Schema)
<1>1. /\ \A k \in 0 .. Len(Pass) : E(k) \in Nat
      /\ S \in Nat /\ E(Len(Pass)) \in Nat /\ HDR \in Nat /\ Len(Pass) \in Nat
      /\ BUF_SIZE \in Nat /\ FLUSH_CHUNK \in Nat
  BY RingConstants
<1>2. \A j, k \in 0 .. Len(Pass) : j < k => E(j) + HDR <= E(k)
  BY RingAssumption DEF Ring!SizesAssumption
<1>3. S + E(Len(Pass)) < BUF_SIZE /\ S + E(Len(Pass)) <= FLUSH_CHUNK
  BY RingAssumption DEF Ring!RatesFit, Ring!Size
<1>4. \A m \in 1 .. Len(Pass) + 1 : Waiting(m, p) = E(m - 1) + IF p = 0 THEN S ELSE 0
  BY DEF Waiting
<1> HIDE DEF E, S
<1>5. ASSUME NEW m \in 1 .. Len(Pass) + 1
      PROVE  Waiting(m, p) \in Nat /\ Waiting(m, p) <= FLUSH_CHUNK /\ Waiting(m, p) < BUF_SIZE
  <2> DEFINE k == m - 1
  <2>1. k \in 0 .. Len(Pass)
    BY <1>1
  <2>2. E(k) \in Nat /\ E(k) <= E(Len(Pass))
    BY <1>1, <1>2, <2>1
  <2>3. Waiting(m, p) = E(k) + IF p = 0 THEN S ELSE 0
    BY <1>4
  <2> HIDE DEF k
  <2> QED
    BY <1>1, <1>3, <2>2, <2>3
<1>6. ASSUME n <= Len(Pass)
      PROVE  /\ E(n) - E(n - 1) \in Nat /\ HDR <= E(n) - E(n - 1)
             /\ Waiting(n, p) + (E(n) - E(n - 1)) = Waiting(n + 1, p)
             /\ Waiting(n + 1, p) < BUF_SIZE
  <2> DEFINE k == n - 1
  <2>1. k \in 0 .. Len(Pass) /\ n \in 0 .. Len(Pass) /\ k < n /\ n + 1 \in 1 .. Len(Pass) + 1
        /\ (n + 1) - 1 = n
    BY <1>1, <1>6
  <2>2. E(k) \in Nat /\ E(n) \in Nat /\ E(k) + HDR <= E(n)
    BY <1>1, <1>2, <2>1
  <2>3. Waiting(n, p) = E(k) + IF p = 0 THEN S ELSE 0
    BY <1>4
  <2>4. Waiting(n + 1, p) = E(n) + IF p = 0 THEN S ELSE 0
    BY <1>4, <2>1
  <2>5. Waiting(n + 1, p) < BUF_SIZE
    BY <1>5, <2>1
  <2>6. E(k) = E(n - 1)
    OBVIOUS
  <2> DEFINE q == IF p = 0 THEN S ELSE 0
  <2>7. q \in Nat
    BY <1>1
  <2> HIDE DEF k, q
  <2>8. /\ E(n) - E(k) \in Nat /\ HDR <= E(n) - E(k)
        /\ (E(k) + q) + (E(n) - E(k)) = E(n) + q
    BY <1>1, <2>2, <2>7
  <2>9. Waiting(n, p) + (E(n) - E(k)) = Waiting(n + 1, p)
    BY <2>3, <2>4, <2>8 DEF q
  <2> QED
    BY <2>5, <2>6, <2>8, <2>9
<1> QED
  BY <1>5, <1>6 DEF E

\* A longer stream with more records leaves a file drawn from its beginning.
LEMMA DrawnKept ==
  ASSUME NEW f, NEW g, NEW s, NEW e, NEW t, Drawn(f, g, s, e, t),
         NEW s2, \A i \in 1 .. t : s2[i] = s[i], NEW e2, e \subseteq e2
  PROVE  Drawn(f, g, s2, e2, t)
  BY DEF Drawn

\* A write extends the ring and the stream alike.
LEMMA Extended ==
  ASSUME RingInv, NEW s \in Seq(Byte), HDR <= Len(s),
         Used(_head, _tail) + Len(s) < BUF_SIZE,
         NEW w, w = Ring!logger_write(s), NEW st, st = stream \o s
  PROVE  /\ w.buf \in [Ring!Slot -> Byte] /\ w.head \in Ring!Slot
         /\ Used(w.head, _tail) = Used(_head, _tail) + Len(s)
         /\ st \in Seq(Byte) /\ Len(st) = Len(stream) + Len(s)
         /\ Len(st) - Used(w.head, _tail) = Taken /\ \A i \in 1 .. Taken : st[i] = stream[i]
         /\ Held(w.buf, w.head, _tail, st)
<1> DEFINE u == Used(_head, _tail)
           n == Len(s)
<1>1. /\ w.buf \in [Ring!Slot -> Byte] /\ w.head \in Ring!Slot
      /\ Used(w.head, _tail) = u + n
      /\ \A i \in 1 .. u : w.buf[At(_tail, i)] = _buf[At(_tail, i)]
      /\ \A i \in 1 .. n : w.buf[At(_tail, u + i)] = s[i]
  <2>1. /\ _tail \in Ring!Slot /\ _head \in Ring!Slot /\ _buf \in [Ring!Slot -> Byte]
        /\ u = Used(_head, _tail) /\ n = Len(s) /\ HDR <= n /\ u + n < BUF_SIZE
    BY DEF RingInv
  <2> HIDE DEF u, n
  <2> QED
    BY <2>1, LoggerWrites
<1>2. /\ st \in Seq(Byte) /\ Len(st) = Len(stream) + n
      /\ \A i \in 1 .. Len(stream) + n :
           st[i] = IF i <= Len(stream) THEN stream[i] ELSE s[i - Len(stream)]
  BY ConcatProperties DEF RingInv
<1>3. /\ u \in Nat /\ n \in Nat /\ Len(stream) \in Nat /\ Taken \in Nat /\ Len(stream) = Taken + u
      /\ \A i \in 1 .. u : _buf[At(_tail, i)] = stream[Taken + i]
  BY RingNumbers
<1> HIDE DEF u, n
<1>4. Len(st) - (u + n) = Taken /\ u + n <= Len(st)
  BY <1>2, <1>3
<1>5. ASSUME NEW i \in 1 .. u + n PROVE w.buf[At(_tail, i)] = st[Taken + i]
  <2>1. CASE i <= u
    <3>1. i \in 1 .. u /\ Taken + i \in 1 .. Len(stream) + n /\ Taken + i <= Len(stream)
      BY <1>3, <2>1
    <3> QED
      BY <1>1, <1>2, <1>3, <3>1
  <2>2. CASE i > u
    <3> DEFINE k == i - u
    <3>1. /\ k \in 1 .. n /\ u + k = i /\ Taken + i \in 1 .. Len(stream) + n
          /\ ~(Taken + i <= Len(stream)) /\ (Taken + i) - Len(stream) = k
      BY <1>3, <2>2
    <3> HIDE DEF k
    <3>2. w.buf[At(_tail, i)] = s[k]
      BY <1>1, <3>1
    <3>3. st[Taken + i] = s[(Taken + i) - Len(stream)]
      BY <1>2, <3>1
    <3> QED
      BY <3>1, <3>2, <3>3
  <2>3. i <= u \/ i > u
    BY <1>3
  <2> QED
    BY <2>1, <2>2, <2>3
<1>6. Held(w.buf, w.head, _tail, st)
  BY <1>1, <1>4, <1>5 DEF Held
<1>7. ASSUME NEW i \in 1 .. Taken PROVE st[i] = stream[i]
  <2>1. i \in 1 .. Len(stream) + n /\ i <= Len(stream)
    BY <1>3
  <2> QED
    BY <1>2, <2>1
<1> QED
  BY <1>1, <1>2, <1>4, <1>6, <1>7 DEF u, n

\* The next k bytes of the stream, appended to the file, with their positions.
LEMMA DrawnMore ==
  ASSUME RingInv, NEW k \in 0 .. Used(_head, _tail),
         NEW q \in Seq(Byte), Len(q) = k, \A i \in 1 .. k : q[i] = stream[Taken + i],
         NEW h, h = [i \in 1 .. k |-> Taken + i]
  PROVE  /\ file \o q \in Seq(Byte) /\ from \o h \in Seq(Nat)
         /\ Len(file \o q) = Len(file) + k /\ Len(from \o h) = Len(file) + k
         /\ Drawn(file \o q, from \o h, stream, ends, Taken + Used(_head, _tail))
         /\ Len(file) = Taken /\ (\A i \in 1 .. Len(file) : from[i] = i) =>
              \A i \in 1 .. Len(file) + k : (from \o h)[i] = i
<1> DEFINE f == file
           g == from
           s == stream
           e == ends
           t == Taken
           u == Used(_head, _tail)
           f2 == f \o q
           g2 == g \o h
           m == Len(f)
<1>0. /\ f \in Seq(Byte) /\ g \in Seq(Nat) /\ Len(g) = Len(f) /\ t \in Nat /\ t \in e
      /\ Drawn(f, g, s, e, t) /\ u \in Nat /\ k \in 0 .. u
      /\ h = [i \in 1 .. k |-> t + i] /\ \A i \in 1 .. k : q[i] = s[t + i]
      /\ f2 = f \o q /\ g2 = g \o h
  BY RingNumbers DEF RingInv
<1> HIDE DEF f, g, s, e, t, u, f2, g2
<1>1. m \in Nat /\ k \in Nat /\ k <= u /\ t \in Nat /\ u \in Nat /\ t + u \in Nat
  BY <1>0
<1>2. h \in Seq(Nat) /\ Len(h) = k /\ \A i \in 1 .. k : h[i] = t + i
  <2>1. \A i \in 1 .. k : t + i \in Nat
    BY <1>1
  <2> QED
    BY ONLY <1>0, <1>1, <2>1
<1>3. /\ f2 \in Seq(Byte) /\ Len(f2) = m + k
      /\ \A i \in 1 .. m + k : f2[i] = IF i <= m THEN f[i] ELSE q[i - m]
  BY <1>0, ConcatProperties
<1>4. /\ g2 \in Seq(Nat) /\ Len(g2) = m + k
      /\ \A i \in 1 .. m + k : g2[i] = IF i <= m THEN g[i] ELSE h[i - m]
  <2>1. g \in Seq(Nat) /\ Len(g) = m /\ g2 = g \o h
    BY <1>0
  <2> HIDE DEF m
  <2> QED
    BY ONLY <1>2, <2>1, ConcatProperties
<1>5. /\ \A i \in 1 .. m : g[i] \in 1 .. t /\ f[i] = s[g[i]]
      /\ \A i \in 2 .. m : g[i - 1] < g[i]
      /\ \A i \in 1 .. m : g[i] = (IF i = 1 THEN 0 ELSE g[i - 1]) + 1 \/ g[i] - 1 \in e
  BY <1>0 DEF Drawn
<1> HIDE DEF m
<1>6. ASSUME NEW i \in 1 .. m PROVE f2[i] = f[i] /\ g2[i] = g[i]
  <2>1. i \in 1 .. m + k /\ i <= m
    BY ONLY <1>1, i \in 1 .. m
  <2> QED
    BY ONLY <1>3, <1>4, <2>1
<1>7. ASSUME NEW i \in 1 .. m + k, i > m PROVE f2[i] = s[t + (i - m)] /\ g2[i] = t + (i - m)
  <2> DEFINE j == i - m
  <2>1. j \in 1 .. k /\ ~(i <= m)
    BY <1>1, <1>7
  <2>2. f2[i] = q[j] /\ g2[i] = h[j]
    BY <1>3, <1>4, <2>1
  <2> HIDE DEF j
  <2>3. f2[i] = s[t + j] /\ g2[i] = t + j
    BY <1>0, <1>2, <2>1, <2>2
  <2> QED
    BY <2>3 DEF j
<1>8. \A i \in 1 .. m + k : i \in 1 .. m \/ i > m
  BY <1>1
<1>9. ASSUME NEW i \in 1 .. m + k PROVE g2[i] \in 1 .. t + u /\ f2[i] = s[g2[i]]
  <2>1. CASE i \in 1 .. m
    <3>1. g2[i] = g[i] /\ f2[i] = f[i] /\ g[i] \in 1 .. t /\ f[i] = s[g[i]]
      BY <1>5, <1>6, <2>1
    <3>2. 1 .. t \subseteq 1 .. t + u
      BY ONLY <1>1
    <3> QED
      BY ONLY <3>1, <3>2
  <2>2. CASE i > m
    <3>1. g2[i] = t + (i - m) /\ f2[i] = s[t + (i - m)]
      BY <1>7, <2>2
    <3>2. t + (i - m) \in 1 .. t + u
      BY ONLY <1>1, <2>2, i \in 1 .. m + k
    <3> QED
      BY ONLY <3>1, <3>2
  <2> QED
    BY <1>8, <2>1, <2>2
<1>10. ASSUME NEW i \in 2 .. m + k PROVE g2[i - 1] < g2[i]
  <2> DEFINE j == i - 1
  <2>1. j \in 1 .. m + k /\ i \in 1 .. m + k /\ j + 1 = i
    BY <1>1
  <2>x. g2[i - 1] = g2[j]
    OBVIOUS
  <2>y. i \in 1 .. m => g[i - 1] = g[j]
    OBVIOUS
  <2> HIDE DEF j
  <2>2. CASE i \in 1 .. m
    <3>1. j \in 1 .. m /\ i \in 2 .. m
      BY <1>1, <2>1, <2>2
    <3>2. g2[j] = g[j] /\ g2[i] = g[i] /\ g[i - 1] < g[i]
      BY <1>5, <1>6, <2>2, <3>1
    <3> QED
      BY ONLY <2>2, <2>x, <2>y, <3>2
  <2>3. CASE i > m /\ j > m
    <3>1. g2[i] = t + (i - m) /\ g2[j] = t + (j - m)
      BY <1>7, <2>1, <2>3
    <3>2. t + (j - m) < t + (i - m)
      BY ONLY <1>1, <2>1
    <3> QED
      BY ONLY <2>x, <3>1, <3>2
  <2>4. CASE i > m /\ j \in 1 .. m
    <3>1. g2[i] = t + (i - m) /\ g2[j] = g[j] /\ g[j] \in 1 .. t
      BY <1>5, <1>6, <1>7, <2>1, <2>4
    <3>2. \A x \in 1 .. t : x < t + (i - m)
      BY ONLY <1>1, <2>1, <2>4
    <3> QED
      BY ONLY <2>x, <3>1, <3>2
  <2> QED
    BY <1>8, <2>1, <2>2, <2>3, <2>4
<1>11. ASSUME NEW i \in 1 .. m + k
       PROVE  g2[i] = (IF i = 1 THEN 0 ELSE g2[i - 1]) + 1 \/ g2[i] - 1 \in e
  <2> DEFINE j == i - 1
  <2>x. g2[i - 1] = g2[j] /\ g[i - 1] = g[j] /\ j + 1 = i /\ j \in Int /\ i \in 1 .. m + k
    BY <1>1
  <2> HIDE DEF j
  <2>1. CASE i \in 1 .. m
    <3>1. i = 1 \/ j \in 1 .. m
      BY ONLY <1>1, <2>1, <2>x
    <3>2. g2[i] = g[i] /\ (i = 1 \/ g2[i - 1] = g[i - 1])
      BY <1>6, <2>1, <2>x, <3>1
    <3>3. g[i] = (IF i = 1 THEN 0 ELSE g[i - 1]) + 1 \/ g[i] - 1 \in e
      BY <1>5, <2>1
    <3>4. (IF i = 1 THEN 0 ELSE g[i - 1]) = (IF i = 1 THEN 0 ELSE g2[i - 1])
      BY ONLY <3>2
    <3> QED
      BY ONLY <3>2, <3>3, <3>4
  <2>2. CASE i > m /\ j > m
    <3>1. j \in 1 .. m + k /\ i # 1
      BY ONLY <1>1, <2>2, <2>x
    <3>2. g2[i] = t + (i - m) /\ g2[j] = t + (j - m)
      BY <1>7, <2>2, <3>1
    <3>3. t + (i - m) = (t + (j - m)) + 1
      BY ONLY <1>1, <2>x
    <3> QED
      BY ONLY <2>x, <3>1, <3>2, <3>3
  <2>3. CASE i > m /\ ~(j > m)
    <3>1. i - m = 1 /\ (t + 1) - 1 = t
      BY ONLY <1>1, <2>3, <2>x
    <3>2. g2[i] = t + 1
      BY <1>7, <2>3, <3>1
    <3> QED
      BY ONLY <1>0, <3>1, <3>2
  <2> QED
    BY <1>8, <2>1, <2>2, <2>3
<1>12. Drawn(f2, g2, s, e, t + u)
  BY <1>3, <1>9, <1>10, <1>11 DEF Drawn
<1>13. ASSUME m = t, \A i \in 1 .. m : g[i] = i, NEW i \in 1 .. m + k PROVE g2[i] = i
  <2>1. CASE i \in 1 .. m
    BY <1>6, <1>13, <2>1
  <2>2. CASE i > m
    <3>1. g2[i] = t + (i - m)
      BY <1>7, <2>2
    <3>2. t + (i - m) = i
      BY ONLY <1>1, <1>13, i \in 1 .. m + k
    <3> QED
      BY ONLY <3>1, <3>2
  <2> QED
    BY <1>8, <2>1, <2>2
<1> QED
  BY <1>3, <1>4, <1>12, <1>13 DEF f, g, s, e, t, u, f2, g2, m

\* One logger.write of the pass.
LEMMA RingWrite == ASSUME RingInv, Ring!Write PROVE RingInv'
<1>1. /\ next <= Len(Pass) /\ next' = next + 1
      /\ UNCHANGED <<_tail, ring_open, _sync_count, passes, file, synced, full, fills, from>>
      /\ next \in 1 .. Len(Pass) + 1 /\ passes \in Nat /\ Len(Pass) \in Nat /\ count \in Nat
  BY RingConstants DEF RingInv, Ring!Write
<1>2. next' \in 1 .. Len(Pass) + 1
  BY <1>1
<1>3. CASE ~ring_open
  <2>1. UNCHANGED <<_buf, _head, stream, ends, count>>
    BY <1>3 DEF Ring!Write
  <2>2. Taken' = Taken
    BY <1>1, <2>1 DEF Taken
  <2> QED
    BY <1>1, <1>2, <1>3, <2>1, <2>2 DEF RingInv
<1>4. CASE ring_open
  <2> DEFINE n == Ring!End(Pass, next) - Ring!End(Pass, next - 1)
             s == Ring!Record(count + 1, n)
             w == Ring!logger_write(s)
             st == stream \o s
             m == next + 1
             u == Used(_head, _tail)
  <2>1. /\ _buf' = w.buf /\ _head' = w.head /\ stream' = st
        /\ ends' = ends \cup {Len(stream) + Len(s)} /\ count' = count + 1
    BY <1>4 DEF Ring!Write
  <2>2. /\ n \in Nat /\ HDR <= n /\ Waiting(next, passes) + n = Waiting(m, passes)
        /\ Waiting(m, passes) < BUF_SIZE
    BY <1>1, PassFits
  <2> HIDE DEF n
  <2>3. s \in Seq(Byte) /\ Len(s) = n
    <3> DEFINE c == count + 1
    <3>1. c \in Nat
      BY <1>1
    <3> HIDE DEF c
    <3>2. Ring!Record(c, n) \in Seq(Byte) /\ Len(Ring!Record(c, n)) = n
      BY <2>2, <3>1, RecordIs
    <3> QED
      BY <3>2 DEF c
  <2> HIDE DEF s
  <2>4. u + Len(s) < BUF_SIZE /\ HDR <= Len(s) /\ u + Len(s) = Waiting(m, passes)
    <3>1. u = Waiting(next, passes)
      BY <1>4 DEF RingInv
    <3> HIDE DEF u
    <3> QED
      BY <2>2, <2>3, <3>1
  <2>5. /\ w.buf \in [Ring!Slot -> Byte] /\ w.head \in Ring!Slot
        /\ Used(w.head, _tail) = u + Len(s)
        /\ st \in Seq(Byte) /\ Len(st) = Len(stream) + Len(s)
        /\ Len(st) - Used(w.head, _tail) = Taken /\ \A i \in 1 .. Taken : st[i] = stream[i]
        /\ Held(w.buf, w.head, _tail, st)
    BY <2>3, <2>4, Extended
  <2> HIDE DEF w, st, m, u
  <2>6. Len(st) \in ends' /\ ends \subseteq ends'
    BY <2>1, <2>5
  <2>7. Used(w.head, _tail) = Waiting(m, passes) /\ next' = m
    BY <1>1, <2>4, <2>5 DEF m
  <2>8. Taken' = Taken
    BY <1>1, <2>1, <2>5 DEF Taken
  <2>9. Drawn(file, from, st, ends', Taken)
    BY <2>5, <2>6, DrawnKept DEF RingInv
  <2>10. count' \in Nat
    BY <1>1, <2>1
  <2> QED
    BY <1>1, <1>2, <1>4, <2>1, <2>5, <2>6, <2>7, <2>8, <2>9, <2>10 DEF RingInv
<1> QED
  BY <1>3, <1>4

\* Logger::flush at the end of the pass: it takes all there is, and the card
\* keeps all of it, or less if it is full or fails.
LEMMA RingFlush == ASSUME RingInv, NEW ok \in BOOLEAN, Ring!Flush(ok) PROVE RingInv'
<1> DEFINE r == Ring!ring_read(FLUSH_CHUNK)
           u == Used(_head, _tail)
           p == passes + 1
<1>1. /\ next = Len(Pass) + 1 /\ next' = 1 /\ passes' = p
      /\ UNCHANGED <<_buf, _head, count, stream, ends>>
  BY DEF Ring!Flush, Ring!FlushUpTo
<1>2. /\ passes \in Nat /\ p \in Nat /\ p # 0 /\ Len(Pass) \in Nat
      /\ 1 \in 1 .. Len(Pass) + 1 /\ next \in 1 .. Len(Pass) + 1
  BY RingConstants DEF RingInv
<1> HIDE DEF p
<1>3. Waiting(1, p) = 0
  <2>1. Ring!End(Pass, 1 - 1) = 0
    BY DEF Ring!End
  <2> QED
    BY <1>2, <2>1 DEF Waiting
<1>4. CASE ~ring_open
  <2>1. UNCHANGED <<_tail, ring_open, _sync_count, file, synced, full, fills, from>>
    BY <1>4 DEF Ring!Flush, Ring!FlushUpTo
  <2>2. Taken' = Taken
    BY <1>1, <2>1 DEF Taken
  <2> QED
    BY <1>1, <1>2, <1>4, <2>1, <2>2 DEF RingInv
<1>5. CASE ring_open
  <2>1. /\ u = Waiting(next, passes) /\ FLUSH_CHUNK \in Nat
        /\ _tail \in Ring!Slot /\ _head \in Ring!Slot /\ _buf \in [Ring!Slot -> Byte]
    BY <1>5, RingConstants DEF RingInv
  <2>n. /\ u \in Nat /\ Len(stream) \in Nat /\ Len(file) \in Nat /\ Taken \in Nat
        /\ Len(stream) = Taken + u /\ \A i \in 1 .. u : _buf[At(_tail, i)] = stream[Taken + i]
    BY RingNumbers
  <2>2. u <= FLUSH_CHUNK
    BY <1>2, <2>1, PassFits
  <2>3. /\ r.out \in Seq(Byte) /\ Len(r.out) = u /\ r.tail = _head
        /\ \A i \in 1 .. u : r.out[i] = _buf[At(_tail, i)]
    <3>1. u = Used(_head, _tail) /\ r = Ring!ring_read(FLUSH_CHUNK)
      OBVIOUS
    <3> HIDE DEF u, r
    <3> QED
      BY <2>1, <2>2, <3>1, RingReads
  <2>4. Used(_head, _head) = 0
    BY <2>1, RingConstants DEF Used
  <2>5. Ring!avail = u
    BY DEF Ring!avail, Used
  <2> DEFINE o == r.out
  <2>o. o \in Seq(Byte) /\ Len(o) = u /\ \A i \in 1 .. u : o[i] = stream[Taken + i]
    BY <2>3, <2>n
  <2>6. CASE r.out = <<>>
    <3>1. UNCHANGED <<_tail, ring_open, _sync_count, file, synced, full, fills, from>>
      BY <2>6 DEF Ring!Flush, Ring!FlushUpTo
    <3>2. u = 0
      BY <2>3, <2>6
    <3>3. Taken' = Taken
      BY <1>1, <3>1 DEF Taken
    <3> QED
      BY <1>1, <1>2, <1>3, <1>5, <3>1, <3>2, <3>3 DEF RingInv
  <2>7. CASE r.out # <<>>
    <3>1. /\ _tail' = r.tail /\ ring_open' = ok
          /\ \E k \in 0 .. Len(o) :
               /\ Ring!f_write(Len(o), k, ok)
               /\ file' = file \o SubSeq(o, 1, k)
               /\ from' = from \o [i \in 1 .. k |-> Len(stream) - Ring!avail + i]
          /\ synced' = synced \/ (ok /\ synced' = Len(file'))
      <4>1. synced' \in IF ok /\ _sync_count' = 0 THEN {synced, Len(file')} ELSE {synced}
        BY <1>5, <2>7 DEF Ring!Flush, Ring!FlushUpTo
      <4> QED
        BY <1>5, <2>7, <4>1 DEF Ring!Flush, Ring!FlushUpTo
    <3> HIDE DEF r, o, u
    <3>2. PICK k \in 0 .. Len(o) :
               /\ Ring!f_write(Len(o), k, ok)
               /\ file' = file \o SubSeq(o, 1, k)
               /\ from' = from \o [i \in 1 .. k |-> Len(stream) - Ring!avail + i]
      BY <3>1
    <3> DEFINE q == SubSeq(o, 1, k)
               h == [i \in 1 .. k |-> Taken + i]
               f2 == file \o q
               g2 == from \o h
    <3>3. k \in 0 .. u
      BY <2>o, <3>2
    <3>4. q \in Seq(Byte) /\ Len(q) = k /\ \A i \in 1 .. k : q[i] = stream[Taken + i]
      BY <2>o, <2>n, <3>3
    <3>5. file' = f2 /\ from' = g2
      <4>1. Len(stream) - Ring!avail = Taken
        BY <2>5, <2>n
      <4> QED
        BY <3>2, <4>1
    <3> HIDE DEF q
    <3>6. /\ f2 \in Seq(Byte) /\ g2 \in Seq(Nat) /\ Len(f2) = Len(file) + k /\ Len(g2) = Len(f2)
          /\ Drawn(f2, g2, stream, ends, Taken + u)
          /\ Len(file) = Taken /\ (\A i \in 1 .. Len(file) : from[i] = i) =>
               \A i \in 1 .. Len(f2) : g2[i] = i
      <4>1. h = [i \in 1 .. k |-> Taken + i] /\ k \in 0 .. Used(_head, _tail)
        BY <3>3 DEF u
      <4> HIDE DEF Taken, h
      <4>2. /\ file \o q \in Seq(Byte) /\ from \o h \in Seq(Nat)
            /\ Len(file \o q) = Len(file) + k /\ Len(from \o h) = Len(file) + k
            /\ Drawn(file \o q, from \o h, stream, ends, Taken + Used(_head, _tail))
            /\ Len(file) = Taken /\ (\A i \in 1 .. Len(file) : from[i] = i) =>
                 \A i \in 1 .. Len(file) + k : (from \o h)[i] = i
        BY ONLY RingInv, <3>4, <4>1, DrawnMore
      <4>3. f2 = file \o q /\ g2 = from \o h
        OBVIOUS
      <4> HIDE DEF f2, g2
      <4> QED
        BY ONLY <4>2, <4>3 DEF u
    <3> HIDE DEF f2, g2
    <3>7. _tail' = _head /\ Taken' = Len(stream) /\ Taken + u = Len(stream)
      BY <1>1, <2>3, <2>4, <2>n, <3>1 DEF Taken
    <3>8. Held(_buf, _head, _head, stream)
      BY <2>4, <2>n DEF Held
    <3>9. (full' => fills' # 0) /\ fills' \in Nat /\ (fills' = 0 => fills = 0 /\ (ok => k = u))
      <4>1. fills \in Nat /\ (full => fills # 0)
        BY DEF RingInv
      <4>2. CASE UNCHANGED <<full, fills>> /\ IF full THEN k = 0 ELSE ~ok \/ k = Len(o)
        BY <2>o, <4>1, <4>2
      <4>3. CASE full' = TRUE /\ fills' = fills + 1
        BY <4>1, <4>3
      <4> QED
        BY <3>2, <4>2, <4>3 DEF Ring!f_write
    <3>10. ASSUME fills' = 0
           PROVE  /\ \A i \in 1 .. Len(f2) : g2[i] = i
                  /\ ok => Len(f2) = Len(stream)
                  /\ synced' \in ends /\ synced' \in 0 .. Len(f2)
      <4>1. /\ fills = 0 /\ (ok => k = u)
            /\ (\A i \in 1 .. Len(file) : from[i] = i) /\ Len(file) = Taken
            /\ synced \in ends /\ synced \in 0 .. Len(file) /\ Len(stream) \in ends
        BY <1>5, <3>9, <3>10 DEF RingInv
      <4>2. ok => Len(f2) = Len(stream)
        BY <2>n, <3>6, <4>1
      <4>3. synced' \in ends /\ synced' \in 0 .. Len(f2)
        BY <2>n, <3>1, <3>3, <3>5, <3>6, <4>1, <4>2
      <4> QED
        BY <3>6, <4>1, <4>2, <4>3
    <3>11. Used(_head, _head) = Waiting(1, p)
      BY <1>3, <2>4
    <3>12. /\ Len(stream) \in ends /\ count \in Nat /\ stream \in Seq(Byte)
           /\ _head \in Ring!Slot /\ _buf \in [Ring!Slot -> Byte]
      BY DEF RingInv
    <3>13. /\ Drawn(file', from', stream', ends', Taken') /\ Held(_buf', _head', _tail', stream')
           /\ Taken' \in ends' /\ Len(stream') \in ends'
      BY <1>1, <3>5, <3>6, <3>7, <3>8, <3>12
    <3>14. ring_open' => Used(_head', _tail') = Waiting(next', passes')
      BY <1>1, <3>7, <3>11
    <3>15. fills' = 0 => /\ \A i \in 1 .. Len(file') : from'[i] = i
                         /\ ring_open' => Len(file') = Taken'
                         /\ synced' \in ends' /\ synced' \in 0 .. Len(file')
      BY <1>1, <3>1, <3>5, <3>7, <3>10
    <3>16. /\ file' \in Seq(Byte) /\ from' \in Seq(Nat) /\ Len(from') = Len(file')
           /\ stream' \in Seq(Byte) /\ count' \in Nat /\ next' \in 1 .. Len(Pass) + 1
           /\ passes' \in Nat /\ _buf' \in [Ring!Slot -> Byte] /\ _head' \in Ring!Slot
           /\ _tail' \in Ring!Slot
      BY <1>1, <1>2, <3>5, <3>6, <3>7, <3>12
    <3> HIDE DEF Taken
    <3> QED
      BY <3>9, <3>13, <3>14, <3>15, <3>16 DEF RingInv
  <2> QED
    BY <2>6, <2>7
<1> QED
  BY <1>4, <1>5

\* After write_schema_header the ring holds the schema and the file is empty.
LEMMA RingInitial == StorageInit => RingInv
<1> SUFFICES ASSUME StorageInit PROVE RingInv
  OBVIOUS
<1> DEFINE n == Ring!Size(Schema)
           z == [i \in Ring!Slot |-> <<0, 0>>]
<1>1. /\ stream = Ring!Record(0, n) /\ _buf = Ring!Copy(z, 0, stream) /\ _head = n /\ _tail = 0
      /\ ends = {Ring!End(Schema, k) : k \in 0 .. Len(Schema)} /\ count = 0
      /\ next = 1 /\ passes = 0 /\ file = <<>> /\ from = <<>> /\ synced = 0
      /\ full = FALSE /\ fills = 0
  BY DEF StorageInit, Ring!Init
<1>2. n \in Nat /\ BUF_SIZE \in Nat /\ Ring!Slot = 0 .. BUF_SIZE - 1 /\ Len(Pass) \in Nat
  BY RingConstants
<1>3. Waiting(1, 0) < BUF_SIZE /\ Waiting(1, 0) = n /\ 1 \in 1 .. Len(Pass) + 1
  <2>1. Ring!End(Pass, 1 - 1) = 0
    BY DEF Ring!End
  <2>2. 1 \in 1 .. Len(Pass) + 1
    BY <1>2
  <2>3. Waiting(1, 0) < BUF_SIZE
    BY <2>2, PassFits
  <2>4. Waiting(1, 0) = 0 + n
    BY <2>1 DEF Waiting
  <2> HIDE DEF n
  <2> QED
    BY <1>2, <2>2, <2>3, <2>4
<1>4. Len(stream) \in ends /\ 0 \in ends
  <2>0. Schema \in Seq(Nat)
    BY RingAssumption DEF Ring!SizesAssumption
  <2>1. Len(Schema) \in 0 .. Len(Schema) /\ 0 \in 0 .. Len(Schema)
    BY <2>0
  <2>2. Ring!End(Schema, 0) = 0 /\ Ring!End(Schema, Len(Schema)) = n
    BY DEF Ring!End, Ring!Size
  <2>3. Len(stream) = n
    BY <1>1, <1>2, RecordIs
  <2> QED
    BY <1>1, <2>1, <2>2, <2>3
<1> HIDE DEF n
<1>5. stream \in Seq(Byte) /\ Len(stream) = n
  BY <1>1, <1>2, RecordIs
<1>6. z \in [Ring!Slot -> Byte]
  BY DEF Byte
<1> HIDE DEF z
<1>7. /\ _buf \in [Ring!Slot -> Byte]
      /\ \A i \in Ring!Slot :
           _buf[i] = IF i >= 0 /\ i < 0 + Len(stream) THEN stream[i - 0 + 1] ELSE z[i]
  BY <1>1, <1>5, <1>6, CopyIs
<1>8. _head \in Ring!Slot /\ _tail \in Ring!Slot /\ Used(_head, _tail) = n
  BY <1>1, <1>2, <1>3 DEF Used
<1>9. ASSUME NEW i \in 1 .. n PROVE _buf[At(_tail, i)] = stream[0 + i]
  <2> DEFINE k == i - 1
  <2>1. At(_tail, i) = k /\ k \in Ring!Slot /\ k >= 0 /\ k < 0 + n /\ k - 0 + 1 = 0 + i
    BY <1>1, <1>2, <1>3 DEF At
  <2> HIDE DEF k
  <2> QED
    BY <1>5, <1>7, <2>1
<1>10. file \in Seq(Byte) /\ Len(file) = 0 /\ from \in Seq(Nat) /\ Len(from) = 0
  BY <1>1
<1>11. Taken = 0 /\ Held(_buf, _head, _tail, stream)
  <2>1. Len(stream) - n = 0
    BY <1>2, <1>5
  <2> QED
    BY <1>2, <1>5, <1>8, <1>9, <2>1 DEF Taken, Held
<1>12. Drawn(file, from, stream, ends, Taken)
  BY <1>10 DEF Drawn
<1> QED
  BY <1>1, <1>2, <1>3, <1>4, <1>5, <1>7, <1>8, <1>10, <1>11, <1>12 DEF RingInv

\* LOG,erase touches neither the ring nor the open log.
LEMMA RingErase == ASSUME RingInv, Ring!Erase PROVE RingInv'
  BY DEF Ring!Erase, RingInv, Taken

\* The ring's invariant is kept by every step.
LEMMA RingNext == RingInv /\ [StorageNext]_svars => RingInv'
<1> SUFFICES ASSUME RingInv, [Ring!Next]_rvars PROVE RingInv'
  BY StepOf
<1>1. CASE UNCHANGED rvars
  BY <1>1 DEF rvars, RingInv, Taken
<1> QED
  BY <1>1, RingWrite, RingFlush, RingErase DEF Ring!Next

\* The ring, oldest byte first, is the end of the stream.
LEMMA ContentsAre ==
  ASSUME RingInv
  PROVE  /\ Ring!Contents \in Seq(Byte) /\ Len(Ring!Contents) = Used(_head, _tail)
         /\ \A i \in 1 .. Used(_head, _tail) : Ring!Contents[i] = stream[Taken + i]
<1> DEFINE u == Used(_head, _tail)
           c == Ring!Contents
<1>1. /\ u \in Nat /\ u < BUF_SIZE /\ BUF_SIZE \in Nat \ {0} /\ Taken \in Nat
      /\ Len(stream) \in Nat /\ Len(stream) = Taken + u
      /\ \A i \in 1 .. u : _buf[At(_tail, i)] = stream[Taken + i]
  BY RingNumbers
<1>2. _tail \in 0 .. BUF_SIZE - 1 /\ stream \in Seq(Byte)
  BY RingConstants DEF RingInv
<1>3. Ring!avail = u
  BY DEF Ring!avail, Used
<1>4. c = [i \in 1 .. u |-> _buf[(_tail + i - 1) % BUF_SIZE]]
  BY <1>3 DEF Ring!Contents
<1> HIDE DEF u, c, Taken
<1>5. ASSUME NEW i \in 1 .. u PROVE _buf[(_tail + i - 1) % BUF_SIZE] = stream[Taken + i]
  <2> DEFINE x == _tail + i - 1
  <2>1. x \in 0 .. 2 * BUF_SIZE - 1
    BY <1>1, <1>2
  <2>2. At(_tail, i) = IF x < BUF_SIZE THEN x ELSE x - BUF_SIZE
    BY <1>1, <1>2 DEF At
  <2> HIDE DEF x
  <2>3. x % BUF_SIZE = At(_tail, i)
    BY <2>1, <2>2, Wrap
  <2> QED
    BY <1>1, <2>3 DEF x
<1>6. ASSUME NEW i \in 1 .. u PROVE stream[Taken + i] \in Byte
  <2>1. Taken + i \in 1 .. Len(stream)
    BY <1>1
  <2> QED
    BY <1>2, <2>1
<1>7. c = [i \in 1 .. u |-> stream[Taken + i]]
  BY <1>4, <1>5
<1>8. c \in Seq(Byte) /\ Len(c) = u /\ \A i \in 1 .. u : c[i] = stream[Taken + i]
  BY <1>1, <1>6, <1>7
<1> QED
  BY <1>8 DEF u, c

\* Until the card runs full the file is a beginning of the stream.
LEMMA FileBegins ==
  ASSUME RingInv, fills = 0
  PROVE  /\ file \in Seq(Byte) /\ stream \in Seq(Byte) /\ Len(file) \in Nat /\ Len(stream) \in Nat
         /\ Len(file) <= Len(stream) /\ \A i \in 1 .. Len(file) : file[i] = stream[i]
<1>1. /\ file \in Seq(Byte) /\ stream \in Seq(Byte) /\ Len(file) \in Nat /\ Len(stream) \in Nat
      /\ Taken \in Nat /\ Taken <= Len(stream)
  BY RingNumbers DEF RingInv
<1>2. \A i \in 1 .. Len(file) : from[i] = i /\ from[i] \in 1 .. Taken /\ file[i] = stream[from[i]]
  BY DEF RingInv, Drawn
<1> HIDE DEF Taken
<1>3. Len(file) <= Taken
  <2>1. CASE Len(file) = 0
    BY <1>1, <2>1
  <2>2. CASE Len(file) # 0
    <3>1. Len(file) \in 1 .. Len(file)
      BY <1>1, <2>2
    <3>2. Len(file) \in 1 .. Taken
      BY <1>2, <3>1
    <3> QED
      BY <1>1, <3>2
  <2> QED
    BY <2>1, <2>2
<1> QED
  BY <1>1, <1>2, <1>3

(***************************************************************************)
(* Logger::write and flush, for any size of the ring, of the header and of *)
(* the records, as long as the schema and one pass fit: wherever the wrap  *)
(* falls, file and ring together are what LogThread wrote until the card   *)
(* runs full, and after that what is left of it in order.                  *)
(***************************************************************************)
THEOREM FileThenRing == StorageSpec => []LogIsStream
<1>1. RingInv => LogIsStream
  <2> SUFFICES ASSUME RingInv PROVE LogIsStream
    OBVIOUS
  <2> DEFINE u == Used(_head, _tail)
             c == Ring!Contents
  <2>1. /\ u \in Nat /\ Len(stream) \in Nat /\ Taken \in Nat /\ Len(stream) = Taken + u
        /\ stream \in Seq(Byte) /\ Ring!avail = u
    BY RingNumbers DEF RingInv, Ring!avail, Used
  <2>2. c \in Seq(Byte) /\ Len(c) = u /\ \A i \in 1 .. u : c[i] = stream[Taken + i]
    BY ContentsAre
  <2> HIDE DEF u, c
  <2>3. c = SubSeq(stream, Len(stream) - Ring!avail + 1, Len(stream))
    <3> DEFINE q == SubSeq(stream, Taken + 1, Len(stream))
    <3>1. Len(stream) - Ring!avail + 1 = Taken + 1
      BY <2>1
    <3>2. q \in Seq(Byte) /\ Len(q) = u /\ \A i \in 1 .. u : q[i] = stream[Taken + i]
      <4> HIDE DEF Taken
      <4>1. /\ Taken + 1 \in 1 .. Len(stream) + 1 /\ Len(stream) \in Taken .. Len(stream)
            /\ (Len(stream) - (Taken + 1)) + 1 = u
        BY ONLY <2>1
      <4> QED
        BY ONLY <2>1, <4>1, SubSeqProperties
    <3> HIDE DEF q, Taken
    <3>3. q = c
      BY <2>2, <3>2, SeqEqual
    <3> QED
      BY <3>1, <3>3 DEF q
  <2>4. /\ \A i \in 1 .. Len(file) : file[i] = stream[from[i]]
        /\ \A i \in 2 .. Len(file) : from[i - 1] < from[i]
    BY DEF RingInv, Drawn
  <2>5. ASSUME fills = 0 PROVE SubSeq(stream, 1, Len(file)) = file
    <3> DEFINE q == SubSeq(stream, 1, Len(file))
    <3>1. q \in Seq(Byte) /\ Len(q) = Len(file) /\ \A i \in 1 .. Len(file) : q[i] = stream[i]
      BY <2>5, FileBegins
    <3> HIDE DEF q
    <3>2. q = file
      BY <2>5, <3>1, FileBegins, SeqEqual
    <3> QED
      BY <3>2 DEF q
  <2>6. ASSUME fills = 0, ring_open PROVE file \o c = stream
    <3> DEFINE q == file \o c
    <3>1. /\ file \in Seq(Byte) /\ Len(file) \in Nat /\ Len(file) = Taken
          /\ \A i \in 1 .. Len(file) : file[i] = stream[i]
      BY <2>6, FileBegins DEF RingInv
    <3> HIDE DEF Taken
    <3>2. /\ q \in Seq(Byte) /\ Len(q) = Len(file) + u
          /\ \A i \in 1 .. Len(file) + u : q[i] = IF i <= Len(file) THEN file[i] ELSE c[i - Len(file)]
      BY <2>2, <3>1, ConcatProperties
    <3> HIDE DEF q
    <3>3. ASSUME NEW i \in 1 .. Len(file) + u PROVE q[i] = stream[i]
      <4>1. CASE i <= Len(file)
        BY <2>1, <3>1, <3>2, <4>1
      <4>2. CASE i > Len(file)
        <5> DEFINE k == i - Len(file)
        <5>1. k \in 1 .. u /\ Taken + k = i
          BY <2>1, <3>1, <4>2
        <5>2. q[i] = c[k]
          BY <2>1, <3>1, <3>2, <4>2
        <5> HIDE DEF k
        <5> QED
          BY <2>2, <5>1, <5>2
      <4>3. i <= Len(file) \/ i > Len(file)
        BY <2>1, <3>1
      <4> QED
        BY <4>1, <4>2, <4>3
    <3>4. Len(q) = Len(stream)
      BY <2>1, <3>1, <3>2
    <3>5. q = stream
      BY <2>1, <3>2, <3>3, <3>4, SeqEqual
    <3> QED
      BY <3>5 DEF q
  <2> QED
    BY <2>3, <2>4, <2>5, <2>6 DEF LogIsStream, Ring!LogIsStream, c
<1> QED
  BY <1>1, RingInitial, RingNext, PTL DEF StorageSpec, svars

(***************************************************************************)
(* Logger::flush: until the card runs full, what f_sync has secured is     *)
(* whole records of the stream, because a flush always reaches the end of  *)
(* the last one; and a log that goes on after the card ran full goes on at *)
(* the start of a record.                                                  *)
(***************************************************************************)
THEOREM SyncedWhole == StorageSpec => []SyncedAreRecords
<1>1. RingInv => SyncedAreRecords
  <2> SUFFICES ASSUME RingInv PROVE SyncedAreRecords
    OBVIOUS
  <2>1. ASSUME fills = 0
        PROVE  synced \in ends /\ SubSeq(file, 1, synced) = SubSeq(stream, 1, synced)
    <3>1. synced \in ends /\ synced \in 0 .. Len(file)
      BY <2>1 DEF RingInv
    <3> DEFINE a == SubSeq(file, 1, synced)
               b == SubSeq(stream, 1, synced)
    <3>2. a \in Seq(Byte) /\ Len(a) = synced /\ \A i \in 1 .. synced : a[i] = file[i]
      BY <2>1, <3>1, FileBegins
    <3>3. b \in Seq(Byte) /\ Len(b) = synced /\ \A i \in 1 .. synced : b[i] = stream[i]
      BY <2>1, <3>1, FileBegins
    <3> HIDE DEF a, b
    <3>4. \A i \in 1 .. synced : a[i] = b[i]
      BY <2>1, <3>1, <3>2, <3>3, FileBegins
    <3>5. a = b
      BY <3>2, <3>3, <3>4, SeqEqual
    <3> QED
      BY <3>1, <3>5 DEF a, b
  <2>2. \A i \in 1 .. Len(file) : from[i] = Ring!Before(i) + 1 \/ from[i] - 1 \in ends
    BY DEF RingInv, Drawn, Ring!Before
  <2> QED
    BY <2>1, <2>2 DEF SyncedAreRecords, Ring!SyncedAreRecords
<1> QED
  BY <1>1, RingInitial, RingNext, PTL DEF StorageSpec, svars
=============================================================================
