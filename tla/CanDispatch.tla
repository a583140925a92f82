---------------------------- MODULE CanDispatch ----------------------------
(***************************************************************************)
(* Frame dispatch, the device tables and the bus-1 id scanner of           *)
(* coms/CAN.cpp, with the CAN,scan commands of USBCmdThread.  CANThread    *)
(* (NORMALPRIO+28) preempts USBCmdThread (NORMALPRIO-20) between any two   *)
(* of its statements; a dispatch itself is not interrupted by it.          *)
(***************************************************************************)
EXTENDS Naturals, SequencesExt

CONSTANTS MAX_CAN_DEVICES,   \* slots of a device table
          CAN_SCAN_MAX,      \* slots of the scan table
          Frames,            \* frames on the wire: [bus, ext, id]
          MaxHeard           \* bound: frames heard in one scan

Bus == {1, 2}

SizesAssumption ==
  MAX_CAN_DEVICES \in Nat /\ CAN_SCAN_MAX \in Nat \ {0} /\ MaxHeard \in Nat
FramesAssumption == Frames \subseteq [bus : Bus, id : Nat, ext : BOOLEAN]

\* An extended id is masked down to its DroneCAN data type before it is
\* compared, so two ids of one type are the same id here.
Sid(bus, id) == [bus |-> bus, id |-> id, ext |-> FALSE]
Eid(bus, id) == [bus |-> bus, id |-> id, ext |-> TRUE]

\* What main() registers, in its order: IMX5 1..4 and BatteryInfo on bus 2,
\* four RMD drives and two ids of each ODrive on bus 1.
Requested ==
  << Sid(2, 1), Sid(2, 2), Sid(2, 3), Sid(2, 4), Eid(2, 1092),
     Sid(1, 321), Sid(1, 322), Sid(1, 323), Sid(1, 324),
     Sid(1, 65), Sid(1, 73), Sid(1, 97), Sid(1, 105) >>

VARIABLES
  can_table,          \* bus -> sequence of registrations
  todo,               \* registrations main() has still to make
  called,             \* the registrations the last dispatch called back
  s_scan_active, s_scan_n, s_scan,
  u_pc,               \* the next statement of USBCmdThread's scan commands
  report,             \* what CAN,scan,stop printed, if it was the last command
  heard               \* history: bus-1 frames since the scan was activated

tvars == <<can_table, todo>>
svars == <<s_scan_active, s_scan_n, s_scan>>
vars  == <<tvars, called, svars, u_pc, report, heard>>

Empty == [id |-> 0, ext |-> FALSE, count |-> 0]

-----------------------------------------------------------------------------
(* main(): registration, before any thread runs. *)

bprl_can_register ==
  /\ todo # <<>>
  /\ LET r == Head(todo) IN
       can_table' = IF Len(can_table[r.bus]) < MAX_CAN_DEVICES
                    THEN [can_table EXCEPT ![r.bus] = Append(@, r)]
                    ELSE can_table
  /\ todo' = Tail(todo)
  /\ UNCHANGED <<called, svars, u_pc, report, heard>>

-----------------------------------------------------------------------------
(* CANThread: can_dispatch. *)

\* An exact match for standard frames, a masked one for extended frames.
Hit(dev, f) == dev.ext = f.ext /\ dev.id = f.id

\* The scanner's entry of f, or the first free one.
Slot(f) == IF \E i \in 1..s_scan_n : s_scan[i].id = f.id /\ s_scan[i].ext = f.ext
           THEN CHOOSE i \in 1..s_scan_n : s_scan[i].id = f.id /\ s_scan[i].ext = f.ext
           ELSE s_scan_n + 1

ScanFrame(f) ==
  IF f.bus # 1 \/ ~s_scan_active \/ Slot(f) > CAN_SCAN_MAX
  THEN UNCHANGED svars
  ELSE /\ s_scan' = IF Slot(f) <= s_scan_n THEN [s_scan EXCEPT ![Slot(f)].count = @ + 1]
                    ELSE [s_scan EXCEPT ![Slot(f)] = [id |-> f.id, ext |-> f.ext, count |-> 1]]
       /\ s_scan_n' = IF Slot(f) > s_scan_n THEN s_scan_n + 1 ELSE s_scan_n
       /\ UNCHANGED s_scan_active

can_dispatch(f) ==
  /\ todo = <<>>
  /\ Len(heard) < MaxHeard \/ ~s_scan_active \/ f.bus = 2
  /\ ScanFrame(f)
  /\ called' = {dev \in Range(can_table[f.bus]) : Hit(dev, f)}
  /\ heard' = IF s_scan_active /\ f.bus = 1 THEN Append(heard, f) ELSE heard
  /\ UNCHANGED <<tvars, u_pc, report>>

-----------------------------------------------------------------------------
(* USBCmdThread: CAN,scan,start and CAN,scan,stop. *)

\* Mutant: the scanner is not stopped while it is cleared.
ScanDeactivate_Left == UNCHANGED s_scan_active

ScanDeactivate == s_scan_active' = FALSE

can_scan_start ==
  /\ \/ /\ u_pc = "idle" /\ todo = <<>> /\ u_pc' = "count"
        /\ ScanDeactivate
        /\ UNCHANGED <<s_scan_n, s_scan, heard>>
     \/ /\ u_pc = "count" /\ u_pc' = "clear"
        /\ s_scan_n' = 0
        /\ UNCHANGED <<s_scan_active, s_scan, heard>>
     \/ /\ u_pc = "clear" /\ u_pc' = "activate"
        /\ s_scan' = [i \in 1..CAN_SCAN_MAX |-> Empty]
        /\ UNCHANGED <<s_scan_active, s_scan_n, heard>>
     \/ /\ u_pc = "activate" /\ u_pc' = "idle"
        /\ s_scan_active' = TRUE
        /\ heard' = <<>>
        /\ UNCHANGED <<s_scan_n, s_scan>>
  /\ report' = <<>>
  /\ UNCHANGED <<tvars, called>>

\* can_scan_stop, then can_scan_get.
can_scan_stop ==
  /\ \/ /\ u_pc = "idle" /\ todo = <<>> /\ u_pc' = "get"
        /\ s_scan_active' = FALSE
        /\ report' = <<>>
     \/ /\ u_pc = "get" /\ u_pc' = "idle"
        /\ report' = <<SubSeq(s_scan, 1, s_scan_n)>>
        /\ UNCHANGED s_scan_active
  /\ UNCHANGED <<tvars, called, s_scan_n, s_scan, heard>>

-----------------------------------------------------------------------------
Init ==
  /\ can_table = [b \in Bus |-> <<>>] /\ todo = Requested
  /\ called = {}
  /\ s_scan_active = FALSE /\ s_scan_n = 0
  /\ s_scan = [i \in 1..CAN_SCAN_MAX |-> Empty]
  /\ u_pc = "idle" /\ report = <<>> /\ heard = <<>>

Next ==
  \/ bprl_can_register
  \/ \E f \in Frames : can_dispatch(f)
  \/ can_scan_start \/ can_scan_stop

Spec == Init /\ [][Next]_vars

-----------------------------------------------------------------------------
\* The places of s with a frame that it has not carried before; how many of
\* them there are up to place i; and what the scanner should know of that frame.
Firsts(s) == {i \in DOMAIN s : \A j \in 1..i-1 : s[j] # s[i]}
Rank(s, i) == Cardinality({j \in Firsts(s) : j <= i})
EntryOf(s, i) ==
  [id |-> s[i].id, ext |-> s[i].ext, count |-> Cardinality({j \in DOMAIN s : s[j] = s[i]})]

\* The first n entries of a table are those of the first ids in s, as many as
\* the table holds.
Tallies(table, n, s) ==
  /\ n = IF Cardinality(Firsts(s)) < CAN_SCAN_MAX THEN Cardinality(Firsts(s)) ELSE CAN_SCAN_MAX
  /\ \A i \in Firsts(s) : Rank(s, i) <= CAN_SCAN_MAX => table[Rank(s, i)] = EntryOf(s, i)

(***************************************************************************)
(* What CAN,scan,stop prints are the first CAN_SCAN_MAX ids bus 1 carried  *)
(* since the scan was started, with their exact counts, though frames      *)
(* arrive between the statements that clear, start and stop the scanner.   *)
(***************************************************************************)
ScanExact == report # <<>> => Tallies(report[1], Len(report[1]), heard)
=============================================================================
