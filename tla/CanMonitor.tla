----------------------------- MODULE CanMonitor -----------------------------
(***************************************************************************)
(* The live monitor of Motor_tool (its CAN.cpp and drain_monitor in        *)
(* CmdShell.cpp): CANRxThread pushes every frame into a ring, CmdThread    *)
(* starts, stops and drains it without a lock.  CANRxThread has the higher *)
(* priority, so a push is one step for CmdThread but can fall between any  *)
(* two of its accesses.  The push CmdThread makes for CAN,selftest, with   *)
(* the other bus silent, is a frame like any other and left out.           *)
(***************************************************************************)
EXTENDS Naturals

CONSTANTS
  MON_RING_SIZE,
  W,             \* the counters are taken modulo W (2^32 in the code)
  MaxFrames,     \* bound: frames of a session
  MaxSessions    \* bound: CAN,monitor,start commands

RingAssumption ==
  /\ {MON_RING_SIZE, W, MaxFrames, MaxSessions} \subseteq Nat
  /\ MON_RING_SIZE > 0 /\ W > MON_RING_SIZE + 1 /\ W % MON_RING_SIZE = 0

VARIABLES
  ring,          \* a slot is copied in two halves, each naming its frame
  s_mon_head, s_mon_tail, s_mon_active,
  pc,            \* CmdThread
  reg,           \* the counter it has loaded
  out,           \* the copy made by can_monitor_pop
  session, count,  \* history: sessions, and frames received in this one
  seen,          \* history: the last frame printed in this session
  lapped,        \* history: the ring has overflowed in this session
  raced          \* history: its start reset the head under a tail that had moved

shared == <<ring, s_mon_head, s_mon_tail, s_mon_active>>
vars   == <<shared, pc, reg, out, session, count, seen, lapped, raced>>

None  == [session |-> 0, n |-> 0]
Slot(c) == c % MON_RING_SIZE
Plus(c, d) == (c + W + d) % W
Backlog(h, t) == (h + W - t) % W

-----------------------------------------------------------------------------
(* mon_push *)

\* Mutant: the ring counts as overflowed when it is full.
TailAfter_Full(h, t) ==
  IF Backlog(h, t) >= MON_RING_SIZE THEN (h + W - (MON_RING_SIZE - 1)) % W ELSE t

\* "if head laps tail, drop the oldest by advancing tail".
TailAfter(h, t) ==
  IF Backlog(h, t) > MON_RING_SIZE THEN (h + W - MON_RING_SIZE) % W ELSE t

\* The next frame from the bus.
Received == [session |-> session, n |-> count + 1]

\* can_dispatch on CANRxThread.
RxPush ==
  /\ s_mon_active /\ count < MaxFrames
  /\ ring' = [ring EXCEPT ![Slot(s_mon_head)] = <<Received, Received>>]
  /\ s_mon_head' = Plus(s_mon_head, 1)
  /\ s_mon_tail' = TailAfter(s_mon_head', s_mon_tail)
  /\ lapped' = (lapped \/ Backlog(s_mon_head', s_mon_tail) > MON_RING_SIZE)
  /\ count' = count + 1
  /\ UNCHANGED <<s_mon_active, pc, reg, out, session, seen, raced>>

-----------------------------------------------------------------------------
(* CmdThread *)

\* can_monitor_start: 0 goes to the tail, then to the head (GCC does not read the
\* volatile tail back), then the monitor is on.  It may be on already: frames are
\* then pushed in between.
can_monitor_start ==
  /\ pc = "idle" /\ pc' = "head" /\ session < MaxSessions
  /\ s_mon_tail' = 0
  /\ UNCHANGED <<ring, s_mon_head, s_mon_active, reg, out, session, count, seen, lapped, raced>>

\* What is received from here on is of the new session.
StartHead ==
  /\ pc = "head" /\ pc' = "active"
  /\ s_mon_head' = 0
  /\ session' = session + 1 /\ count' = 0 /\ seen' = 0 /\ lapped' = FALSE
  /\ raced' = (s_mon_active /\ s_mon_tail # 0)
  /\ UNCHANGED <<ring, s_mon_tail, s_mon_active, reg, out>>

StartActive ==
  /\ pc = "active" /\ pc' = "idle"
  /\ s_mon_active' = TRUE
  /\ UNCHANGED <<ring, s_mon_head, s_mon_tail, reg, out, session, count, seen, lapped, raced>>

can_monitor_stop ==
  /\ pc = "idle" /\ s_mon_active /\ s_mon_active' = FALSE
  /\ UNCHANGED <<ring, s_mon_head, s_mon_tail, pc, reg, out, session, count, seen, lapped, raced>>

\* can_monitor_pop: the counters differ, the slot is copied half by half,
\* the tail is loaded and stored.
PopBegin ==
  /\ pc = "idle" /\ s_mon_active /\ s_mon_tail # s_mon_head
  /\ reg' = s_mon_tail /\ pc' = "copy"
  /\ out' = <<ring[Slot(s_mon_tail)][1], None>>
  /\ UNCHANGED <<shared, session, count, seen, lapped, raced>>

PopCopy ==
  /\ pc = "copy" /\ pc' = "store"
  /\ out' = [out EXCEPT ![2] = ring[Slot(reg)][2]]
  /\ reg' = s_mon_tail
  /\ UNCHANGED <<shared, session, count, seen, lapped, raced>>

PopStore ==
  /\ pc = "store" /\ pc' = "print"
  /\ s_mon_tail' = Plus(reg, 1)
  /\ UNCHANGED <<ring, s_mon_head, s_mon_active, reg, out, session, count, seen, lapped, raced>>

\* drain_monitor prints the frame.
PrintFrame ==
  /\ pc = "print" /\ pc' = "idle"
  /\ seen' = out[1].n
  /\ UNCHANGED <<shared, reg, out, session, count, lapped, raced>>

Init ==
  /\ ring = [i \in 0..MON_RING_SIZE-1 |-> <<None, None>>]
  /\ s_mon_head = 0 /\ s_mon_tail = 0 /\ s_mon_active = FALSE
  /\ pc = "idle" /\ reg = 0 /\ out = <<None, None>>
  /\ session = 0 /\ count = 0 /\ seen = 0 /\ lapped = FALSE /\ raced = FALSE

Next ==
  \/ RxPush \/ can_monitor_start \/ StartHead \/ StartActive \/ can_monitor_stop
  \/ PopBegin \/ PopCopy \/ PopStore \/ PrintFrame

Spec == Init /\ [][Next]_vars

-----------------------------------------------------------------------------
(***************************************************************************)
(* What is printed was received in this session of the monitor, not before *)
(* its start.  As long as CmdThread keeps up, every frame is printed whole,*)
(* once and in order, also past the wrap of the ring and of the counters.  *)
(* A start of a monitor that is on may break this, but only if a frame     *)
(* pushed between its two stores moves the tail; the next start mends it.  *)
(***************************************************************************)
AllInOrder ==
  pc = "print" /\ ~raced =>
    /\ \A i \in {1, 2} : out[i].session = session
    /\ ~lapped => out[1] = out[2] /\ out[1].n = seen + 1
=============================================================================
