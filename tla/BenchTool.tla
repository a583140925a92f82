------------------------------ MODULE BenchTool ------------------------------
(***************************************************************************)
(* The bench firmware Motor_tool: its watchdog over a GIM on either bus,   *)
(* over an RMD and an ODrive on one bus with a cable that may be pulled    *)
(* (MotorTool, twice, over the same variables), and its CAN monitor        *)
(* (CanMonitor).  `part`, chosen at the start, says which of the three     *)
(* moves; the others keep their initial state.                             *)
(***************************************************************************)
EXTENDS Naturals

CONSTANTS
  TIMEOUT_MS, RESEND_PERIOD_MS, MaxLag, MaxWire, MaxFaults,  \* MotorTool
  MON_RING_SIZE, W, MaxFrames, MaxSessions                   \* CanMonitor

VARIABLES part,
  s_active_bus, s_bus, s_state, reply_id, drive, wire, cable, usb, host_age,
  stop_age, w_lag, pc, job, faults, resets, unplugs,             \* MotorTool
  ring, s_mon_head, s_mon_tail, s_mon_active, m_pc, reg, out, session, count,
  seen, lapped, raced                                            \* CanMonitor

tvars == <<s_active_bus, s_bus, s_state, reply_id, drive, wire, cable, usb,
           host_age, stop_age, w_lag, pc, job, faults, resets, unplugs>>
mvars == <<ring, s_mon_head, s_mon_tail, s_mon_active, m_pc, reg, out, session,
           count, seen, lapped, raced>>

\* A lost frame, a reset, both buses.
Gim == INSTANCE MotorTool WITH
  Kinds <- {"gim"}, Buses <- {1, 2}, Wired <- 1, SameId <- TRUE, MasterIds <- {TRUE},
  MaxResets <- 1, MaxUnplugs <- 0

\* A lost frame, a pulled cable, one bus.
Pair == INSTANCE MotorTool WITH
  Kinds <- {"rmd", "odrive"}, Buses <- {1}, Wired <- 1, SameId <- TRUE, MasterIds <- {TRUE},
  MaxResets <- 0, MaxUnplugs <- 1

Monitor == INSTANCE CanMonitor WITH pc <- m_pc

ASSUME ToolSizes == Gim!ToolAssumption /\ Pair!ToolAssumption
ASSUME MonitorSizes == Monitor!RingAssumption

-----------------------------------------------------------------------------
Init ==
  /\ part \in {"gim", "pair", "monitor"}
  /\ IF part = "pair" THEN Pair!Init ELSE Gim!Init
  /\ Monitor!Init

GimStep     == part = "gim" /\ Gim!Next /\ UNCHANGED <<part, mvars>>
PairStep    == part = "pair" /\ Pair!Next /\ UNCHANGED <<part, mvars>>
MonitorStep == part = "monitor" /\ Monitor!Next /\ UNCHANGED <<part, tvars>>

Next == GimStep \/ PairStep \/ MonitorStep

\* MotorTool's fairness for the instance that moves.
Fairness ==
  /\ WF_tvars(part = "gim" /\ Gim!CmdStep) /\ WF_tvars(part = "gim" /\ Gim!WatchStep)
  /\ WF_tvars(part = "gim" /\ Gim!Receive) /\ WF_tvars(part = "gim" /\ Gim!Tick)
  /\ WF_tvars(part = "gim" /\ Gim!Configured) /\ WF_tvars(part = "pair" /\ Pair!Configured)
  /\ WF_tvars(part = "pair" /\ Pair!CmdStep) /\ WF_tvars(part = "pair" /\ Pair!WatchStep)
  /\ WF_tvars(part = "pair" /\ Pair!Receive) /\ WF_tvars(part = "pair" /\ Pair!Tick)
  /\ WF_tvars(part = "pair" /\ Pair!Heartbeat) /\ WF_tvars(part = "pair" /\ Pair!Iwdg)

Spec == Init /\ [][Next]_<<part, tvars, mvars>> /\ Fairness

-----------------------------------------------------------------------------
(***************************************************************************)
(* WatchdogThread: a host that falls silent does not leave a motor turning *)
(* which the tool has heard of on the selected bus, though stop frames may *)
(* be lost, the tool reset or the cable pulled and put back meanwhile.     *)
(***************************************************************************)
SilenceStops ==
  <>[](Gim!Silent /\ cable) => <>[](IF part = "pair" THEN Pair!Stopped ELSE Gim!Stopped)

(***************************************************************************)
(* can_monitor_pop against mon_push: what is printed was received in this  *)
(* session and, while CmdThread keeps up, whole, once and in order, unless *)
(* the monitor was started while on and the tail moved under the reset.    *)
(***************************************************************************)
AllInOrder == Monitor!AllInOrder
==============================================================================
