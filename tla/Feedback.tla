------------------------------ MODULE Feedback ------------------------------
(***************************************************************************)
(* The components that bring measurements to the control loop and act on   *)
(* them tick by tick: SBUS framing (SbusParser, extended), CANThread's     *)
(* loop (CanThread), frame dispatch (CanDispatch), the IMX5's frames       *)
(* (Imx5Link), the SPI IMUs' FIFO (ImuFifo), the hips' status poll         *)
(* (HipStatus) and the leg length (LegHeight).  They share no state here:  *)
(* `part`, chosen at the start, says which of them moves, and the others   *)
(* keep an initial state.  The behaviours of each, and their fairness, are *)
(* those it has alone.                                                     *)
(***************************************************************************)
EXTENDS Integers, SbusParser

CONSTANTS
  DEPTH, CounterMod,                                  \* CanThread
  MAX_CAN_DEVICES, CAN_SCAN_MAX, Frames, MaxHeard,    \* CanDispatch
  CAN_TIMEOUT_TICKS, MaxQuiet, Ids,                   \* Imx5Link
  SampleUnits, PassUnits, Depth, MaxOwed, MaxResets,  \* ImuFifo
  POLL_TICKS, Volts,                                  \* HipStatus
  L_STAND, L_MIN, L_MAX, HEIGHT_RANGE, Longest        \* LegHeight

VARIABLES part,
  turn, can_fifo, lost_flag, hw, s_was_busoff, s_was_fifo_lost, busoff_count,
  rx_fifo_lost,                                              \* CanThread
  can_table, todo, called, s_scan_active, s_scan_n, s_scan, u_pc, report,
  heard,                                                     \* CanDispatch
  link, imx_frame, quat, g_can_imu, e_pc, can_snap, can_stale_ticks, uses, since,
  quiet,                                                     \* Imx5Link
  fifo_mode, stores, fifo, sample, spi_pc, pass, owed, boot, g_imu,  \* ImuFifo
  s_next, s_status_poll_tick, asked, valid, voltage_V,
  battery_voltage_V,                                         \* HipStatus
  armed, sw, stick, leg, feedback, upright, mode, L_cmd, hold  \* LegHeight

cvars == <<turn, can_fifo, lost_flag, hw, s_was_busoff, s_was_fifo_lost, busoff_count, rx_fifo_lost>>
dvars == <<can_table, todo, called, s_scan_active, s_scan_n, s_scan, u_pc, report, heard>>
xvars == <<link, imx_frame, quat, g_can_imu, e_pc, can_snap, can_stale_ticks, uses, since, quiet>>
ivars == <<fifo_mode, stores, fifo, sample, spi_pc, pass, owed, boot, g_imu>>
hvars == <<s_next, s_status_poll_tick, asked, valid, voltage_V, battery_voltage_V>>
lvars == <<armed, sw, stick, leg, feedback, upright, mode, L_cmd, hold>>

-----------------------------------------------------------------------------
Can == INSTANCE CanThread WITH fifo <- can_fifo

Dispatch == INSTANCE CanDispatch

Imx5 == INSTANCE Imx5Link WITH pc <- e_pc, frame <- imx_frame

Imu == INSTANCE ImuFifo WITH mode <- fifo_mode, pc <- spi_pc

Hips == INSTANCE HipStatus

\* The default (LQR) build.
Legs == INSTANCE LegHeight WITH USES_WHEEL_VELOCITY <- TRUE

ASSUME CanAssumption == Can!DepthAssumption /\ Can!ModAssumption
ASSUME DispatchAssumption == Dispatch!SizesAssumption /\ Dispatch!FramesAssumption
ASSUME Imx5Assumption == Imx5!TicksAssumption
ASSUME ImuAssumption == Imu!RateAssumption
ASSUME HipsAssumption == Hips!PollAssumption
ASSUME LegsAssumption == Legs!LengthAssumption

-----------------------------------------------------------------------------
\* Only the component that moves starts in any of its initial states.
FeedbackInit ==
  /\ part \in {"sbus", "can", "dispatch", "imx5", "imu", "hips", "legs"}
  /\ Init /\ Can!Init /\ Dispatch!Init /\ Imx5!Init /\ Imu!Init /\ Hips!Init /\ Legs!Init
  /\ part # "sbus" => at = 0 /\ frame = sent /\ sent = CHOOSE c \in Content : TRUE
  /\ part # "imx5" => link
  /\ part # "legs" => leg = 1 /\ upright

SbusStep     == part = "sbus" /\ Next /\ UNCHANGED <<part, cvars, dvars, xvars, ivars, hvars, lvars>>
CanStep      == part = "can" /\ Can!Next /\ UNCHANGED <<part, vars, dvars, xvars, ivars, hvars, lvars>>
DispatchStep == part = "dispatch" /\ Dispatch!Next /\ UNCHANGED <<part, vars, cvars, xvars, ivars, hvars, lvars>>
Imx5Step     == part = "imx5" /\ Imx5!Next /\ UNCHANGED <<part, vars, cvars, dvars, ivars, hvars, lvars>>
ImuStep      == part = "imu" /\ Imu!Next /\ UNCHANGED <<part, vars, cvars, dvars, xvars, hvars, lvars>>
HipStep      == part = "hips" /\ Hips!Next /\ UNCHANGED <<part, vars, cvars, dvars, xvars, ivars, lvars>>
LegStep      == part = "legs" /\ Legs!Next /\ UNCHANGED <<part, vars, cvars, dvars, xvars, ivars, hvars>>

FeedbackNext == SbusStep \/ CanStep \/ DispatchStep \/ Imx5Step \/ ImuStep \/ HipStep \/ LegStep

\* The fairness of each component (its Fairness) while it is the one to move.
FeedbackFairness ==
  /\ WF_cvars(part = "can" /\ \E b \in {1, 2} : Can!Poll(b))
  /\ \A b \in {1, 2} : WF_cvars(part = "can" /\ Can!Rejoin(b))
  /\ WF_xvars(part = "imx5" /\ (Imx5!Snapshot \/ Imx5!ClearStale \/ Imx5!Update))
  /\ WF_xvars(part = "imx5" /\ Imx5!imx5_can_cb)
  /\ WF_hvars(part = "hips" /\ Hips!ControlTick)
  /\ \A h \in 1..4 : WF_hvars(part = "hips" /\ (Hips!StatusLost(h) \/ \E v \in Volts : Hips!StatusReply(h, v)))
  /\ WF_lvars(part = "legs" /\ Legs!ControlTick) /\ WF_lvars(part = "legs" /\ Legs!Follow)

FeedbackSpec ==
  /\ FeedbackInit
  /\ [][FeedbackNext]_<<part, vars, cvars, dvars, xvars, ivars, hvars, lvars>>
  /\ FeedbackFairness

-----------------------------------------------------------------------------
(***************************************************************************)
(* can_check_busoff: bus-off is never for good, on either bus.             *)
(***************************************************************************)
BusOffRecovers == Can!BusOffRecovers

(***************************************************************************)
(* CANThread: a flood on one bus does not keep the other's FIFO full.      *)
(***************************************************************************)
NeitherBusStarves == Can!NeitherBusStarves

(***************************************************************************)
(* CAN,scan,stop prints the first ids bus 1 carried since the scan was     *)
(* started, with exact counts, though CANThread runs between the           *)
(* statements that clear, start and stop the scanner.                      *)
(***************************************************************************)
ScanExact == Dispatch!ScanExact

(***************************************************************************)
(* StateEstThread and imx5_can_cb: no quaternion is fused twice, and none  *)
(* after the IMX5 has been silent for the timeout.                         *)
(***************************************************************************)
FusesFreshOnce == Imx5!FusesFreshOnce

(***************************************************************************)
(* After a reconnection of the IMX5 fusion resumes, though the frame that  *)
(* ends an outage can be stored just before `valid` is cleared over it.    *)
(***************************************************************************)
FusionResumes == part = "imx5" => Imx5!FusionResumes

(***************************************************************************)
(* ICM45686::init: no sample from before a reset of the controller is      *)
(* published after it, though the sensor went on sampling.                 *)
(***************************************************************************)
NothingFromBefore == Imu!NothingFromBefore

(***************************************************************************)
(* can_motor_poll_status_round_robin: every hip is asked for its status    *)
(* again and again, though the search skips the wheels.                    *)
(***************************************************************************)
EveryHipPolled == part = "hips" => Hips!EveryHipPolled

(***************************************************************************)
(* StandUpController: a robot that stays armed in balance mode, upright    *)
(* and with feedback, stands up from any leg length and goes over to       *)
(* balancing.                                                              *)
(***************************************************************************)
StandsUp == part = "legs" => Legs!StandsUp

(***************************************************************************)
(* StandUpController and LqrBalanceController: with a measured leg, the    *)
(* first leg length commanded in a mode is within one step of the ramp of  *)
(* it, in every episode.                                                   *)
(***************************************************************************)
NoJumpOnEntry == Legs!NoJumpOnEntry
==============================================================================
