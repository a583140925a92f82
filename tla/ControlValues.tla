---------------------------- MODULE ControlValues ----------------------------
(***************************************************************************)
(* The components that decide what the control loop computes with and what *)
(* it may send: the gates of hips and wheels (ActuatorGate), the           *)
(* estimator's lanes (Lanes) and the PIDs' memory (PidStale).  They share  *)
(* no state: `part`, chosen at the start, says which of them moves, and    *)
(* the others keep their initial state.  The reachable states of each are  *)
(* those it has alone.                                                     *)
(***************************************************************************)
EXTENDS Integers

CONSTANTS
  Hip, Wheel, SIGN, OFFSET, ANGLE_MIN, ANGLE_MAX, ANGLE_MARGIN, VEL_LIMIT, VEL_MARGIN,
  TORQUE_LIMIT, SCALE_NUM, SCALE_DEN, RATIO_MAX, Angles, Speeds, Torques,   \* ActuatorGate
  MaxNorm, IMX5,                                                            \* Lanes
  Wrap, STALE_TIMEOUT, MaxAge                                               \* PidStale

VARIABLES part,
  g_motors, torques, k, stage, out, rep,                                  \* ActuatorGate
  g_imu, l_pc, imu_snap, norm, primary, leg_ok, wheel_ok, fused, g_state, \* Lanes
  mode, active, starting, clock, pid, age, bridged                        \* PidStale

gvars == <<g_motors, torques, k, stage, out, rep>>
lvars == <<g_imu, l_pc, imu_snap, norm, primary, leg_ok, wheel_ok, fused, g_state>>
pvars == <<mode, active, starting, clock, pid, age, bridged>>

-----------------------------------------------------------------------------
Motors == INSTANCE ActuatorGate

Est == INSTANCE Lanes WITH pc <- l_pc

\* The default (LQR) build; a bench test is started when the robot is IDLE.
Pids == INSTANCE PidStale WITH USES_WHEEL_VELOCITY <- TRUE, StartWhenIdle <- TRUE

ASSUME MotorsAssumption ==
  /\ Motors!MotorAssumption /\ Motors!SignAssumption /\ Motors!AngleAssumption
  /\ Motors!VelAssumption /\ Motors!TorqueAssumption /\ Motors!InputAssumption
ASSUME LanesAssumption == Est!NormAssumption
ASSUME PidsAssumption == Pids!ClockAssumption

-----------------------------------------------------------------------------
Init ==
  /\ part \in {"motors", "lanes", "pids"}
  /\ Motors!Init /\ Est!Init /\ Pids!Init

MotorStep == part = "motors" /\ Motors!Next /\ UNCHANGED <<part, lvars, pvars>>
LaneStep  == part = "lanes"  /\ Est!Next    /\ UNCHANGED <<part, gvars, pvars>>
PidStep   == part = "pids"   /\ Pids!Next   /\ UNCHANGED <<part, gvars, lvars>>

Next == MotorStep \/ LaneStep \/ PidStep

Spec == Init /\ [][Next]_<<part, gvars, lvars, pvars>>

-----------------------------------------------------------------------------
(***************************************************************************)
(* The hip gate of CANMotor.cpp: a hip whose drive reported an angle at or *)
(* beyond a stop is never driven further out, by torque or by velocity,    *)
(* and a position target lies between the stops, whichever side the hip is *)
(* mounted on.                                                             *)
(***************************************************************************)
NeverPushesOut == Motors!NeverPushesOut

(***************************************************************************)
(* hip_limit_scale and ActuatorSafety: no hip and no wheel that turns at   *)
(* its rated speed is accelerated further, on either side of the robot.    *)
(***************************************************************************)
NeverOverspeeds == Motors!NeverOverspeeds

(***************************************************************************)
(* The same ramps never restrict the way back: a torque away from the stop *)
(* a hip is at, and against its motion, goes out in full.                  *)
(***************************************************************************)
WayBackIsFree == Motors!WayBackIsFree

(***************************************************************************)
(* update_legs_and_wheels: velocity fusion is never lost while a wheel     *)
(* reports, whichever legs, hips and wheels are missing.                   *)
(***************************************************************************)
VelocityNotLost == Est!VelocityNotLost

(***************************************************************************)
(* PID.hpp: "Stale-input detection": no PID update integrates or           *)
(* differentiates over more than the stale timeout, though its clock       *)
(* wraps, except a bench sweep's tick that preempts MotorTest::start()     *)
(* between its store of _active and the PID's reset.                       *)
(***************************************************************************)
NoStaleGap == Pids!NoStaleGap
==============================================================================
