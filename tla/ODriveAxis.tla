------------------------------ MODULE ODriveAxis ------------------------------
(***************************************************************************)
(* A wheel's ODrive axis as the firmware drives it over CAN bus 1          *)
(* (coms/CANMotor.cpp, ODRIVE section).  The drive itself is external: it  *)
(* executes the frames it receives, in order, and keeps its last inputs.   *)
(*                                                                         *)
(* A setpoint is abstracted to where it came from:                         *)
(*   "zero"   no motion;                                                   *)
(*   "fresh"  nonzero, computed since the current robot mode was entered;  *)
(*   "stale"  nonzero, computed in an earlier episode of a mode;           *)
(*   "sweep"  the bench test's slow velocity;                              *)
(*   "torque" a nonzero balance torque.                                    *)
(***************************************************************************)
EXTENDS Sequences

Velocity == {"zero", "fresh", "stale", "sweep"}
Torque   == {"zero", "torque"}

Axis == [state : {"idle", "closed"}, mode : {"torque", "velocity"},
         vel : {"zero", "moving"}, torque : Torque]

\* After can_motor_register() -> odrive_init_axis() at boot.
odrive_init_axis == [state |-> "closed", mode |-> "torque",
                     vel |-> "zero", torque |-> "zero"]

\* The frames can_send() puts on the wire, addressed to a motor id.
odrive_set_axis_state(id, s)      == [to |-> id, cmd |-> "axis_state", arg |-> s]
odrive_set_controller_mode(id, m) == [to |-> id, cmd |-> "controller_mode", arg |-> m]
odrive_send_velocity(id, v)       == [to |-> id, cmd |-> "input_vel", arg |-> v]
odrive_send_torque(id, t)         == [to |-> id, cmd |-> "input_torque", arg |-> t]

ModeCmd     == {"axis_state", "controller_mode"}  \* sent once per mode switch
SetpointCmd == {"input_vel", "input_torque"}      \* reissued every tick

\* Mutant: Set_Controller_Mode alone, as before the fix its comment describes.
SwitchFrames_Bare(id, m) == << odrive_set_controller_mode(id, m) >>

\* can_motor_set_odrive_mode(): the bracketed switch IDLE, mode, CLOSED_LOOP.
SwitchFrames(id, m) ==
  << odrive_set_axis_state(id, "idle"),
     odrive_set_controller_mode(id, m),
     odrive_set_axis_state(id, "closed") >>

\* External: what a received frame does to the axis, which cannot tell where a
\* nonzero velocity came from.
Receive(a, f) ==
  [state  |-> IF f.cmd = "axis_state" THEN f.arg ELSE a.state,
   mode   |-> IF f.cmd = "controller_mode" THEN f.arg ELSE a.mode,
   vel    |-> IF f.cmd # "input_vel" THEN a.vel
              ELSE IF f.arg = "zero" THEN "zero" ELSE "moving",
   torque |-> IF f.cmd = "input_torque" THEN f.arg ELSE a.torque]

\* External: the input the axis is acting on.
Effective(a) == IF a.state = "idle" THEN "zero"
                ELSE IF a.mode = "velocity" THEN a.vel ELSE a.torque
=============================================================================
