---------------------------- MODULE ActuatorGate ----------------------------
(***************************************************************************)
(* Motor feedback and the gates every motor command passes: the hip gate   *)
(* of coms/CANMotor.cpp (soft stops, speed ramp, sign and zero offset),    *)
(* ActuatorSafety::apply, and the wheel torque path.  ControlThread gates  *)
(* the motors one after the other and then sends; CANThread may store a    *)
(* reply between any two of its steps.                                     *)
(*                                                                         *)
(* Angles, speeds and torques are integers in a unit the constants fix.    *)
(* The ramps' products are kept exact: a ramp is its numerator over the    *)
(* margin, and a ramped quantity is scaled by both margins.                *)
(***************************************************************************)
EXTENDS Integers

CONSTANTS
  Hip, Wheel,                 \* motor numbers, in the order they are gated
  SIGN,                       \* HIP_SIGN and can_motor_register's sign
  OFFSET,                     \* HIP_OFFSET_RAD
  ANGLE_MIN, ANGLE_MAX, ANGLE_MARGIN,
  VEL_LIMIT, VEL_MARGIN,      \* per motor: hips 20 and 4, wheels 60 and 10 rad/s
  TORQUE_LIMIT,               \* per motor: 12 Nm and 8 Nm
  SCALE_NUM, SCALE_DEN,       \* s_rmd_torque_scale, ratio per Nm
  RATIO_MAX,                  \* RMD_TORQUE_RATIO_MAX
  Angles, Speeds,             \* raw readings a drive may report
  Torques                     \* what a controller may ask for

Motor == Hip \cup Wheel

MotorAssumption == Motor \subseteq Nat /\ Hip \cap Wheel = {}
SignAssumption == SIGN \in [Motor -> {-1, 1}] /\ OFFSET \in [Hip -> Int]
AngleAssumption ==
  ANGLE_MIN \in Int /\ ANGLE_MAX \in Int /\ ANGLE_MIN < ANGLE_MAX /\ ANGLE_MARGIN \in Nat \ {0}
VelAssumption ==
  VEL_LIMIT \in [Motor -> Nat] /\ VEL_MARGIN \in [Motor -> Nat \ {0}]
TorqueAssumption ==
  TORQUE_LIMIT \in [Motor -> Nat] /\ SCALE_NUM \in Nat /\ SCALE_DEN \in Nat \ {0} /\ RATIO_MAX \in Nat
InputAssumption ==
  /\ Angles \in [Hip -> SUBSET Int] /\ Speeds \in [Motor -> SUBSET Int] /\ Torques \subseteq Int

VARIABLES
  g_motors,           \* motor -> [valid, pos, vel], in the robot's frame
  torques,            \* motor -> the controller's torque, until it is gated
  k,                  \* the next motor of the pass; 0 between passes
  stage,              \* "apply" or "gate"
  out,                \* motor -> the commands of this pass or call
  rep                 \* history: motor -> [seen, ang, vel], raw, as last reported

vars == <<g_motors, torques, k, stage, out, rep>>

-----------------------------------------------------------------------------
(* Frames and ramps *)

Clamp(x, lo, hi) == IF x < lo THEN lo ELSE IF x > hi THEN hi ELSE x

\* Conversion of a float to an integer: towards zero.
Trunc(a, b) == IF a >= 0 THEN a \div b ELSE -((-a) \div b)

\* Mutant: the mirrored mounting is forgotten when decoding.
hip_to_robot_frame_Unsigned(m, raw) == raw - OFFSET[m]

hip_to_robot_frame(m, raw) == SIGN[m] * (raw - OFFSET[m])
hip_to_raw(m, angle) == OFFSET[m] + SIGN[m] * angle

\* Mutant: both directions are ramped.
limit_scale_BothWays(value, lo, hi, margin, qty) ==
  IF qty = 0 THEN margin ELSE
  LET a == Clamp(hi - value, 0, margin) b == Clamp(value - lo, 0, margin)
  IN IF a < b THEN a ELSE b

\* hip_limit_scale and ActuatorSafety::limit_scale, times the margin.
limit_scale(value, lo, hi, margin, qty) ==
  IF qty > 0 THEN Clamp(hi - value, 0, margin)
  ELSE IF qty < 0 THEN Clamp(value - lo, 0, margin)
  ELSE margin

AngleScale(m, qty) ==
  limit_scale(g_motors[m].pos, ANGLE_MIN, ANGLE_MAX, ANGLE_MARGIN, qty)

\* Mutant: the speed limit of the other direction.
VelScale_Swapped(m, qty) ==
  limit_scale(g_motors[m].vel, -VEL_LIMIT[m], VEL_LIMIT[m], VEL_MARGIN[m], -qty)

VelScale(m, qty) ==
  limit_scale(g_motors[m].vel, -VEL_LIMIT[m], VEL_LIMIT[m], VEL_MARGIN[m], qty)

\* hip_soft_scale, times Unit(m).
hip_soft_scale(m, qty) == AngleScale(m, qty) * VelScale(m, qty)
Unit(m) == ANGLE_MARGIN * VEL_MARGIN[m]

-----------------------------------------------------------------------------
(* What goes on the wire for a motor, zero without valid feedback. *)

HipTorque(m, t) ==
  IF ~g_motors[m].valid THEN 0
  ELSE Clamp(t * hip_soft_scale(m, t), -(TORQUE_LIMIT[m] * Unit(m)), TORQUE_LIMIT[m] * Unit(m))

\* A hip's entry of the 0x280 broadcast, and rmd_send_torque's iqControl.
Ratio(m, t) ==
  Trunc(Clamp(SIGN[m] * HipTorque(m, t) * SCALE_NUM,
              -(RATIO_MAX * SCALE_DEN * Unit(m)), RATIO_MAX * SCALE_DEN * Unit(m)),
        SCALE_DEN * Unit(m))

RawRatio(m, r) ==
  IF ~g_motors[m].valid THEN 0
  ELSE SIGN[m] * Trunc(Clamp(r * hip_soft_scale(m, r), -(RATIO_MAX * Unit(m)), RATIO_MAX * Unit(m)),
                       Unit(m))

\* hip_clamp_velocity, times ANGLE_MARGIN.
HipVelocity(m, v) ==
  IF ~g_motors[m].valid THEN 0
  ELSE SIGN[m] * Clamp(v * AngleScale(m, v), -(VEL_LIMIT[m] * ANGLE_MARGIN), VEL_LIMIT[m] * ANGLE_MARGIN)

\* hip_clamp_position_target and the frame's raw angle.
HipTarget(m, angle) == hip_to_raw(m, Clamp(angle, ANGLE_MIN, ANGLE_MAX))

\* ActuatorSafety::apply for a wheel, then odrive_send_torque.
WheelTorque(m, t) ==
  IF ~g_motors[m].valid THEN 0
  ELSE SIGN[m] * Clamp(t * VelScale(m, t), -(TORQUE_LIMIT[m] * VEL_MARGIN[m]), TORQUE_LIMIT[m] * VEL_MARGIN[m])

\* A command with what its gate knew of the motor.
Cmd(m, kind, want, wire) ==
  [kind |-> kind, want |-> want, wire |-> wire,
   seen |-> rep[m].seen, ang |-> rep[m].ang, vel |-> rep[m].vel]

-----------------------------------------------------------------------------
(* ControlThread *)

After(m, S) == {n \in S : n > m}
First(S) == IF S = {} THEN 0 ELSE CHOOSE n \in S : \A o \in S : n <= o

\* A controller has run; apply() is about to read the first motor.
Compute(t) ==
  /\ k = 0
  /\ torques' = [m \in Motor |-> t]
  /\ k' = First(Motor) /\ stage' = "apply"
  /\ out' = [m \in Motor |-> {}]
  /\ UNCHANGED <<g_motors, rep>>

\* apply(): without feedback zero; a hip's torque passes, a wheel's is limited.
Apply(m) ==
  /\ k = m /\ stage = "apply"
  /\ torques' = [torques EXCEPT ![m] = IF g_motors[m].valid THEN @ ELSE 0]
  /\ out' = IF m \in Wheel
            THEN [out EXCEPT ![m] = {Cmd(m, "wheel", torques[m], WheelTorque(m, torques[m]))}]
            ELSE out
  /\ IF After(m, Motor) # {}
     THEN k' = First(After(m, Motor)) /\ UNCHANGED stage
     ELSE k' = First(Hip) /\ stage' = "gate"
  /\ UNCHANGED <<g_motors, rep>>

\* One hip of can_motor_set_hip_torques_broadcast; after the last it is sent.
Gate(m) ==
  /\ k = m /\ stage = "gate"
  /\ out' = [out EXCEPT ![m] = {Cmd(m, "torque", torques[m], Ratio(m, torques[m]))}]
  /\ k' = First(After(m, Hip))
  /\ UNCHANGED <<g_motors, torques, stage, rep>>

-----------------------------------------------------------------------------
(* The other commands of the API: one gate, one frame. *)

Command(m, c) ==
  /\ k = 0
  /\ out' = [n \in Motor |-> IF n = m THEN {c} ELSE {}]
  /\ UNCHANGED <<g_motors, torques, k, stage, rep>>

can_motor_set_torque(m, t) == Command(m, Cmd(m, "torque", t, Ratio(m, t)))
can_motor_set_torque_raw(m, r) == Command(m, Cmd(m, "raw", r, RawRatio(m, r)))
can_motor_set_velocity(m, v) == Command(m, Cmd(m, "velocity", v, HipVelocity(m, v)))
can_motor_set_position(m, a) == Command(m, Cmd(m, "position", a, HipTarget(m, a)))

-----------------------------------------------------------------------------
(* CANThread: replies. *)

\* rmd_rx_cb, a torque or velocity reply.
rmd_reply(m, a, v) ==
  /\ g_motors' = [g_motors EXCEPT ![m] =
                    [valid |-> TRUE, pos |-> hip_to_robot_frame(m, a), vel |-> SIGN[m] * v]]
  /\ rep' = [rep EXCEPT ![m] = [seen |-> TRUE, ang |-> a, vel |-> v]]
  /\ UNCHANGED <<torques, k, stage, out>>

\* odrive_rx_cb, Get_Encoder_Estimates (a wheel's angle is not used here).
odrive_estimate(m, v) ==
  /\ g_motors' = [g_motors EXCEPT ![m] = [@ EXCEPT !.valid = TRUE, !.vel = SIGN[m] * v]]
  /\ rep' = [rep EXCEPT ![m] = [seen |-> TRUE, ang |-> 0, vel |-> v]]
  /\ UNCHANGED <<torques, k, stage, out>>

\* rmd_rx_cb's 0x9A reply (temperature, voltage, errors) and odrive_rx_cb's
\* heartbeat: the motor is valid, its position and speed are not touched.
status_reply(m) ==
  /\ g_motors' = [g_motors EXCEPT ![m].valid = TRUE]
  /\ UNCHANGED <<torques, k, stage, out, rep>>

-----------------------------------------------------------------------------
Init ==
  /\ g_motors = [m \in Motor |-> [valid |-> FALSE, pos |-> 0, vel |-> 0]]
  /\ torques = [m \in Motor |-> 0] /\ k = 0 /\ stage = "apply"
  /\ out = [m \in Motor |-> {}]
  /\ rep = [m \in Motor |-> [seen |-> FALSE, ang |-> 0, vel |-> 0]]

Control == (\E t \in Torques : Compute(t)) \/ (\E m \in Motor : Apply(m)) \/ (\E m \in Hip : Gate(m))

Api == \E m \in Hip, q \in Torques :
  \/ can_motor_set_torque(m, q) \/ can_motor_set_torque_raw(m, q)
  \/ can_motor_set_velocity(m, q) \/ can_motor_set_position(m, q)

Reply ==
  \/ \E m \in Hip : \E a \in Angles[m], v \in Speeds[m] : rmd_reply(m, a, v)
  \/ \E m \in Wheel : \E v \in Speeds[m] : odrive_estimate(m, v)
  \/ \E m \in Motor : status_reply(m)

Next == Control \/ Api \/ Reply

Spec == Init /\ [][Next]_vars

-----------------------------------------------------------------------------
(* Properties: in the drive's own frame, so that the signs and offsets of  *)
(* decoding and sending are part of them.                                  *)

\* The raw angles of the two stops, lower first.
RawLow(m)  == IF SIGN[m] = 1 THEN hip_to_raw(m, ANGLE_MIN) ELSE hip_to_raw(m, ANGLE_MAX)
RawHigh(m) == IF SIGN[m] = 1 THEN hip_to_raw(m, ANGLE_MAX) ELSE hip_to_raw(m, ANGLE_MIN)

Pushes == {"torque", "raw", "velocity"}

(***************************************************************************)
(* A hip whose drive reported an angle at or beyond one of its stops is    *)
(* never driven further out, by torque or by velocity, whichever side it   *)
(* is mounted on; and a position target, given in the robot's frame, lies  *)
(* between the raw stops when it is sent.                                  *)
(***************************************************************************)
NeverPushesOut ==
  \A m \in Hip : \A c \in out[m] :
    /\ c.kind \in Pushes /\ c.seen =>
         /\ c.ang >= RawHigh(m) => c.wire <= 0
         /\ c.ang <= RawLow(m)  => c.wire >= 0
    /\ c.kind = "position" => c.wire \in RawLow(m)..RawHigh(m)

(***************************************************************************)
(* No motor that turns at its rated speed is accelerated further.          *)
(***************************************************************************)
NeverOverspeeds ==
  \A m \in Motor : \A c \in out[m] : c.kind \in {"torque", "raw", "wheel"} /\ c.seen =>
    /\ c.vel >= VEL_LIMIT[m]    => c.wire <= 0
    /\ c.vel <= -VEL_LIMIT[m]   => c.wire >= 0

(***************************************************************************)
(* The way back is never restricted: a torque that leads away from the     *)
(* stop a hip is at, and against its motion, goes out in full.             *)
(***************************************************************************)
WayBackIsFree ==
  \A m \in Hip : \A c \in out[m] :
    /\ c.kind = "torque" /\ c.seen /\ c.want \in -TORQUE_LIMIT[m]..TORQUE_LIMIT[m]
    /\ TORQUE_LIMIT[m] * SCALE_NUM <= RATIO_MAX * SCALE_DEN
    /\ \/ c.ang >= RawHigh(m) /\ SIGN[m] * c.want < 0 /\ c.vel >= 0
       \/ c.ang <= RawLow(m)  /\ SIGN[m] * c.want > 0 /\ c.vel <= 0
    /\ VEL_MARGIN[m] <= VEL_LIMIT[m] /\ ANGLE_MARGIN <= ANGLE_MAX - ANGLE_MIN
    => c.wire = Trunc(SIGN[m] * c.want * SCALE_NUM, SCALE_DEN)
=============================================================================
