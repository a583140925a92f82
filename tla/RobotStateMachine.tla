-------------------------- MODULE RobotStateMachine --------------------------
(***************************************************************************)
(* RobotStateMachine::update (controllers/RobotStateMachine.cpp): which    *)
(* mode comes next, what is reset on the way, and which wheel mode each    *)
(* robot mode wants.  Operators only; MotorControl holds the state and     *)
(* runs them inside ControlThread.                                         *)
(***************************************************************************)
EXTENDS ODriveAxis

CONSTANT
  USES_WHEEL_VELOCITY  \* TRUE: BALANCE_CTRL_LQR (the default build), FALSE: PID

ASSUME BalanceAssumption == USES_WHEEL_VELOCITY \in BOOLEAN

RobotMode == {"IDLE", "STANDING_UP", "BALANCING", "CAR"}

\* The modes with a controller object of their own that holds wheel targets.
Driven == RobotMode \ {"IDLE"}

wants_wheel_velocity(m) ==
  m \in {"CAR", "STANDING_UP"} \/ (m = "BALANCING" /\ USES_WHEEL_VELOCITY)

\* Mutant: disarming does not leave the mode.
NextMode_IgnoresDisarm(prev, armed, sw, standing) ==
  IF ~armed THEN prev ELSE IF sw = "car" THEN "CAR" ELSE "STANDING_UP"

\* sw is the sign of MODE_SW; standing is StandUpController::is_standing().
NextMode(prev, armed, sw, standing) ==
  IF ~armed THEN "IDLE"
  ELSE IF sw = "car" THEN "CAR"
  ELSE IF prev \in {"IDLE", "CAR"} THEN "STANDING_UP"
  ELSE IF prev = "STANDING_UP" /\ ~standing THEN "STANDING_UP"
  ELSE "BALANCING"

\* Mutant: s_car.reset() is missing.
ResetOnEntry_NoCar(prev, now) ==
  IF prev = now \/ (now = "BALANCING" /\ ~USES_WHEEL_VELOCITY) THEN {}
  ELSE {now} \cap (Driven \ {"CAR"})

\* Which controller's reset() zeroes its wheel targets on the change prev -> now.
ResetOnEntry(prev, now) ==
  IF prev = now THEN {}
  ELSE IF now = "BALANCING" THEN
         IF prev = "STANDING_UP" /\ USES_WHEEL_VELOCITY THEN {"BALANCING"} ELSE {}
  ELSE {now} \cap Driven

\* Targets of the mode being left grow stale; reset() clears the new mode's.
TargetsAfter(vel, prev, now) ==
  [m \in Driven |->
     IF m \in ResetOnEntry(prev, now) THEN "zero"
     ELSE IF m = prev /\ prev # now /\ vel[m] = "fresh" THEN "stale"
     ELSE vel[m]]

\* wheel_vel_L()/wheel_vel_R(): the target of the current mode, 0 when IDLE.
WheelVel(vel, m) == IF m \in Driven THEN vel[m] ELSE "zero"

\* The wheel drive mode a robot mode needs.
DriveMode(m) == IF wants_wheel_velocity(m) THEN "velocity" ELSE "torque"
=============================================================================
