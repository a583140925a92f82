---------------------------- MODULE MotorControl ----------------------------
(***************************************************************************)
(* The path from the radio's arm and mode switches to the wheel drives:    *)
(* four threads that share robot_sm, g_motor_test and the two ODrive axes. *)
(*                                                                         *)
(*   RadioThread      publishes g_armed and MODE_SW (module RadioLink);    *)
(*   ControlThread    runs RobotStateMachine or MotorTest (+20);           *)
(*   WheelSendThread  sends the wheel setpoints (+18);                     *)
(*   USBCmdThread     runs MOTOR,test,<id>,start and MOTOR,test,stop (-20).*)
(*                                                                         *)
(* A step is what a thread does up to its next can_send(), which may block *)
(* for a mailbox and let any other thread run, or, for the threads that    *)
(* can be preempted, up to its next access to shared state.  Hip torques   *)
(* are not tracked here.                                                   *)
(***************************************************************************)
EXTENDS RobotStateMachine, Integers

CONSTANTS
  COMPUTE_DIVISOR, \* ControlThread: send ticks per compute tick (1 at 100 Hz)
  Tested,          \* the motor ids the operator bench-tests
  Liberties,       \* what the operator does beyond the bench procedure
  Lossy,           \* commands whose frames the bus may drop (CCCR.DAR is set)
  MaxLosses        \* bound on the number of dropped frames

Wheel == {5, 6}
Motor == 1 .. 6

ASSUME DivisorAssumption   == COMPUTE_DIVISOR \in Nat \ {0}
ASSUME TestedAssumption    == Tested \subseteq Motor
ASSUME LibertiesAssumption ==
  Liberties \subseteq {"start_any", "start_twice", "stop_any", "arm_in_flight"}
ASSUME LossyAssumption     == Lossy \subseteq ModeCmd \cup SetpointCmd
ASSUME LossesAssumption    == MaxLosses \in Nat

VARIABLES
  g_armed, g_mode_sw,             \* RadioThread's publication
  mode, wheel_vel,                \* robot_sm: _mode and the targets per mode
  active, motor_id, is_hip,       \* g_motor_test ...
  vel_target,                     \* ... and its held wheel target
  c_pc, c_armed, c_sw,            \* ControlThread: position and snapshot,
  c_out, tick, torques,           \* frames to send, tick, its ZOH buffer
  g_motor_torques,                \* published wheel torques
  w_pc, w_next, w_mode, w_out,    \* WheelSendThread; w_mode: its load of _mode
  u_pc, u_id, u_todo, u_out,      \* USBCmdThread
  axis,                           \* the two drives
  losses                          \* frames dropped so far

radio   == <<g_armed, g_mode_sw>>
sm      == <<mode, wheel_vel>>
test    == <<active, motor_id, is_hip, vel_target>>
control == <<c_pc, c_armed, c_sw, c_out, tick, torques, g_motor_torques>>
wheels  == <<w_pc, w_next, w_mode, w_out>>
usb     == <<u_pc, u_id, u_todo, u_out>>
bus     == <<axis, losses>>
vars    == <<radio, sm, test, control, wheels, usb, bus>>

Still == [w \in Wheel |-> "zero"]

Init ==
  /\ g_armed = FALSE /\ g_mode_sw = "balance"
  /\ mode = "IDLE" /\ wheel_vel = [m \in Driven |-> "zero"]
  /\ active = FALSE /\ motor_id = 0 /\ is_hip = FALSE /\ vel_target = "zero"
  /\ c_pc = "sleep" /\ c_armed = FALSE /\ c_sw = "balance" /\ c_out = <<>>
  /\ tick = 0 /\ torques = Still /\ g_motor_torques = Still
  /\ w_pc = "top" /\ w_next = 5 /\ w_mode = "none" /\ w_out = <<>>
  /\ u_pc = "idle" /\ u_id = 0 /\ u_todo = {} /\ u_out = <<>>
  /\ axis = [w \in Wheel |-> odrive_init_axis] /\ losses = 0

-----------------------------------------------------------------------------
(* The bus. *)

\* can_send(): the frame reaches the drive, or is dropped and never retried.
\* Nothing here listens to a velocity frame for a hip.
Send(f) ==
  \/ /\ axis' = [w \in Wheel |-> IF w = f.to THEN Receive(axis[w], f) ELSE axis[w]]
     /\ UNCHANGED losses
  \/ /\ f.cmd \in Lossy /\ losses < MaxLosses
     /\ losses' = losses + 1
     /\ UNCHANGED axis

\* can_motor_set_odrive_mode() on any id: hips and id 0 are rejected.
can_motor_set_odrive_mode(id, m) ==
  IF id \in Wheel THEN SwitchFrames(id, m) ELSE <<>>

-----------------------------------------------------------------------------
(* RadioThread. *)

\* Arming while a USB test command is still switching a drive is a liberty.
RadioPublish(a, sw) ==
  /\ a /\ ~g_armed => u_pc = "idle" \/ "arm_in_flight" \in Liberties
  /\ g_armed' = a
  /\ g_mode_sw' = sw
  /\ UNCHANGED <<sm, test, control, wheels, usb, bus>>

-----------------------------------------------------------------------------
(* ControlThread. *)

\* RobotStateMachine::update() up to its first can_send(): mode, resets, and
\* the drive switches of an edge of wants_wheel_velocity().
SmUpdate(armed, sw) ==
  \E standing \in BOOLEAN :
    LET now == NextMode(mode, armed, sw, standing)
    IN  /\ mode' = now
        /\ wheel_vel' = TargetsAfter(wheel_vel, mode, now)
        /\ c_out' = IF DriveMode(now) = DriveMode(mode) THEN <<>>
                    ELSE SwitchFrames(5, DriveMode(now)) \o SwitchFrames(6, DriveMode(now))
        /\ c_pc' = "switching"

\* Mutant: stop() leaves the wheel in velocity mode.
StopFrames_NoRevert == <<>>

\* MotorTest::stop() up to its can_send() calls; not gated on active.
StopFrames == IF is_hip THEN <<>> ELSE can_motor_set_odrive_mode(motor_id, "torque")

\* A compute tick: snapshot, then MotorTest or the state machine.  The snapshot
\* is a local, kept here only while sends stand between it and its use.
CtrlCompute ==
  /\ c_pc = "sleep" /\ tick = 0
  /\ \/ /\ active /\ g_armed
        /\ c_armed' = g_armed /\ c_sw' = g_mode_sw
        /\ c_out' = StopFrames
        /\ c_pc' = "stopping"
        /\ UNCHANGED <<sm, test, torques>>
     \/ /\ active /\ ~g_armed
        /\ torques' = Still
        /\ vel_target' \in IF is_hip \/ motor_id \notin Motor THEN {vel_target}
                          ELSE {vel_target, "sweep"}
        /\ c_pc' = "broadcast"
        /\ UNCHANGED <<sm, c_armed, c_sw, c_out, active, motor_id, is_hip>>
     \/ /\ ~active
        /\ SmUpdate(g_armed, g_mode_sw)
        /\ UNCHANGED <<test, c_armed, c_sw, torques>>
  /\ UNCHANGED <<radio, tick, g_motor_torques, wheels, usb, bus>>

\* A hold tick re-sends the held torques without recomputing them.
CtrlHold ==
  /\ c_pc = "sleep" /\ tick # 0
  /\ c_pc' = "broadcast"
  /\ UNCHANGED <<radio, sm, test, c_armed, c_sw, c_out, tick, torques,
                 g_motor_torques, wheels, usb, bus>>

CtrlSend ==
  /\ c_out # <<>>
  /\ Send(Head(c_out))
  /\ c_out' = Tail(c_out)
  /\ UNCHANGED <<radio, sm, test, c_pc, c_armed, c_sw, tick, torques,
                 g_motor_torques, wheels, usb>>

\* Mutant: the arm-triggered stop does not clear _active.
CtrlStopDone_KeepsTest ==
  /\ c_pc = "stopping" /\ c_out = <<>>
  /\ SmUpdate(c_armed, c_sw)
  /\ UNCHANGED <<radio, test, c_armed, c_sw, tick, torques, g_motor_torques, wheels, usb, bus>>

\* The end of the arm-triggered stop(false), then the state machine.
CtrlStopDone ==
  /\ c_pc = "stopping" /\ c_out = <<>>
  /\ active' = FALSE
  /\ SmUpdate(c_armed, c_sw)
  /\ c_armed' = FALSE /\ c_sw' = "balance"
  /\ UNCHANGED <<radio, motor_id, is_hip, vel_target, tick,
                 torques, g_motor_torques, wheels, usb, bus>>

\* Mutant: update() does not clear the ZOH buffer first.
CtrlDispatch_NoMemset ==
  /\ c_pc = "switching" /\ c_out = <<>>
  /\ IF wants_wheel_velocity(mode)
     THEN \E v \in {"zero", "fresh"} : wheel_vel' = [wheel_vel EXCEPT ![mode] = v]
     ELSE UNCHANGED wheel_vel
  /\ torques' \in IF mode = "BALANCING" /\ ~wants_wheel_velocity(mode)
                  THEN [Wheel -> Torque] ELSE {torques}
  /\ c_pc' = "broadcast"
  /\ UNCHANGED <<radio, mode, test, c_armed, c_sw, c_out, tick,
                 g_motor_torques, wheels, usb, bus>>

\* The controller of the mode, then ActuatorSafety::apply().  Under LQR every
\* mode computes a velocity (zero without feedback); under PID balancing
\* computes a torque, which the gate may zero.
CtrlDispatch ==
  /\ c_pc = "switching" /\ c_out = <<>>
  /\ IF wants_wheel_velocity(mode)
     THEN /\ \E v \in {"zero", "fresh"} : wheel_vel' = [wheel_vel EXCEPT ![mode] = v]
          /\ torques' = Still
     ELSE /\ torques' \in IF mode = "BALANCING" THEN [Wheel -> Torque] ELSE {Still}
          /\ UNCHANGED wheel_vel
  /\ c_pc' = "broadcast"
  /\ UNCHANGED <<radio, mode, test, c_armed, c_sw, c_out, tick,
                 g_motor_torques, wheels, usb, bus>>

\* After the hip broadcast: publish and sleep until the next tick.
CtrlPublish ==
  /\ c_pc = "broadcast"
  /\ g_motor_torques' = torques
  /\ tick' = (tick + 1) % COMPUTE_DIVISOR
  /\ c_pc' = "sleep"
  /\ UNCHANGED <<radio, sm, test, c_armed, c_sw, c_out, torques, wheels, usb, bus>>

Control == CtrlCompute \/ CtrlHold \/ CtrlSend \/ CtrlStopDone \/ CtrlDispatch \/ CtrlPublish

-----------------------------------------------------------------------------
(* WheelSendThread. *)

\* wheel_velocity_mode() is read without a lock.
WheelTop ==
  /\ w_pc = "top"
  /\ w_pc' = IF wants_wheel_velocity(mode) THEN "velocity" ELSE "torque"
  /\ w_next' = 5
  /\ UNCHANGED <<radio, sm, test, control, w_mode, w_out, usb, bus>>

\* wheel_vel_L() or wheel_vel_R(), first load: its switch is on a copy of _mode.
WheelReadMode ==
  /\ w_pc = "velocity" /\ w_mode = "none" /\ w_out = <<>>
  /\ w_mode' = mode
  /\ UNCHANGED <<radio, sm, test, control, w_pc, w_next, w_out, usb, bus>>

\* Second load: the target of the mode that was loaded, which ControlThread may
\* have left since.  Then can_send() may block.
WheelReadVel ==
  /\ w_mode # "none"
  /\ w_out' = << odrive_send_velocity(w_next, WheelVel(wheel_vel, w_mode)) >>
  /\ w_mode' = "none"
  /\ UNCHANGED <<radio, sm, test, control, w_pc, w_next, usb, bus>>

\* Both torques are read in one critical section of state_mtx.
WheelReadTorque ==
  /\ w_pc = "torque" /\ w_out = <<>>
  /\ w_out' = << odrive_send_torque(5, g_motor_torques[5]),
                 odrive_send_torque(6, g_motor_torques[6]) >>
  /\ UNCHANGED <<radio, sm, test, control, w_pc, w_next, w_mode, usb, bus>>

\* After a path's last frame the thread goes on: the right wheel's velocity,
\* the bench test's, or its next period.
WheelSend ==
  /\ w_out # <<>>
  /\ Send(Head(w_out))
  /\ w_out' = Tail(w_out)
  /\ LET last == Len(w_out) = 1
     IN  /\ w_pc' = IF ~last \/ (w_pc = "velocity" /\ w_next = 5) THEN w_pc
                    ELSE IF w_pc = "test" THEN "top" ELSE "test"
         /\ w_next' = IF last /\ w_pc = "velocity" THEN 6 ELSE w_next
  /\ UNCHANGED <<radio, sm, test, control, w_mode, usb>>

\* A wheel under test gets the held target on top of the above.
WheelTest ==
  /\ w_pc = "test" /\ w_out = <<>>
  /\ IF active /\ ~is_hip /\ motor_id \in Motor
     THEN /\ w_out' = << odrive_send_velocity(motor_id, vel_target) >>
          /\ UNCHANGED w_pc
     ELSE /\ w_pc' = "top"
          /\ UNCHANGED w_out
  /\ UNCHANGED <<radio, sm, test, control, w_next, w_mode, usb, bus>>

WheelThread ==
  WheelTop \/ WheelReadMode \/ WheelReadVel \/ WheelReadTorque \/ WheelSend \/ WheelTest

-----------------------------------------------------------------------------
(* USBCmdThread: the bench-test commands. *)

\* ControlThread is not in the middle of switching a drive.
ControlSettled == c_pc \notin {"stopping", "switching"}

\* The bench procedure: tests are started and stopped on a robot that is
\* disarmed and has gone idle, one test at a time.
OnBench == ~g_armed /\ mode = "IDLE" /\ ControlSettled

StartAllowed ==
  \/ "start_any" \in Liberties
  \/ OnBench /\ (~active \/ "start_twice" \in Liberties)

StopAllowed == OnBench \/ "stop_any" \in Liberties

\* MotorTest::start(): plain stores to _active, _motor_id and _is_hip, in
\* whatever order the compiler emits them, and then, for a wheel, the switch
\* to velocity mode.
UsbStart(id) ==
  /\ u_pc = "idle" /\ StartAllowed
  /\ u_pc' = "starting"
  /\ u_id' = id
  /\ u_todo' = {"active", "id", "hip"}
  /\ UNCHANGED <<radio, sm, test, control, wheels, u_out, bus>>

UsbStore(field) ==
  /\ u_pc = "starting" /\ field \in u_todo
  /\ u_todo' = u_todo \ {field}
  /\ active' = IF field = "active" THEN TRUE ELSE active
  /\ motor_id' = IF field = "id" THEN u_id ELSE motor_id
  /\ is_hip' = IF field = "hip" THEN u_id <= 4 ELSE is_hip
  /\ u_out' = IF u_todo = {field} THEN can_motor_set_odrive_mode(u_id, "velocity") ELSE u_out
  /\ UNCHANGED <<radio, sm, vel_target, control, wheels, u_pc, u_id, bus>>

UsbStop ==
  /\ u_pc = "idle" /\ StopAllowed
  /\ u_pc' = "stopping"
  /\ u_out' = StopFrames
  /\ UNCHANGED <<radio, sm, test, control, wheels, u_id, u_todo, bus>>

\* The three frames of a settled switch, 50 ms apart.
UsbSend ==
  /\ u_out # <<>>
  /\ Send(Head(u_out))
  /\ u_out' = Tail(u_out)
  /\ UNCHANGED <<radio, sm, test, control, wheels, u_pc, u_id, u_todo>>

\* start() returns, or stop() clears _active and returns.
UsbDone ==
  /\ u_pc # "idle" /\ u_todo = {} /\ u_out = <<>>
  /\ active' = IF u_pc = "stopping" THEN FALSE ELSE active
  /\ u_pc' = "idle"
  /\ u_id' = 0
  /\ UNCHANGED <<radio, sm, motor_id, is_hip, vel_target, control, wheels, u_todo, u_out, bus>>

UsbRun == (\E f \in {"active", "id", "hip"} : UsbStore(f)) \/ UsbSend \/ UsbDone

-----------------------------------------------------------------------------
Next ==
  \/ \E a \in BOOLEAN, sw \in {"car", "balance"} : RadioPublish(a, sw)
  \/ Control
  \/ WheelThread
  \/ \E id \in Tested : UsbStart(id)
  \/ UsbStop
  \/ UsbRun

\* The periodic threads keep running and an accepted USB command runs to its
\* end: can_send() times out, the mutexes are held briefly, and the threads
\* above leave the CPU idle most of every period.  Nothing is assumed of the
\* radio or of the operator.
Fairness == WF_vars(Control) /\ WF_vars(WheelThread) /\ WF_vars(UsbRun)

Spec == Init /\ [][Next]_vars /\ Fairness
-----------------------------------------------------------------------------
Frame ==
  [to : Motor, cmd : {"axis_state"}, arg : {"idle", "closed"}]
    \cup [to : Motor, cmd : {"controller_mode"}, arg : {"torque", "velocity"}]
    \cup [to : Motor, cmd : {"input_vel"}, arg : Velocity]
    \cup [to : Motor, cmd : {"input_torque"}, arg : Torque]

RadioType   == g_armed \in BOOLEAN /\ g_mode_sw \in {"car", "balance"}
SmType      == mode \in RobotMode /\ wheel_vel \in [Driven -> Velocity \ {"sweep"}]
TestType    == /\ active \in BOOLEAN /\ motor_id \in 0 .. 6 /\ is_hip \in BOOLEAN
               /\ vel_target \in {"zero", "sweep"}
ControlType == /\ c_pc \in {"sleep", "stopping", "switching", "broadcast"}
               /\ c_armed \in BOOLEAN /\ c_sw \in {"car", "balance"}
               /\ c_out \in Seq(Frame) /\ tick \in 0 .. COMPUTE_DIVISOR - 1
               /\ torques \in [Wheel -> Torque] /\ g_motor_torques \in [Wheel -> Torque]
WheelType   == /\ w_pc \in {"top", "velocity", "torque", "test"} /\ w_next \in Wheel
               /\ w_mode \in RobotMode \cup {"none"} /\ w_out \in Seq(Frame)
UsbType     == /\ u_pc \in {"idle", "starting", "stopping"} /\ u_id \in 0 .. 6
               /\ u_todo \in SUBSET {"active", "id", "hip"} /\ u_out \in Seq(Frame)
BusType     == axis \in [Wheel -> Axis] /\ losses \in 0 .. MaxLosses
TypeOK == RadioType /\ SmType /\ TestType /\ ControlType /\ WheelType /\ UsbType /\ BusType

\* The wheel the bench test is driving.
UnderTest(w) == active /\ ~is_hip /\ motor_id = w

(***************************************************************************)
(* Whenever no thread is in the middle of switching a drive, each drive is *)
(* in closed loop and in the mode its commands assume: velocity for a wheel*)
(* under test or when the robot mode wants it, torque otherwise.  The      *)
(* switches are sent only on mode edges, so a disagreement would last.     *)
(***************************************************************************)
AxisAgrees ==
  ControlSettled /\ u_pc = "idle" =>
    \A w \in Wheel :
      /\ axis[w].state = "closed"
      /\ axis[w].mode = IF UnderTest(w) THEN "velocity" ELSE DriveMode(mode)

(***************************************************************************)
(* A drive never changes its controller mode while in closed loop, which   *)
(* can fault the axis (can_motor_set_odrive_mode()'s comment): every mode  *)
(* frame arrives bracketed by IDLE and CLOSED_LOOP, whoever else is        *)
(* sending.                                                                *)
(***************************************************************************)
BracketedModeChange ==
  [][ \A w \in Wheel : axis'[w].mode # axis[w].mode => axis[w].state = "idle" ]_vars

(***************************************************************************)
(* WheelSendThread hands can_send() a velocity computed in an earlier      *)
(* episode of its mode only when ControlThread left that mode between the  *)
(* thread's load of _mode and its load of the target: never the target of  *)
(* the mode the robot is in.  update() sets _mode first and clears the     *)
(* entered mode's target after it, and computes a new one only after up to *)
(* six blocking sends, in which WheelSendThread runs.                      *)
(***************************************************************************)
StaleOnlyIfModeLeft ==
  [][ w_out = <<>> /\ w_out' # <<>> =>
        LET f == Head(w_out')
        IN  f.cmd = "input_vel" /\ f.arg = "stale" => w_mode # mode ]_vars

(***************************************************************************)
(* Once the robot stays disarmed, every wheel comes to rest and stays at   *)
(* rest, except one that is under bench test ("disarmed: all motors        *)
(* zero-torque", RobotStateMachine.hpp; "every motor besides the one under *)
(* test is held at zero", MotorTest.hpp).                                  *)
(***************************************************************************)
DisarmedComesToRest ==
  <>[](~g_armed) =>
    <>[](\A w \in Wheel : Effective(axis[w]) = "zero" \/ UnderTest(w))

(***************************************************************************)
(* A bench test and the state machine's own velocity commands exclude each *)
(* other (WheelSendThread's comment): while a test is running and          *)
(* ControlThread is between ticks of its own, the robot mode drives no     *)
(* wheel by velocity.                                                      *)
(***************************************************************************)
TestExcludesDriving == active /\ c_pc = "sleep" => ~wants_wheel_velocity(mode)

-----------------------------------------------------------------------------
(* Inductive strengthenings. *)

\* What StaleOnlyIfModeLeft rests on: the target of the mode robot_sm is in is
\* never stale, and balancing by PID never sets one at all.
CurrentInv ==
  /\ mode \in Driven => wheel_vel[mode] # "stale"
  /\ ~USES_WHEEL_VELOCITY => wheel_vel["BALANCING"] = "zero"

\* The operator starts tests on a robot at rest and arms only between USB
\* commands; stopping and restarting a test at will is not excluded.
BenchProcedure == Liberties \cap {"start_any", "arm_in_flight"} = {}

\* What makes TestExcludesDriving inductive under the bench procedure.
ExclusionInv ==
  /\ u_pc = "starting" => ~g_armed /\ mode = "IDLE" /\ c_pc # "stopping"
  /\ active => mode = "IDLE"

\* The operator keeps to the bench procedure in full, and the bus drops
\* setpoints only (they are sent again; a mode switch is not).
ProcedureKept == Liberties = {} /\ Lossy \cap ModeCmd = {}

\* What makes AxisAgrees inductive then: how far each bracketed switch has got,
\* and that the two threads never switch at the same time.
SettledIn(a, m) == a.state = "closed" /\ a.mode = m

\* Drive a, of wheel w, is being switched to mode m: q is left to send.
Bracket(a, w, m, q) ==
  \/ q = SwitchFrames(w, m) /\ a.state = "closed"
  \/ /\ q = << odrive_set_controller_mode(w, m), odrive_set_axis_state(w, "closed") >>
     /\ a.state = "idle"
  \/ /\ q = << odrive_set_axis_state(w, "closed") >>
     /\ a.state = "idle" /\ a.mode = m
  \/ q = <<>> /\ SettledIn(a, m)

\* One wheel is being switched, if id is one, and the other is in torque mode.
OneSwitched(ax, id, m, q) ==
  /\ \A w \in Wheel : IF w = id THEN Bracket(ax[w], w, m, q) ELSE SettledIn(ax[w], "torque")
  /\ id \notin Wheel => q = <<>>

\* What is left of a switch before each of its frames.
Remainders(w, m) ==
  { SwitchFrames(w, m),
    << odrive_set_controller_mode(w, m), odrive_set_axis_state(w, "closed") >>,
    << odrive_set_axis_state(w, "closed") >> }

\* update()'s two switches: the left wheel's, then the right wheel's.
BothSwitched(ax, m, q) ==
  \/ SettledIn(ax[5], m) /\ Bracket(ax[6], 6, m, q)
  \/ \E left \in Remainders(5, m) :
       /\ q = left \o SwitchFrames(6, m)
       /\ Bracket(ax[5], 5, m, left) /\ ax[6].state = "closed"

\* The motor a stop() switches back.
StopId == IF is_hip THEN 0 ELSE motor_id

Agree == \A w \in Wheel : SettledIn(axis[w], IF UnderTest(w) THEN "velocity" ELSE DriveMode(mode))

SwitchInv ==
  /\ w_out \in Seq({f \in Frame : f.cmd \in SetpointCmd})
  /\ u_pc # "idle" => ~g_armed /\ mode = "IDLE" /\ c_pc # "stopping" /\ c_out = <<>>
  /\ active \/ c_pc = "stopping" => mode = "IDLE"
  /\ c_out # <<>> => c_pc \in {"stopping", "switching"}
  /\ u_pc = "idle" => u_out = <<>> /\ u_todo = {}
  /\ u_pc = "stopping" => u_todo = {} /\ OneSwitched(axis, StopId, "torque", u_out)
  /\ u_pc = "starting" =>
       /\ u_id \in Motor
       /\ "active" \notin u_todo => active
       /\ "id" \notin u_todo => motor_id = u_id
       /\ "hip" \notin u_todo => is_hip = (u_id <= 4)
       /\ IF u_todo = {} THEN OneSwitched(axis, u_id, "velocity", u_out)
          ELSE u_out = <<>> /\ \A w \in Wheel : SettledIn(axis[w], "torque")
  /\ c_pc = "stopping" => OneSwitched(axis, StopId, "torque", c_out)
  /\ c_pc = "switching" /\ c_out # <<>> => ~active /\ BothSwitched(axis, DriveMode(mode), c_out)
  /\ u_pc = "idle" /\ c_pc # "stopping" /\ c_out = <<>> => Agree
=============================================================================
