------------------------- MODULE MotorControl_proofs -------------------------
(***************************************************************************)
(* Safety of the wheel path for every set of tested motors, every choice   *)
(* of lossy frames and both balance controllers.                           *)
(***************************************************************************)
EXTENDS MotorControl, SequenceTheorems, TLAPS

USE DEF Wheel, Motor

-----------------------------------------------------------------------------
(* Lemmas about the operators. *)

\* The bracketed switch of a motor is a sequence of frames.
LEMMA SwitchType ==
  ASSUME NEW id \in Motor, NEW m \in {"torque", "velocity"}
  PROVE  SwitchFrames(id, m) \in Seq(Frame)
<1>1. /\ odrive_set_axis_state(id, "idle") \in Frame
      /\ odrive_set_controller_mode(id, m) \in Frame
      /\ odrive_set_axis_state(id, "closed") \in Frame
  BY DEF odrive_set_axis_state, odrive_set_controller_mode, Frame
<1> QED BY <1>1 DEF SwitchFrames

\* A mode's drive mode is one of the two.
LEMMA DriveModeType == ASSUME NEW m PROVE DriveMode(m) \in {"torque", "velocity"}
  BY DEF DriveMode

\* The frames of a request for any id: a rejected id sends nothing.
LEMMA RequestType ==
  ASSUME NEW id, NEW m \in {"torque", "velocity"}
  PROVE  can_motor_set_odrive_mode(id, m) \in Seq(Frame)
<1>1. CASE id \in Wheel
  <2>1. id \in Motor
    BY <1>1
  <2> QED BY <1>1, <2>1, SwitchType DEF can_motor_set_odrive_mode
<1>2. CASE id \notin Wheel
  BY <1>2 DEF can_motor_set_odrive_mode
<1> QED BY <1>1, <1>2

\* A drive that receives a frame is still a drive.
LEMMA ReceiveType ==
  ASSUME NEW a \in Axis, NEW f \in Frame PROVE Receive(a, f) \in Axis
  BY DEF Axis, Frame, Receive

\* A send, delivered or dropped, keeps the drives and the loss count typed.
LEMMA SendType ==
  ASSUME NEW f \in Frame, Send(f), axis \in [Wheel -> Axis], losses \in 0 .. MaxLosses
  PROVE  axis' \in [Wheel -> Axis] /\ losses' \in 0 .. MaxLosses
  BY ReceiveType, LossesAssumption DEF Send

\* The mode that follows is a mode.
LEMMA NextModeType ==
  ASSUME NEW prev, NEW armed, NEW sw, NEW standing
  PROVE  NextMode(prev, armed, sw, standing) \in RobotMode
  BY DEF NextMode, RobotMode

\* Targets stay targets of the driven modes.
LEMMA TargetsType ==
  ASSUME NEW vel \in [Driven -> Velocity \ {"sweep"}], NEW prev, NEW now
  PROVE  TargetsAfter(vel, prev, now) \in [Driven -> Velocity \ {"sweep"}]
  BY DEF TargetsAfter, Velocity

\* The head and the tail of a nonempty frame queue.
LEMMA QueueType ==
  ASSUME NEW q \in Seq(Frame), q # <<>>
  PROVE  Head(q) \in Frame /\ Tail(q) \in Seq(Frame)
  OBVIOUS

\* What stop() sends, whatever motor was touched last.
LEMMA StopType == StopFrames \in Seq(Frame)
<1>1. can_motor_set_odrive_mode(motor_id, "torque") \in Seq(Frame)
  BY RequestType
<1> QED BY <1>1 DEF StopFrames

\* RobotStateMachine::update() up to its sends keeps the types.
LEMMA SmUpdateType ==
  ASSUME TypeOK, NEW STATE armed, NEW STATE sw, SmUpdate(armed, sw)
  PROVE  /\ mode' \in RobotMode
         /\ wheel_vel' \in [Driven -> Velocity \ {"sweep"}]
         /\ c_out' \in Seq(Frame)
         /\ c_pc' = "switching"
<1>1. PICK standing \in BOOLEAN :
        LET now == NextMode(mode, armed, sw, standing)
        IN  /\ mode' = now
            /\ wheel_vel' = TargetsAfter(wheel_vel, mode, now)
            /\ c_out' = IF DriveMode(now) = DriveMode(mode) THEN <<>>
                        ELSE SwitchFrames(5, DriveMode(now)) \o SwitchFrames(6, DriveMode(now))
            /\ c_pc' = "switching"
  BY DEF SmUpdate
<1> DEFINE now == NextMode(mode, armed, sw, standing)
<1>2. mode' \in RobotMode
  BY <1>1, NextModeType
<1>3. wheel_vel' \in [Driven -> Velocity \ {"sweep"}]
  BY <1>1, TargetsType DEF TypeOK, SmType
<1>4. SwitchFrames(5, DriveMode(now)) \in Seq(Frame) /\ SwitchFrames(6, DriveMode(now)) \in Seq(Frame)
  <2>1. 5 \in Motor /\ 6 \in Motor
    OBVIOUS
  <2>2. DriveMode(now) \in {"torque", "velocity"}
    BY DriveModeType
  <2> QED BY <2>1, <2>2, SwitchType
<1>5. SwitchFrames(5, DriveMode(now)) \o SwitchFrames(6, DriveMode(now)) \in Seq(Frame)
  BY <1>4
<1>6. c_out' \in Seq(Frame)
  BY <1>1, <1>5
<1> QED BY <1>1, <1>2, <1>3, <1>6

-----------------------------------------------------------------------------
(* Type correctness: each step keeps the types of what it leaves alone, and  *)
(* only the parts it writes are opened.                                      *)

\* What a step leaves alone keeps its type.
LEMMA Kept ==
  ASSUME TypeOK
  PROVE  /\ UNCHANGED radio => RadioType'
         /\ UNCHANGED sm => SmType'
         /\ UNCHANGED test => TestType'
         /\ UNCHANGED control => ControlType'
         /\ UNCHANGED wheels => WheelType'
         /\ UNCHANGED usb => UsbType'
         /\ UNCHANGED bus => BusType'
<1>1. UNCHANGED radio => RadioType'
  BY DEF TypeOK, radio, RadioType
<1>2. UNCHANGED sm => SmType'
  BY DEF TypeOK, sm, SmType
<1>3. UNCHANGED test => TestType'
  BY DEF TypeOK, test, TestType
<1>4. UNCHANGED control => ControlType'
  BY DEF TypeOK, control, ControlType
<1>5. UNCHANGED wheels => WheelType'
  BY DEF TypeOK, wheels, WheelType
<1>6. UNCHANGED usb => UsbType'
  BY DEF TypeOK, usb, UsbType
<1>7. UNCHANGED bus => BusType'
  BY DEF TypeOK, bus, BusType
<1> QED BY <1>1, <1>2, <1>3, <1>4, <1>5, <1>6, <1>7

\* The steps of ControlThread keep the types.
LEMMA ControlTypes == ASSUME TypeOK, Control PROVE TypeOK'
<1>1. CASE CtrlCompute
  <2>1. c_armed' \in BOOLEAN /\ c_sw' \in {"car", "balance"}
    BY <1>1 DEF CtrlCompute, TypeOK, RadioType, ControlType
  <2>2. UNCHANGED <<radio, tick, g_motor_torques, wheels, usb, bus>>
    BY <1>1 DEF CtrlCompute
  <2>3. CASE active /\ g_armed
    <3>1. /\ c_out' = StopFrames /\ c_pc' = "stopping"
          /\ UNCHANGED <<sm, test, torques>>
      BY <1>1, <2>3 DEF CtrlCompute
    <3>2. c_out' \in Seq(Frame)
      BY <3>1, StopType
    <3> QED BY <2>1, <2>2, <3>1, <3>2, Kept
          DEF TypeOK, ControlType
  <2>4. CASE active /\ ~g_armed
    <3>1. /\ torques' = Still /\ c_pc' = "broadcast"
          /\ vel_target' \in {vel_target, "sweep"}
          /\ UNCHANGED <<sm, c_armed, c_sw, c_out, active, motor_id, is_hip>>
      BY <1>1, <2>4 DEF CtrlCompute
    <3>2. torques' \in [Wheel -> Torque]
      BY <3>1 DEF Still, Torque
    <3> QED BY <2>1, <2>2, <3>1, <3>2, Kept
          DEF TypeOK, TestType, ControlType
  <2>5. CASE ~active
    <3>1. SmUpdate(g_armed, g_mode_sw) /\ UNCHANGED <<test, torques>>
      BY <1>1, <2>5 DEF CtrlCompute
    <3>2. /\ mode' \in RobotMode
          /\ wheel_vel' \in [Driven -> Velocity \ {"sweep"}]
          /\ c_out' \in Seq(Frame)
          /\ c_pc' = "switching"
      BY <3>1, SmUpdateType
    <3> QED BY <2>1, <2>2, <3>1, <3>2, Kept
          DEF TypeOK, SmType, ControlType
  <2> QED BY <2>3, <2>4, <2>5
<1>2. CASE CtrlHold
  BY <1>2, Kept DEF CtrlHold, TypeOK, ControlType
<1>3. CASE CtrlSend
  <2>1. Head(c_out) \in Frame /\ Tail(c_out) \in Seq(Frame)
    BY <1>3, QueueType DEF CtrlSend, TypeOK, ControlType
  <2>2. axis' \in [Wheel -> Axis] /\ losses' \in 0 .. MaxLosses
    BY <1>3, <2>1, SendType DEF CtrlSend, TypeOK, ControlType, BusType
  <2> QED BY <1>3, <2>1, <2>2, Kept DEF CtrlSend, TypeOK, ControlType, BusType
<1>4. CASE CtrlStopDone
  <2>1. SmUpdate(c_armed, c_sw)
    BY <1>4 DEF CtrlStopDone
  <2>2. /\ mode' \in RobotMode
        /\ wheel_vel' \in [Driven -> Velocity \ {"sweep"}]
        /\ c_out' \in Seq(Frame)
        /\ c_pc' = "switching"
    BY <2>1, SmUpdateType
  <2> QED BY <1>4, <2>2, Kept DEF CtrlStopDone, TypeOK, SmType, TestType, ControlType
<1>5. CASE CtrlDispatch
  <2>1. wheel_vel' \in [Driven -> Velocity \ {"sweep"}]
    BY <1>5 DEF CtrlDispatch, TypeOK, SmType, Velocity
  <2>2. torques' \in [Wheel -> Torque]
    BY <1>5 DEF CtrlDispatch, Still, Torque
  <2> QED BY <1>5, <2>1, <2>2, Kept DEF CtrlDispatch, TypeOK, SmType, ControlType
<1>6. CASE CtrlPublish
  <2>1. tick' \in 0 .. COMPUTE_DIVISOR - 1
    BY <1>6, DivisorAssumption DEF CtrlPublish, TypeOK, ControlType
  <2> QED BY <1>6, <2>1, Kept DEF CtrlPublish, TypeOK, ControlType
<1> QED BY <1>1, <1>2, <1>3, <1>4, <1>5, <1>6 DEF Control

\* The steps of WheelSendThread keep the types.
LEMMA WheelTypes == ASSUME TypeOK, WheelThread PROVE TypeOK'
<1>0. CASE WheelReadMode
  BY <1>0, Kept DEF WheelReadMode, TypeOK, SmType, WheelType
<1>1. CASE WheelTop
  BY <1>1, Kept DEF WheelTop, TypeOK, WheelType
<1>2. CASE WheelReadVel
  <2>1. w_next \in Motor /\ WheelVel(wheel_vel, w_mode) \in Velocity
    BY DEF TypeOK, SmType, WheelType, WheelVel, Velocity
  <2>2. odrive_send_velocity(w_next, WheelVel(wheel_vel, w_mode)) \in Frame
    BY <2>1 DEF odrive_send_velocity, Frame
  <2>3. w_out' \in Seq(Frame)
    BY <1>2, <2>2 DEF WheelReadVel
  <2> QED BY <1>2, <2>3, Kept DEF WheelReadVel, TypeOK, WheelType
<1>3. CASE WheelReadTorque
  <2>1. g_motor_torques[5] \in Torque /\ g_motor_torques[6] \in Torque
    BY DEF TypeOK, ControlType
  <2>2. /\ odrive_send_torque(5, g_motor_torques[5]) \in Frame
        /\ odrive_send_torque(6, g_motor_torques[6]) \in Frame
    BY <2>1 DEF odrive_send_torque, Frame
  <2>3. w_out' \in Seq(Frame)
    BY <1>3, <2>2 DEF WheelReadTorque
  <2> QED BY <1>3, <2>3, Kept DEF WheelReadTorque, TypeOK, WheelType
<1>4. CASE WheelSend
  <2>1. Head(w_out) \in Frame /\ Tail(w_out) \in Seq(Frame)
    BY <1>4, QueueType DEF WheelSend, TypeOK, WheelType
  <2>2. axis' \in [Wheel -> Axis] /\ losses' \in 0 .. MaxLosses
    BY <1>4, <2>1, SendType DEF WheelSend, TypeOK, WheelType, BusType
  <2>3. w_pc' \in {"top", "velocity", "torque", "test"} /\ w_next' \in Wheel
    BY <1>4 DEF WheelSend, TypeOK, WheelType, BusType
  <2> QED BY <1>4, <2>1, <2>2, <2>3, Kept DEF WheelSend, TypeOK, WheelType, BusType
<1>5. CASE WheelTest
  <2>1. w_pc' \in {"top", "velocity", "torque", "test"}
    BY <1>5 DEF WheelTest, TypeOK, WheelType
  <2>2. w_out' \in Seq(Frame)
    <3>1. CASE active /\ ~is_hip /\ motor_id \in Motor
      <4>1. vel_target \in Velocity
        BY DEF TypeOK, TestType, WheelType, Velocity
      <4>2. odrive_send_velocity(motor_id, vel_target) \in Frame
        BY <3>1, <4>1 DEF odrive_send_velocity, Frame
      <4>3. w_out' = << odrive_send_velocity(motor_id, vel_target) >>
        BY <1>5, <3>1 DEF WheelTest
      <4> QED BY <4>2, <4>3
    <3>2. CASE ~(active /\ ~is_hip /\ motor_id \in Motor)
      BY <1>5, <3>2 DEF WheelTest, TypeOK, WheelType
    <3> QED BY <3>1, <3>2
  <2> QED BY <1>5, <2>1, <2>2, Kept DEF WheelTest, TypeOK, WheelType
<1> QED BY <1>0, <1>1, <1>2, <1>3, <1>4, <1>5 DEF WheelThread

\* The steps of USBCmdThread keep the types.
LEMMA UsbTypes ==
  ASSUME TypeOK, (\E id \in Tested : UsbStart(id)) \/ UsbStop \/ UsbRun PROVE TypeOK'
<1>1. ASSUME NEW id \in Tested, UsbStart(id) PROVE TypeOK'
  <2>1. u_id' \in 0 .. 6
    BY <1>1, TestedAssumption DEF UsbStart
  <2> QED BY <1>1, <2>1, Kept DEF UsbStart, TypeOK, UsbType
<1>2. CASE UsbStop
  BY <1>2, StopType, Kept DEF UsbStop, TypeOK, UsbType
<1>3. ASSUME NEW field \in {"active", "id", "hip"}, UsbStore(field) PROVE TypeOK'
  <2>1. u_out' \in Seq(Frame)
    BY <1>3, RequestType DEF UsbStore, TypeOK, UsbType
  <2>2. u_todo' \in SUBSET {"active", "id", "hip"}
    BY <1>3 DEF UsbStore, TypeOK, TestType, UsbType
  <2>3. is_hip' \in BOOLEAN
    <3>1. (u_id <= 4) \in BOOLEAN
      BY DEF TypeOK, TestType, UsbType
    <3>2. is_hip' = (u_id <= 4) \/ is_hip' = is_hip
      BY <1>3 DEF UsbStore
    <3>3. is_hip \in BOOLEAN
      BY DEF TypeOK, TestType, UsbType
    <3> QED BY <3>1, <3>2, <3>3
  <2>4. motor_id' \in 0 .. 6
    BY <1>3 DEF UsbStore, TypeOK, TestType, UsbType
  <2>5. active' \in BOOLEAN
    BY <1>3 DEF UsbStore, TypeOK, TestType
  <2> QED BY <1>3, <2>1, <2>2, <2>3, <2>4, <2>5, Kept DEF UsbStore, TypeOK, TestType, UsbType
<1>4. CASE UsbSend
  <2>1. Head(u_out) \in Frame /\ Tail(u_out) \in Seq(Frame)
    BY <1>4, QueueType DEF UsbSend, TypeOK, UsbType
  <2>2. axis' \in [Wheel -> Axis] /\ losses' \in 0 .. MaxLosses
    BY <1>4, <2>1, SendType DEF UsbSend, TypeOK, UsbType, BusType
  <2> QED BY <1>4, <2>1, <2>2, Kept DEF UsbSend, TypeOK, UsbType, BusType
<1>5. CASE UsbDone
  <2>1. u_id' \in 0 .. 6
    BY <1>5 DEF UsbDone
  <2>2. active' = FALSE \/ active' = active
    BY <1>5 DEF UsbDone
  <2>3. active' \in BOOLEAN
    BY <2>2 DEF TypeOK, TestType
  <2>4. u_pc' \in {"idle", "starting", "stopping"}
    BY <1>5 DEF UsbDone
  <2> QED BY <1>5, <2>1, <2>3, <2>4, Kept DEF UsbDone, TypeOK, TestType, UsbType
<1> QED BY <1>1, <1>2, <1>3, <1>4, <1>5 DEF UsbRun

\* Every variable of the four threads, of the test and of the drives keeps
\* its type; the ControlThread tick stays below its divisor and no more frames
\* are lost than MaxLosses.
THEOREM TypeCorrect == Spec => []TypeOK
<1>1. Init => TypeOK
  <2> SUFFICES ASSUME Init PROVE TypeOK
    OBVIOUS
  <2>1. tick \in 0 .. COMPUTE_DIVISOR - 1 /\ losses \in 0 .. MaxLosses
    BY DivisorAssumption, LossesAssumption DEF Init
  <2>2. axis \in [Wheel -> Axis]
    BY DEF Init, odrive_init_axis, Axis, Velocity, Torque
  <2>3. wheel_vel \in [Driven -> Velocity \ {"sweep"}] /\ mode \in RobotMode
    BY DEF Init, Velocity, RobotMode
  <2>4. torques \in [Wheel -> Torque] /\ g_motor_torques \in [Wheel -> Torque]
    BY DEF Init, Still, Torque
  <2>5. c_out \in Seq(Frame) /\ w_out \in Seq(Frame) /\ u_out \in Seq(Frame)
    BY DEF Init
  <2>6. motor_id \in 0 .. 6 /\ u_id \in 0 .. 6 /\ w_next \in Wheel
    BY DEF Init
  <2> QED BY <2>1, <2>2, <2>3, <2>4, <2>5, <2>6
          DEF Init, TypeOK, RadioType, SmType, TestType, ControlType, WheelType, UsbType, BusType
<1>2. TypeOK /\ [Next]_vars => TypeOK'
  <2> SUFFICES ASSUME TypeOK, [Next]_vars PROVE TypeOK'
    OBVIOUS
  <2>1. ASSUME NEW a \in BOOLEAN, NEW sw \in {"car", "balance"}, RadioPublish(a, sw)
        PROVE  TypeOK'
    BY <2>1, Kept DEF RadioPublish, TypeOK, RadioType
  <2>2. CASE UNCHANGED vars
    BY <2>2, Kept DEF TypeOK, vars
  <2> QED BY <2>1, <2>2, ControlTypes, WheelTypes, UsbTypes DEF Next
<1> QED BY <1>1, <1>2, PTL DEF Spec

-----------------------------------------------------------------------------
(* The velocity of an earlier episode of a mode is sent only if that mode  *)
(* was left while WheelSendThread was reading it.                           *)

\* Entering a mode clears its target, and staying in it keeps it current.
LEMMA SmUpdateCurrent ==
  ASSUME TypeOK, CurrentInv, NEW STATE armed, NEW STATE sw, SmUpdate(armed, sw)
  PROVE  /\ mode' \in Driven => wheel_vel'[mode'] # "stale"
         /\ ~USES_WHEEL_VELOCITY => wheel_vel'["BALANCING"] = "zero"
<1>1. PICK standing \in BOOLEAN :
        LET now == NextMode(mode, armed, sw, standing)
        IN  mode' = now /\ wheel_vel' = TargetsAfter(wheel_vel, mode, now)
  BY DEF SmUpdate
<1>2. "BALANCING" \in Driven
  BY DEF Driven, RobotMode
<1>3. ASSUME mode' \in Driven PROVE wheel_vel'[mode'] # "stale"
  <2>1. CASE mode' = mode
    BY <1>1, <1>3, <2>1 DEF TargetsAfter, ResetOnEntry, CurrentInv
  <2>2. CASE mode' # mode /\ mode' # "BALANCING"
    <3>1. mode' \in ResetOnEntry(mode, mode')
      BY <1>3, <2>2 DEF ResetOnEntry
    <3> QED BY <1>1, <1>3, <3>1 DEF TargetsAfter
  <2>3. CASE mode' # mode /\ mode' = "BALANCING"
    <3>1. mode = "STANDING_UP"
      BY <1>1, <2>3 DEF NextMode, TypeOK, SmType, RobotMode
    <3>2. CASE USES_WHEEL_VELOCITY
      BY <1>1, <1>2, <2>3, <3>1, <3>2 DEF TargetsAfter, ResetOnEntry
    <3>3. CASE ~USES_WHEEL_VELOCITY
      BY <1>1, <1>2, <2>3, <3>1, <3>3 DEF TargetsAfter, ResetOnEntry, CurrentInv
    <3> QED BY <3>2, <3>3
  <2> QED BY <2>1, <2>2, <2>3
<1>4. ASSUME ~USES_WHEEL_VELOCITY PROVE wheel_vel'["BALANCING"] = "zero"
  BY <1>1, <1>2, <1>4 DEF TargetsAfter, CurrentInv
<1> QED BY <1>3, <1>4

\* The strengthening holds in every reachable state.
LEMMA CurrentInvariant == Spec => []CurrentInv
<1>1. Init => CurrentInv
  <2> SUFFICES ASSUME Init PROVE CurrentInv
    OBVIOUS
  <2> QED BY DEF Init, CurrentInv, Driven, RobotMode
<1>2. TypeOK /\ CurrentInv /\ [Next]_vars => CurrentInv'
  <2> SUFFICES ASSUME TypeOK, CurrentInv, [Next]_vars PROVE CurrentInv'
    OBVIOUS
  <2>1. CASE UNCHANGED sm
    BY <2>1 DEF CurrentInv, sm
  <2>2. CASE CtrlCompute
    <3>1. CASE active
      BY <2>2, <3>1, <2>1 DEF CtrlCompute
    <3>2. CASE ~active
      <4>1. SmUpdate(g_armed, g_mode_sw)
        BY <2>2, <3>2 DEF CtrlCompute
      <4> QED BY <4>1, SmUpdateCurrent DEF CurrentInv
    <3> QED BY <3>1, <3>2
  <2>3. CASE CtrlStopDone
    <3>1. SmUpdate(c_armed, c_sw)
      BY <2>3 DEF CtrlStopDone
    <3> QED BY <3>1, SmUpdateCurrent DEF CurrentInv
  <2>4. CASE CtrlDispatch
    <3>1. mode' = mode
      BY <2>4 DEF CtrlDispatch
    <3>2. CASE wants_wheel_velocity(mode)
      \* The controller that runs is the one of the current mode.
      <4>1. PICK v \in {"zero", "fresh"} : wheel_vel' = [wheel_vel EXCEPT ![mode] = v]
        BY <2>4, <3>2 DEF CtrlDispatch
      <4>2. mode \in Driven /\ (~USES_WHEEL_VELOCITY => mode # "BALANCING")
        BY <3>2 DEF wants_wheel_velocity, Driven, RobotMode
      <4> QED BY <3>1, <4>1, <4>2 DEF CurrentInv, TypeOK, SmType
    <3>3. CASE ~wants_wheel_velocity(mode)
      BY <2>4, <3>1, <3>3 DEF CtrlDispatch, CurrentInv
    <3> QED BY <3>2, <3>3
  <2>5. CASE CtrlHold \/ CtrlSend \/ CtrlPublish \/ WheelThread
    BY <2>1, <2>5 DEF CtrlHold, CtrlSend, CtrlPublish, WheelThread, WheelTop, WheelReadMode,
         WheelReadVel, WheelReadTorque, WheelSend, WheelTest
  <2>6. CASE (\E id \in Tested : UsbStart(id)) \/ UsbStop \/ UsbRun
    BY <2>1, <2>6 DEF UsbStart, UsbStop, UsbRun, UsbStore, UsbSend, UsbDone
  <2>7. CASE \E a \in BOOLEAN, sw \in {"car", "balance"} : RadioPublish(a, sw)
    BY <2>1, <2>7 DEF RadioPublish
  <2>8. CASE UNCHANGED vars
    BY <2>1, <2>8 DEF vars
  <2> QED BY <2>2, <2>3, <2>4, <2>5, <2>6, <2>7, <2>8 DEF Next, Control
<1> QED BY <1>1, <1>2, TypeCorrect, PTL DEF Spec

(***************************************************************************)
(* wheel_vel_L() and wheel_vel_R(): WheelSendThread, which loads _mode and *)
(* the mode's target in two unlocked steps, hands can_send() a velocity of *)
(* an earlier episode only if ControlThread left the loaded mode between   *)
(* the two, for both balance controllers and whatever the radio, the bench *)
(* tests and the bus do.                                                   *)
(***************************************************************************)
THEOREM VelocityIsCurrent == Spec => StaleOnlyIfModeLeft
<1>1. TypeOK /\ CurrentInv /\ [Next]_vars =>
        [ w_out = <<>> /\ w_out' # <<>> =>
            LET f == Head(w_out')
            IN  f.cmd = "input_vel" /\ f.arg = "stale" => w_mode # mode ]_vars
  <2> SUFFICES ASSUME TypeOK, CurrentInv, Next, w_out = <<>>, w_out' # <<>>,
                      Head(w_out').cmd = "input_vel", Head(w_out').arg = "stale"
               PROVE  w_mode # mode
    OBVIOUS
  <2>1. CASE WheelReadVel
    <3>1. w_out' = << odrive_send_velocity(w_next, WheelVel(wheel_vel, w_mode)) >>
      BY <2>1 DEF WheelReadVel
    <3>2. WheelVel(wheel_vel, w_mode) = "stale"
      BY <3>1 DEF odrive_send_velocity
    <3> QED BY <3>2 DEF WheelVel, CurrentInv
  <2>2. CASE WheelReadTorque
    <3>1. Head(w_out') = odrive_send_torque(5, g_motor_torques[5])
      BY <2>2 DEF WheelReadTorque
    <3> QED BY <3>1 DEF odrive_send_torque
  <2>3. CASE WheelTest
    <3>1. w_out' = << odrive_send_velocity(motor_id, vel_target) >>
      BY <2>3 DEF WheelTest
    <3>2. vel_target # "stale"
      BY DEF TypeOK, TestType
    <3> QED BY <3>1, <3>2 DEF odrive_send_velocity
  <2>4. CASE WheelTop \/ WheelReadMode \/ WheelSend
    BY <2>4 DEF WheelTop, WheelReadMode, WheelSend
  <2>5. CASE Control
    BY <2>5 DEF Control, CtrlCompute, CtrlHold, CtrlSend, CtrlStopDone, CtrlDispatch,
         CtrlPublish, wheels
  <2>6. CASE (\E id \in Tested : UsbStart(id)) \/ UsbStop \/ UsbRun
    BY <2>6 DEF UsbStart, UsbStop, UsbRun, UsbStore, UsbSend, UsbDone, wheels
  <2>7. CASE \E a \in BOOLEAN, sw \in {"car", "balance"} : RadioPublish(a, sw)
    BY <2>7 DEF RadioPublish, wheels
  <2> QED BY <2>1, <2>2, <2>3, <2>4, <2>5, <2>6, <2>7 DEF Next, WheelThread
<1> QED BY <1>1, CurrentInvariant, TypeCorrect, PTL DEF Spec, StaleOnlyIfModeLeft

-----------------------------------------------------------------------------
(* Under the bench procedure a test and driving exclude each other. *)

\* Disarmed, RobotStateMachine::update() leaves the robot idle.
LEMMA DisarmedIdles ==
  ASSUME NEW STATE armed, NEW STATE sw, ~armed, SmUpdate(armed, sw) PROVE mode' = "IDLE"
  BY DEF SmUpdate, NextMode

\* Robot modes other than IDLE and a running test exclude each other, however
\* ControlThread's and USBCmdThread's steps interleave, if tests are started
\* on an idle robot and arming waits for the USB command to finish.
THEOREM TestAndDrivingExclude ==
  ASSUME BenchProcedure PROVE Spec => []TestExcludesDriving
<1>1. Init => ExclusionInv
  BY DEF Init, ExclusionInv
<1>2. TypeOK /\ ExclusionInv /\ [Next]_vars => ExclusionInv'
  <2> SUFFICES ASSUME TypeOK, ExclusionInv, [Next]_vars PROVE ExclusionInv'
    OBVIOUS
  <2>1. CASE UNCHANGED <<u_pc, g_armed, mode, c_pc, active>>
    BY <2>1 DEF ExclusionInv
  <2>2. ASSUME NEW a \in BOOLEAN, NEW sw \in {"car", "balance"}, RadioPublish(a, sw)
        PROVE  ExclusionInv'
    \* Arming waits for the USB command to finish.
    <3>1. u_pc = "starting" => ~g_armed'
      BY <2>2 DEF RadioPublish, ExclusionInv, BenchProcedure
    <3> QED BY <2>2, <3>1 DEF RadioPublish, ExclusionInv, sm, test, control, usb
  <2>3. CASE CtrlCompute
    <3>1. UNCHANGED <<g_armed, u_pc>>
      BY <2>3 DEF CtrlCompute, radio, usb
    <3>2. CASE active /\ g_armed
      BY <2>3, <3>1, <3>2 DEF CtrlCompute, ExclusionInv, sm, test
    <3>3. CASE active /\ ~g_armed
      BY <2>3, <3>1, <3>3 DEF CtrlCompute, ExclusionInv, sm
    <3>4. CASE ~active
      <4>1. SmUpdate(g_armed, g_mode_sw) /\ active' = active
        BY <2>3, <3>4 DEF CtrlCompute, test
      <4>2. c_pc' = "switching"
        BY <4>1 DEF SmUpdate
      <4>3. ~g_armed => mode' = "IDLE"
        BY <4>1, DisarmedIdles
      <4> QED BY <3>1, <3>4, <4>1, <4>2, <4>3 DEF ExclusionInv
    <3> QED BY <3>2, <3>3, <3>4
  <2>4. CASE CtrlStopDone
    <3>1. ~active' /\ u_pc' = u_pc /\ u_pc # "starting"
      BY <2>4 DEF CtrlStopDone, ExclusionInv, usb
    <3> QED BY <3>1 DEF ExclusionInv
  <2>5. CASE CtrlHold \/ CtrlDispatch \/ CtrlPublish
    BY <2>5 DEF CtrlHold, CtrlDispatch, CtrlPublish, ExclusionInv, radio, sm, test, usb
  <2>6. CASE CtrlSend
    BY <2>1, <2>6 DEF CtrlSend, radio, sm, test, usb
  <2>7. CASE WheelThread
    BY <2>1, <2>7 DEF WheelThread, WheelTop, WheelReadMode, WheelReadVel, WheelReadTorque, WheelSend,
                      WheelTest, radio, sm, test, control, usb
  <2>8. ASSUME NEW id \in Tested, UsbStart(id) PROVE ExclusionInv'
    <3>1. OnBench
      BY <2>8 DEF UsbStart, StartAllowed, BenchProcedure
    <3>2. UNCHANGED <<g_armed, mode, c_pc, active>>
      BY <2>8 DEF UsbStart, radio, sm, test, control
    <3> QED BY <3>1, <3>2 DEF OnBench, ControlSettled, ExclusionInv
  <2>9. ASSUME NEW field \in {"active", "id", "hip"}, UsbStore(field) PROVE ExclusionInv'
    \* _active becomes true only during start(), on an idle robot.
    BY <2>9 DEF UsbStore, ExclusionInv, radio, sm, control
  <2>10. CASE UsbStop
    BY <2>10 DEF UsbStop, ExclusionInv, radio, sm, test, control
  <2>11. CASE UsbSend
    BY <2>1, <2>11 DEF UsbSend, radio, sm, test, control
  <2>12. CASE UsbDone
    BY <2>12 DEF UsbDone, ExclusionInv, radio, sm, control
  <2>13. CASE UNCHANGED vars
    BY <2>1, <2>13 DEF vars, radio, sm, test, control, usb
  <2> QED BY <2>2, <2>3, <2>4, <2>5, <2>6, <2>7, <2>8, <2>9, <2>10, <2>11, <2>12, <2>13
          DEF Next, Control, UsbRun
<1>3. ExclusionInv => TestExcludesDriving
  BY DEF ExclusionInv, TestExcludesDriving, wants_wheel_velocity
<1> QED BY <1>1, <1>2, <1>3, TypeCorrect, PTL DEF Spec

-----------------------------------------------------------------------------
(* Under the bench procedure, with no mode frame lost, the drives are in the *)
(* mode their commands assume.                                               *)

\* The frames a switch sends, one at a time.
LEMMA BracketStep ==
  ASSUME NEW a, NEW w \in Wheel, NEW m \in {"torque", "velocity"}, NEW q,
         Bracket(a, w, m, q), q # <<>>
  PROVE  /\ Head(q).to = w /\ Head(q).cmd \in ModeCmd
         /\ Bracket(Receive(a, Head(q)), w, m, Tail(q))
         /\ Receive(a, Head(q)).mode # a.mode => a.state = "idle"
<1> DEFINE i == odrive_set_axis_state(w, "idle")
           c == odrive_set_controller_mode(w, m)
           l == odrive_set_axis_state(w, "closed")
<1>0. /\ i.to = w /\ i.cmd = "axis_state" /\ i.arg = "idle"
      /\ c.to = w /\ c.cmd = "controller_mode" /\ c.arg = m
      /\ l.to = w /\ l.cmd = "axis_state" /\ l.arg = "closed"
  BY DEF odrive_set_axis_state, odrive_set_controller_mode
<1>s. SwitchFrames(w, m) = <<i, c, l>>
  BY DEF SwitchFrames
<1> HIDE DEF i, c, l
<1>1. CASE q = <<i, c, l>> /\ a.state = "closed"
  <2>1. Head(q) = i /\ Tail(q) = <<c, l>>
    BY <1>1
  <2>2. Receive(a, i).state = "idle" /\ Receive(a, i).mode = a.mode
    BY <1>0 DEF Receive
  <2> QED BY <1>0, <2>1, <2>2 DEF Bracket, ModeCmd, c, l
<1>2. CASE q = <<c, l>> /\ a.state = "idle"
  <2>1. Head(q) = c /\ Tail(q) = <<l>>
    BY <1>2
  <2>2. Receive(a, c).state = "idle" /\ Receive(a, c).mode = m
    BY <1>0, <1>2 DEF Receive
  <2> QED BY <1>0, <1>2, <2>1, <2>2 DEF Bracket, ModeCmd, l
<1>3. CASE q = <<l>> /\ a.state = "idle" /\ a.mode = m
  <2>1. Head(q) = l /\ Tail(q) = <<>>
    BY <1>3
  <2>2. Receive(a, l).state = "closed" /\ Receive(a, l).mode = m
    BY <1>0, <1>3 DEF Receive
  <2> QED BY <1>0, <1>3, <2>1, <2>2 DEF Bracket, SettledIn, ModeCmd
<1> QED BY <1>1, <1>2, <1>3, <1>s DEF Bracket, i, c, l

\* A frame of a switch is delivered.
LEMMA Delivered ==
  ASSUME ProcedureKept, NEW f, f.cmd \in ModeCmd, Send(f)
  PROVE  axis' = [w \in Wheel |-> IF w = f.to THEN Receive(axis[w], f) ELSE axis[w]]
  BY DEF ProcedureKept, Send

\* Another frame for the wheel that is being switched.
LEMMA OneSwitchedStep ==
  ASSUME TypeOK, ProcedureKept, NEW id, NEW m \in {"torque", "velocity"}, NEW q,
         OneSwitched(axis, id, m, q), q # <<>>, Send(Head(q))
  PROVE  /\ OneSwitched(axis', id, m, Tail(q))
         /\ \A w \in Wheel : axis'[w].mode # axis[w].mode => axis[w].state = "idle"
<1>1. id \in Wheel /\ Bracket(axis[id], id, m, q)
  BY DEF OneSwitched
<1>2. /\ Head(q).to = id /\ Head(q).cmd \in ModeCmd
      /\ Bracket(Receive(axis[id], Head(q)), id, m, Tail(q))
      /\ Receive(axis[id], Head(q)).mode # axis[id].mode => axis[id].state = "idle"
  BY <1>1, BracketStep
<1> DEFINE f == Head(q)
<1>3. \A w \in Wheel : axis'[w] = IF w = id THEN Receive(axis[w], f) ELSE axis[w]
  BY <1>2, Delivered
<1> HIDE DEF f
<1>4. axis'[id] = Receive(axis[id], f) /\ \A w \in Wheel : w # id => axis'[w] = axis[w]
  BY <1>1, <1>3
<1>5. OneSwitched(axis', id, m, Tail(q))
  <2>1. Bracket(axis'[id], id, m, Tail(q))
    BY <1>2, <1>4 DEF f
  <2> QED BY <1>1, <1>4, <2>1 DEF OneSwitched
<1>6. \A w \in Wheel : axis'[w].mode # axis[w].mode => axis[w].state = "idle"
  BY <1>2, <1>4 DEF f
<1> QED BY <1>5, <1>6

\* A queue with a first part is not empty.
LEMMA ConcatNotEmpty ==
  ASSUME NEW S, NEW s \in Seq(S), NEW t \in Seq(S), s # <<>> PROVE s \o t # <<>>
<1>1. Len(s \o t) = Len(s) + Len(t)
  BY ConcatProperties
<1>2. Len(s) \in Nat /\ Len(t) \in Nat /\ Len(s) > 0
  OBVIOUS
<1>3. Len(s \o t) > 0
  BY <1>1, <1>2
<1> QED BY <1>3

\* The head of a queue is the head of its first part.
LEMMA HeadTailConcat ==
  ASSUME NEW S, NEW s \in Seq(S), NEW t \in Seq(S), s # <<>>
  PROVE  Head(s \o t) = Head(s) /\ Tail(s \o t) = Tail(s) \o t
<1> DEFINE c == s \o t
           r == Tail(s)
           d == r \o t
           u == Tail(c)
<1>1. /\ c \in Seq(S) /\ Len(c) = Len(s) + Len(t)
      /\ \A i \in 1 .. Len(s) + Len(t) : c[i] = IF i <= Len(s) THEN s[i] ELSE t[i - Len(s)]
  BY ConcatProperties
<1>2. r \in Seq(S) /\ Len(r) = Len(s) - 1 /\ \A i \in 1 .. Len(r) : r[i] = s[i + 1]
  BY HeadTailProperties
<1>3. Len(s) \in Nat /\ Len(t) \in Nat /\ Len(s) > 0 /\ Head(s) = s[1]
  OBVIOUS
<1> HIDE DEF c, r
<1>4. /\ d \in Seq(S) /\ Len(d) = Len(r) + Len(t)
      /\ \A i \in 1 .. Len(r) + Len(t) : d[i] = IF i <= Len(r) THEN r[i] ELSE t[i - Len(r)]
  BY <1>2, ConcatProperties
<1>5. c # <<>> /\ Head(c) = c[1]
  BY <1>1, <1>3
<1>6. u \in Seq(S) /\ Len(u) = Len(c) - 1 /\ \A i \in 1 .. Len(u) : u[i] = c[i + 1]
  BY <1>1, <1>5, HeadTailProperties
<1> HIDE DEF d, u
<1>7. Len(u) = Len(d)
  BY <1>1, <1>2, <1>3, <1>4, <1>6
<1>8. ASSUME NEW i \in 1 .. Len(u) PROVE u[i] = d[i]
  <2>1. /\ i + 1 \in 1 .. Len(s) + Len(t) /\ i \in 1 .. Len(r) + Len(t) /\ i \in 1 .. Len(u)
        /\ (i + 1 <= Len(s) <=> i <= Len(r)) /\ (i + 1) - Len(s) = i - Len(r)
    BY <1>1, <1>2, <1>3, <1>6
  <2>2. u[i] = c[i + 1]
    BY <1>6
  <2>3. CASE i <= Len(r)
    <3>1. i \in 1 .. Len(r)
      BY <1>2, <1>3, <2>3
    <3> QED BY <1>1, <1>2, <1>4, <2>1, <2>2, <2>3, <3>1
  <2>4. CASE ~(i <= Len(r))
    BY <1>1, <1>4, <2>1, <2>2, <2>4
  <2> QED BY <2>3, <2>4
<1>9. u = d
  BY <1>4, <1>6, <1>7, <1>8, SeqEqual
<1>10. Head(c) = Head(s)
  BY <1>1, <1>3, <1>5
<1> QED BY <1>9, <1>10 DEF u, d, c, r

\* What is left of a switch after one of its frames.
LEMMA RemaindersStep ==
  ASSUME NEW w \in Wheel, NEW m \in {"torque", "velocity"}, NEW q \in Remainders(w, m)
  PROVE  q \in Seq(Frame) /\ q # <<>> /\ Tail(q) \in Remainders(w, m) \cup {<<>>}
<1>1. w \in Motor
  OBVIOUS
<1> DEFINE i == odrive_set_axis_state(w, "idle")
           c == odrive_set_controller_mode(w, m)
           l == odrive_set_axis_state(w, "closed")
<1>2. i \in Frame /\ c \in Frame /\ l \in Frame
  BY <1>1 DEF odrive_set_axis_state, odrive_set_controller_mode, Frame
<1>3. Remainders(w, m) = {<<i, c, l>>, <<c, l>>, <<l>>}
  BY DEF Remainders, SwitchFrames
<1> HIDE DEF i, c, l
<1>4. CASE q = <<i, c, l>>
  BY <1>2, <1>3, <1>4
<1>5. CASE q = <<c, l>>
  BY <1>2, <1>3, <1>5
<1>6. CASE q = <<l>>
  BY <1>2, <1>3, <1>6
<1> QED BY <1>3, <1>4, <1>5, <1>6

\* Another frame of the two switches: the left wheel's first.
LEMMA BothSwitchedStep ==
  ASSUME TypeOK, ProcedureKept, NEW m \in {"torque", "velocity"}, NEW q,
         BothSwitched(axis, m, q), q # <<>>, Send(Head(q))
  PROVE  /\ BothSwitched(axis', m, Tail(q))
         /\ \A w \in Wheel : axis'[w].mode # axis[w].mode => axis[w].state = "idle"
<1> DEFINE f == Head(q)
<1>1. CASE SettledIn(axis[5], m) /\ Bracket(axis[6], 6, m, q)
  <2>1. /\ f.to = 6 /\ f.cmd \in ModeCmd
        /\ Bracket(Receive(axis[6], f), 6, m, Tail(q))
        /\ Receive(axis[6], f).mode # axis[6].mode => axis[6].state = "idle"
    BY <1>1, BracketStep
  <2> HIDE DEF f
  <2>2. axis'[5] = axis[5] /\ axis'[6] = Receive(axis[6], f)
    BY <2>1, Delivered DEF f
  <2> QED BY <1>1, <2>1, <2>2 DEF BothSwitched
<1>2. ASSUME NEW left \in Remainders(5, m), q = left \o SwitchFrames(6, m),
             Bracket(axis[5], 5, m, left), axis[6].state = "closed"
      PROVE  /\ BothSwitched(axis', m, Tail(q))
             /\ \A w \in Wheel : axis'[w].mode # axis[w].mode => axis[w].state = "idle"
  <2> DEFINE s == SwitchFrames(6, m)
             r == Tail(left)
  <2>0. left # <<>> /\ Head(q) = Head(left) /\ Tail(q) = r \o s
        /\ (r \in Remainders(5, m) \/ r = <<>>)
    <3>1. left \in Seq(Frame) /\ left # <<>> /\ r \in Remainders(5, m) \cup {<<>>}
      BY RemaindersStep
    <3>2. s \in Seq(Frame)
      <4>1. 6 \in Motor
        OBVIOUS
      <4> QED BY <4>1, SwitchType
    <3> HIDE DEF s
    <3>3. Head(left \o s) = Head(left) /\ Tail(left \o s) = Tail(left) \o s
      BY <3>1, <3>2, HeadTailConcat
    <3>4. q = left \o s
      BY <1>2 DEF s
    <3> QED BY <3>1, <3>3, <3>4
  <2>1. /\ f.to = 5 /\ f.cmd \in ModeCmd
        /\ Bracket(Receive(axis[5], f), 5, m, r)
        /\ Receive(axis[5], f).mode # axis[5].mode => axis[5].state = "idle"
    <3>1. 5 \in Wheel /\ f = Head(left)
      BY <2>0
    <3> QED BY <1>2, <2>0, <3>1, BracketStep
  <2> HIDE DEF f, r
  <2>2. axis'[6] = axis[6] /\ axis'[5] = Receive(axis[5], f)
    BY <2>1, Delivered DEF f
  <2>3. CASE r = <<>>
    <3>1. SettledIn(axis'[5], m)
      BY <2>1, <2>2, <2>3 DEF Bracket, SwitchFrames
    <3>2. Tail(q) = SwitchFrames(6, m)
      BY <2>0, <2>3 DEF SwitchFrames
    <3>3. Bracket(axis'[6], 6, m, Tail(q))
      BY <1>2, <2>2, <3>2 DEF Bracket
    <3> QED BY <2>1, <2>2, <3>1, <3>3 DEF BothSwitched
  <2>4. CASE r \in Remainders(5, m)
    <3>1. BothSwitched(axis', m, Tail(q))
      BY <1>2, <2>0, <2>1, <2>2, <2>4 DEF BothSwitched
    <3> QED BY <2>1, <2>2, <3>1
  <2> QED BY <2>0, <2>3, <2>4
<1> QED BY <1>1, <1>2 DEF BothSwitched

\* Nothing that the switches are about changes.
LEMMA SwitchKept ==
  ASSUME SwitchInv,
         UNCHANGED <<w_out, u_pc, g_armed, mode, c_pc, c_out, active, u_out, u_todo, u_id,
                     motor_id, is_hip, axis>>
  PROVE  SwitchInv'
  BY DEF SwitchInv, StopId, Agree, UnderTest

\* ControlThread moves on without having to switch a drive.
LEMMA SwitchMoves ==
  ASSUME SwitchInv, c_out = <<>>, c_pc # "stopping", c_pc' # "stopping", c_out' = <<>>,
         UNCHANGED <<w_out, u_pc, g_armed, mode, active, u_out, u_todo, u_id, motor_id, is_hip, axis>>
  PROVE  SwitchInv'
  BY DEF SwitchInv, StopId, Agree, UnderTest

\* RobotStateMachine::update() with both drives where its mode wants them.
LEMMA SwitchBegins ==
  ASSUME TypeOK, SwitchInv, NEW STATE armed, NEW STATE sw, SmUpdate(armed, sw), u_pc = "idle",
         \A w \in Wheel : SettledIn(axis[w], DriveMode(mode)), active' = FALSE,
         UNCHANGED <<w_out, u_pc, g_armed, u_out, u_todo, u_id, motor_id, is_hip, axis>>
  PROVE  SwitchInv'
<1>1. PICK standing \in BOOLEAN :
        LET now == NextMode(mode, armed, sw, standing)
        IN  /\ mode' = now
            /\ c_out' = IF DriveMode(now) = DriveMode(mode) THEN <<>>
                        ELSE SwitchFrames(5, DriveMode(now)) \o SwitchFrames(6, DriveMode(now))
            /\ c_pc' = "switching"
  BY DEF SmUpdate
<1> DEFINE now == NextMode(mode, armed, sw, standing)
           d == DriveMode(now)
<1>2. /\ mode' = now /\ c_pc' = "switching"
      /\ c_out' = IF d = DriveMode(mode) THEN <<>> ELSE SwitchFrames(5, d) \o SwitchFrames(6, d)
  BY <1>1
<1>3. d \in {"torque", "velocity"} /\ d = DriveMode(mode')
  BY <1>2, DriveModeType
<1> HIDE DEF now, d
<1>4. ASSUME c_out' # <<>> PROVE BothSwitched(axis', d, c_out')
  <2>1. c_out' = SwitchFrames(5, d) \o SwitchFrames(6, d)
    BY <1>2, <1>4
  <2>2. SwitchFrames(5, d) \in Remainders(5, d)
    BY DEF Remainders
  <2>3. Bracket(axis'[5], 5, d, SwitchFrames(5, d)) /\ axis'[6].state = "closed"
    BY DEF Bracket, SettledIn
  <2> QED BY <2>1, <2>2, <2>3 DEF BothSwitched
<1>5. ASSUME c_out' = <<>> PROVE d = DriveMode(mode)
  <2>1. ASSUME c_out' = SwitchFrames(5, d) \o SwitchFrames(6, d) PROVE FALSE
    <3>1. 5 \in Motor /\ 6 \in Motor
      OBVIOUS
    <3>2. SwitchFrames(5, d) \in Seq(Frame) /\ SwitchFrames(6, d) \in Seq(Frame)
      BY <1>3, <3>1, SwitchType
    <3>3. SwitchFrames(5, d) # <<>>
      BY DEF SwitchFrames
    <3> QED BY <1>5, <2>1, <3>2, <3>3, ConcatNotEmpty
  <2> QED BY <1>2, <2>1
<1>6. c_out' = <<>> => Agree'
  BY <1>3, <1>5 DEF Agree, UnderTest
<1> QED BY <1>2, <1>3, <1>4, <1>6 DEF SwitchInv

\* The steps of ControlThread.
LEMMA SwitchControl == ASSUME ProcedureKept, TypeOK, SwitchInv, Control PROVE SwitchInv'
<1>i. DriveMode("IDLE") = "torque"
  BY DEF DriveMode, wants_wheel_velocity
<1>1. CASE CtrlCompute
  <2>1. /\ c_pc = "sleep" /\ c_out = <<>>
        /\ UNCHANGED <<g_armed, w_out, u_pc, u_id, u_todo, u_out, axis>>
    BY <1>1 DEF CtrlCompute, SwitchInv, radio, wheels, usb, bus
  <2>2. CASE active /\ g_armed
    <3>1. /\ c_out' = StopFrames /\ c_pc' = "stopping" /\ u_pc = "idle" /\ mode = "IDLE"
          /\ UNCHANGED <<mode, active, motor_id, is_hip>>
      BY <1>1, <2>2 DEF CtrlCompute, SwitchInv, sm, test
    <3>2. Agree
      BY <2>1, <3>1 DEF SwitchInv
    <3>3. OneSwitched(axis, StopId, "torque", StopFrames)
      <4>1. ASSUME NEW w \in Wheel, w = StopId PROVE Bracket(axis[w], w, "torque", StopFrames)
        BY <3>2, <4>1 DEF StopId, StopFrames, can_motor_set_odrive_mode, Agree, SettledIn, Bracket
      <4>2. ASSUME NEW w \in Wheel, w # StopId PROVE SettledIn(axis[w], "torque")
        BY <1>i, <3>1, <3>2, <4>2 DEF StopId, Agree, UnderTest
      <4>3. StopId \notin Wheel => StopFrames = <<>>
        BY DEF StopId, StopFrames, can_motor_set_odrive_mode
      <4> QED BY <4>1, <4>2, <4>3 DEF OneSwitched
    <3> QED BY <2>1, <3>1, <3>3 DEF SwitchInv, StopId
  <2>3. CASE active /\ ~g_armed
    <3>1. c_pc' = "broadcast" /\ UNCHANGED <<mode, c_out, active, motor_id, is_hip>>
      BY <1>1, <2>3 DEF CtrlCompute, sm
    <3> QED BY <2>1, <3>1, SwitchMoves
  <2>4. CASE ~active
    <3>1. SmUpdate(g_armed, g_mode_sw) /\ UNCHANGED <<active, motor_id, is_hip>>
      BY <1>1, <2>4 DEF CtrlCompute, test
    <3>2. CASE u_pc = "idle"
      <4>1. \A w \in Wheel : SettledIn(axis[w], DriveMode(mode))
        BY <2>1, <2>4, <3>2 DEF SwitchInv, Agree, UnderTest
      <4>2. active' = FALSE
        BY <2>4, <3>1 DEF TypeOK, TestType
      <4> QED BY <2>1, <3>1, <3>2, <4>1, <4>2, SwitchBegins
    <3>3. CASE u_pc # "idle"
      <4>1. ~g_armed /\ mode = "IDLE"
        BY <3>3 DEF SwitchInv
      <4>2. mode' = "IDLE" /\ c_out' = <<>> /\ c_pc' = "switching"
        BY <3>1, <4>1 DEF SmUpdate, NextMode
      <4> QED BY <2>1, <3>1, <4>1, <4>2, SwitchMoves
    <3> QED BY <3>2, <3>3
  <2> QED BY <2>2, <2>3, <2>4
<1>2. CASE CtrlHold \/ CtrlDispatch \/ CtrlPublish
  <2>1. /\ c_out = <<>> /\ c_pc # "stopping" /\ c_pc' # "stopping"
        /\ UNCHANGED <<c_out, w_out, u_pc, g_armed, mode, active, u_out, u_todo, u_id, motor_id, is_hip, axis>>
    BY <1>2 DEF CtrlHold, CtrlDispatch, CtrlPublish, SwitchInv, radio, sm, test, wheels, usb, bus
  <2> QED BY <2>1, SwitchMoves
<1>3. CASE CtrlStopDone
  <2>1. /\ c_pc = "stopping" /\ c_out = <<>> /\ active' = FALSE /\ SmUpdate(c_armed, c_sw)
        /\ UNCHANGED <<w_out, u_pc, g_armed, u_out, u_todo, u_id, motor_id, is_hip, axis>>
    BY <1>3 DEF CtrlStopDone, radio, wheels, usb, bus
  <2>2. u_pc = "idle" /\ mode = "IDLE" /\ OneSwitched(axis, StopId, "torque", <<>>)
    BY <2>1 DEF SwitchInv
  <2>3. ASSUME NEW w \in Wheel PROVE SettledIn(axis[w], DriveMode(mode))
    BY <1>i, <2>2 DEF OneSwitched, Bracket, SwitchFrames
  <2> QED BY <2>1, <2>2, <2>3, SwitchBegins
<1>4. CASE CtrlSend
  <2>1. /\ c_out # <<>> /\ Send(Head(c_out)) /\ c_out' = Tail(c_out)
        /\ UNCHANGED <<c_pc, w_out, u_pc, g_armed, mode, active, u_out, u_todo, u_id, motor_id, is_hip>>
    BY <1>4 DEF CtrlSend, radio, sm, test, wheels, usb
  <2>2. u_pc = "idle" /\ c_pc \in {"stopping", "switching"}
    BY <2>1 DEF SwitchInv
  <2>3. CASE c_pc = "stopping"
    <3>1. OneSwitched(axis', StopId, "torque", Tail(c_out))
      BY <2>1, <2>3, OneSwitchedStep DEF SwitchInv
    <3> QED BY <2>1, <2>2, <2>3, <3>1 DEF SwitchInv, StopId
  <2>4. CASE c_pc = "switching"
    <3> DEFINE d == DriveMode(mode)
    <3>1. ~active /\ BothSwitched(axis, d, c_out) /\ d \in {"torque", "velocity"}
      BY <2>1, <2>4, DriveModeType DEF SwitchInv
    <3> HIDE DEF d
    <3>2. BothSwitched(axis', d, Tail(c_out))
      BY <2>1, <3>1, BothSwitchedStep
    <3>3. ASSUME Tail(c_out) = <<>> PROVE Agree'
      <4>1. ASSUME NEW left \in Remainders(5, d) PROVE Tail(c_out) # left \o SwitchFrames(6, d)
        <5>1. 5 \in Wheel /\ 6 \in Motor
          OBVIOUS
        <5>2. left \in Seq(Frame) /\ left # <<>> /\ SwitchFrames(6, d) \in Seq(Frame)
          BY <3>1, <5>1, RemaindersStep, SwitchType
        <5> QED BY <3>3, <5>2, ConcatNotEmpty
      <4>2. SettledIn(axis'[5], d) /\ Bracket(axis'[6], 6, d, <<>>)
        BY <3>2, <3>3, <4>1 DEF BothSwitched
      <4>3. SettledIn(axis'[6], d)
        BY <4>2 DEF Bracket, SwitchFrames
      <4>4. d = DriveMode(mode') /\ ~active'
        BY <2>1, <3>1 DEF d
      <4> QED BY <4>2, <4>3, <4>4 DEF Agree, UnderTest
    <3>4. BothSwitched(axis', DriveMode(mode'), c_out')
      BY <2>1, <3>2 DEF d
    <3> QED BY <2>1, <2>2, <2>4, <3>1, <3>3, <3>4 DEF SwitchInv
  <2> QED BY <2>2, <2>3, <2>4
<1> QED BY <1>1, <1>2, <1>3, <1>4 DEF Control

\* A setpoint leaves a drive's state and mode alone, and so every switch.
LEMMA SetpointKeeps ==
  ASSUME TypeOK, SwitchInv, NEW f \in Frame, f.cmd \in SetpointCmd, Send(f)
  PROVE  \A w \in Wheel : axis'[w].state = axis[w].state /\ axis'[w].mode = axis[w].mode
<1>1. CASE axis' = [w \in Wheel |-> IF w = f.to THEN Receive(axis[w], f) ELSE axis[w]]
  <2> SUFFICES ASSUME NEW w \in Wheel
               PROVE  axis'[w].state = axis[w].state /\ axis'[w].mode = axis[w].mode
    OBVIOUS
  <2>1. f.cmd # "axis_state" /\ f.cmd # "controller_mode"
    BY DEF SetpointCmd
  <2>2. axis'[w] = IF w = f.to THEN Receive(axis[w], f) ELSE axis[w]
    BY <1>1
  <2>3. Receive(axis[w], f).state = axis[w].state /\ Receive(axis[w], f).mode = axis[w].mode
    BY <2>1 DEF Receive
  <2> QED BY <2>2, <2>3
<1>2. CASE axis' = axis
  BY <1>2
<1> QED BY <1>1, <1>2 DEF Send

\* The switches see only the states and modes of the drives.
LEMMA SameModes ==
  ASSUME NEW ax, NEW bx,
         \A w \in Wheel : bx[w].state = ax[w].state /\ bx[w].mode = ax[w].mode
  PROVE  /\ \A w \in Wheel : \A m : SettledIn(ax[w], m) => SettledIn(bx[w], m)
         /\ \A id, m, q : OneSwitched(ax, id, m, q) => OneSwitched(bx, id, m, q)
         /\ \A m, q : BothSwitched(ax, m, q) => BothSwitched(bx, m, q)
<1>1. \A w \in Wheel : \A m : SettledIn(ax[w], m) => SettledIn(bx[w], m)
  BY DEF SettledIn
<1>2. \A w \in Wheel : \A m, q : Bracket(ax[w], w, m, q) => Bracket(bx[w], w, m, q)
  BY <1>1 DEF Bracket
<1>3. \A id, m, q : OneSwitched(ax, id, m, q) => OneSwitched(bx, id, m, q)
  BY <1>1, <1>2 DEF OneSwitched
<1>4. \A m, q : BothSwitched(ax, m, q) => BothSwitched(bx, m, q)
  BY <1>1, <1>2 DEF BothSwitched
<1> QED BY <1>1, <1>3, <1>4

\* The steps of WheelSendThread, which sends setpoints only.
LEMMA SwitchWheel == ASSUME TypeOK, SwitchInv, WheelThread PROVE SwitchInv'
<1> DEFINE S == {f \in Frame : f.cmd \in SetpointCmd}
<1>0. UNCHANGED <<u_pc, g_armed, mode, c_pc, c_out, active, u_out, u_todo, u_id, motor_id, is_hip>>
  BY DEF WheelThread, WheelTop, WheelReadMode, WheelReadVel, WheelReadTorque, WheelSend, WheelTest,
         radio, sm, test, control, usb
<1>1. ASSUME w_out' \in Seq(S), axis' = axis PROVE SwitchInv'
  BY <1>0, <1>1 DEF SwitchInv, StopId, Agree, UnderTest
<1>2. w_out \in Seq(S)
  BY DEF SwitchInv
<1>3. ASSUME NEW id \in Motor, NEW v \in Velocity PROVE odrive_send_velocity(id, v) \in S
  BY DEF odrive_send_velocity, Frame, SetpointCmd
<1>4. CASE WheelTop \/ WheelReadMode
  BY <1>1, <1>2, <1>4 DEF WheelTop, WheelReadMode, bus
<1>5. CASE WheelReadVel
  <2>1. w_next \in Motor /\ WheelVel(wheel_vel, w_mode) \in Velocity
    BY DEF TypeOK, SmType, WheelType, WheelVel, Velocity
  <2>2. odrive_send_velocity(w_next, WheelVel(wheel_vel, w_mode)) \in S
    BY <1>3, <2>1
  <2> HIDE DEF S
  <2>3. w_out' \in Seq(S) /\ axis' = axis
    BY <1>5, <2>2 DEF WheelReadVel, bus
  <2> QED BY <1>1, <2>3
<1>6. CASE WheelReadTorque
  <2>1. g_motor_torques[5] \in Torque /\ g_motor_torques[6] \in Torque
    BY DEF TypeOK, ControlType
  <2>2. /\ odrive_send_torque(5, g_motor_torques[5]) \in S
        /\ odrive_send_torque(6, g_motor_torques[6]) \in S
    BY <2>1 DEF odrive_send_torque, Frame, SetpointCmd
  <2> HIDE DEF S
  <2>3. w_out' \in Seq(S) /\ axis' = axis
    BY <1>6, <2>2 DEF WheelReadTorque, bus
  <2> QED BY <1>1, <2>3
<1>7. CASE WheelTest
  <2>1. CASE active /\ ~is_hip /\ motor_id \in Motor
    <3>1. vel_target \in Velocity
      BY DEF TypeOK, TestType, Velocity
    <3>2. odrive_send_velocity(motor_id, vel_target) \in S
      BY <1>3, <2>1, <3>1
    <3> HIDE DEF S
    <3>3. w_out' = << odrive_send_velocity(motor_id, vel_target) >> /\ axis' = axis
      BY <1>7, <2>1 DEF WheelTest, bus
    <3>4. w_out' \in Seq(S)
      BY <3>2, <3>3
    <3> QED BY <1>1, <3>3, <3>4
  <2>2. CASE ~(active /\ ~is_hip /\ motor_id \in Motor)
    BY <1>1, <1>2, <1>7, <2>2 DEF WheelTest, bus
  <2> QED BY <2>1, <2>2
<1>8. CASE WheelSend
  <2>1. w_out # <<>> /\ Send(Head(w_out)) /\ w_out' = Tail(w_out)
    BY <1>8 DEF WheelSend
  <2>2. Head(w_out) \in S /\ Tail(w_out) \in Seq(S)
    <3> HIDE DEF S
    <3> QED BY <1>2, <2>1
  <2>3. \A w \in Wheel : axis'[w].state = axis[w].state /\ axis'[w].mode = axis[w].mode
    BY <2>1, <2>2, SetpointKeeps
  <2>4. /\ \A w \in Wheel : \A m : SettledIn(axis[w], m) => SettledIn(axis'[w], m)
        /\ \A id, m, q : OneSwitched(axis, id, m, q) => OneSwitched(axis', id, m, q)
        /\ \A m, q : BothSwitched(axis, m, q) => BothSwitched(axis', m, q)
    BY <2>3, SameModes
  <2>5. w_out' \in Seq(S)
    BY <2>1, <2>2
  <2>6. Agree => Agree'
    BY <1>0, <2>4 DEF Agree, UnderTest
  <2> QED BY <1>0, <2>4, <2>5, <2>6 DEF SwitchInv, StopId
<1> QED BY <1>4, <1>5, <1>6, <1>7, <1>8 DEF WheelThread

\* The steps of USBCmdThread.
LEMMA SwitchUsb ==
  ASSUME ProcedureKept, TypeOK, SwitchInv,
         (\E id \in Tested : UsbStart(id)) \/ UsbStop \/ UsbRun
  PROVE  SwitchInv'
<1>i. DriveMode("IDLE") = "torque"
  BY DEF DriveMode, wants_wheel_velocity
<1>0. UNCHANGED <<w_out, g_armed, mode, c_pc, c_out>>
  BY DEF UsbStart, UsbStop, UsbRun, UsbStore, UsbSend, UsbDone, radio, sm, control, wheels
<1>1. ASSUME NEW id \in Tested, UsbStart(id) PROVE SwitchInv'
  <2>1. u_pc = "idle" /\ OnBench /\ ~active
    BY <1>1 DEF UsbStart, StartAllowed, ProcedureKept
  <2>2. ~g_armed /\ mode = "IDLE" /\ c_pc # "stopping" /\ c_out = <<>> /\ u_out = <<>>
    BY <2>1 DEF OnBench, ControlSettled, SwitchInv
  <2>3. \A w \in Wheel : SettledIn(axis[w], "torque")
    BY <1>i, <2>1, <2>2 DEF SwitchInv, Agree, UnderTest
  <2>4. /\ u_pc' = "starting" /\ u_id' = id /\ u_todo' = {"active", "id", "hip"}
        /\ UNCHANGED <<active, motor_id, is_hip, u_out, axis>>
    BY <1>1 DEF UsbStart, test, bus
  <2>5. id \in Motor
    BY TestedAssumption
  <2> QED BY <1>0, <2>1, <2>2, <2>3, <2>4, <2>5 DEF SwitchInv
<1>2. CASE UsbStop
  <2>1. u_pc = "idle" /\ OnBench
    BY <1>2 DEF UsbStop, StopAllowed, ProcedureKept
  <2>2. ~g_armed /\ mode = "IDLE" /\ c_pc # "stopping" /\ c_out = <<>> /\ u_todo = {}
    BY <2>1 DEF OnBench, ControlSettled, SwitchInv
  <2>3. Agree
    BY <2>1, <2>2 DEF SwitchInv
  <2>4. /\ u_pc' = "stopping" /\ u_out' = StopFrames
        /\ UNCHANGED <<active, motor_id, is_hip, u_id, u_todo, axis>>
    BY <1>2 DEF UsbStop, test, bus
  <2>5. OneSwitched(axis, StopId, "torque", StopFrames)
    <3>1. ASSUME NEW w \in Wheel, w = StopId PROVE Bracket(axis[w], w, "torque", StopFrames)
      BY <2>3, <3>1 DEF StopId, StopFrames, can_motor_set_odrive_mode, Agree, SettledIn, Bracket
    <3>2. ASSUME NEW w \in Wheel, w # StopId PROVE SettledIn(axis[w], "torque")
      BY <1>i, <2>2, <2>3, <3>2 DEF StopId, Agree, UnderTest
    <3>3. StopId \notin Wheel => StopFrames = <<>>
      BY DEF StopId, StopFrames, can_motor_set_odrive_mode
    <3> QED BY <3>1, <3>2, <3>3 DEF OneSwitched
  <2> QED BY <1>0, <2>2, <2>4, <2>5 DEF SwitchInv, StopId
<1>3. ASSUME NEW field \in {"active", "id", "hip"}, UsbStore(field) PROVE SwitchInv'
  <2>1. /\ u_pc = "starting" /\ field \in u_todo /\ u_todo' = u_todo \ {field}
        /\ active' = (IF field = "active" THEN TRUE ELSE active)
        /\ motor_id' = (IF field = "id" THEN u_id ELSE motor_id)
        /\ is_hip' = (IF field = "hip" THEN u_id <= 4 ELSE is_hip)
        /\ u_out' = (IF u_todo = {field} THEN can_motor_set_odrive_mode(u_id, "velocity") ELSE u_out)
        /\ UNCHANGED <<u_pc, u_id, axis>>
    BY <1>3 DEF UsbStore, bus
  <2>2. /\ ~g_armed /\ mode = "IDLE" /\ c_pc # "stopping" /\ c_out = <<>> /\ u_id \in Motor
        /\ u_out = <<>> /\ \A w \in Wheel : SettledIn(axis[w], "torque")
    BY <2>1 DEF SwitchInv
  <2>3. /\ "active" \notin u_todo' => active'
        /\ "id" \notin u_todo' => motor_id' = u_id
        /\ "hip" \notin u_todo' => is_hip' = (u_id <= 4)
    BY <1>3, <2>1 DEF SwitchInv
  <2>4. CASE u_todo = {field}
    <3>1. u_todo' = {} /\ u_out' = can_motor_set_odrive_mode(u_id, "velocity")
      BY <2>1, <2>4
    <3>2. OneSwitched(axis, u_id, "velocity", can_motor_set_odrive_mode(u_id, "velocity"))
      <4>1. ASSUME u_id \in Wheel
            PROVE  Bracket(axis[u_id], u_id, "velocity", can_motor_set_odrive_mode(u_id, "velocity"))
        BY <2>2, <4>1 DEF can_motor_set_odrive_mode, Bracket, SettledIn
      <4>2. u_id \notin Wheel => can_motor_set_odrive_mode(u_id, "velocity") = <<>>
        BY DEF can_motor_set_odrive_mode
      <4> QED BY <2>2, <4>1, <4>2 DEF OneSwitched
    <3> QED BY <1>0, <2>1, <2>2, <2>3, <3>1, <3>2 DEF SwitchInv
  <2>5. CASE u_todo # {field}
    <3>1. u_todo' # {} /\ u_out' = <<>>
      BY <2>1, <2>2, <2>5
    <3> QED BY <1>0, <2>1, <2>2, <2>3, <3>1 DEF SwitchInv
  <2> QED BY <2>4, <2>5
<1>4. CASE UsbSend
  <2>1. /\ u_out # <<>> /\ Send(Head(u_out)) /\ u_out' = Tail(u_out)
        /\ UNCHANGED <<active, motor_id, is_hip, u_pc, u_id, u_todo>>
    BY <1>4 DEF UsbSend, test
  <2>2. u_pc \in {"starting", "stopping"}
    BY <2>1 DEF SwitchInv, TypeOK, UsbType
  <2>3. CASE u_pc = "stopping"
    <3>1. OneSwitched(axis', StopId, "torque", Tail(u_out))
      BY <2>1, <2>3, OneSwitchedStep DEF SwitchInv
    <3> QED BY <1>0, <2>1, <2>3, <3>1 DEF SwitchInv, StopId
  <2>4. CASE u_pc = "starting"
    <3>1. u_todo = {} /\ OneSwitched(axis, u_id, "velocity", u_out)
      BY <2>1, <2>4 DEF SwitchInv
    <3>2. OneSwitched(axis', u_id, "velocity", Tail(u_out))
      BY <2>1, <3>1, OneSwitchedStep
    <3> QED BY <1>0, <2>1, <2>4, <3>1, <3>2 DEF SwitchInv
  <2> QED BY <2>2, <2>3, <2>4
<1>5. CASE UsbDone
  <2>1. /\ u_pc # "idle" /\ u_todo = {} /\ u_out = <<>> /\ u_pc' = "idle"
        /\ active' = (IF u_pc = "stopping" THEN FALSE ELSE active)
        /\ UNCHANGED <<motor_id, is_hip, u_todo, u_out, axis>>
    BY <1>5 DEF UsbDone, bus
  <2>2. mode = "IDLE" /\ c_pc # "stopping" /\ c_out = <<>>
    BY <2>1 DEF SwitchInv
  <2>3. CASE u_pc = "stopping"
    <3>1. OneSwitched(axis, StopId, "torque", <<>>)
      BY <2>1, <2>3 DEF SwitchInv
    <3>2. \A w \in Wheel : SettledIn(axis[w], "torque")
      BY <3>1 DEF OneSwitched, Bracket, SwitchFrames
    <3>3. Agree'
      BY <1>0, <1>i, <2>1, <2>2, <2>3, <3>2 DEF Agree, UnderTest
    <3> QED BY <1>0, <2>1, <2>2, <2>3, <3>3 DEF SwitchInv
  <2>4. CASE u_pc = "starting"
    <3>1. /\ OneSwitched(axis, u_id, "velocity", <<>>) /\ active /\ motor_id = u_id
          /\ is_hip = (u_id <= 4) /\ u_id \in Motor
      BY <2>1, <2>4 DEF SwitchInv
    <3>2. \A w \in Wheel : SettledIn(axis[w], IF w = u_id THEN "velocity" ELSE "torque")
      BY <3>1 DEF OneSwitched, Bracket, SwitchFrames
    <3>3. \A w \in Wheel : UnderTest(w) <=> w = u_id
      <4>1. u_id \in Wheel => ~(u_id <= 4)
        OBVIOUS
      <4> QED BY <3>1, <4>1 DEF UnderTest
    <3>4. Agree
      BY <1>i, <2>2, <3>2, <3>3 DEF Agree
    <3>5. Agree' /\ active' = active
      BY <1>0, <2>1, <2>4, <3>4 DEF Agree, UnderTest
    <3> QED BY <1>0, <2>1, <2>2, <2>4, <3>5 DEF SwitchInv
  <2> QED BY <2>1, <2>3, <2>4 DEF TypeOK, UsbType
<1> QED BY <1>1, <1>2, <1>3, <1>4, <1>5 DEF UsbRun

\* Every step keeps the switches apart.
LEMMA SwitchNext == ASSUME ProcedureKept PROVE TypeOK /\ SwitchInv /\ [Next]_vars => SwitchInv'
<1> SUFFICES ASSUME TypeOK, SwitchInv, [Next]_vars PROVE SwitchInv'
  OBVIOUS
<1>1. ASSUME NEW a \in BOOLEAN, NEW sw \in {"car", "balance"}, RadioPublish(a, sw)
      PROVE  SwitchInv'
  <2>1. /\ g_armed' = a
        /\ UNCHANGED <<w_out, u_pc, mode, c_pc, c_out, active, u_out, u_todo, u_id, motor_id, is_hip, axis>>
    BY <1>1 DEF RadioPublish, sm, test, control, wheels, usb, bus
  <2>2. u_pc # "idle" => ~g_armed'
    BY <1>1, <2>1 DEF RadioPublish, SwitchInv, ProcedureKept
  <2> QED BY <2>1, <2>2 DEF SwitchInv, StopId, Agree, UnderTest
<1>2. CASE UNCHANGED vars
  BY <1>2, SwitchKept DEF vars, radio, sm, test, control, wheels, usb, bus
<1> QED BY <1>1, <1>2, SwitchControl, SwitchWheel, SwitchUsb DEF Next

\* It holds at boot, after can_motor_register.
LEMMA SwitchInitial == Init => SwitchInv
<1> SUFFICES ASSUME Init PROVE SwitchInv
  OBVIOUS
<1>1. w_out \in Seq({f \in Frame : f.cmd \in SetpointCmd})
  BY DEF Init
<1>2. Agree
  BY DEF Init, Agree, SettledIn, UnderTest, odrive_init_axis, DriveMode, wants_wheel_velocity
<1> QED BY <1>1, <1>2 DEF Init, SwitchInv

(***************************************************************************)
(* can_motor_set_odrive_mode's callers, for both balance controllers, any  *)
(* tested motors and any losses of setpoints: whenever no thread is in the *)
(* middle of a switch each drive is in closed loop and in the mode its     *)
(* commands assume, if the bench procedure is kept and no mode frame is    *)
(* lost.                                                                   *)
(***************************************************************************)
THEOREM DrivesAgree == ASSUME ProcedureKept PROVE Spec => []AxisAgrees
<1>1. SwitchInv => AxisAgrees
  <2> SUFFICES ASSUME SwitchInv, ControlSettled, u_pc = "idle" PROVE Agree
    BY DEF AxisAgrees, Agree, SettledIn
  <2> QED BY DEF SwitchInv, ControlSettled
<1> QED BY <1>1, SwitchInitial, SwitchNext, TypeCorrect, PTL DEF Spec

(***************************************************************************)
(* can_motor_set_odrive_mode: under the same conditions no drive ever      *)
(* changes its controller mode in closed loop.                             *)
(***************************************************************************)
THEOREM ModeChangesBracketed == ASSUME ProcedureKept PROVE Spec => BracketedModeChange
<1>1. TypeOK /\ SwitchInv /\ [Next]_vars =>
        [ \A w \in Wheel : axis'[w].mode # axis[w].mode => axis[w].state = "idle" ]_vars
  <2> SUFFICES ASSUME TypeOK, SwitchInv, Next
               PROVE  \A w \in Wheel : axis'[w].mode # axis[w].mode => axis[w].state = "idle"
    OBVIOUS
  <2>1. CASE axis' = axis
    BY <2>1
  <2>2. CASE CtrlSend
    <3>1. c_out # <<>> /\ Send(Head(c_out))
      BY <2>2 DEF CtrlSend
    <3>2. CASE c_pc = "stopping"
      BY <3>1, <3>2, OneSwitchedStep DEF SwitchInv
    <3>3. CASE c_pc = "switching"
      BY <3>1, <3>3, BothSwitchedStep, DriveModeType DEF SwitchInv
    <3> QED BY <3>1, <3>2, <3>3 DEF SwitchInv
  <2>3. CASE UsbSend
    <3>1. u_out # <<>> /\ Send(Head(u_out))
      BY <2>3 DEF UsbSend
    <3>2. CASE u_pc = "stopping"
      BY <3>1, <3>2, OneSwitchedStep DEF SwitchInv
    <3>3. CASE u_pc = "starting"
      <4>1. OneSwitched(axis, u_id, "velocity", u_out)
        BY <3>1, <3>3 DEF SwitchInv
      <4> QED BY <3>1, <4>1, OneSwitchedStep
    <3> QED BY <3>1, <3>2, <3>3 DEF SwitchInv, TypeOK, UsbType
  <2>4. CASE WheelSend
    <3>1. w_out # <<>> /\ Send(Head(w_out))
      BY <2>4 DEF WheelSend
    <3>2. Head(w_out) \in {f \in Frame : f.cmd \in SetpointCmd}
      BY <3>1 DEF SwitchInv
    <3> QED BY <3>1, <3>2, SetpointKeeps
  <2>5. CASE CtrlCompute \/ CtrlHold \/ CtrlStopDone \/ CtrlDispatch \/ CtrlPublish
    BY <2>1, <2>5 DEF CtrlCompute, CtrlHold, CtrlStopDone, CtrlDispatch, CtrlPublish, bus
  <2>6. CASE WheelTop \/ WheelReadMode \/ WheelReadVel \/ WheelReadTorque \/ WheelTest
    BY <2>1, <2>6 DEF WheelTop, WheelReadMode, WheelReadVel, WheelReadTorque, WheelTest, bus
  <2>7. CASE \/ \E id \in Tested : UsbStart(id)
             \/ UsbStop \/ UsbDone \/ \E field \in {"active", "id", "hip"} : UsbStore(field)
             \/ \E a \in BOOLEAN, sw \in {"car", "balance"} : RadioPublish(a, sw)
    BY <2>1, <2>7 DEF UsbStart, UsbStop, UsbDone, UsbStore, RadioPublish, bus
  <2> QED BY <2>2, <2>3, <2>4, <2>5, <2>6, <2>7 DEF Next, Control, WheelThread, UsbRun
<1> QED BY <1>1, SwitchInitial, SwitchNext, TypeCorrect, PTL DEF Spec, BracketedModeChange
=============================================================================
