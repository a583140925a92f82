# TLA+ models of the BPRL_balance firmware

BPRL_balance is the flight-controller firmware of a two-wheeled, four-hip biped:
ChibiOS on a single-core STM32H743, with preemptive fixed-priority threads, RMD
hip drives and ODrive wheel drives on CAN bus 1, sensors on CAN bus 2 and SPI, an
SBUS radio and a USB command line. This directory models the parts of it whose
correctness depends on interleaving, loss, timeouts and order. TLC checks the
models on small instances and TLAPS proves the main safety results for every
value of the constants.

All source paths below are relative to the repository root.

## Inventory

| Component | State | Operations | Interacts with | What is hard |
|---|---|---|---|---|
| RC link: `SBUS.cpp`, `Radio.cpp`, `RadioThread` (+10) | decoded channels and flags, stale counter, height latch | one 100 Hz pass | publishes `g_input`, `g_armed` under `state_mtx` | a silently dead link, counter limits, latch per arm episode |
| `RobotStateMachine` and its three controllers | `_mode`, wheel targets, leg-length ramps | `update` (ControlThread), `wheel_vel_L/R` (WheelSendThread, no lock) | switches the ODrives on mode edges | the mode is visible before drives and targets follow; ramps handed over between controllers |
| `MotorTest` | `_active`, `_motor_id`, `_is_hip`, `_wheel_vel_target` | `start`, `stop` (USB), `stop(false)`, `update` (control) | switches the tested wheel's ODrive | unlocked fields, two threads switching one drive |
| `ControlThread` (+20), `WheelSendThread` (+18) | ZOH torque buffer, tick, path of this period | compute tick, hold tick, publish, three send paths | radio, `robot_sm`, `g_motor_torques`, `g_motor_test` | reads and sends are not atomic, sends block |
| Motor layer `CANMotor.cpp`, `ActuatorSafety` | `g_motors[]`, registration, poll index | gated commands, replies, status round robin | all motor users | a gate on old or never received feedback, mirrored mountings |
| CAN driver `CAN.cpp`, `CANThread` (+28) | device tables, diagnostics, scanner | `can_send`, dispatch, bus-off check, scan | everything on CAN | no retransmission, bus-off, unlocked counters |
| IMX5 link, `StateEstThread` (+25) | `g_can_imu`, freshness | frame callback, snapshot, stale check | CANThread, `StateManager` | freshness decided outside the lock |
| `StateManager`, `EKF` | lanes, primary, weights | 500 Hz update | IMUs, IMX5, legs, wheels | which lane leads when sensors fail |
| IMU driver `ICM45686`, `SPIThread` (+30) | the sensor's FIFO | init, one packet per pass | sensor keeps sampling | backlog, samples from before a reset |
| Battery `CANPower.cpp` | pending transfer, `g_power` | `battery_info_cb` | CANThread, telemetry | reassembly under loss |
| Calibration `CalFlash.cpp`, `CAL,*` | flash sector, `g_cal`, staging copy | load, save, clear | SPIThread reads `g_cal` | power loss between erase and program |
| `Logger`, `LogThread` (-15) | ring buffer, file, number | write, flush, init; `LOG,erase` (USB) | SD card, USB commands | wrap-around, SD errors, erase against init |
| USB `USBCmdThread` (-20), `DebugThread` (-10) | line buffer, output mutex | line assembly, replies, downloads, telemetry | host | overlong lines, pulled cables, a host that stops reading |
| `PID`, `HipLock` | integrator, last time and error | update, reset | control, bench test | a 32-bit microsecond clock |
| `Motor_tool/` (bench firmware) | driver states, active bus, host time, monitor ring | text commands, watchdog, receive thread | PC, three kinds of drive | watchdog against command thread, unlocked state |

What makes them correct: a dead radio disarms the robot and nothing but a frame
arms it; a disarmed robot comes to rest; each wheel drive is in the mode the
commands sent to it assume; the mode the robot is in never lets an old command
out; bench
test and driving never drive a wheel together; no gate lets a motor be pushed
out of its range or past its speed; an acknowledged calibration survives and a
boot never loads a mixture; a battery reading is made of one transfer; the log is
a stream of whole records and is not erased while it is written; bus-off ends; a
quaternion is fused once and only fresh; every command is a whole line and every
reply whole; a silent host leaves no bench motor turning.

`PROJECT.json` lists every component with its status, and the hazards with the
line each one bites at and the property that covers it.

## Modules

| Module | Models |
|---|---|
| `SbusParser` (`SbusParser_proofs`) | SBUS framing byte by byte on a line that loses and garbles bytes |
| `RadioLink` (`MCRadioLink`, `RadioLink_proofs`) | `SbusParser`'s decoded state, `Radio.cpp`'s accessors, one pass of `RadioThread` per step |
| `ODriveAxis` | a wheel's drive: the frames the firmware sends it and (external) what they do |
| `RobotStateMachine` | the decision part of `RobotStateMachine::update`: next mode, resets, drive mode |
| `MotorControl` (`MotorControl_proofs`) | composition: radio publication, ControlThread, WheelSendThread, the USB test commands, the two drives |
| `ActuatorGate` | feedback, the hip gate and `ActuatorSafety::apply`, every gated command, replies between gate steps |
| `HipStatus` | the 0x9A round robin and the battery voltage computed from it |
| `CanThread` | CANThread's polling of two FDCAN peripherals, bus-off, loss counters |
| `CanDispatch` | device tables, dispatch, id scanner |
| `CanTx` | the transmit counters under preemption |
| `Imx5Link` | the IMX5's frames against StateEstThread's critical sections |
| `Lanes` | which lanes an IMU drives, primary selection, velocity sources |
| `ImuFifo` | `ICM45686` init and read against a sensor that samples on its own |
| `BatteryInfo` | DroneCAN reassembly |
| `CalStore` | abstract calibration store: a value that is replaced whole or lost |
| `CalFlash` (`CalFlash_proofs`) | flash sector word by word, CRC, `CAL,*`, boot; implements `CalStore` |
| `LogFiles` | mounting, file numbers, `LOG,erase`, resets |
| `LogRing` | the ring buffer, flush, sync and the failed write |
| `UsbLine` | line assembly of `USBCmdThread` and of `Motor_tool`'s `CmdThread` (the same code) |
| `UsbOutput` | replies, downloads and telemetry on one endpoint and one mutex |
| `PidStale` | the PIDs of the controllers and the bench test on a clock that wraps |
| `LegHeight` | leg-length commands of the stand-up and balance controllers |
| `MotorTool` | `Motor_tool`: shell, three drivers, replies, host watchdog, hardware watchdog, cable |
| `CanMonitor` | `Motor_tool`'s monitor ring |
| `ControlValues` (`MCControlValues`, `ControlValues_proofs`) | instances of `ActuatorGate`, `Lanes`, `PidStale` |
| `Feedback` (`MCFeedback`, `Feedback_proofs`) | `SbusParser` extended; instances of `CanThread`, `CanDispatch`, `Imx5Link`, `ImuFifo`, `HipStatus`, `LegHeight` |
| `Storage` (`MCStorage`, `Storage_proofs`) | `CalFlash` extended; instances of `LogFiles`, `LogRing`, `BatteryInfo`, `CanTx`, `UsbLine`, `UsbOutput` |
| `BenchTool` (`BenchTool_proofs`) | two instances of `MotorTool`, one of `CanMonitor` |

`MotorControl` composes what interacts step by step: the radio's publication, the
control and wheel threads, the test commands and the drives. The components of the
last four modules share no state with each other, so their product would only
multiply state counts. Each of these modules is therefore a disjoint union: `part`,
chosen in the initial state, says which component moves, the others keep an initial
state, and a component's fairness is conditional on `part`. Each component's
reachable states and fair behaviours are exactly those it has alone. The unions
declare the constants of their components and assume what the components assume of
them; the `MC` modules and the `.cfg` files give the values. The proofs extend the
unions, so that they are about the same specifications as the runs and for all
values.

### RadioLink

`ch`, `frame_lost`, `failsafe` are `SbusParser`'s members; `sbus_stale_ticks` and
`height_hold_active` are `RadioThread`'s locals; `g_input` and `g_armed` are what it
publishes. `silence` and `zeroed` are history variables that only the properties
read. `RadioTick(rx)` is one pass of the loop: drain, watchdog, latch, publication.
`rx` is the drain's result, a frame or `NoFrame`. Several frames in one drain
overwrite each other, so the last stands for all, and a 25-byte block with a bad
footer changes nothing (`SbusParser` models how the drain gets from bytes to frames). `norm_axis` keeps the numerator of the C++ expression
exactly, in units of 1/15561. The deadband edge (40.95 counts) is between integers,
so float rounding cannot move it.

### MotorControl

A step is what a thread does up to its next `can_send()`, where it may block for a
mailbox and let any thread run, or, for threads that can be preempted, up to its
next access to shared state.

| State | Code |
|---|---|
| `g_armed`, `g_mode_sw` | RadioThread's publication; any sequence of values (its own logic is `RadioLink`) |
| `mode`, `wheel_vel` | `robot_sm._mode` and the wheel targets held by the three controllers |
| `active`, `motor_id`, `is_hip`, `vel_target` | `g_motor_test` |
| `c_*`, `tick`, `torques`, `g_motor_torques` | ControlThread: position, snapshot, frames still to send, tick, ZOH buffer, publication |
| `w_*` | WheelSendThread: path, wheel, the mode it has loaded, frames still to send |
| `u_*` | USBCmdThread: command, id, stores still to do, frames still to send |
| `axis`, `losses` | the two drives, and the frames lost so far |

A setpoint is abstracted to where it came from: `zero`, `fresh` (computed in the
current episode of the mode), `stale` (left from an earlier one), `sweep` (bench
test), `torque`. `wheel_vel_L/R()` are two steps, as in the code: `WheelReadMode`
loads `_mode` for the switch, `WheelReadVel` the target of that mode, and
ControlThread, of higher priority, may come in between. Both wheels of a controller share one abstract target. The balance
laws are a free choice of zero or nonzero, `is_standing()` a free Boolean.

`MotorTest::start()` stores three plain fields that other threads read without a
lock, so `UsbStore` may perform them in any order.

The operator is part of the environment. The bench procedure, `OnBench`, is:
tests are started and stopped on a disarmed robot that has gone idle, one at a time,
and the robot is armed only while no USB command is in flight. Arming at any time
during a *running* test is within the procedure. The code does not enforce the
procedure; `Liberties` names the ways an operator may depart from it (`start_any`,
`start_twice`, `stop_any`, `arm_in_flight`). `start_at_disarm` takes one of them,
and the theorems without a condition hold under all.
Passing runs take none, so what they show of the test commands holds for an
operator who keeps to the procedure. `Lossy` and `MaxLosses` say which frames the
bus may drop (`CCCR.DAR` turns retransmission off).

### The other modules

In all of them a step is what a thread does between two points where another
thread can come in: a lock, a blocking call, or, where threads of different
priority share plain variables, a load or a store.

* `SbusParser`: a byte is a header, a footer or another, as the code tells them apart;
  what a frame says is a content. The receiver sends any bytes between header and
  footer. `calm` counts the frame ends since the last disturbance: a lost or garbled
  byte, or, before the parser is back in step, a channel byte that looks like a header.
* `ActuatorGate` keeps angles, speeds and torques as integers. A ramp is its
  numerator over the margin, and products are kept exact instead of rounded. The
  properties are stated in the drive's own frame, from the raw reply `rep`, so that
  a wrong sign or offset shows. A reply may arrive between `apply()` and the gate
  and between two hips.
* `CalFlash` keeps the sector as words that are erased, garbage, or hold a part of
  a calibration. An erase or a program step may fail, and power may be cut at each.
  The CRC is modelled by what it detects: any word that is not the one written.
* `LogRing` names every byte by its record and its place in it, so that an order or a
  wrap error shows. The layouts of the schema and of a pass are the offsets at which
  their records end. `RatesFit` says that both together fit the ring and one flush,
  as 979 + 344 bytes do 32768 and 4096; `passes` bounds the stream. `f_write` may
  fail after any part of a chunk, and on a full card, until `Erase` makes room, it
  writes what fits and returns FR_OK. `flush()` looks at the result only, neither
  at `written` nor at what `f_sync` returns. `from` is the place in the stream of
  each byte of the file.
* `BatteryInfo`: the nodes' transfers interleave and any frame may be lost; a value
  is the node, transfer and frame it came from. `missed` are the nodes whose last
  transfer lost frame 2.
* `CanDispatch`: `heard` are the frames of bus 1 since the scan was started. What a
  scan should have found is defined from them alone: the rank of an id is the number
  of distinct ids up to its first occurrence (`Tallies`).
* `LogFiles` lets every SD call fail (a failing `f_stat` reads as a free number, and
  `f_open` then refuses to overwrite the file), and interleaves `LOG,erase` with `init()` at
  each file operation.
* `CanTx`: ControlThread, WheelSendThread and USBCmdThread with their priorities; a thread runs only while no higher one
  is ready, as on the single core, and may be preempted between load and store.
* `Lanes`: a lane is its smoothed innovation norm, the filter is not modelled. In
  the code `is_valid()` says that `EKF::init()` has run, so every lane is valid from
  the start; `Driven` are the lanes whose IMU has delivered a sample.
* `PidStale`: the clock is a counter modulo `Wrap`, ages are exact. The sweep of a
  bench test uses its own PID. `start()` is two steps, since it stores `_active`
  before it resets that PID and ControlThread may tick in between. `StartWhenIdle` is the bench procedure; without it a
  hip test that freezes the state machine makes `NoStaleGap` fail in the default
  build too, by the mechanism of `start_at_disarm`.
* `LegHeight`: lengths are integers. The legs follow a command one unit per step
  while held (external), and sag while not.
* `MotorTool`: time is kept as ages. `WatchStep` is enabled only while CmdThread
  waits, because CmdThread has the higher priority and there is no time slicing
  (`CH_CFG_TIME_QUANTUM 0`). The hardware watchdog resets the board when the idle
  main thread is starved by a spinning CmdThread. The cable and the configured
  device are told apart: after a reset, as after an unplug, the queues are suspended
  and CmdThread spins until a host configures the device again, which takes a cable.
* `CanMonitor`: `mon_push` by CANRxThread is one step, since nothing preempts it;
  a pop is three, and so is `MONITOR,start`, a store each of tail, head and active,
  whether the monitor is off or on.

## Runs

| Run | Instance | Shows |
|---|---|---|
| `radio_link` | timeout 3, counter modulo 6, 36 stick vectors | the watchdog disarms a dead link, neither early nor late, and for good although the counter wraps; a height target takes a stick zeroed in the same arm episode |
| `wheels_lqr` | default build, divisor 1, hip 1 and wheel 5 tested | drives agree with the mode, every mode change is bracketed, an old velocity goes out only if its mode is left between the two loads that fetch it, test and driving exclude each other, a robot that stays disarmed comes to rest (liveness) |
| `wheels_pid` | PID build, divisor 2, one lost setpoint frame | with torques held over ticks, and a setpoint lost at any time, a disarmed robot still comes to rest (liveness) |
| `control_values` | hip 1 (mirrored), hip 4 (not) and wheel 5 with the code's limits; three lanes; PIDs on a clock modulo 4 | no command pushes a joint out at a stop or speeds up one at its limit, and the way back is never ramped; no available velocity source is lost; no integrator bridges a stale gap though the clock wraps, except inside `start()` |
| `feedback` | SBUS frames of 5 bytes; two buses with FIFOs of two; a scan table one slot short; an IMX5 timeout of 4 passes; a FIFO of 6 over two resets; four hips; leg lengths 1..6 | the SBUS parser is back in step two frames after a fault; bus-off ends and a flooded bus does not starve the other (liveness); the scan report is exact; a quaternion is fused once, never stale, and fusion resumes (liveness); nothing of an earlier boot is published; every hip is polled for ever (liveness); standing up ends (liveness) and no mode begins with a jump |
| `storage` | three calibrations; three log names, two faults, a reset; a ring of 13 bytes over 14 passes, on a card that runs full once; two monitors with five losses; three senders; lines up to twice the buffer; downloads of 3 chunks with two stalls | a boot loads a whole committed calibration or none, OK is durable, `CalStore` is implemented; no log is overwritten, logging begins (liveness), the file is the stream written and what is synced ends with a record, and on a full card order and record starts survive; published pairs are of one transfer, its frames 1 and 2 unless 2 was lost; counters never run ahead; a command is a whole line; writers do not mix and every command finishes (liveness) |
| `bench_tool` | a GIM on two buses with a lost frame and a reset; an RMD and an ODrive on one bus with a lost frame and a cable pulled and put back; a monitor ring of 3 over three starts | a silent host leaves no motor turning that the tool has heard of on the selected bus (liveness); monitored frames come out in order, never those of an earlier session unless a start of a running monitor was raced |

The following runs are expected to violate their property. Each shows a statement
of the repository that the code does not keep:

| Run | Statement | What happens |
|---|---|---|
| `lost_mode_frame` | `CAN.cpp:14` "Every motor command here is already reissued every control cycle, so a dropped frame is self-healing" | mode-switch frames are sent once; losing one on disarm leaves the wheel turning |
| `start_at_disarm` | `RobotStateMachine.hpp:8` "disarmed: all motors zero-torque" | a test started before the next compute tick freezes the driving mode |
| `lane_dead_imu` | `EKF.hpp:9` "the filter runs from onboard IMUs alone when the IMX5 is disconnected" | with IMU 0 dead the output is a lane nothing drives |
| `log_erase_race` | `tools/logs.py:12` "erase completed log files" | the path was read before the log was opened |
| `tool_unplugged` | `Motor_tool/README.md:65` "cable unplugged ... stops/disables every motor" | CmdThread spins above the watchdog; the hardware watchdog resets the tool, and with the cable still out it spins again |

### Other disagreements met while modelling

The models contain the behaviour below, and the passing properties are stated so
that they do not claim the contrary; no run is devoted to it.

* `SBUS.hpp:45` "True if a full valid frame was decoded"; the test is one header and one
  footer byte 24 places apart. Two lost bytes, or a channel byte 0x0F taken for a header
  with a 0x00 in front of the next one, let a block pass that is no frame, and with
  constant sticks this repeats. `Resynchronises` counts such bytes as disturbances.
* `MotorTest.cpp:59` calls `stop()` "a safe recovery action to send at any time";
  sent while driving it puts the wheel into torque mode, with no edge to restore it
  (the liberty `stop_any`).
* `CANMotor.cpp:731` brackets a mode change to avoid one in closed loop; when the
  robot is armed inside a `start()` two brackets interleave (`arm_in_flight`).
* `RobotStateMachine.hpp:8` "disarmed: all motors zero-torque"; WheelSendThread, which
  has loaded `_mode` and not yet the target, sends once the target of a mode that
  ControlThread leaves in between. `StaleOnlyIfModeLeft` says that this is the only
  way an old target goes out.
* `MotorTest.hpp:8` "every motor besides the one under test is held at zero"; a
  second `start` leaves the first wheel turning (`start_twice`).
* `MotorTest.hpp:13` hip output goes through `can_motor_set_torque()`; a test whose
  three fields are half stored can make WheelSendThread send a hip a velocity.
* `CANMotor.cpp:199` refuse "rather than guess a scale from stale/zero data"; a
  0x9A reply makes a hip valid while its position is still zero. `NeverPushesOut`
  therefore speaks of hips whose drive has reported an angle.
* `RobotTelemetry.cpp:32` "literal average of the 4 hips' 0x9A voltage telemetry";
  hips not yet polled count as 0 V.
* `CAN.cpp:217` "how many distinct events happened"; two losses between two polls
  count once. `CAN.hpp:37` "calls that returned true"; an increment can be lost by
  preemption, which is why `DiagNeverOver` is one-sided.
* `StateManager.hpp:41` blended "across all valid lanes"; the weight of a lane whose
  IMU stopped is lost.
* `CANPower.cpp:75` "only useful if it's frame 2"; frame 4 of the same transfer has
  the same toggle and is taken for the current when frame 2 is lost. `OneTransfer`
  names the frame and allows another than 2 only in that case.
* `Logger.cpp:116` "SD error — stop logging"; a full card is no error to FatFS, the
  log stays open and loses what does not fit, and it goes on when `LOG,erase` has made
  room. A failed `f_sync` is not noticed either. `LogIsStream` and `SyncedAreRecords`
  say what is left then.
* `CalFlash.hpp:31` "clears calibration"; a failed erase is answered OK.
* `tools/logs.py:101` "Highest-numbered file is still being written"; the lowest
  free number is taken.
* `Motor_tool/src/CmdShell.cpp:546` "overlong line - drop and resync"; the tail is
  executed. `CommandIsLine` therefore allows the end of an overlong line.
* `tools/logs.py:109` "interleaved $TEL lines are skipped"; a telemetry line that
  timed out has no end, and the reply continues it.
* `PID.hpp:10` "resets integrator after 200 ms gap"; in the PID build, whose
  `reset()` does nothing, a pause of a whole clock period is no gap. `NoStaleGap` is
  checked for the default build. There, too, a tick inside `MotorTest::start()`, after
  `_active` is stored and before `_hip_pid.reset()`, may find such a pause; the
  property excepts it.
* `Motor_tool/README.md:65` "every motor it has ever touched"; stops go to the
  selected bus, and a late store of `enabled` forgets a GIM that is not heard.
  `SilenceStops` says what does hold.
* `GimMotor.cpp:62` "corrected by the ack"; the ack may come before the value it
  corrects. `CmdShell.cpp:40` "if the host stops talking"; the unsigned age underflows
  when the host talks in the middle of the check, and stops all motors.
* `Motor_tool/src/CAN.cpp:147` "drop the oldest by advancing tail"; a push inside a
  pop tears the frame. `AllInOrder` holds while CmdThread keeps up. `CAN.cpp:125`
  resets tail and head of a monitor that may be on; a push between the two stores
  that sees a full ring moves the tail, and old frames are printed until the next
  start. `AllInOrder` excepts such a session (`raced`). `CAN.cpp:238`
  "keeps diag/scan/monitor/subscribers consistent"; the self test runs on another
  thread than the receiver and both fill one slot (not modelled).
* `threads.cpp:917` and `main.cpp:144` say that WheelSendThread runs below
  USBCmdThread, whereas `threads_start` gives it NORMALPRIO+18 and USBCmdThread -20.
  The models use the latter.

Some hazards have no property because nothing in the repository says what should
happen: `g_cal` is copied while SPIThread reads it (`threads.cpp:686`); the staging
copy is zero after a boot, so `CAL,set` of one IMU and a commit erase the others
(`threads.cpp:671`); `LOG,get` announces a size the file may have outgrown
(`threads.cpp:564`); `can_get_diag()` and the three rate frames of the IMX5 are not
read at one instant (`CAN.cpp:259`, `CAN.cpp:301`); armed before the legs report, the
ramp starts at its end (`StandUpController.cpp:23`); the hardware watchdog is fed by
the main thread whatever the others do (`main.cpp:187`).

### Bounds

* `radio_link`: `SBUS_TIMEOUT_TICKS = 3`, `TickMod = 6`, `MaxSilence = 9` stand for
  50, 2^32 and "for ever". Nothing depends on their size beyond timeout + 1 < modulus,
  which is the assumption the proofs use. `MaxSilence` lies beyond a wrap of the
  counter. `silence` saturates, so `Next` is never cut off. The stick vectors cover the
  arm switch below, just below and on the centre, the height stick on both sides of
  both deadband edges, and both mode positions.
* `wheels_*`: `COMPUTE_DIVISOR` is 1 in the shipped configuration (100 Hz send and
  compute); 2 is the smallest value with hold ticks. One tested wheel and one tested
  hip are enough for every branch. One loss, at any time, is the step that healing has
  to survive; several are several such steps. The queues need no bound: they hold at
  most the six frames of a switch.
* `control_values`: the gates have the code's limits, angles in 5 mrad, speeds in
  rad/s, torques in Nm. Each hip is seen at or beyond both stops and inside the margin of
  one of them, a different one for each; every motor at its rated speed in one sense
  and inside the margin in the other; the two torques are of either sign, one of them
  above the hips' limit. All other values are left to the proofs. Three lanes as in
  the code. The PIDs' clock is modulo 4 with a timeout of 2, and `MaxAge` 5 exceeds a wrap.
* `feedback`: five bytes have a header, a footer and channel bytes in between that can
  imitate either; faults are not bounded. FIFOs of two frames are empty, half full, full and overflowing; bus-off
  counters are modulo 2, as only differences matter. The scan table is one slot short of
  the ids of bus 1, so that it overflows. The IMX5 and FIFO rates keep the order of the
  real ones (the sensor is slower than the thread). Leg lengths 1..6 lie around a
  stand height of 3 in a range of 2..4, so that legs start below, inside and above it.
* `storage`: one IMU with three biases, four flash words as in the code. Three log
  numbers stand for 9999. The ring has 13 bytes, and a pass writes 7, so
  that records end before, on and after the buffer's end and every head and tail
  position occurs within 14 passes. The card runs full once, after any byte, and may
  have room again at any time; a second time would be another such gap. Battery transfers have five frames as the real ones;
  ids modulo 3 instead of 32, so that five losses can alias, which `OneTransfer`
  accounts for. A line buffer of four stands for the 64 and 96 bytes, and lines reach
  more than twice that.
* `bench_tool`: a timeout of one tick, immediate repetition and one tick of delay
  inside a pass are the smallest values with silence, talk and underflow. One reply
  under way is enough for it to be late. Three starts of the monitor are one that
  is raced and one that mends it, after a session to leave old frames behind. The
  monitor's ring is 3 and its counters modulo 6 so that, as with 2^32 and 64, the modulus is a multiple of the size.

`CHECK_DEADLOCK FALSE` is set where a bounded component ends at its bounds
(`storage`, `bench_tool`, `log_erase_race`, `tool_unplugged`).

### Fairness

`RadioLink`: a pass always follows, as the thread waits only for its period and for
`state_mtx`. `MotorControl`: weak fairness of ControlThread, of WheelSendThread and
of a USB command once accepted. `can_send()` has a timeout, mutexes are held
for a few copies, and the higher-priority threads are periodic and leave most of the
CPU idle. No fairness is assumed of the radio, of the operator or of the bus.
`DisarmedComesToRest` is conditional on the robot staying disarmed.

The other modules take weak fairness of the threads their properties wait for, each
of which is periodic, and of the hardware that answers them (a peripheral that rejoins the bus after
128 idle sequences, a sensor that samples, held legs that follow). `LogFiles`: LogThread's
retries, with a bounded number of SD faults. `UsbOutput`: a host that stalls a bounded
number of times and else reads. `MotorTool`: CmdThread always moves on, the watchdog
is fair but can only run while CmdThread waits, time passes, a host configures a
device that is plugged in, and the hardware watchdog fires when it is due. The host, the operator, the faults and the cable are never fair.

## Proofs

The theorems hold for all values of the constants that satisfy the named
assumptions of the modules. Every invariant and action property of the passing runs
is a theorem. The assumptions that are more than types are these:

| Assumption | Why the code satisfies it |
|---|---|
| timeout + 1 < counter modulus (`RadioLink`) | 50 and 2^32 |
| divisor, margins and scale denominator not zero (`MotorControl`, `ActuatorGate`) | compile-time constants |
| 0 < stale timeout < clock period (`PidStale`) | 200 ms and 71.6 min |
| three frames at least in a transfer (`BatteryInfo`) | frames 1 and 2 carry the values, the last one ends it |
| `RatesFit` (`LogRing`): schema and one pass fit ring and chunk | 1323 of 32768 and 4096 bytes |
| the ring size divides the counter modulus, which exceeds it by more than one (`CanMonitor`) | 64 and 2^32; with ring + 1 a full ring and an empty one would look alike |
| `BenchProcedure`, `ProcedureKept` (`MotorControl`), hypotheses of three theorems | the operator's part; the code does not enforce it, see the runs `start_at_disarm` and `lost_mode_frame` |

**Radio.**

* `TypeCorrect` (here and in `MotorControl_proofs`): type correctness, one lemma per
  thread.
* `FramingRecovers`: `SyncInv` says where the parser can stand at the first frame end
  after a disturbance (in step, waiting, or in a block that ends within this frame) and
  that it is in step at the second, and therefore decodes from the third.
* `DeadLinkDisarmed`, `DisarmHasCause`, `ArmingTakesFrame`: `DeadLinkDisarms` alone
  is not inductive, because it does not say why the counter trips in time. `WatchdogInv`
  adds that until the timeout the counter equals the silence, that afterwards both
  flags stay set whatever the counter does (so the wrap is harmless), and that what
  was published agrees with flags and switch.
* `HeightLatched`, from `HeightInv`: the latch is open only if the stick was zeroed
  in this episode, and a closed latch publishes zero.

**Wheels.**

* `VelocityIsCurrent`: an action property, of the step that loads the target; it
  needs `CurrentInv`: the target of the mode `robot_sm` is in is
  never stale, and under PID the balance target is never set. The crux is
  `SmUpdateCurrent`: BALANCING is entered only from STANDING_UP, and every other entry
  resets. It holds for every operator and any loss.
* `TestAndDrivingExclude`, under `BenchProcedure` (no `start_any`, no `arm_in_flight`):
  `ExclusionInv` says that a start in progress finds the robot disarmed, idle and not
  aborting a test, and that an active test finds it idle.
* `DrivesAgree` and `ModeChangesBracketed`, under `ProcedureKept` (no liberties, no mode
  frame lost; setpoints may be). `AxisAgrees` speaks only of moments when nobody
  switches, so it says nothing about how a switch gets there. `SwitchInv` describes
  every moment of one: what is left to send to a drive is a suffix of the bracket
  IDLE, mode, CLOSED_LOOP and the drive is where that suffix expects it (`Bracket`);
  the frames of ControlThread are such remainders for both drives, interleaved
  (`BothSwitched`), those of USBCmdThread for the tested one (`OneSwitched`); and the
  two threads never have remainders at once. WheelSendThread only ever holds
  setpoints, which leave state and mode alone.

**What the control loop sends and computes with** (`ControlValues_proofs`).

* `HipsNeverPushOut`, `MotorsNeverOverspeed`, `HipsComeBack`, from `MotorsInv`. The
  properties are in the drive's frame and the gates compute in the robot's, so the
  invariant ties the two (`Tied`): what `g_motors` holds is the last reply, with sign
  and offset of the motor. `Sound` is then shown for each kind of command at the
  moment its gate computes it, and a reply that arrives later does not change it. The
  arithmetic is in lemmas about `limit_scale`, `Clamp` and `Trunc`.
* `VelocityKept`: by the case distinction of `Fusion`.
* `NoGapBridged`: the code's staleness test cannot tell a gap of a whole clock period.
  `PidsInv` says that it need not: a PID in use was updated one tick ago, or reset,
  or is the test's and `start()` has not yet come to its reset.

**What reaches the loop** (`Feedback_proofs`).

* `QuaternionsFresh`: `FreshUnused` says that a quaternion still to be fused has not
  been, in `g_can_imu` and in the snapshot, and that these two differ; `ValidIsRecent`
  relates the age of what is valid to `can_stale_ticks` at each of the three places
  StateEstThread can be, as a frame may arrive between its two critical sections.
* `SamplesOfThisBoot`: `ImuInv` says what may be in the FIFO at each step of `init()`.
* `LegsDoNotJump`: the first command of a mode is one `Ramp` step from the leg.
* `ScansExact`: `ScanOK` says that the table is exact for what was heard and holds
  nothing else. The step is `ScanFrame`: a known id is the entry of its rank, a new
  one has the next rank and goes to the next entry unless the table is full. `heard`
  is arbitrarily long, so counts and ranks are cardinalities and the lemmas say how
  they grow by one frame. `DispatchInv` says that the table is not exact while it is
  cleared, and that the scanner is stopped then.

**Storage and USB** (`Storage_proofs`, `CalFlash_proofs`).

* `NoMixture`, `Durable`, `Consistent` and `Refinement`. What a
  boot would load is a function of three words (magic and version in word 0, the CRC
  in word 2), and a save writes them one by one, so the invariant needs to know how
  far it got: `SaveInv` says that the words below `word` hold the staged calibration and
  all others are still erased, and that nothing is acknowledged meanwhile. Hence no
  prefix of a save can be loaded together with old words. The refinement maps the
  sector to the calibration it would load, or to none, and the command under way to
  `op`: commands map to `Begin`, erases to `Lose`, word 2 to `Land`, replies, failures
  and power cuts to `End`, every other step stutters.
* `FileThenRing`, `SyncedWhole`: `RingInv` says that the ring holds, from the tail on
  and modulo its size, the end of the stream (`Held`), and how much that is
  (`Waiting`): the records of this pass, and in the first pass the schema; that the
  file was drawn from the stream in order and from in front of that end (`Drawn`); and
  that until the card runs full it lacks nothing else. With
  `RatesFit` hence no write is refused and a flush empties the ring, so that
  every `f_sync` falls on the end of a record.
* `LogsAreKept`: an action property that needs no invariant beyond the guards of
  `init()` and `LOG,erase`.
* `OutputIsWhole`: `OutputInv` says who holds the mutex at each step and what the
  last piece written was. `CommandsAreLines`: `LineInv` extends the property to the
  line that is being gathered.
* `PublishedTogether`: a stashed start frame may be completed by a later transfer with
  the same ID. `BatteryInv` counts how many frames must have been lost for that: one
  at least for each transfer since the stash (`Since`). For the frame number it also
  says when the node's frame 2 is past while its start is still stashed: only if that
  frame was lost (`Overtaken`).
* `CountersNeverOver`: `TxInv` counts the threads with a transmission not yet in the
  counter, and orders the values that preempted threads have loaded by priority:
  a lower thread that stores late stores less.

**Bench firmware** (`BenchTool_proofs`).

* `PrintsInOrder`: `MonInv` describes a session from the second store of its start
  on, unless that start was raced: every slot written holds frames of this session and, until the ring has overflowed (`KeepsUp`), that tail, copy and slots are the
  frames their counters say, although the counters wrap.

`SwitchInv`, `SaveInv`, `SyncInv` and the other strengthenings of the single modules
were checked with TLC before they were proved.

Only model-checked, because liveness under fairness is beyond this prover:
`LinkLossDisarmsForGood`, `DisarmedComesToRest`, `BusOffRecovers`,
`NeitherBusStarves`, `FusionResumes`, `EveryHipPolled`, `StandsUp`, `EventuallyLogs`,
`CommandsFinish`, `SilenceStops`. `SilenceStops` in particular has no safety part of
its own that would not restate an action of `MotorTool`.

## Not modelled

* The EKF's filter, the balance laws, the kinematics and the unit conversions are
  floating-point expressions with no discrete state; where the code branches on
  their results the models choose freely.
* The bits of the SBUS channels within a frame, the parsing of USB commands beyond
  their kind, and the text they print.
* The drives, the FDCAN peripheral, the flash controller, the SD card and the IMU
  are external and behave as the code uses them. The fault a bare mode change may
  cause in an ODrive is not modelled, only the condition for it.
* The USB descriptors and events, which depend on the ChibiOS driver; the drivers of
  IMUs that no thread reads; `Motor_tool`'s IMX5 display.
* `tools/`, `MatLab_controls/`, `boards/`, `cfg/` and `third_party/`: host tools, scripts,
  configuration and vendored code.
* `Motor_tool`'s CAN self test.

## Plan

1. Abstract specifications for `LogRing` (a FIFO of records), for `CanMonitor` (a queue
   that may drop) and for `UsbOutput` (one writer at a time), with refinements, on the
   invariants that are proved already.
2. Type correctness as theorems of the four unions.
3. The safety core of the liveness results: what a fair step of the watchdogs
   (`MotorTool`, `CanThread`) makes smaller.
