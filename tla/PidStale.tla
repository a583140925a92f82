------------------------------ MODULE PidStale ------------------------------
(***************************************************************************)
(* When a PID (controllers/PID.cpp) keeps its integrator and derivative    *)
(* and when it starts afresh.  PID::update measures the gap since its last *)
(* call with a 32-bit microsecond clock and resets itself after more than  *)
(* STALE_TIMEOUT_US; the controllers that own the PIDs (HipLock,           *)
(* PidBalanceController, MotorTest) reset them on some mode changes and    *)
(* not on others.  Time advances by one compute tick of ControlThread.     *)
(***************************************************************************)
EXTENDS RobotStateMachine, Integers

CONSTANTS
  Wrap,              \* compute ticks in 2^32 us
  STALE_TIMEOUT,     \* STALE_TIMEOUT_US, in compute ticks
  StartWhenIdle,     \* TRUE: a bench test is started only when robot_sm is IDLE
  MaxAge             \* bound: ages are counted up to this

ClockAssumption ==
  /\ Wrap \in Nat /\ STALE_TIMEOUT \in Nat /\ MaxAge \in Nat
  /\ 0 < STALE_TIMEOUT /\ STALE_TIMEOUT < Wrap /\ Wrap < MaxAge
  /\ StartWhenIdle \in BOOLEAN

\* One PID of each owner: s_standup's hip lock, s_balance's controller (its hip
\* lock in the LQR build, its two loops in the PID build), and g_motor_test's
\* hip sweep.
Pid == {"standup", "balance", "test"}

VARIABLES
  mode,              \* robot_sm._mode
  active,            \* g_motor_test._active, with a hip under test
  starting,          \* USBCmdThread is in start(), before _hip_pid.reset()
  clock,             \* now_us()
  pid,               \* per PID: _deriv_valid and _last_t_us
  age,               \* history: ticks since the last update() of each PID
  bridged            \* history: the PIDs whose update() in the last step
                     \* integrated over more than STALE_TIMEOUT

vars == <<mode, active, starting, clock, pid, age, bridged>>

-----------------------------------------------------------------------------
\* now - _last_t_us in uint32_t.
Elapsed(p) == (clock - pid[p].last_t) % Wrap

reset(p) == [pid[p] EXCEPT !.deriv_valid = FALSE]

\* The gap update() integrates over; 0 for a first sample or a stale one.
Gap(p, cleared) ==
  IF p \notin cleared /\ pid[p].deriv_valid /\ Elapsed(p) <= STALE_TIMEOUT
  THEN Elapsed(p) ELSE 0

\* A tick in which the PIDs of cleared are reset and then those of used updated.
Tick(cleared, used) ==
  /\ pid' = [p \in Pid |-> IF p \in used THEN [deriv_valid |-> TRUE, last_t |-> clock]
                           ELSE IF p \in cleared THEN reset(p) ELSE pid[p]]
  /\ bridged' = {p \in used : Gap(p, cleared) # 0 /\ age[p] > STALE_TIMEOUT}
  /\ age' = [p \in Pid |-> IF p \in used THEN 1
                           ELSE IF age[p] < MaxAge THEN age[p] + 1 ELSE MaxAge]
  /\ clock' = (clock + 1) % Wrap

-----------------------------------------------------------------------------
\* Mutant: StandUpController::reset() leaves its hip lock alone.
Resets_NoHipLock(prev, now) ==
  IF prev # now /\ now = "BALANCING" /\ USES_WHEEL_VELOCITY THEN {"balance"} ELSE {}

\* StandUpController::reset and LqrBalanceController::reset reset their hip
\* lock; BalanceController::reset does nothing in the PID build.
Resets(prev, now) ==
  CASE prev = now -> {}
    [] prev # now /\ now = "STANDING_UP" -> {"standup"}
    [] prev # now /\ now = "BALANCING" /\ USES_WHEEL_VELOCITY -> {"balance"}
    [] OTHER -> {}

\* The PID of the controller that runs in a mode.
Owner(m) ==
  CASE m = "STANDING_UP" -> {"standup"} [] m = "BALANCING" -> {"balance"} [] OTHER -> {}

\* PidBalanceController::update runs its velocity and pitch PIDs on every tick.
Unconditional == IF USES_WHEEL_VELOCITY THEN {} ELSE {"balance"}

\* HipLock::update skips a hip without feedback and, in the LQR build, a leg
\* length out of reach; once it holds a hip it does so on every tick of the mode.
Used(prev, now, reach) ==
  {p \in Owner(now) : p \in Unconditional \/ reach \/ (prev = now /\ pid[p].deriv_valid)}

\* A compute tick that runs the state machine; arming ends a bench test.
SmTick(armed, sw, standing, reach) ==
  /\ armed \/ ~active
  /\ mode' = NextMode(mode, armed, sw, standing)
  /\ active' = FALSE
  /\ Tick(Resets(mode, mode'), Used(mode, mode', reach))
  /\ UNCHANGED starting

\* A compute tick of a hip sweep, which may reverse; robot_sm is not run.
TestTick(arrives, reach) ==
  /\ active
  /\ LET used == IF reach \/ pid["test"].deriv_valid THEN {"test"} ELSE {} IN
     Tick(IF arrives THEN used ELSE {}, used)
  /\ UNCHANGED <<mode, active, starting>>

\* MotorTest::start() sets _active before it resets the PID, and ControlThread
\* outranks USBCmdThread: ticks may run between the two.
UsbStart ==
  /\ ~starting
  /\ StartWhenIdle => mode = "IDLE"
  /\ active' = TRUE /\ starting' = TRUE /\ bridged' = {}
  /\ UNCHANGED <<mode, clock, pid, age>>

UsbStartReset ==
  /\ starting
  /\ pid' = [pid EXCEPT !["test"] = reset("test")]
  /\ starting' = FALSE /\ bridged' = {}
  /\ UNCHANGED <<mode, active, clock, age>>

UsbStop ==
  /\ active /\ ~starting
  /\ active' = FALSE /\ bridged' = {}
  /\ UNCHANGED <<mode, starting, clock, pid, age>>

Init ==
  /\ mode = "IDLE" /\ active = FALSE /\ starting = FALSE /\ clock = 0
  /\ pid = [p \in Pid |-> [deriv_valid |-> FALSE, last_t |-> 0]]
  /\ age = [p \in Pid |-> MaxAge] /\ bridged = {}

Next ==
  \/ \E armed, standing, reach \in BOOLEAN, sw \in {"car", "balance"} :
       SmTick(armed, sw, standing, reach)
  \/ \E arrives, reach \in BOOLEAN : TestTick(arrives, reach)
  \/ UsbStart \/ UsbStartReset \/ UsbStop

Spec == Init /\ [][Next]_vars

-----------------------------------------------------------------------------
(***************************************************************************)
(* PID.hpp: "Stale-input detection: resets integrator after 200 ms gap".   *)
(* No update() integrates or differentiates over a longer gap, although    *)
(* its clock wraps and a gap of a whole wrap looks like none, but for one  *)
(* that runs inside start(), before the bench test's PID is reset.         *)
(***************************************************************************)
NoStaleGap == \A p \in bridged : p = "test" /\ starting
=============================================================================
