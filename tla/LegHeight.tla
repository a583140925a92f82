------------------------------ MODULE LegHeight ------------------------------
(***************************************************************************)
(* The leg-length command of the default build: StandUpController ramps    *)
(* _L_cmd from the measured leg to L_STAND_M, RobotStateMachine leaves     *)
(* STANDING_UP when is_standing(), and LqrBalanceController then ramps its *)
(* own _L_cmd towards the height stick's target.  Lengths are integers, a  *)
(* step of a ramp is one unit; the balance law is left out, what it does   *)
(* to the robot being "upright" or not.                                    *)
(***************************************************************************)
EXTENDS RobotStateMachine, Integers

CONSTANTS
  L_STAND, L_MIN, L_MAX,   \* L_STAND_M, and the LQR controller's clamp
  HEIGHT_RANGE,            \* HEIGHT_RANGE_M, at full stick
  Longest                  \* leg lengths are 1..Longest; 0 is "no leg valid"

LengthAssumption ==
  /\ {L_STAND, L_MIN, L_MAX, HEIGHT_RANGE, Longest} \subseteq Nat \ {0}
  /\ L_MIN <= L_STAND /\ L_STAND <= L_MAX /\ L_MAX <= Longest

VARIABLES
  armed, sw, stick,        \* g_armed, MODE_SW and HEIGHT_SET
  leg, feedback, upright,  \* the leg's length, whether hips report it, phi and vel small
  mode,                    \* robot_sm._mode
  L_cmd,                   \* _L_cmd of s_standup and of s_balance's LQR controller
  hold                     \* the length last given to HipLock::update, 0 for none

vars == <<armed, sw, stick, leg, feedback, upright, mode, L_cmd, hold>>

-----------------------------------------------------------------------------
\* state[LEG_L]: the measured length, 0 while no leg is valid.
LEG_L == IF feedback THEN leg ELSE 0

Clamp(x, lo, hi) == IF x < lo THEN lo ELSE IF x > hi THEN hi ELSE x

\* Mutant: the ramp only follows a target it is below.
Ramp_UpOnly(from, to) == IF from < to THEN from + 1 ELSE from

\* _L_cmd += (DT_S / TAU_L_S) * (target - _L_cmd).
Ramp(from, to) ==
  IF from < to THEN from + 1 ELSE IF from > to THEN from - 1 ELSE from

Target == Clamp(L_STAND + stick * HEIGHT_RANGE, L_MIN, L_MAX)

is_standing == upright /\ LEG_L = L_STAND

\* Mutant: only the constructor sets the ramp's start.
Seeded_Once(prev, now) == L_cmd

\* StandUpController::reset and LqrBalanceController::reset on entry.
Seeded(prev, now) ==
  [c \in {"STANDING_UP", "BALANCING"} |->
     IF prev # now /\ now = c
     THEN IF LEG_L > 0 THEN LEG_L ELSE L_STAND
     ELSE L_cmd[c]]

-----------------------------------------------------------------------------
\* StandUpController::update and LqrBalanceController::update move their ramp
\* and hand it to the hip lock; the other controllers hold no leg.
StandUp(seed) == [seed EXCEPT !["STANDING_UP"] = Ramp(@, L_STAND)]

Balance(seed) == [seed EXCEPT !["BALANCING"] = Ramp(@, Target)]

\* A compute tick: RobotStateMachine::update with the controller of the mode.
ControlTick ==
  LET now  == NextMode(mode, armed, sw, is_standing)
      seed == Seeded(mode, now) IN
  /\ mode' = now
  /\ L_cmd' = CASE now = "STANDING_UP" -> StandUp(seed)
                [] now = "BALANCING"   -> Balance(seed)
                [] OTHER               -> seed
  /\ hold' = IF now \in DOMAIN L_cmd THEN L_cmd'[now] ELSE 0
  /\ UNCHANGED <<armed, sw, stick, leg, feedback, upright>>

\* The operator's switches and height stick.
Operate ==
  /\ armed' \in BOOLEAN /\ sw' \in {"car", "balance"} /\ stick' \in -1 .. 1
  /\ UNCHANGED <<leg, feedback, upright, mode, L_cmd, hold>>

\* Hips that are held follow the command; their feedback is what lets them.
Follow ==
  /\ hold # 0 /\ feedback /\ leg # hold
  /\ leg' = IF leg < hold THEN leg + 1 ELSE leg - 1
  /\ UNCHANGED <<armed, sw, stick, feedback, upright, mode, L_cmd, hold>>

\* A leg that is not held gives way.
Sag ==
  /\ hold = 0 \/ ~feedback
  /\ leg' \in 1 .. Longest
  /\ UNCHANGED <<armed, sw, stick, feedback, upright, mode, L_cmd, hold>>

\* The first replies of the hips: 'valid' is never cleared again.
HipsReply ==
  /\ ~feedback /\ feedback' = TRUE
  /\ UNCHANGED <<armed, sw, stick, leg, upright, mode, L_cmd, hold>>

Tilt ==
  /\ upright' = ~upright
  /\ UNCHANGED <<armed, sw, stick, leg, feedback, mode, L_cmd, hold>>

Init ==
  /\ armed = FALSE /\ sw = "car" /\ stick = 0
  /\ leg \in 1 .. Longest /\ feedback = FALSE /\ upright \in BOOLEAN
  /\ mode = "IDLE" /\ hold = 0
  /\ L_cmd = [c \in {"STANDING_UP", "BALANCING"} |-> L_STAND]

Next == ControlTick \/ Operate \/ Follow \/ Sag \/ HipsReply \/ Tilt

\* ControlThread is periodic; hips that are held do reach their target.
Fairness == WF_vars(ControlTick) /\ WF_vars(Follow)

Spec == Init /\ [][Next]_vars /\ Fairness

-----------------------------------------------------------------------------
(***************************************************************************)
(* A robot that stays armed in balance mode, upright and with feedback,    *)
(* stands up from any leg length and goes over to balancing: ramp, leg and *)
(* is_standing() meet.                                                     *)
(***************************************************************************)
StandsUp ==
  <>[](armed /\ sw = "balance" /\ feedback /\ upright) => <>[](mode = "BALANCING")

(***************************************************************************)
(* StandUpController.cpp: standing up "actually ramps (not jumps)".  With  *)
(* a measured leg, the first command of a mode is at most one step of the  *)
(* ramp away from it, in every episode of a long sequence of them.         *)
(***************************************************************************)
NoJumpOnEntry ==
  [][mode' # mode /\ hold' # 0 /\ feedback => hold' - leg \in -1 .. 1]_vars
=============================================================================
