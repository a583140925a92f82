------------------------------ MODULE RadioLink ------------------------------
(***************************************************************************)
(* The RC link: SbusParser's decoded state (coms/SBUS.cpp), the channel    *)
(* accessors (coms/Radio.cpp) and RadioThread (threads.cpp), the only      *)
(* writer of g_input and g_armed.                                          *)
(*                                                                         *)
(* One step is one pass of RadioThread's 100 Hz loop.  Its input is what   *)
(* the UART drain of that pass decoded: nothing, or a frame.  A drain may  *)
(* decode several frames, but each overwrites every field, so the last one *)
(* stands for all.  A frame that fails the footer test changes nothing and *)
(* is the same as no frame.                                                *)
(***************************************************************************)
EXTENDS Integers

CONSTANTS
  SBUS_TIMEOUT_TICKS, \* passes without a frame the watchdog tolerates (50)
  TickMod,            \* sbus_stale_ticks is a uint32_t: counts modulo 2^32
  Sticks,             \* the channel vectors the transmitter sends
  NoFrame,            \* "the drain decoded no frame"
  MaxSilence          \* bound at which the history counter saturates

CENTRE == 992

\* The six channels of the 16 that Radio.cpp reads.
Channel == {"yaw", "vel", "height", "leanover", "arm", "mode"}

Raw == 0 .. 2047     \* an SBUS channel is 11 bits

ASSUME TimeoutAssumption == SBUS_TIMEOUT_TICKS \in Nat
ASSUME TickModAssumption == TickMod \in Nat /\ TickMod > SBUS_TIMEOUT_TICKS + 1
ASSUME SticksAssumption  == Sticks \subseteq [Channel -> Raw]
ASSUME SilenceAssumption ==
  MaxSilence \in Nat /\ MaxSilence > SBUS_TIMEOUT_TICKS

\* A decoded frame: channels plus the two flag bits of byte 23.
Frame == [ch : Sticks, lost : BOOLEAN, failsafe : BOOLEAN]
ASSUME NoFrameAssumption == NoFrame \notin Frame

VARIABLES
  ch,                 \* SbusParser::_ch
  frame_lost,         \* SbusParser::_frame_lost
  failsafe,           \* SbusParser::_failsafe
  sbus_stale_ticks,   \* RadioThread: passes since the last frame
  height_hold_active, \* RadioThread: height stick not yet zeroed since arming
  g_input,            \* what RadioThread publishes under state_mtx ...
  g_armed,            \* ... together with the arm state
  silence,            \* history: passes since the last frame, saturating
  zeroed              \* history: the height stick has read zero on a pass of
                      \* the arm episode that is under way

vars == <<ch, frame_lost, failsafe, sbus_stale_ticks, height_hold_active,
          g_input, g_armed, silence, zeroed>>

(***************************************************************************)
(* norm_axis maps a raw channel to a stick position.  With d = v - 992 the *)
(* C++ computes 0 when |d/819| < 0.05 and (|d|/819 - 0.05) / 0.95 with d's *)
(* sign otherwise, that is (20|d| - 819) / 15561; the numerator is kept.   *)
(***************************************************************************)
STICK_UNIT == 15561

norm_axis(v) ==
  LET d == v - CENTRE
  IN  IF 20 * d >= 819 THEN 20 * d - 819
      ELSE IF 20 * d <= -819 THEN 20 * d + 819
      ELSE 0

radio_armed(lost, fs, c) == ~lost /\ ~fs /\ c["arm"] < CENTRE

-----------------------------------------------------------------------------
(* SbusParser::update as RadioThread sees it, and the watchdog. *)

\* Channels and flags after the drain: an undecoded pass leaves them frozen.
Decoded(rx) == IF rx = NoFrame THEN [ch |-> ch, lost |-> frame_lost, failsafe |-> failsafe]
                               ELSE rx

\* take_frame_received() clears the count; otherwise ++ on a uint32_t.
StaleTicks(rx) == IF rx # NoFrame THEN 0 ELSE (sbus_stale_ticks + 1) % TickMod

\* Mutants: no watchdog, the comparison one pass late, one pass early.
TimedOut_Never(rx) == FALSE
TimedOut_Late(rx)  == rx = NoFrame /\ StaleTicks(rx) > SBUS_TIMEOUT_TICKS + 1
TimedOut_Early(rx) == rx = NoFrame /\ StaleTicks(rx) >= SBUS_TIMEOUT_TICKS

\* The watchdog branch: mark_stale() is called on this pass.
TimedOut(rx) == rx = NoFrame /\ StaleTicks(rx) > SBUS_TIMEOUT_TICKS

\* Mutant: disarming does not set the latch again.
HoldNext_OncePerBoot(armed, height) == height_hold_active /\ height # 0

\* Height latch: forced on while disarmed, released by a zero stick.
HoldNext(armed, height) ==
  IF ~armed THEN TRUE ELSE height_hold_active /\ height # 0

\* The inputs of one publication.
Inputs(c, hold) ==
  [yaw      |-> norm_axis(c["yaw"]),
   vel      |-> -norm_axis(c["vel"]),
   height   |-> IF hold THEN 0 ELSE norm_axis(c["height"]),
   leanover |-> norm_axis(c["leanover"]),
   mode     |-> norm_axis(c["mode"])]

(***************************************************************************)
(* One pass of RadioThread.  No other thread touches these variables, and  *)
(* the publication is one critical section of state_mtx.                   *)
(***************************************************************************)
RadioTick(rx) ==
  LET d     == Decoded(rx)
      lost  == d.lost \/ TimedOut(rx)
      fs    == d.failsafe \/ TimedOut(rx)
      armed == radio_armed(lost, fs, d.ch)
      hold  == HoldNext(armed, norm_axis(d.ch["height"]))
  IN  /\ ch' = d.ch
      /\ frame_lost' = lost
      /\ failsafe' = fs
      /\ sbus_stale_ticks' = StaleTicks(rx)
      /\ height_hold_active' = hold
      /\ g_input' = Inputs(d.ch, hold)
      /\ g_armed' = armed
      /\ silence' = IF rx # NoFrame THEN 0
                    ELSE IF silence < MaxSilence THEN silence + 1 ELSE silence
      /\ zeroed' = (armed /\ ((zeroed /\ g_armed) \/ norm_axis(d.ch["height"]) = 0))

Init ==
  /\ ch = [c \in Channel |-> 0]
  /\ frame_lost = TRUE
  /\ failsafe = TRUE
  /\ sbus_stale_ticks = 0
  /\ height_hold_active = TRUE
  /\ g_input = [yaw |-> 0, vel |-> 0, height |-> 0, leanover |-> 0, mode |-> 0]
  /\ g_armed = FALSE
  /\ silence = 0
  /\ zeroed = FALSE

Receive == \E f \in Frame : RadioTick(f)
Silent  == RadioTick(NoFrame)

Next == Receive \/ Silent

\* RadioThread never blocks for good: its only waits are state_mtx and its
\* own period, so a pass always follows.  A silent pass changes the counter,
\* so an endless silence is a fair behaviour.
Fairness == WF_vars(Next)

Spec == Init /\ [][Next]_vars /\ Fairness

-----------------------------------------------------------------------------
TypeOK ==
  /\ ch \in [Channel -> Raw]
  /\ frame_lost \in BOOLEAN
  /\ failsafe \in BOOLEAN
  /\ sbus_stale_ticks \in 0 .. TickMod - 1
  /\ height_hold_active \in BOOLEAN
  /\ g_input \in [yaw : Int, vel : Int, height : Int, leanover : Int, mode : Int]
  /\ g_armed \in BOOLEAN
  /\ silence \in 0 .. MaxSilence
  /\ zeroed \in BOOLEAN

(***************************************************************************)
(* A silently dead link ends up disarmed (threads.cpp, the watchdog's      *)
(* comment): once more passes than the timeout have gone by with no frame, *)
(* the published state is disarmed, for however long the silence lasts and *)
(* although the stale counter itself wraps.                                *)
(***************************************************************************)
DeadLinkDisarms == silence > SBUS_TIMEOUT_TICKS => ~g_armed

(***************************************************************************)
(* The watchdog is not trigger-happy: an armed robot is disarmed only by a *)
(* frame that says so or by a silence longer than the timeout.             *)
(***************************************************************************)
DisarmOnlyForCause ==
  [][ g_armed /\ ~g_armed' => silence' = 0 \/ silence' > SBUS_TIMEOUT_TICKS ]_vars

(***************************************************************************)
(* Arming always comes from a fresh frame: no pass without a frame turns   *)
(* disarmed into armed, so neither the boot state (channel 4 reads 0, which*)
(* is "low = armed") nor a tripped watchdog can arm the robot.             *)
(***************************************************************************)
ArmOnlyOnFrame == [][ ~g_armed /\ g_armed' => silence' = 0 ]_vars

(***************************************************************************)
(* Hold-to-zero-on-arm: a nonzero height target is published only while    *)
(* armed and only if the stick has read zero earlier in the same arm       *)
(* episode, so arming never makes the height jump to where the stick is.   *)
(***************************************************************************)
HeightNeedsZeroing == g_input.height # 0 => g_armed /\ zeroed

(***************************************************************************)
(* If frames stop for good the robot is eventually disarmed for good.      *)
(***************************************************************************)
LinkLossDisarmsForGood == <>[](silence > 0) => <>[](~g_armed)

\* What makes DeadLinkDisarms inductive: until it trips, the wrapped counter
\* still equals the length of the silence; afterwards both flags stay set.
\* What was published is what the flags and the arm channel say.
WatchdogInv ==
  /\ silence <= SBUS_TIMEOUT_TICKS => sbus_stale_ticks = silence
  /\ silence > SBUS_TIMEOUT_TICKS => frame_lost /\ failsafe
  /\ g_armed <=> radio_armed(frame_lost, failsafe, ch)

\* What makes HeightNeedsZeroing inductive: the latch is the negation of the
\* history.
HeightInv ==
  /\ zeroed => g_armed
  /\ ~height_hold_active => zeroed
  /\ height_hold_active => g_input.height = 0
=============================================================================
