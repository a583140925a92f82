--------------------------- MODULE RadioLink_proofs ---------------------------
(***************************************************************************)
(* Safety of the RC link for every timeout, counter width and transmitter. *)
(***************************************************************************)
EXTENDS RadioLink, TLAPS

\* The stick conversion yields an integer for every raw channel value.
LEMMA NormAxisType == ASSUME NEW v \in Raw PROVE norm_axis(v) \in Int
  BY DEF norm_axis, Raw, CENTRE

\* What the drain leaves in the parser is well typed.
LEMMA DecodedType ==
  ASSUME TypeOK, NEW rx \in Frame \cup {NoFrame}
  PROVE  /\ Decoded(rx).ch \in [Channel -> Raw]
         /\ Decoded(rx).lost \in BOOLEAN
         /\ Decoded(rx).failsafe \in BOOLEAN
  BY SticksAssumption DEF Decoded, Frame, TypeOK

\* Every step of the thread is a pass with some drain result.
LEMMA NextIsTick ==
  ASSUME Next PROVE \E rx \in Frame \cup {NoFrame} : RadioTick(rx)
  BY DEF Next, Receive, Silent

\* The variables of RadioLink keep their types (RadioThread and SbusParser).
THEOREM TypeCorrect == Spec => []TypeOK
<1>1. Init => TypeOK
  <2> SUFFICES ASSUME Init PROVE TypeOK
    OBVIOUS
  <2>1. sbus_stale_ticks \in 0 .. TickMod - 1 /\ silence \in 0 .. MaxSilence
    BY TickModAssumption, SilenceAssumption, TimeoutAssumption DEF Init
  <2>2. 0 \in Raw
    BY DEF Raw
  <2>3. ch \in [Channel -> Raw]
    BY <2>2 DEF Init
  <2>4. g_input \in [yaw : Int, vel : Int, height : Int, leanover : Int, mode : Int]
    BY DEF Init
  <2> QED BY <2>1, <2>3, <2>4 DEF Init, TypeOK
<1>2. TypeOK /\ [Next]_vars => TypeOK'
  <2> SUFFICES ASSUME TypeOK, [Next]_vars PROVE TypeOK'
    OBVIOUS
  <2>1. CASE UNCHANGED vars
    BY <2>1 DEF TypeOK, vars
  <2>2. CASE Next
    <3>1. PICK rx \in Frame \cup {NoFrame} : RadioTick(rx)
      BY <2>2, NextIsTick
    <3> DEFINE d == Decoded(rx)
    <3>2. d.ch \in [Channel -> Raw] /\ d.lost \in BOOLEAN /\ d.failsafe \in BOOLEAN
      BY DecodedType
    <3>3. \A c \in Channel : norm_axis(d.ch[c]) \in Int
      BY <3>2, NormAxisType
    <3> HIDE DEF d
    <3>4. ch' \in [Channel -> Raw]
      BY <3>1, <3>2 DEF RadioTick, d
    <3>5. frame_lost' \in BOOLEAN /\ failsafe' \in BOOLEAN /\ g_armed' \in BOOLEAN
      BY <3>1, <3>2 DEF RadioTick, TimedOut, radio_armed, d
    <3>6. sbus_stale_ticks' \in 0 .. TickMod - 1
      BY <3>1, TickModAssumption, TimeoutAssumption
         DEF RadioTick, StaleTicks, TypeOK
    <3>7. height_hold_active' \in BOOLEAN /\ zeroed' \in BOOLEAN
      BY <3>1 DEF RadioTick, HoldNext, TypeOK
    <3>8. g_input' \in [yaw : Int, vel : Int, height : Int, leanover : Int, mode : Int]
      <4>1. /\ norm_axis(d.ch["yaw"]) \in Int
            /\ norm_axis(d.ch["vel"]) \in Int
            /\ norm_axis(d.ch["height"]) \in Int
            /\ norm_axis(d.ch["leanover"]) \in Int
            /\ norm_axis(d.ch["mode"]) \in Int
        BY <3>3 DEF Channel
      <4> QED BY <3>1, <4>1 DEF RadioTick, Inputs, d
    <3>9. silence' \in 0 .. MaxSilence
      BY <3>1, SilenceAssumption DEF RadioTick, TypeOK
    <3> QED BY <3>4, <3>5, <3>6, <3>7, <3>8, <3>9 DEF TypeOK
  <2> QED BY <2>1, <2>2
<1> QED BY <1>1, <1>2, PTL DEF Spec

(***************************************************************************)
(* The strengthening of the watchdog property is inductive.                *)
(***************************************************************************)
LEMMA WatchdogInvariant == Spec => []WatchdogInv
<1>1. Init => WatchdogInv
  BY TimeoutAssumption DEF Init, WatchdogInv, radio_armed
<1>2. TypeOK /\ WatchdogInv /\ [Next]_vars => WatchdogInv'
  <2> SUFFICES ASSUME TypeOK, WatchdogInv, [Next]_vars PROVE WatchdogInv'
    OBVIOUS
  <2>1. CASE UNCHANGED vars
    BY <2>1 DEF WatchdogInv, radio_armed, vars
  <2>2. CASE Next
    <3>1. PICK rx \in Frame \cup {NoFrame} : RadioTick(rx)
      BY <2>2, NextIsTick
    <3>2. (g_armed <=> radio_armed(frame_lost, failsafe, ch))'
      BY <3>1 DEF RadioTick, radio_armed
    <3>3. CASE rx # NoFrame
      <4>1. silence' = 0 /\ sbus_stale_ticks' = 0
        BY <3>1, <3>3 DEF RadioTick, StaleTicks
      <4> QED BY <3>2, <4>1, TimeoutAssumption DEF WatchdogInv
    <3>4. CASE rx = NoFrame /\ silence < SBUS_TIMEOUT_TICKS
      \* Still within the timeout: counter and silence advance together.
      <4>1. sbus_stale_ticks' = silence + 1
        BY <3>1, <3>4, TickModAssumption, TimeoutAssumption
           DEF RadioTick, StaleTicks, WatchdogInv, TypeOK
      <4>2. silence' = silence + 1
        BY <3>1, <3>4, SilenceAssumption, TimeoutAssumption DEF RadioTick, TypeOK
      <4> QED BY <3>2, <3>4, <4>1, <4>2, TimeoutAssumption, SilenceAssumption
              DEF WatchdogInv, TypeOK
    <3>5. CASE rx = NoFrame /\ silence = SBUS_TIMEOUT_TICKS
      \* The pass that trips the watchdog.
      <4>1. StaleTicks(rx) = silence + 1
        BY <3>5, TickModAssumption, TimeoutAssumption
           DEF StaleTicks, WatchdogInv, TypeOK
      <4>2. TimedOut(rx)
        BY <3>5, <4>1, TimeoutAssumption DEF TimedOut
      <4>3. frame_lost' /\ failsafe'
        BY <3>1, <4>2 DEF RadioTick
      <4>4. silence' = silence + 1
        BY <3>1, <3>5, SilenceAssumption, TimeoutAssumption DEF RadioTick, TypeOK
      <4>5. ~(silence' <= SBUS_TIMEOUT_TICKS)
        BY <3>5, <4>4, TimeoutAssumption
      <4> QED BY <3>2, <4>3, <4>5 DEF WatchdogInv
    <3>6. CASE rx = NoFrame /\ silence > SBUS_TIMEOUT_TICKS
      \* Tripped already: the flags stay set whatever the counter does.
      <4>1. frame_lost' /\ failsafe'
        BY <3>1, <3>6 DEF RadioTick, Decoded, WatchdogInv
      <4>2. ~(silence' <= SBUS_TIMEOUT_TICKS)
        BY <3>1, <3>6, TimeoutAssumption, SilenceAssumption DEF RadioTick, TypeOK
      <4> QED BY <3>2, <4>1, <4>2 DEF WatchdogInv
    <3> QED BY <3>3, <3>4, <3>5, <3>6, TimeoutAssumption DEF TypeOK
  <2> QED BY <2>1, <2>2
<1> QED BY <1>1, <1>2, TypeCorrect, PTL DEF Spec

\* A link silent for longer than the timeout is disarmed (RadioThread).
THEOREM DeadLinkDisarmed == Spec => []DeadLinkDisarms
<1>1. WatchdogInv => DeadLinkDisarms
  BY DEF WatchdogInv, DeadLinkDisarms, radio_armed
<1> QED BY <1>1, WatchdogInvariant, PTL

\* Only a disarming frame or a long enough silence disarms (RadioThread).
THEOREM DisarmHasCause == Spec => DisarmOnlyForCause
<1>1. TypeOK /\ WatchdogInv /\ WatchdogInv' /\ [Next]_vars
        => [ g_armed /\ ~g_armed' => silence' = 0 \/ silence' > SBUS_TIMEOUT_TICKS ]_vars
  <2> SUFFICES ASSUME TypeOK, WatchdogInv, Next, g_armed, ~g_armed'
               PROVE  silence' = 0 \/ silence' > SBUS_TIMEOUT_TICKS
    OBVIOUS
  <2>1. PICK rx \in Frame \cup {NoFrame} : RadioTick(rx)
    BY NextIsTick
  <2>2. CASE rx # NoFrame
    BY <2>1, <2>2 DEF RadioTick
  <2>3. CASE rx = NoFrame
    <3>1. silence <= SBUS_TIMEOUT_TICKS
      BY TimeoutAssumption DEF WatchdogInv, radio_armed, TypeOK
    <3>2. TimedOut(rx)
      \* Without the watchdog the flags and the channel would be unchanged.
      BY <2>1, <2>3 DEF RadioTick, Decoded, radio_armed, WatchdogInv
    <3>3. (silence + 1) % TickMod = silence + 1
      BY <3>1, TickModAssumption, TimeoutAssumption DEF TypeOK
    <3>4. silence + 1 > SBUS_TIMEOUT_TICKS
      BY <2>3, <3>1, <3>2, <3>3 DEF TimedOut, StaleTicks, WatchdogInv
    <3>5. silence' = silence + 1
      BY <2>1, <2>3, <3>1, SilenceAssumption, TimeoutAssumption DEF RadioTick, TypeOK
    <3> QED BY <3>4, <3>5
  <2> QED BY <2>2, <2>3
<1> QED BY <1>1, TypeCorrect, WatchdogInvariant, PTL DEF Spec, DisarmOnlyForCause

\* Arming always takes a fresh frame (RadioThread, radio_armed()).
THEOREM ArmingTakesFrame == Spec => ArmOnlyOnFrame
<1>1. WatchdogInv /\ [Next]_vars => [ ~g_armed /\ g_armed' => silence' = 0 ]_vars
  <2> SUFFICES ASSUME WatchdogInv, Next, ~g_armed, g_armed' PROVE silence' = 0
    OBVIOUS
  <2>1. PICK rx \in Frame \cup {NoFrame} : RadioTick(rx)
    BY NextIsTick
  <2>2. rx # NoFrame
    BY <2>1 DEF RadioTick, Decoded, radio_armed, WatchdogInv
  <2> QED BY <2>1, <2>2 DEF RadioTick
<1> QED BY <1>1, WatchdogInvariant, PTL DEF Spec, ArmOnlyOnFrame

\* A nonzero height target needs the stick zeroed in this arm episode.
THEOREM HeightLatched == Spec => []HeightNeedsZeroing
<1>1. Init => HeightInv
  BY DEF Init, HeightInv
<1>2. HeightInv /\ [Next]_vars => HeightInv'
  <2> SUFFICES ASSUME HeightInv, [Next]_vars PROVE HeightInv'
    OBVIOUS
  <2>1. CASE UNCHANGED vars
    BY <2>1 DEF HeightInv, vars
  <2>2. CASE Next
    <3>1. PICK rx \in Frame \cup {NoFrame} : RadioTick(rx)
      BY <2>2, NextIsTick
    <3>2. zeroed' => g_armed'
      BY <3>1 DEF RadioTick
    <3>3. ~height_hold_active' => zeroed'
      BY <3>1 DEF RadioTick, HoldNext, HeightInv
    <3>4. height_hold_active' => g_input'.height = 0
      BY <3>1 DEF RadioTick, Inputs
    <3> QED BY <3>2, <3>3, <3>4 DEF HeightInv
  <2> QED BY <2>1, <2>2
<1>3. HeightInv => HeightNeedsZeroing
  BY DEF HeightInv, HeightNeedsZeroing
<1> QED BY <1>1, <1>2, <1>3, PTL DEF Spec
=============================================================================
