------------------------------- MODULE Lanes -------------------------------
(***************************************************************************)
(* StateManager's three EKF lanes, as StateEstThread drives them: which    *)
(* lane predicts, which one is primary, what is blended and what is fused. *)
(* The filter's arithmetic is abstracted to what decides those questions:  *)
(* a lane is its smoothed innovation norm.  Every other effect of          *)
(* predict(), update_gravity() and _update() is on x and P only.           *)
(***************************************************************************)
EXTENDS Naturals, SequencesExt

CONSTANTS MaxNorm,        \* innovation norms are 0..MaxNorm
          IMX5            \* whether the IMX5 is connected

NormAssumption == MaxNorm \in Nat \ {0} /\ IMX5 \in BOOLEAN

Lane == 0..2
Leg  == {1, 2}            \* left: hips 3 and 1, wheel 5; right: hips 4 and 2, wheel 6
Norm == 0..MaxNorm

VARIABLES
  g_imu,                  \* the IMUs whose sample is valid
  pc,                     \* "snap", "update", "legs" or "publish"
  imu_snap,               \* the snapshot of g_imu
  norm,                   \* lane -> _innov_norm
  primary,                \* _primary
  leg_ok,                 \* legs whose FK is valid this tick
  wheel_ok,               \* wheels with valid feedback this tick
  fused,                  \* the velocity measurement given to the lanes
  g_state                 \* [lane, legs]: the lane and the legs published

vars == <<g_imu, pc, imu_snap, norm, primary, leg_ok, wheel_ok, fused, g_state>>

-----------------------------------------------------------------------------
\* SPIThread: a successful read makes a sample valid, for good.
SpiRead(i) ==
  /\ g_imu' = g_imu \cup {i}
  /\ UNCHANGED <<pc, imu_snap, norm, primary, leg_ok, wheel_ok, fused, g_state>>

Snapshot ==
  /\ pc = "snap" /\ pc' = "update"
  /\ imu_snap' = g_imu
  /\ UNCHANGED <<g_imu, norm, primary, leg_ok, wheel_ok, fused, g_state>>

-----------------------------------------------------------------------------
(* StateManager::update *)

\* EKF::update_quaternion: the norm moves from where it is towards the new
\* innovation, whatever that is.
Smoothed(n) == {m \in Norm : \E imag \in Norm : (n <= m /\ m <= imag) \/ (imag <= m /\ m <= n)}

Better(best, i) == IF norm'[i] < best.score THEN [lane |-> i, score |-> norm'[i]] ELSE best

\* _select_primary: the loop over the lanes, from the primary there is and a
\* score no lane has.  Every lane is_valid() since StateManager::init.
select_primary ==
  FoldLeft(Better, [lane |-> primary, score |-> MaxNorm + 1], <<0, 1, 2>>).lane

Update(new_quat) ==
  /\ new_quat => IMX5
  /\ pc = "update" /\ pc' = "legs"
  /\ norm' \in IF new_quat THEN {n \in [Lane -> Norm] : \A i \in Lane : n[i] \in Smoothed(norm[i])}
               ELSE {norm}
  /\ primary' = select_primary
  /\ UNCHANGED <<g_imu, imu_snap, leg_ok, wheel_ok, fused, g_state>>

\* The lanes that predict and whose rates and accelerations enter the blends,
\* whatever their weights: those whose IMU has a valid sample.
Driven == imu_snap

-----------------------------------------------------------------------------
(* StateManager::update_legs_and_wheels *)

\* A leg's FK needs valid hips and a reachable pose.
LegsOf(hips, reachable) ==
  {leg \in Leg : (IF leg = 1 THEN {1, 3} ELSE {2, 4}) \subseteq hips /\ leg \in reachable}

\* Mutant: the fallback is for robots without any valid leg.
Fusion_NoLegsOnly(legs, wheels) ==
  IF legs \cap wheels # {} THEN "leg_wheel"
  ELSE IF legs = {} /\ wheels # {} THEN "wheel" ELSE "none"

\* The legs with a wheel give u and w; failing that the wheels alone give u.
Fusion(legs, wheels) ==
  IF legs \cap wheels # {} THEN "leg_wheel"
  ELSE IF wheels # {} THEN "wheel" ELSE "none"

UpdateLegs(hips, reachable, wheels) ==
  /\ pc = "legs" /\ pc' = "publish"
  /\ leg_ok' = LegsOf(hips, reachable) /\ wheel_ok' = wheels
  /\ fused' = Fusion(LegsOf(hips, reachable), wheels)
  /\ UNCHANGED <<g_imu, imu_snap, norm, primary, g_state>>

\* get_state under state_mtx (the averages over the valid legs, zeros if there
\* are none), then telemetry_update.
Publish ==
  /\ pc = "publish" /\ pc' = "snap"
  /\ g_state' = [lane |-> primary, legs |-> leg_ok]
  /\ UNCHANGED <<g_imu, imu_snap, norm, primary, leg_ok, wheel_ok, fused>>

-----------------------------------------------------------------------------
Init ==
  /\ g_imu = {} /\ pc = "snap" /\ imu_snap = {}
  /\ norm = [i \in Lane |-> 0] /\ primary = 0
  /\ leg_ok = {} /\ wheel_ok = {} /\ fused = "none"
  /\ g_state = [lane |-> 0, legs |-> {}]

Next ==
  \/ \E i \in Lane : SpiRead(i)
  \/ Snapshot
  \/ \E new_quat \in BOOLEAN : Update(new_quat)
  \/ \E hips \in SUBSET (1..4), reachable \in SUBSET Leg, wheels \in SUBSET Leg :
       UpdateLegs(hips, reachable, wheels)
  \/ Publish

Spec == Init /\ [][Next]_vars

-----------------------------------------------------------------------------
(***************************************************************************)
(* Velocity fusion is never lost while a wheel reports, whichever legs,    *)
(* hips and wheels are missing ("Graceful degradation").                   *)
(***************************************************************************)
VelocityNotLost == pc = "publish" => (fused = "none" <=> wheel_ok = {})

(***************************************************************************)
(* EKF.hpp: "the filter runs from onboard IMUs alone when the IMX5 is      *)
(* disconnected": if some IMU works, the published lane is driven by one.  *)
(***************************************************************************)
PrimaryIsDriven == pc = "publish" /\ Driven # {} => primary \in Driven
=============================================================================
