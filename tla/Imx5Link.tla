------------------------------ MODULE Imx5Link ------------------------------
(***************************************************************************)
(* How the IMX5's measurements reach the estimator: imx5_can_cb of         *)
(* coms/CAN.cpp stores its four frames into g_can_imu, StateEstThread      *)
(* takes a snapshot, clears the has_new flags and, when nothing new came   *)
(* for CAN_TIMEOUT_TICKS ticks, declares the IMU invalid in a second       *)
(* critical section.  CANThread may store a frame between the two.         *)
(***************************************************************************)
EXTENDS Naturals

CONSTANTS
  CAN_TIMEOUT_TICKS,
  MaxQuiet,          \* ticks between two quaternions of a connected IMU
  Ids                \* quaternions are numbered 0..Ids-1, over and over

TicksAssumption ==
  /\ CAN_TIMEOUT_TICKS \in Nat /\ MaxQuiet \in Nat /\ Ids \in Nat
  /\ MaxQuiet < CAN_TIMEOUT_TICKS /\ Ids > 2

VARIABLES
  link,              \* the IMX5 is connected
  frame,             \* the frame it sends next, 1..4
  quat,              \* the quaternion it sends next
  g_can_imu,         \* [quat, has_new_quat, has_new_rates, valid]
  pc,                \* StateEstThread: "snap", "clear" or "update"
  can_snap, can_stale_ticks,
  uses,              \* history: how often each quaternion was fused
  since,             \* history: ticks since a flagged frame came
  quiet              \* ticks since a quaternion came, while connected

evars == <<pc, can_snap, can_stale_ticks>>
vars  == <<link, frame, quat, g_can_imu, evars, uses, since, quiet>>

Up(n, max) == IF n < max THEN n + 1 ELSE max

-----------------------------------------------------------------------------
(* CANThread *)

\* Mutant: a frame does not make the IMU valid again.
Stored_KeepsInvalid ==
  CASE frame = 1 -> [g_can_imu EXCEPT !.quat = quat, !.has_new_quat = TRUE]
    [] frame = 2 -> [g_can_imu EXCEPT !.has_new_rates = TRUE]
    [] frame \in {3, 4} -> g_can_imu

\* 0x01 carries the quaternion, 0x02..0x04 a rate and an acceleration each.
\* Only 0x01 and 0x02 touch the flags.
Stored ==
  CASE frame = 1 -> [g_can_imu EXCEPT !.quat = quat, !.has_new_quat = TRUE, !.valid = TRUE]
    [] frame = 2 -> [g_can_imu EXCEPT !.has_new_rates = TRUE, !.valid = TRUE]
    [] frame \in {3, 4} -> g_can_imu

\* Quaternions come 5 ms apart: Ids of them never within one estimator pass.
imx5_can_cb ==
  /\ link
  /\ frame = 1 => pc = "snap" \/ quat # can_snap.quat
  /\ g_can_imu' = Stored
  /\ frame' = IF frame = 4 THEN 1 ELSE frame + 1
  /\ quat' = IF frame = 1 THEN (quat + 1) % Ids ELSE quat
  /\ uses' = IF frame = 1 THEN [uses EXCEPT ![quat] = 0] ELSE uses
  /\ since' = IF frame \in {1, 2} THEN 0 ELSE since
  /\ quiet' = IF frame = 1 THEN 0 ELSE quiet
  /\ UNCHANGED <<link, evars>>

Connect == link' = ~link /\ quiet' = 0
           /\ UNCHANGED <<frame, quat, g_can_imu, evars, uses, since>>

-----------------------------------------------------------------------------
(* StateEstThread *)

HasNew(c) == c.has_new_quat \/ c.has_new_rates

\* Mutant: the flags are left set.
Taken_FlagsLeft == g_can_imu

Taken == [g_can_imu EXCEPT !.has_new_quat = FALSE, !.has_new_rates = FALSE]

\* A connected IMX5 sends 200 quaternions a second: one every third tick.
Snapshot ==
  /\ pc = "snap"
  /\ link => quiet < MaxQuiet
  /\ quiet' = IF link THEN quiet + 1 ELSE 0
  /\ since' = Up(since, CAN_TIMEOUT_TICKS + 2)
  /\ can_snap' = g_can_imu
  /\ g_can_imu' = Taken
  /\ can_stale_ticks' = IF HasNew(g_can_imu) THEN 0 ELSE Up(can_stale_ticks, CAN_TIMEOUT_TICKS + 1)
  /\ pc' = IF can_stale_ticks' > CAN_TIMEOUT_TICKS THEN "clear" ELSE "update"
  /\ UNCHANGED <<link, frame, quat, uses>>

ClearStale ==
  /\ pc = "clear"
  /\ g_can_imu' = [g_can_imu EXCEPT !.valid = FALSE]
  /\ can_snap' = [can_snap EXCEPT !.valid = FALSE]
  /\ pc' = "update"
  /\ UNCHANGED <<link, frame, quat, can_stale_ticks, uses, since, quiet>>

\* StateManager::update's condition for the quaternion of all lanes.
Fuses == can_snap.valid /\ can_snap.has_new_quat

Update ==
  /\ pc = "update" /\ pc' = "snap"
  /\ uses' = IF Fuses THEN [uses EXCEPT ![can_snap.quat] = Up(@, 2)] ELSE uses
  /\ UNCHANGED <<link, frame, quat, g_can_imu, can_snap, can_stale_ticks, since, quiet>>

-----------------------------------------------------------------------------
Silent == [quat |-> 0, has_new_quat |-> FALSE, has_new_rates |-> FALSE, valid |-> FALSE]

Init ==
  /\ link \in BOOLEAN /\ frame = 1 /\ quat = 0
  /\ g_can_imu = Silent /\ can_snap = Silent
  /\ pc = "snap" /\ can_stale_ticks = 0
  /\ uses = [i \in 0..Ids-1 |-> 0] /\ since = CAN_TIMEOUT_TICKS + 2 /\ quiet = 0

Next == imx5_can_cb \/ Connect \/ Snapshot \/ ClearStale \/ Update

\* StateEstThread is periodic, a connected IMX5 sends all the time.
Fairness == WF_vars(Snapshot \/ ClearStale \/ Update) /\ WF_vars(imx5_can_cb)

Spec == Init /\ [][Next]_vars /\ Fairness

-----------------------------------------------------------------------------
(***************************************************************************)
(* No quaternion is fused twice, though it stays in g_can_imu after it was *)
(* used, and what the estimator takes as valid came within the timeout: a  *)
(* disconnected IMX5 is not blended into the rates for ever.               *)
(***************************************************************************)
FusesFreshOnce ==
  /\ \A i \in 0..Ids-1 : uses[i] <= 1
  /\ pc = "update" /\ can_snap.valid => since <= CAN_TIMEOUT_TICKS + 1

(***************************************************************************)
(* After a reconnection fusion resumes, though the frame that ends an      *)
(* outage can be stored just before the flag is cleared over it.           *)
(***************************************************************************)
FusionResumes == <>[]link => []<>(pc = "update" /\ Fuses)
=============================================================================
