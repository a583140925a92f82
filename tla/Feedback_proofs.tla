-------------------------- MODULE Feedback_proofs --------------------------
(***************************************************************************)
(* What reaches the control loop, for any timeouts, FIFO depths, frame     *)
(* sets and leg lengths.                                                   *)
(***************************************************************************)
EXTENDS Feedback, Sequences, FiniteSetTheorems, SequenceTheorems, TLAPS

fvars == <<part, vars, cvars, dvars, xvars, ivars, hvars, lvars>>

-----------------------------------------------------------------------------
(* The IMX5's quaternions *)

CanImu == [quat : 0 .. Ids - 1, has_new_quat : BOOLEAN, has_new_rates : BOOLEAN, valid : BOOLEAN]

Imx5Type ==
  /\ imx_frame \in 1 .. 4 /\ quat \in 0 .. Ids - 1
  /\ g_can_imu \in CanImu /\ can_snap \in CanImu
  /\ e_pc \in {"snap", "clear", "update"}
  /\ can_stale_ticks \in 0 .. CAN_TIMEOUT_TICKS + 1
  /\ uses \in [0 .. Ids - 1 -> Nat]
  /\ since \in 0 .. CAN_TIMEOUT_TICKS + 2

\* A quaternion that is still to be fused has not been: neither the one in
\* g_can_imu nor the one in the snapshot, which are not the same.
FreshUnused ==
  /\ \A i \in 0 .. Ids - 1 : uses[i] <= 1
  /\ g_can_imu.has_new_quat => uses[g_can_imu.quat] = 0
  /\ e_pc # "snap" /\ can_snap.has_new_quat =>
       /\ uses[can_snap.quat] = 0
       /\ g_can_imu.has_new_quat => g_can_imu.quat # can_snap.quat

\* What is valid came within can_stale_ticks + 1 ticks, and when the count is
\* at its end only a frame not yet seen is valid.
ValidIsRecent ==
  /\ Imx5!HasNew(g_can_imu) => since = 0
  /\ g_can_imu.valid => since <= can_stale_ticks + 1
  /\ can_stale_ticks > CAN_TIMEOUT_TICKS /\ e_pc # "clear" /\ g_can_imu.valid => Imx5!HasNew(g_can_imu)
  /\ e_pc = "update" /\ can_snap.valid => since <= CAN_TIMEOUT_TICKS + 1

Imx5Inv == Imx5Type /\ FreshUnused /\ ValidIsRecent

\* The time-out is a number of ticks, and there are quaternions enough to tell them apart.
LEMMA Imx5Constants ==
  CAN_TIMEOUT_TICKS \in Nat /\ Ids \in Nat /\ Ids > 2
  BY Imx5Assumption DEF Imx5!TicksAssumption

\* At start nothing has been received.
LEMMA Imx5Init == Imx5!Init => Imx5Inv
  BY Imx5Constants
  DEF Imx5!Init, Imx5Inv, Imx5Type, CanImu, Imx5!Silent, FreshUnused, ValidIsRecent, Imx5!HasNew

\* CANThread stores a frame, in whatever step the estimator is.
LEMMA StoredStep ==
  ASSUME Imx5Inv, Imx5!imx5_can_cb
  PROVE  Imx5Inv'
<1> USE Imx5Constants DEF Imx5Inv
<1>1. CASE imx_frame = 1
  <2>1. /\ g_can_imu' = [g_can_imu EXCEPT !.quat = quat, !.has_new_quat = TRUE, !.valid = TRUE]
        /\ imx_frame' = 2 /\ quat' = (quat + 1) % Ids /\ uses' = [uses EXCEPT ![quat] = 0]
        /\ since' = 0 /\ UNCHANGED <<e_pc, can_snap, can_stale_ticks>>
        /\ e_pc = "snap" \/ quat # can_snap.quat
    BY <1>1 DEF Imx5!imx5_can_cb, Imx5!Stored, Imx5!evars
  <2>2. /\ g_can_imu' \in CanImu /\ g_can_imu'.quat = quat
        /\ g_can_imu'.has_new_quat = TRUE /\ g_can_imu'.valid = TRUE
    BY <2>1 DEF Imx5Type, CanImu
  <2>3. Imx5Type'
    BY <2>1, <2>2 DEF Imx5Type
  <2>4. FreshUnused'
    <3>1. /\ uses'[quat] = 0 /\ \A i \in 0 .. Ids - 1 : i # quat => uses'[i] = uses[i]
          /\ can_snap.quat \in 0 .. Ids - 1
      BY <2>1 DEF Imx5Type, CanImu
    <3> QED
      BY <2>1, <2>2, <3>1 DEF FreshUnused
  <2>5. ValidIsRecent'
    BY <2>1, <2>2 DEF ValidIsRecent, Imx5Type, Imx5!HasNew
  <2> QED
    BY <2>3, <2>4, <2>5
<1>2. CASE imx_frame = 2
  <2>1. /\ g_can_imu' = [g_can_imu EXCEPT !.has_new_rates = TRUE, !.valid = TRUE]
        /\ imx_frame' = 3 /\ since' = 0 /\ UNCHANGED <<quat, uses, e_pc, can_snap, can_stale_ticks>>
    BY <1>2 DEF Imx5!imx5_can_cb, Imx5!Stored, Imx5!evars
  <2>2. /\ g_can_imu' \in CanImu /\ g_can_imu'.quat = g_can_imu.quat
        /\ g_can_imu'.has_new_quat = g_can_imu.has_new_quat
        /\ g_can_imu'.has_new_rates = TRUE /\ g_can_imu'.valid = TRUE
    BY <2>1 DEF Imx5Type, CanImu
  <2>3. Imx5Type'
    BY <2>1, <2>2 DEF Imx5Type
  <2>4. FreshUnused'
    BY <2>1, <2>2 DEF FreshUnused
  <2>5. ValidIsRecent'
    BY <2>1, <2>2 DEF ValidIsRecent, Imx5Type, Imx5!HasNew
  <2> QED
    BY <2>3, <2>4, <2>5
<1>3. CASE imx_frame \in {3, 4}
  <2>1. /\ imx_frame' \in 1 .. 4
        /\ UNCHANGED <<g_can_imu, since, quat, uses, e_pc, can_snap, can_stale_ticks>>
    BY <1>3 DEF Imx5!imx5_can_cb, Imx5!Stored, Imx5!evars
  <2> QED
    BY <2>1 DEF Imx5Type, FreshUnused, ValidIsRecent, Imx5!HasNew
<1> QED
  BY <1>1, <1>2, <1>3 DEF Imx5Type

\* StateEstThread copies the shared record under the lock.
LEMMA SnapshotStep ==
  ASSUME Imx5Inv, Imx5!Snapshot
  PROVE  Imx5Inv'
<1> USE Imx5Constants DEF Imx5Inv
<1>1. /\ e_pc = "snap" /\ can_snap' = g_can_imu
      /\ since' = IF since < CAN_TIMEOUT_TICKS + 2 THEN since + 1 ELSE CAN_TIMEOUT_TICKS + 2
      /\ e_pc' = IF can_stale_ticks' > CAN_TIMEOUT_TICKS THEN "clear" ELSE "update"
      /\ UNCHANGED <<imx_frame, quat, uses>>
  BY DEF Imx5!Snapshot, Imx5!Up
<1>2. /\ g_can_imu' \in CanImu /\ g_can_imu'.quat = g_can_imu.quat /\ g_can_imu'.valid = g_can_imu.valid
      /\ g_can_imu'.has_new_quat = FALSE /\ g_can_imu'.has_new_rates = FALSE
  BY DEF Imx5!Snapshot, Imx5!Taken, Imx5Type, CanImu
<1>3. CASE Imx5!HasNew(g_can_imu)
  <2>1. can_stale_ticks' = 0 /\ since' = 1
    BY <1>1, <1>3 DEF Imx5!Snapshot, ValidIsRecent, Imx5Type
  <2>2. Imx5Type'
    BY <1>1, <1>2, <2>1 DEF Imx5Type
  <2>3. FreshUnused'
    BY <1>1, <1>2 DEF FreshUnused
  <2>4. ValidIsRecent'
    BY <1>1, <1>2, <2>1 DEF ValidIsRecent, Imx5!HasNew, Imx5Type
  <2> QED
    BY <2>2, <2>3, <2>4
<1>4. CASE ~Imx5!HasNew(g_can_imu)
  <2>1. can_stale_ticks' = IF can_stale_ticks < CAN_TIMEOUT_TICKS + 1 THEN can_stale_ticks + 1
                           ELSE CAN_TIMEOUT_TICKS + 1
    BY <1>4 DEF Imx5!Snapshot, Imx5!Up
  <2>2. Imx5Type'
    BY <1>1, <1>2, <2>1 DEF Imx5Type
  <2>3. FreshUnused'
    BY <1>1, <1>2 DEF FreshUnused
  <2>4. ValidIsRecent'
    <3>1. g_can_imu.valid => can_stale_ticks <= CAN_TIMEOUT_TICKS /\ since <= can_stale_ticks + 1
      BY <1>1, <1>4 DEF ValidIsRecent, Imx5Type
    <3>2. g_can_imu.valid => since' <= can_stale_ticks' + 1
      BY <1>1, <2>1, <3>1 DEF Imx5Type
    <3>3. g_can_imu.valid /\ can_stale_ticks' > CAN_TIMEOUT_TICKS => e_pc' = "clear"
      BY <1>1
    <3>4. e_pc' = "update" /\ can_snap'.valid => since' <= CAN_TIMEOUT_TICKS + 1
      <4>1. g_can_imu.valid /\ can_stale_ticks' <= CAN_TIMEOUT_TICKS => since' <= CAN_TIMEOUT_TICKS + 1
        BY <1>1, <2>1, <3>1 DEF Imx5Type
      <4>2. e_pc' = "update" => can_stale_ticks' <= CAN_TIMEOUT_TICKS
        BY <1>1, <2>2 DEF Imx5Type
      <4> QED
        BY <1>1, <4>1, <4>2
    <3> QED
      BY <1>2, <3>2, <3>3, <3>4 DEF ValidIsRecent, Imx5!HasNew
  <2> QED
    BY <2>2, <2>3, <2>4
<1> QED
  BY <1>3, <1>4

\* After the time-out the record and the copy are marked invalid.
LEMMA ClearStaleStep ==
  ASSUME Imx5Inv, Imx5!ClearStale
  PROVE  Imx5Inv'
<1> USE Imx5Constants DEF Imx5Inv
<1>1. /\ e_pc = "clear" /\ e_pc' = "update"
      /\ UNCHANGED <<imx_frame, quat, can_stale_ticks, uses, since>>
  BY DEF Imx5!ClearStale
<1>2. /\ g_can_imu' \in CanImu /\ g_can_imu'.quat = g_can_imu.quat /\ g_can_imu'.valid = FALSE
      /\ g_can_imu'.has_new_quat = g_can_imu.has_new_quat
      /\ g_can_imu'.has_new_rates = g_can_imu.has_new_rates
  BY DEF Imx5!ClearStale, Imx5Type, CanImu
<1>3. /\ can_snap' \in CanImu /\ can_snap'.quat = can_snap.quat /\ can_snap'.valid = FALSE
      /\ can_snap'.has_new_quat = can_snap.has_new_quat
  BY DEF Imx5!ClearStale, Imx5Type, CanImu
<1>4. Imx5Type'
  BY <1>1, <1>2, <1>3 DEF Imx5Type
<1>5. FreshUnused'
  BY <1>1, <1>2, <1>3 DEF FreshUnused
<1>6. ValidIsRecent'
  BY <1>1, <1>2, <1>3 DEF ValidIsRecent, Imx5!HasNew
<1> QED
  BY <1>4, <1>5, <1>6

\* The filter uses the copy.
LEMMA UpdateStep ==
  ASSUME Imx5Inv, Imx5!Update
  PROVE  Imx5Inv'
<1> USE Imx5Constants DEF Imx5Inv
<1>1. /\ e_pc = "update" /\ e_pc' = "snap"
      /\ UNCHANGED <<imx_frame, quat, g_can_imu, can_snap, can_stale_ticks, since>>
  BY DEF Imx5!Update
<1>2. ValidIsRecent'
  BY <1>1 DEF ValidIsRecent, Imx5!HasNew
<1>3. CASE ~Imx5!Fuses
  BY <1>1, <1>2, <1>3 DEF Imx5!Update, Imx5Type, FreshUnused
<1>4. CASE Imx5!Fuses
  <2>1. can_snap.has_new_quat /\ uses[can_snap.quat] = 0 /\ can_snap.quat \in 0 .. Ids - 1
    BY <1>1, <1>4 DEF Imx5!Fuses, FreshUnused, Imx5Type, CanImu
  <2>2. uses' = [uses EXCEPT ![can_snap.quat] = 1]
    BY <1>4, <2>1 DEF Imx5!Update, Imx5!Up, Imx5Type
  <2>3. Imx5Type'
    BY <1>1, <2>1, <2>2 DEF Imx5Type
  <2>4. FreshUnused'
    BY <1>1, <2>1, <2>2 DEF FreshUnused, Imx5Type, CanImu
  <2> QED
    BY <1>2, <2>3, <2>4
<1> QED
  BY <1>3, <1>4

\* Every step of the link and of the estimator keeps its invariant.
LEMMA Imx5Next == Imx5Inv /\ [Imx5!Next]_xvars => Imx5Inv'
<1> SUFFICES ASSUME Imx5Inv, [Imx5!Next]_xvars PROVE Imx5Inv'
  OBVIOUS
<1>1. CASE Imx5!Connect
  BY <1>1 DEF Imx5!Connect, Imx5!evars, Imx5Inv, Imx5Type, FreshUnused, ValidIsRecent
<1>2. CASE UNCHANGED xvars
  BY <1>2 DEF xvars, Imx5Inv, Imx5Type, FreshUnused, ValidIsRecent
<1> QED
  BY <1>1, <1>2, StoredStep, SnapshotStep, ClearStaleStep, UpdateStep DEF Imx5!Next

(***************************************************************************)
(* StateEstThread and imx5_can_cb, for any timeout: no quaternion is fused *)
(* twice, and none after the IMX5 has been silent for the timeout.         *)
(***************************************************************************)
THEOREM QuaternionsFresh == FeedbackSpec => []FusesFreshOnce
<1>1. FeedbackInit => Imx5Inv
  BY Imx5Init DEF FeedbackInit
<1>2. [FeedbackNext]_fvars => [Imx5!Next]_xvars
  BY DEF FeedbackNext, SbusStep, CanStep, DispatchStep, Imx5Step, ImuStep, HipStep, LegStep, fvars
<1>3. Imx5Inv /\ [FeedbackNext]_fvars => Imx5Inv'
  BY <1>2, Imx5Next
<1>4. Imx5Inv => FusesFreshOnce
  BY DEF Imx5Inv, FreshUnused, ValidIsRecent, FusesFreshOnce, Imx5!FusesFreshOnce
<1> QED
  BY <1>1, <1>3, <1>4, PTL DEF FeedbackSpec, fvars

-----------------------------------------------------------------------------
(* The SPI IMUs' FIFO *)

\* From the flush on, the FIFO holds samples of this boot; before it, nothing
\* is published.
ImuInv ==
  /\ fifo \in Seq(Nat) /\ boot \in Nat
  /\ spi_pc = "enable" => fifo = <<>> /\ ~fifo_mode
  /\ spi_pc = "flush" => ~fifo_mode
  /\ spi_pc \in {"enable", "ready", "run"} => \A i \in 1 .. Len(fifo) : fifo[i] = boot
  /\ g_imu \in {boot, Imu!NoSample}

\* Every step of the driver and of the device keeps its invariant.
LEMMA ImuNext == ImuInv /\ [Imu!Next]_ivars => ImuInv'
<1> SUFFICES ASSUME ImuInv, [Imu!Next]_ivars PROVE ImuInv'
  OBVIOUS
<1> USE DEF ImuInv, Imu!sensor, Imu!sched
<1>1. CASE Imu!Unit
  <2>1. UNCHANGED <<fifo_mode, spi_pc, boot, g_imu>>
    BY <1>1 DEF Imu!Unit
  <2>2. CASE fifo' = fifo
    BY <2>1, <2>2 DEF Imu!NoSample
  <2>3. CASE fifo_mode /\ fifo' = Append(fifo, boot)
    BY <2>1, <2>3 DEF Imu!NoSample
  <2> QED
    BY <1>1, <2>2, <2>3 DEF Imu!Unit
<1>2. CASE Imu!InitAbsent
  BY <1>2 DEF Imu!InitAbsent, Imu!NoSample
<1>3. CASE Imu!InitDisable
  BY <1>3 DEF Imu!InitDisable, Imu!NoSample
<1>4. CASE Imu!InitFlush
  BY <1>4 DEF Imu!InitFlush, Imu!NoSample
<1>5. CASE Imu!InitEnable
  BY <1>5 DEF Imu!InitEnable, Imu!NoSample
<1>6. CASE Imu!FirstPass
  BY <1>6 DEF Imu!FirstPass, Imu!NoSample
<1>7. CASE Imu!Reset
  BY <1>7 DEF Imu!Reset, Imu!NoSample
<1>8. ASSUME NEW header \in BOOLEAN, Imu!Read(header)
      PROVE  ImuInv'
  <2>1. spi_pc = "run" /\ UNCHANGED <<fifo_mode, spi_pc, boot>>
    BY <1>8 DEF Imu!Read
  <2>2. CASE ~Imu!Ready
    BY <1>8, <2>1, <2>2 DEF Imu!Read, Imu!NoSample
  <2>3. CASE Imu!Ready
    <3>1. /\ fifo # <<>> /\ Head(fifo) = boot
          /\ fifo' = Tail(fifo) /\ g_imu' \in {Head(fifo), g_imu}
      BY <1>8, <2>1, <2>3 DEF Imu!Read, Imu!Ready
    <3>2. fifo' \in Seq(Nat) /\ \A i \in 1 .. Len(fifo') : fifo'[i] = boot
      BY <2>1, <3>1
    <3> QED
      BY <2>1, <3>1, <3>2 DEF Imu!NoSample
  <2> QED
    BY <2>2, <2>3
<1>9. CASE UNCHANGED ivars
  BY <1>9 DEF ivars, Imu!NoSample
<1> QED
  BY <1>1, <1>2, <1>3, <1>4, <1>5, <1>6, <1>7, <1>8, <1>9 DEF Imu!Next

(***************************************************************************)
(* ICM45686::init, for any FIFO depth, sampling rate and number of resets: *)
(* no sample from before a reset of the controller is published after it.  *)
(***************************************************************************)
THEOREM SamplesOfThisBoot == FeedbackSpec => []NothingFromBefore
<1>1. FeedbackInit => ImuInv
  BY DEF FeedbackInit, Imu!Init, ImuInv
<1>2. [FeedbackNext]_fvars => [Imu!Next]_ivars
  BY DEF FeedbackNext, SbusStep, CanStep, DispatchStep, Imx5Step, ImuStep, HipStep, LegStep, fvars
<1>3. ImuInv /\ [FeedbackNext]_fvars => ImuInv'
  BY <1>2, ImuNext
<1>4. ImuInv => NothingFromBefore
  BY DEF ImuInv, NothingFromBefore, Imu!NothingFromBefore
<1> QED
  BY <1>1, <1>3, <1>4, PTL DEF FeedbackSpec, fvars

-----------------------------------------------------------------------------
(* The leg length *)

LegsInv ==
  /\ leg \in Nat \ {0} /\ hold \in Nat
  /\ L_cmd \in [{"STANDING_UP", "BALANCING"} -> Nat]
  /\ stick \in -1 .. 1

\* The leg lengths, in order.
LEMMA LegConstants ==
  /\ {L_STAND, L_MIN, L_MAX, HEIGHT_RANGE, Longest} \subseteq Nat \ {0}
  /\ L_MIN <= L_STAND /\ L_STAND <= L_MAX
  BY LegsAssumption DEF Legs!LengthAssumption

\* A ramp goes one step at most, and stays among the naturals.
LEMMA RampStep ==
  ASSUME NEW from \in Nat, NEW to \in Nat
  PROVE  Legs!Ramp(from, to) \in Nat /\ Legs!Ramp(from, to) - from \in -1 .. 1
  BY DEF Legs!Ramp

\* What a controller commands on a tick, and from where its ramp started.
LEMMA TickCommands ==
  ASSUME LegsInv, Legs!ControlTick
  PROVE  /\ L_cmd' \in [{"STANDING_UP", "BALANCING"} -> Nat] /\ hold' \in Nat
         /\ mode' # mode /\ hold' # 0 /\ feedback => hold' - leg \in -1 .. 1
<1> DEFINE now  == Legs!NextMode(mode, armed, sw, Legs!is_standing)
           seed == Legs!Seeded(mode, now)
<1>1. mode' = now /\ hold' = IF now \in DOMAIN L_cmd THEN L_cmd'[now] ELSE 0
  BY DEF Legs!ControlTick
<1>2. L_cmd' = CASE now = "STANDING_UP" -> Legs!StandUp(seed)
                 [] now = "BALANCING"   -> Legs!Balance(seed)
                 [] OTHER               -> seed
  BY DEF Legs!ControlTick
<1> HIDE DEF now
<1>3. /\ seed \in [{"STANDING_UP", "BALANCING"} -> Nat]
      /\ now # mode /\ now \in {"STANDING_UP", "BALANCING"} /\ feedback => seed[now] = leg
  BY LegConstants DEF LegsInv, Legs!Seeded, Legs!LEG_L
<1>4. Legs!Target \in Nat /\ L_STAND \in Nat
  BY LegConstants DEF LegsInv, Legs!Target, Legs!Clamp
<1> HIDE DEF seed
<1>5. CASE now = "STANDING_UP"
  <2>1. L_cmd' = [seed EXCEPT !["STANDING_UP"] = Legs!Ramp(seed["STANDING_UP"], L_STAND)]
    BY <1>2, <1>5 DEF Legs!StandUp
  <2>2. /\ Legs!Ramp(seed["STANDING_UP"], L_STAND) \in Nat
        /\ Legs!Ramp(seed["STANDING_UP"], L_STAND) - seed["STANDING_UP"] \in -1 .. 1
    BY <1>3, <1>4, RampStep
  <2>3. L_cmd' \in [{"STANDING_UP", "BALANCING"} -> Nat]
    BY <1>3, <2>1, <2>2
  <2>4. hold' = Legs!Ramp(seed["STANDING_UP"], L_STAND)
    BY <1>1, <1>3, <1>5, <2>1 DEF LegsInv
  <2> QED
    BY <1>1, <1>3, <1>5, <2>2, <2>3, <2>4
<1>6. CASE now = "BALANCING"
  <2>1. L_cmd' = [seed EXCEPT !["BALANCING"] = Legs!Ramp(seed["BALANCING"], Legs!Target)]
    BY <1>2, <1>6 DEF Legs!Balance
  <2>2. /\ Legs!Ramp(seed["BALANCING"], Legs!Target) \in Nat
        /\ Legs!Ramp(seed["BALANCING"], Legs!Target) - seed["BALANCING"] \in -1 .. 1
    BY <1>3, <1>4, RampStep
  <2>3. L_cmd' \in [{"STANDING_UP", "BALANCING"} -> Nat]
    BY <1>3, <2>1, <2>2
  <2>4. hold' = Legs!Ramp(seed["BALANCING"], Legs!Target)
    BY <1>1, <1>3, <1>6, <2>1 DEF LegsInv
  <2> QED
    BY <1>1, <1>3, <1>6, <2>2, <2>3, <2>4
<1>7. CASE now \notin {"STANDING_UP", "BALANCING"}
  <2>1. L_cmd' = seed /\ hold' = 0
    BY <1>1, <1>2, <1>7 DEF LegsInv
  <2> QED
    BY <1>3, <2>1
<1> QED
  BY <1>5, <1>6, <1>7

\* Every step of the state machine keeps the ramped length within the legs.
LEMMA LegsNext == LegsInv /\ [Legs!Next]_lvars => LegsInv'
<1> SUFFICES ASSUME LegsInv, [Legs!Next]_lvars PROVE LegsInv'
  OBVIOUS
<1>1. CASE Legs!ControlTick
  BY <1>1, TickCommands DEF Legs!ControlTick, LegsInv
<1>2. CASE Legs!Operate
  BY <1>2 DEF Legs!Operate, LegsInv
<1>3. CASE Legs!Follow
  BY <1>3 DEF Legs!Follow, LegsInv
<1>4. CASE Legs!Sag
  BY <1>4, LegConstants DEF Legs!Sag, LegsInv
<1>5. CASE Legs!HipsReply \/ Legs!Tilt
  BY <1>5 DEF Legs!HipsReply, Legs!Tilt, LegsInv
<1>6. CASE UNCHANGED lvars
  BY <1>6 DEF lvars, LegsInv
<1> QED
  BY <1>1, <1>2, <1>3, <1>4, <1>5, <1>6 DEF Legs!Next

(***************************************************************************)
(* StandUpController and LqrBalanceController, for any leg lengths and     *)
(* limits: with a measured leg, the first length commanded in a mode is    *)
(* within one step of the ramp of it.                                      *)
(***************************************************************************)
THEOREM LegsDoNotJump == FeedbackSpec => NoJumpOnEntry
<1>1. FeedbackInit => LegsInv
  BY LegConstants DEF FeedbackInit, Legs!Init, LegsInv
<1>2. [FeedbackNext]_fvars => [Legs!Next]_lvars
  BY DEF FeedbackNext, SbusStep, CanStep, DispatchStep, Imx5Step, ImuStep, HipStep, LegStep, fvars
<1>3. LegsInv /\ [FeedbackNext]_fvars => LegsInv'
  BY <1>2, LegsNext
<1>4. LegsInv /\ [FeedbackNext]_fvars =>
        [mode' # mode /\ hold' # 0 /\ feedback => hold' - leg \in -1 .. 1]_lvars
  <2> SUFFICES ASSUME LegsInv, Legs!Next, mode' # mode
               PROVE  hold' # 0 /\ feedback => hold' - leg \in -1 .. 1
    BY <1>2 DEF lvars
  <2>1. Legs!ControlTick
    BY DEF Legs!Next, Legs!Operate, Legs!Follow, Legs!Sag, Legs!HipsReply, Legs!Tilt
  <2> QED
    BY <2>1, TickCommands
<1> QED
  BY <1>1, <1>3, <1>4, PTL DEF FeedbackSpec, fvars, NoJumpOnEntry, Legs!NoJumpOnEntry, Legs!vars, lvars

-----------------------------------------------------------------------------
(* The bus-1 id scanner *)

Heard == {f \in Frames : f.bus = 1}

\* A frame of bus 1 is its id and its format.
LEMMA SameFrame ==
  ASSUME NEW f \in Heard, NEW g \in Heard, f.id = g.id, f.ext = g.ext
  PROVE  f = g
  BY DispatchAssumption DEF Dispatch!FramesAssumption, Heard

\* The instance's own names of the library's cardinality.
LEMMA CardinalityIs == \A S : Dispatch!Cardinality(S) = Cardinality(S)
  BY DEF Dispatch!Cardinality, Cardinality, Dispatch!IsFiniteSet, IsFiniteSet

\* The sets whose sizes the table counts are finite.
LEMMA Counts ==
  ASSUME NEW s \in Seq(Heard)
  PROVE  /\ IsFiniteSet(Dispatch!Firsts(s)) /\ Cardinality(Dispatch!Firsts(s)) \in Nat
         /\ \A f : /\ IsFiniteSet({j \in DOMAIN s : s[j] = f})
                   /\ Cardinality({j \in DOMAIN s : s[j] = f}) \in Nat
         /\ \A i \in Dispatch!Firsts(s) :
              Dispatch!Rank(s, i) \in 1 .. Cardinality(Dispatch!Firsts(s))
<1>1. IsFiniteSet(DOMAIN s) /\ DOMAIN s = 1 .. Len(s)
  BY FS_Interval
<1>2. Dispatch!Firsts(s) \subseteq DOMAIN s
  BY DEF Dispatch!Firsts
<1>3. IsFiniteSet(Dispatch!Firsts(s)) /\ Cardinality(Dispatch!Firsts(s)) \in Nat
  BY <1>1, <1>2, FS_Subset, FS_CardinalityType
<1>4. ASSUME NEW f
      PROVE  /\ IsFiniteSet({j \in DOMAIN s : s[j] = f})
             /\ Cardinality({j \in DOMAIN s : s[j] = f}) \in Nat
  <2>1. {j \in DOMAIN s : s[j] = f} \subseteq DOMAIN s
    OBVIOUS
  <2> QED
    BY <1>1, <2>1, FS_Subset, FS_CardinalityType
<1>5. ASSUME NEW i \in Dispatch!Firsts(s)
      PROVE  Dispatch!Rank(s, i) \in 1 .. Cardinality(Dispatch!Firsts(s))
  <2> DEFINE R == {j \in Dispatch!Firsts(s) : j <= i}
  <2>1. R \subseteq Dispatch!Firsts(s) /\ i \in R
    BY <1>1, <1>2
  <2>2. IsFiniteSet(R) /\ Cardinality(R) <= Cardinality(Dispatch!Firsts(s)) /\ Cardinality(R) \in Nat
    BY <1>3, <2>1, FS_Subset, FS_CardinalityType
  <2>3. Cardinality(R) # 0
    BY <2>1, <2>2, FS_EmptySet
  <2>4. Dispatch!Rank(s, i) = Cardinality(R)
    BY CardinalityIs DEF Dispatch!Rank
  <2> HIDE DEF R
  <2> QED
    BY <1>3, <2>2, <2>3, <2>4
<1> QED
  BY <1>3, <1>4, <1>5

\* One frame more: the places of first frames that there were keep their ranks.
LEMMA FirstsAppend ==
  ASSUME NEW s \in Seq(Heard), NEW f \in Heard
  PROVE  /\ Dispatch!Firsts(Append(s, f)) =
              Dispatch!Firsts(s) \cup (IF \E j \in DOMAIN s : s[j] = f THEN {} ELSE {Len(s) + 1})
         /\ \A i \in Dispatch!Firsts(s) :
              /\ Append(s, f)[i] = s[i] /\ i \in 1 .. Len(s)
              /\ Dispatch!Rank(Append(s, f), i) = Dispatch!Rank(s, i)
<1> DEFINE t == Append(s, f)
<1>1. /\ t \in Seq(Heard) /\ DOMAIN t = 1 .. Len(s) + 1 /\ DOMAIN s = 1 .. Len(s)
      /\ Len(s) \in Nat /\ t[Len(s) + 1] = f /\ \A i \in 1 .. Len(s) : t[i] = s[i]
  OBVIOUS
<1> HIDE DEF t
<1>2. ASSUME NEW i \in 1 .. Len(s)
      PROVE  i \in Dispatch!Firsts(t) <=> i \in Dispatch!Firsts(s)
  BY <1>1 DEF Dispatch!Firsts
<1>3. Len(s) + 1 \in Dispatch!Firsts(t) <=> ~\E j \in DOMAIN s : s[j] = f
  BY <1>1 DEF Dispatch!Firsts
<1>4. Dispatch!Firsts(t) \subseteq 1 .. Len(s) + 1 /\ Dispatch!Firsts(s) \subseteq 1 .. Len(s)
  BY <1>1 DEF Dispatch!Firsts
<1>5. Dispatch!Firsts(t) =
        Dispatch!Firsts(s) \cup (IF \E j \in DOMAIN s : s[j] = f THEN {} ELSE {Len(s) + 1})
  BY <1>1, <1>2, <1>3, <1>4
<1>6. ASSUME NEW i \in Dispatch!Firsts(s)
      PROVE  Dispatch!Rank(t, i) = Dispatch!Rank(s, i)
  <2>1. {j \in Dispatch!Firsts(t) : j <= i} = {j \in Dispatch!Firsts(s) : j <= i}
    BY <1>1, <1>2, <1>4
  <2> QED
    BY <2>1 DEF Dispatch!Rank
<1> QED
  BY <1>1, <1>4, <1>5, <1>6 DEF t

\* What it does to the entries: the frame's own count grows by one.
LEMMA EntryAppend ==
  ASSUME NEW s \in Seq(Heard), NEW f \in Heard, NEW i \in 1 .. Len(s)
  PROVE  Dispatch!EntryOf(Append(s, f), i) =
           IF s[i] = f THEN [Dispatch!EntryOf(s, i) EXCEPT !.count = @ + 1]
           ELSE Dispatch!EntryOf(s, i)
<1> DEFINE t == Append(s, f)
           S == {j \in DOMAIN s : s[j] = s[i]}
           T == {j \in DOMAIN t : t[j] = t[i]}
<1>1. /\ DOMAIN t = 1 .. Len(s) + 1 /\ DOMAIN s = 1 .. Len(s)
      /\ Len(s) \in Nat /\ t[Len(s) + 1] = f /\ \A k \in 1 .. Len(s) : t[k] = s[k]
  OBVIOUS
<1>2. IsFiniteSet(S)
  BY Counts
<1>e. Dispatch!EntryOf(s, i) = [id |-> s[i].id, ext |-> s[i].ext, count |-> Cardinality(S)]
  BY CardinalityIs DEF Dispatch!EntryOf
<1>f. Dispatch!EntryOf(t, i) = [id |-> t[i].id, ext |-> t[i].ext, count |-> Cardinality(T)]
  BY CardinalityIs DEF Dispatch!EntryOf
<1> HIDE DEF t
<1>3. CASE s[i] = f
  <2>1. T = S \cup {Len(s) + 1} /\ Len(s) + 1 \notin S
    BY <1>1, <1>3
  <2>2. Cardinality(T) = Cardinality(S) + 1
    BY <1>2, <2>1, FS_AddElement
  <2> HIDE DEF S, T
  <2>3. t[i] = s[i]
    BY <1>1
  <2> QED
    BY <1>3, <1>e, <1>f, <2>2, <2>3 DEF t
<1>4. CASE s[i] # f
  <2>1. T = S
    BY <1>1, <1>4
  <2> QED
    BY <1>1, <1>4, <1>e, <1>f, <2>1 DEF t
<1> QED
  BY <1>3, <1>4

\* The table of a scan that has heard s: exact, and nothing else in it.
ScanOK(table, n, s) ==
  /\ s \in Seq(Heard)
  /\ table \in [1 .. CAN_SCAN_MAX -> [id : Nat, ext : BOOLEAN, count : Nat]]
  /\ n \in 0 .. CAN_SCAN_MAX
  /\ Dispatch!Tallies(table, n, s)
  /\ \A j \in DOMAIN s : \E i \in Dispatch!Firsts(s) : s[i] = s[j]
  /\ \A k \in 1 .. n : \E i \in Dispatch!Firsts(s) : Dispatch!Rank(s, i) = k

\* The entry of the table that Slot finds for f.
Has(table, k, f) == table[k].id = f.id /\ table[k].ext = f.ext

\* Tallies, with the library's cardinality.
LEMMA TalliesIs ==
  ASSUME NEW table, NEW n, NEW s
  PROVE  Dispatch!Tallies(table, n, s) <=>
           /\ n = IF Cardinality(Dispatch!Firsts(s)) < CAN_SCAN_MAX
                  THEN Cardinality(Dispatch!Firsts(s)) ELSE CAN_SCAN_MAX
           /\ \A i \in Dispatch!Firsts(s) :
                Dispatch!Rank(s, i) <= CAN_SCAN_MAX =>
                  table[Dispatch!Rank(s, i)] = Dispatch!EntryOf(s, i)
  BY CardinalityIs DEF Dispatch!Tallies

\* An entry that matches f is that of the first place of f.
LEMMA MatchIsFirst ==
  ASSUME NEW table, NEW n, NEW s, ScanOK(table, n, s), NEW f \in Heard,
         NEW k \in 1 .. n, Has(table, k, f)
  PROVE  \E i \in Dispatch!Firsts(s) : s[i] = f /\ Dispatch!Rank(s, i) = k
<1>1. PICK i \in Dispatch!Firsts(s) : Dispatch!Rank(s, i) = k
  BY DEF ScanOK
<1>2. table[k] = Dispatch!EntryOf(s, i)
  <2>1. k <= CAN_SCAN_MAX
    BY DispatchAssumption DEF ScanOK, Dispatch!SizesAssumption
  <2>2. \A h \in Dispatch!Firsts(s) :
          Dispatch!Rank(s, h) <= CAN_SCAN_MAX => table[Dispatch!Rank(s, h)] = Dispatch!EntryOf(s, h)
    BY TalliesIs DEF ScanOK
  <2> QED
    BY <1>1, <2>1, <2>2
<1>3. s[i].id = f.id /\ s[i].ext = f.ext
  BY <1>2 DEF Has, Dispatch!EntryOf
<1>4. s[i] \in Heard
  BY DEF ScanOK, Dispatch!Firsts
<1> QED
  BY <1>1, <1>3, <1>4, SameFrame

\* A frame has one first place, and two first places have two ranks in the table.
LEMMA FirstIsOne ==
  ASSUME NEW s \in Seq(Heard), NEW i \in Dispatch!Firsts(s), NEW j \in Dispatch!Firsts(s), s[i] = s[j]
  PROVE  i = j
<1>1. i \in 1 .. Len(s) /\ j \in 1 .. Len(s) /\ Len(s) \in Nat
  BY DEF Dispatch!Firsts
<1>2. ~(i < j) /\ ~(j < i)
  BY <1>1 DEF Dispatch!Firsts
<1> QED
  BY <1>1, <1>2

\* Two first occurrences of one rank are one.
LEMMA RankIsOne ==
  ASSUME NEW table, NEW n, NEW s, ScanOK(table, n, s),
         NEW i \in Dispatch!Firsts(s), NEW j \in Dispatch!Firsts(s),
         Dispatch!Rank(s, i) = Dispatch!Rank(s, j), Dispatch!Rank(s, i) <= CAN_SCAN_MAX
  PROVE  i = j
<1>1. Dispatch!EntryOf(s, i) = Dispatch!EntryOf(s, j)
  BY TalliesIs DEF ScanOK
<1>2. s[i].id = s[j].id /\ s[i].ext = s[j].ext
  BY <1>1 DEF Dispatch!EntryOf
<1>3. s \in Seq(Heard) /\ s[i] \in Heard /\ s[j] \in Heard
  BY DEF ScanOK, Dispatch!Firsts
<1> QED
  BY <1>2, <1>3, SameFrame, FirstIsOne

\* A frame not heard before takes the next entry, while there is one.
LEMMA NewFrame ==
  ASSUME NEW table, NEW n, NEW s, ScanOK(table, n, s), NEW f \in Heard,
         \A j \in DOMAIN s : s[j] # f
  PROVE  /\ n < CAN_SCAN_MAX =>
              \A u : u = [table EXCEPT ![n + 1] = [id |-> f.id, ext |-> f.ext, count |-> 1]] =>
                      ScanOK(u, n + 1, Append(s, f))
         /\ n = CAN_SCAN_MAX => ScanOK(table, n, Append(s, f))
<1> DEFINE t == Append(s, f)
           F == Dispatch!Firsts(s)
           c == Cardinality(F)
           l == Len(s) + 1
           e == [id |-> f.id, ext |-> f.ext, count |-> 1]
<1>1. /\ s \in Seq(Heard) /\ t \in Seq(Heard) /\ Len(s) \in Nat
      /\ DOMAIN t = 1 .. l /\ DOMAIN s = 1 .. Len(s)
      /\ t[l] = f /\ \A i \in 1 .. Len(s) : t[i] = s[i]
  BY DEF ScanOK
<1>2. /\ Dispatch!Firsts(t) = F \cup {l}
      /\ \A i \in F : i \in 1 .. Len(s) /\ Dispatch!Rank(t, i) = Dispatch!Rank(s, i)
  BY <1>1, FirstsAppend
<1>3. /\ IsFiniteSet(F) /\ c \in Nat
      /\ \A i \in F : Dispatch!Rank(s, i) \in 1 .. c
  BY <1>1, Counts
<1>4. Cardinality(Dispatch!Firsts(t)) = c + 1
  <2>1. l \notin F
    BY <1>1, <1>2
  <2> HIDE DEF F, l
  <2>2. Cardinality(F \cup {l}) = Cardinality(F) + 1
    BY <1>3, <2>1, FS_AddElement
  <2> QED
    BY <1>2, <2>2
<1>5. Dispatch!Rank(t, l) = c + 1
  <2>1. {j \in Dispatch!Firsts(t) : j <= l} = Dispatch!Firsts(t)
    BY <1>1, <1>2
  <2> QED
    BY <1>4, <2>1, CardinalityIs DEF Dispatch!Rank
<1>6. Dispatch!EntryOf(t, l) = e
  <2>1. {j \in DOMAIN t : t[j] = t[l]} = {l}
    BY <1>1
  <2>2. Cardinality({l}) = 1
    BY FS_Singleton
  <2> QED
    BY <1>1, <2>1, <2>2, CardinalityIs DEF Dispatch!EntryOf
<1>7. \A i \in F : Dispatch!EntryOf(t, i) = Dispatch!EntryOf(s, i)
  BY <1>1, <1>2, EntryAppend
<1>8. \A j \in DOMAIN t : \E i \in Dispatch!Firsts(t) : t[i] = t[j]
  <2> SUFFICES ASSUME NEW j \in DOMAIN t PROVE \E i \in Dispatch!Firsts(t) : t[i] = t[j]
    OBVIOUS
  <2>1. CASE j = l
    BY <1>2, <2>1
  <2>2. CASE j # l
    BY <1>1, <1>2, <2>2 DEF ScanOK
  <2> QED
    BY <2>1, <2>2
<1>9. /\ table \in [1 .. CAN_SCAN_MAX -> [id : Nat, ext : BOOLEAN, count : Nat]]
      /\ n \in 0 .. CAN_SCAN_MAX /\ CAN_SCAN_MAX \in Nat
      /\ n = IF c < CAN_SCAN_MAX THEN c ELSE CAN_SCAN_MAX
      /\ \A i \in F : Dispatch!Rank(s, i) <= CAN_SCAN_MAX =>
                         table[Dispatch!Rank(s, i)] = Dispatch!EntryOf(s, i)
      /\ \A k \in 1 .. n : \E i \in F : Dispatch!Rank(s, i) = k
  BY TalliesIs, DispatchAssumption DEF ScanOK, Dispatch!SizesAssumption
<1>10. e \in [id : Nat, ext : BOOLEAN, count : Nat]
  BY DispatchAssumption DEF Dispatch!FramesAssumption, Heard
<1> HIDE DEF t, F, c, l, e
<1>11. ASSUME n < CAN_SCAN_MAX
       PROVE  ScanOK([table EXCEPT ![n + 1] = e], n + 1, t)
  <2> DEFINE u == [table EXCEPT ![n + 1] = e]
  <2>1. c = n /\ n + 1 \in 1 .. CAN_SCAN_MAX
    BY <1>9, <1>3, <1>11
  <2>2. u \in [1 .. CAN_SCAN_MAX -> [id : Nat, ext : BOOLEAN, count : Nat]]
    BY <1>9, <1>10
  <2>3. u[n + 1] = e /\ \A k \in 1 .. n : u[k] = table[k]
    BY <1>9, <2>1
  <2> HIDE DEF u
  <2>4. \A i \in Dispatch!Firsts(t) : u[Dispatch!Rank(t, i)] = Dispatch!EntryOf(t, i)
    <3>1. ASSUME NEW i \in F
          PROVE  u[Dispatch!Rank(t, i)] = Dispatch!EntryOf(t, i)
      <4>1. Dispatch!Rank(t, i) = Dispatch!Rank(s, i) /\ Dispatch!Rank(s, i) \in 1 .. n
        BY <1>2, <1>3, <2>1
      <4>2. table[Dispatch!Rank(s, i)] = Dispatch!EntryOf(t, i)
        BY <1>7, <1>9, <4>1
      <4> QED
        BY <2>3, <4>1, <4>2
    <3>2. u[Dispatch!Rank(t, l)] = Dispatch!EntryOf(t, l)
      BY <1>5, <1>6, <2>1, <2>3
    <3> QED
      BY <1>2, <3>1, <3>2
  <2>5. Dispatch!Tallies(u, n + 1, t)
    BY <1>4, <1>9, <1>11, <2>1, <2>4, TalliesIs
  <2>6. \A k \in 1 .. n + 1 : \E i \in Dispatch!Firsts(t) : Dispatch!Rank(t, i) = k
    BY <1>2, <1>5, <1>9, <2>1
  <2> QED
    BY <1>1, <1>8, <1>9, <2>1, <2>2, <2>5, <2>6 DEF ScanOK, u
<1>12. ASSUME n = CAN_SCAN_MAX
       PROVE  ScanOK(table, n, t)
  <2>1. c >= CAN_SCAN_MAX
    BY <1>3, <1>9, <1>12
  <2>2. Dispatch!Tallies(table, n, t)
    <3>1. ASSUME NEW i \in Dispatch!Firsts(t), Dispatch!Rank(t, i) <= CAN_SCAN_MAX
          PROVE  table[Dispatch!Rank(t, i)] = Dispatch!EntryOf(t, i)
      <4>1. i # l
        BY <1>3, <1>5, <1>9, <2>1, <3>1
      <4>2. i \in F /\ Dispatch!Rank(t, i) = Dispatch!Rank(s, i)
        BY <1>2, <4>1
      <4> QED
        BY <1>7, <1>9, <3>1, <4>2
    <3>2. ~(c + 1 < CAN_SCAN_MAX)
      BY <1>3, <1>9, <2>1
    <3> QED
      BY <1>4, <1>12, <3>1, <3>2, TalliesIs
  <2>3. \A k \in 1 .. n : \E i \in Dispatch!Firsts(t) : Dispatch!Rank(t, i) = k
    BY <1>2, <1>9
  <2> QED
    BY <1>1, <1>8, <1>9, <2>2, <2>3 DEF ScanOK
<1> QED
  BY <1>11, <1>12 DEF t, e

\* A frame heard before is counted where it is, if it is in the table.
LEMMA KnownFrame ==
  ASSUME NEW table, NEW n, NEW s, ScanOK(table, n, s), NEW f \in Heard,
         NEW i \in Dispatch!Firsts(s), s[i] = f, NEW m, m = Dispatch!Rank(s, i)
  PROVE  /\ m \in Nat \ {0}
         /\ m <= n => /\ Has(table, m, f)
                      /\ \A u : u = [table EXCEPT ![m].count = @ + 1] => ScanOK(u, n, Append(s, f))
         /\ m > n => n = CAN_SCAN_MAX /\ ScanOK(table, n, Append(s, f))
<1> DEFINE t == Append(s, f)
           F == Dispatch!Firsts(s)
           r == Dispatch!Rank(s, i)
           c == Cardinality(F)
<1>1. /\ s \in Seq(Heard) /\ t \in Seq(Heard) /\ Len(s) \in Nat
      /\ DOMAIN t = 1 .. Len(s) + 1 /\ DOMAIN s = 1 .. Len(s)
      /\ t[Len(s) + 1] = f /\ \A k \in 1 .. Len(s) : t[k] = s[k]
  BY DEF ScanOK
<1>2. i \in 1 .. Len(s) /\ F \subseteq 1 .. Len(s)
  BY <1>1 DEF Dispatch!Firsts
<1>3. /\ Dispatch!Firsts(t) = F
      /\ \A k \in F : Dispatch!Rank(t, k) = Dispatch!Rank(s, k)
  <2>1. \E j \in DOMAIN s : s[j] = f
    BY <1>1, <1>2
  <2>2. /\ Dispatch!Firsts(t) = F \cup (IF \E j \in DOMAIN s : s[j] = f THEN {} ELSE {Len(s) + 1})
        /\ \A k \in F : Dispatch!Rank(t, k) = Dispatch!Rank(s, k)
    BY <1>1, FirstsAppend
  <2> HIDE DEF t, F
  <2> QED
    BY <2>1, <2>2
<1>4. c \in Nat /\ \A k \in F : Dispatch!Rank(s, k) \in 1 .. c
  BY <1>1, Counts
<1>5. /\ table \in [1 .. CAN_SCAN_MAX -> [id : Nat, ext : BOOLEAN, count : Nat]]
      /\ n \in 0 .. CAN_SCAN_MAX /\ CAN_SCAN_MAX \in Nat
      /\ n = IF c < CAN_SCAN_MAX THEN c ELSE CAN_SCAN_MAX
      /\ \A k \in F : Dispatch!Rank(s, k) <= CAN_SCAN_MAX =>
                         table[Dispatch!Rank(s, k)] = Dispatch!EntryOf(s, k)
      /\ \A k \in 1 .. n : \E j \in F : Dispatch!Rank(s, j) = k
  BY TalliesIs, DispatchAssumption DEF ScanOK, Dispatch!SizesAssumption
<1>6. \A j \in DOMAIN t : \E k \in Dispatch!Firsts(t) : t[k] = t[j]
  <2> SUFFICES ASSUME NEW j \in DOMAIN t PROVE \E k \in Dispatch!Firsts(t) : t[k] = t[j]
    OBVIOUS
  <2>1. CASE j = Len(s) + 1
    BY <1>1, <1>2, <1>3, <2>1
  <2>2. CASE j # Len(s) + 1
    <3>1. j \in DOMAIN s
      BY <1>1, <2>2
    <3>2. PICK k \in F : s[k] = s[j]
      BY <3>1 DEF ScanOK
    <3> QED
      BY <1>1, <1>2, <1>3, <3>1, <3>2
  <2> QED
    BY <2>1, <2>2
<1>7. /\ Dispatch!EntryOf(t, i) = [Dispatch!EntryOf(s, i) EXCEPT !.count = @ + 1]
      /\ \A k \in F : k # i => Dispatch!EntryOf(t, k) = Dispatch!EntryOf(s, k)
  <2>1. \A k \in F : k # i => s[k] # f
    BY <1>1, FirstIsOne
  <2> QED
    BY <1>1, <1>2, <2>1, EntryAppend
<1>8. \A k \in F : k # i /\ Dispatch!Rank(s, k) <= CAN_SCAN_MAX => Dispatch!Rank(s, k) # r
  BY RankIsOne
<1>9. Dispatch!EntryOf(s, i).id = f.id /\ Dispatch!EntryOf(s, i).ext = f.ext
  BY DEF Dispatch!EntryOf
<1>10. r \in 1 .. c /\ i \in F
  BY <1>4
<1> HIDE DEF t, F, r, c
<1>11. \A k \in 1 .. n : \E j \in Dispatch!Firsts(t) : Dispatch!Rank(t, j) = k
  BY <1>3, <1>5
<1>12. ASSUME r <= n
       PROVE  Has(table, r, f) /\ ScanOK([table EXCEPT ![r].count = @ + 1], n, t)
  <2> DEFINE u == [table EXCEPT ![r].count = @ + 1]
  <2>1. r \in 1 .. CAN_SCAN_MAX /\ table[r] = Dispatch!EntryOf(s, i)
    BY <1>4, <1>5, <1>10, <1>12 DEF r
  <2>2. /\ u \in [1 .. CAN_SCAN_MAX -> [id : Nat, ext : BOOLEAN, count : Nat]]
        /\ u[r] = [table[r] EXCEPT !.count = @ + 1]
        /\ \A k \in 1 .. CAN_SCAN_MAX : k # r => u[k] = table[k]
    <3>1. table[r] \in [id : Nat, ext : BOOLEAN, count : Nat]
      BY <1>5, <2>1
    <3> DEFINE e == [table[r] EXCEPT !.count = @ + 1]
    <3>2. e \in [id : Nat, ext : BOOLEAN, count : Nat]
      BY <3>1
    <3>3. u = [table EXCEPT ![r] = e]
      BY <1>5, <2>1
    <3> HIDE DEF e, u
    <3>4. u \in [1 .. CAN_SCAN_MAX -> [id : Nat, ext : BOOLEAN, count : Nat]]
      BY <1>5, <3>2, <3>3
    <3>5. u[r] = e /\ \A k \in 1 .. CAN_SCAN_MAX : k # r => u[k] = table[k]
      BY <1>5, <2>1, <3>3
    <3> QED
      BY <3>4, <3>5 DEF e
  <2> HIDE DEF u
  <2>3. u[r] = Dispatch!EntryOf(t, i)
    BY <1>7, <2>1, <2>2
  <2>4. \A k \in F : k # i /\ Dispatch!Rank(s, k) <= CAN_SCAN_MAX =>
                        u[Dispatch!Rank(s, k)] = Dispatch!EntryOf(t, k)
    BY <1>4, <1>5, <1>7, <1>8, <2>2
  <2>5. \A k \in Dispatch!Firsts(t) : Dispatch!Rank(t, k) <= CAN_SCAN_MAX =>
                        u[Dispatch!Rank(t, k)] = Dispatch!EntryOf(t, k)
    BY <1>3, <2>3, <2>4 DEF r
  <2>6. Dispatch!Tallies(u, n, t)
    BY <1>3, <1>5, <2>5, TalliesIs DEF c
  <2>7. Has(table, r, f)
    BY <1>9, <2>1 DEF Has
  <2> QED
    BY <1>1, <1>5, <1>6, <1>11, <2>2, <2>6, <2>7 DEF ScanOK, u
<1>13. ASSUME r > n
       PROVE  n = CAN_SCAN_MAX /\ ScanOK(table, n, t)
  <2>1. n = CAN_SCAN_MAX
    BY <1>4, <1>5, <1>10, <1>13
  <2>2. \A k \in F : Dispatch!Rank(s, k) <= CAN_SCAN_MAX => k # i
    BY <1>4, <1>5, <1>10, <1>13, <2>1 DEF r
  <2>3. Dispatch!Tallies(table, n, t)
    BY <1>3, <1>5, <1>7, <2>2, TalliesIs DEF c
  <2> QED
    BY <1>1, <1>5, <1>6, <1>11, <2>1, <2>3 DEF ScanOK
<1>14. m = r
  BY DEF r
<1> QED
  BY <1>4, <1>10, <1>12, <1>13, <1>14 DEF t

\* The scanner is exact except while it is being cleared, and then it is stopped.
DispatchInv ==
  /\ heard \in Seq(Heard) /\ s_scan_n \in 0 .. CAN_SCAN_MAX
  /\ s_scan \in [1 .. CAN_SCAN_MAX -> [id : Nat, ext : BOOLEAN, count : Nat]]
  /\ u_pc \in {"idle", "count", "clear", "activate", "get"}
  /\ u_pc \in {"idle", "get"} => ScanOK(s_scan, s_scan_n, heard)
  /\ u_pc # "idle" => ~s_scan_active
  /\ u_pc \in {"clear", "activate"} => s_scan_n = 0
  /\ report # <<>> => /\ ~s_scan_active /\ u_pc = "idle"
                      /\ report = <<SubSeq(s_scan, 1, s_scan_n)>>

\* Nothing heard, nothing in the table.
LEMMA NothingHeard ==
  ASSUME NEW table \in [1 .. CAN_SCAN_MAX -> [id : Nat, ext : BOOLEAN, count : Nat]]
  PROVE  ScanOK(table, 0, <<>>)
<1>1. Dispatch!Firsts(<<>>) = {}
  BY DEF Dispatch!Firsts
<1>2. Cardinality({}) = 0
  BY FS_EmptySet
<1>3. 0 \in 0 .. CAN_SCAN_MAX /\ 0 < CAN_SCAN_MAX
  BY DispatchAssumption DEF Dispatch!SizesAssumption
<1>4. Dispatch!Tallies(table, 0, <<>>)
  BY <1>1, <1>2, <1>3, TalliesIs
<1> QED
  BY <1>3, <1>4 DEF ScanOK

\* At start nothing is heard and no scan runs.
LEMMA DispatchInitial == FeedbackInit => DispatchInv
<1> SUFFICES ASSUME FeedbackInit PROVE DispatchInv
  OBVIOUS
<1>1. /\ s_scan = [i \in 1 .. CAN_SCAN_MAX |-> [id |-> 0, ext |-> FALSE, count |-> 0]]
      /\ s_scan_n = 0 /\ u_pc = "idle" /\ report = <<>> /\ heard = <<>>
  BY DEF FeedbackInit, Dispatch!Init, Dispatch!Empty
<1>2. s_scan \in [1 .. CAN_SCAN_MAX -> [id : Nat, ext : BOOLEAN, count : Nat]]
  BY <1>1
<1>3. ScanOK(s_scan, 0, <<>>)
  BY <1>2, NothingHeard
<1> QED
  BY <1>1, <1>2, <1>3, DispatchAssumption DEF DispatchInv, Dispatch!SizesAssumption


\* A frame that CANThread dispatches while the scanner runs is counted.
LEMMA ScanStep ==
  ASSUME DispatchInv, s_scan_active, NEW f \in Frames, f.bus = 1, Dispatch!ScanFrame(f)
  PROVE  ScanOK(s_scan', s_scan_n', Append(heard, f))
<1>1. ScanOK(s_scan, s_scan_n, heard) /\ f \in Heard
  BY DEF DispatchInv, Heard
<1>2. s_scan_n \in 0 .. CAN_SCAN_MAX /\ CAN_SCAN_MAX \in Nat
  BY DispatchAssumption DEF DispatchInv, Dispatch!SizesAssumption
<1> DEFINE k == Dispatch!Slot(f)
<1>3. \/ k \in 1 .. s_scan_n /\ Has(s_scan, k, f)
      \/ k = s_scan_n + 1 /\ \A j \in 1 .. s_scan_n : ~Has(s_scan, j, f)
  BY DEF Dispatch!Slot, Has
<1>4. /\ k > CAN_SCAN_MAX => s_scan' = s_scan /\ s_scan_n' = s_scan_n
      /\ k <= CAN_SCAN_MAX /\ k <= s_scan_n =>
           s_scan' = [s_scan EXCEPT ![k].count = @ + 1] /\ s_scan_n' = s_scan_n
      /\ k <= CAN_SCAN_MAX /\ k > s_scan_n =>
           /\ s_scan' = [s_scan EXCEPT ![k] = [id |-> f.id, ext |-> f.ext, count |-> 1]]
           /\ s_scan_n' = s_scan_n + 1
  <2>1. k \in Nat /\ s_scan_n \in Nat
    BY <1>2, <1>3
  <2>2. ~(f.bus # 1 \/ ~s_scan_active)
    OBVIOUS
  <2>3. IF f.bus # 1 \/ ~s_scan_active \/ k > CAN_SCAN_MAX
        THEN s_scan' = s_scan /\ s_scan_n' = s_scan_n
        ELSE /\ s_scan' = IF k <= s_scan_n THEN [s_scan EXCEPT ![k].count = @ + 1]
                          ELSE [s_scan EXCEPT ![k] = [id |-> f.id, ext |-> f.ext, count |-> 1]]
             /\ s_scan_n' = IF k > s_scan_n THEN s_scan_n + 1 ELSE s_scan_n
    BY DEF Dispatch!ScanFrame, Dispatch!svars
  <2> HIDE DEF k
  <2>4. IF k > CAN_SCAN_MAX
        THEN s_scan' = s_scan /\ s_scan_n' = s_scan_n
        ELSE /\ s_scan' = IF k <= s_scan_n THEN [s_scan EXCEPT ![k].count = @ + 1]
                          ELSE [s_scan EXCEPT ![k] = [id |-> f.id, ext |-> f.ext, count |-> 1]]
             /\ s_scan_n' = IF k > s_scan_n THEN s_scan_n + 1 ELSE s_scan_n
    BY <2>2, <2>3, Zenon
  <2> QED
    BY <1>2, <2>1, <2>4
<1> HIDE DEF k
<1>5. CASE k \in 1 .. s_scan_n /\ Has(s_scan, k, f)
  <2>2. PICK i \in Dispatch!Firsts(heard) : heard[i] = f /\ Dispatch!Rank(heard, i) = k
    BY <1>1, <1>5, MatchIsFirst
  <2>3. s_scan' = [s_scan EXCEPT ![k].count = @ + 1] /\ s_scan_n' = s_scan_n /\ k <= s_scan_n
    BY <1>2, <1>4, <1>5
  <2>4. ASSUME NEW u, u = [s_scan EXCEPT ![k].count = @ + 1]
        PROVE  ScanOK(u, s_scan_n, Append(heard, f))
    BY <1>1, <2>2, <2>3, <2>4, KnownFrame
  <2> QED
    BY <2>3, <2>4
<1>6. CASE k = s_scan_n + 1 /\ \A j \in 1 .. s_scan_n : ~Has(s_scan, j, f)
  <2>1. ASSUME NEW i \in Dispatch!Firsts(heard), heard[i] = f
        PROVE  Dispatch!Rank(heard, i) > s_scan_n /\ s_scan_n = CAN_SCAN_MAX
               /\ ScanOK(s_scan, s_scan_n, Append(heard, f))
    <3> DEFINE r == Dispatch!Rank(heard, i)
    <3>1. r = Dispatch!Rank(heard, i)
      OBVIOUS
    <3> HIDE DEF r
    <3>2. r \in Nat \ {0} /\ (r <= s_scan_n => Has(s_scan, r, f))
      BY <1>1, <2>1, <3>1, KnownFrame
    <3>3. r > s_scan_n
      BY <1>2, <1>6, <3>2
    <3> QED
      BY <1>1, <2>1, <3>1, <3>3, KnownFrame
  <2>2. CASE s_scan_n = CAN_SCAN_MAX
    <3>1. s_scan' = s_scan /\ s_scan_n' = s_scan_n
      BY <1>2, <1>4, <1>6, <2>2
    <3>2. CASE \E j \in DOMAIN heard : heard[j] = f
      <4>1. PICK i \in Dispatch!Firsts(heard) : heard[i] = f
        BY <1>1, <3>2 DEF ScanOK
      <4> QED
        BY <2>1, <3>1, <4>1
    <3>3. CASE \A j \in DOMAIN heard : heard[j] # f
      BY <1>1, <2>2, <3>1, <3>3, NewFrame
    <3> QED
      BY <3>2, <3>3
  <2>3. CASE s_scan_n # CAN_SCAN_MAX
    <3>1. /\ s_scan' = [s_scan EXCEPT ![s_scan_n + 1] = [id |-> f.id, ext |-> f.ext, count |-> 1]]
          /\ s_scan_n' = s_scan_n + 1
      BY <1>2, <1>4, <1>6, <2>3
    <3>2. \A j \in DOMAIN heard : heard[j] # f
      <4> SUFFICES ASSUME NEW j \in DOMAIN heard, heard[j] = f PROVE FALSE
        OBVIOUS
      <4>1. PICK i \in Dispatch!Firsts(heard) : heard[i] = f
        BY <1>1 DEF ScanOK
      <4> QED
        BY <2>1, <2>3, <4>1
    <3>3. s_scan_n < CAN_SCAN_MAX
      BY <1>2, <2>3
    <3>4. ASSUME NEW u, u = [s_scan EXCEPT ![s_scan_n + 1] = [id |-> f.id, ext |-> f.ext, count |-> 1]]
          PROVE  ScanOK(u, s_scan_n + 1, Append(heard, f))
      BY <1>1, <3>2, <3>3, <3>4, NewFrame
    <3> QED
      BY <3>1, <3>4
  <2> QED
    BY <2>2, <2>3
<1> QED
  BY <1>3, <1>5, <1>6

\* Every frame and every step of a scan keeps the table exact.
LEMMA DispatchNext == DispatchInv /\ [Dispatch!Next]_dvars => DispatchInv'
<1> SUFFICES ASSUME DispatchInv, [Dispatch!Next]_dvars PROVE DispatchInv'
  OBVIOUS
<1> USE DEF DispatchInv
<1>1. CASE Dispatch!bprl_can_register
  BY <1>1 DEF Dispatch!bprl_can_register, Dispatch!svars
<1>2. ASSUME NEW f \in Frames, Dispatch!can_dispatch(f) PROVE DispatchInv'
  <2>1. UNCHANGED <<u_pc, report>>
    BY <1>2 DEF Dispatch!can_dispatch
  <2>2. CASE s_scan_active /\ f.bus = 1
    <3>1. u_pc = "idle" /\ report = <<>>
      BY <2>2
    <3>2. heard' = Append(heard, f) /\ Dispatch!ScanFrame(f)
      BY <1>2, <2>2 DEF Dispatch!can_dispatch
    <3>3. ScanOK(s_scan', s_scan_n', heard')
      BY <2>2, <3>2, ScanStep
    <3> QED
      BY <2>1, <3>1, <3>3 DEF ScanOK
  <2>3. CASE ~(s_scan_active /\ f.bus = 1)
    <3>1. UNCHANGED <<heard, s_scan_active, s_scan_n, s_scan>>
      BY <1>2, <2>3 DEF Dispatch!can_dispatch, Dispatch!ScanFrame, Dispatch!svars
    <3> QED
      BY <2>1, <3>1
  <2> QED
    BY <2>2, <2>3
<1>3. CASE Dispatch!can_scan_start
  <2>1. CASE u_pc = "idle" \/ u_pc = "count"
    BY <1>3, <2>1, DispatchAssumption DEF Dispatch!can_scan_start, Dispatch!ScanDeactivate, Dispatch!SizesAssumption
  <2>2. CASE u_pc = "clear"
    <3>1. /\ s_scan' = [i \in 1 .. CAN_SCAN_MAX |-> [id |-> 0, ext |-> FALSE, count |-> 0]]
          /\ u_pc' = "activate" /\ report' = <<>>
          /\ UNCHANGED <<s_scan_active, s_scan_n, heard>>
      BY <1>3, <2>2 DEF Dispatch!can_scan_start, Dispatch!Empty
    <3>2. s_scan' \in [1 .. CAN_SCAN_MAX -> [id : Nat, ext : BOOLEAN, count : Nat]]
      BY <3>1
    <3> QED
      BY <2>2, <3>1, <3>2
  <2>3. CASE u_pc = "activate"
    <3>1. /\ u_pc' = "idle" /\ heard' = <<>> /\ report' = <<>>
          /\ UNCHANGED <<s_scan_n, s_scan>> /\ s_scan_n = 0
      BY <1>3, <2>3 DEF Dispatch!can_scan_start
    <3>2. ScanOK(s_scan, 0, <<>>)
      BY NothingHeard
    <3> QED
      BY <3>1, <3>2
  <2> QED
    BY <1>3, <2>1, <2>2, <2>3 DEF Dispatch!can_scan_start
<1>4. CASE Dispatch!can_scan_stop
  BY <1>4 DEF Dispatch!can_scan_stop
<1>5. CASE UNCHANGED dvars
  BY <1>5 DEF dvars
<1> QED
  BY <1>1, <1>2, <1>3, <1>4, <1>5 DEF Dispatch!Next

\* A report is the used part of the table.
LEMMA ReportExact == DispatchInv => ScanExact
<1> SUFFICES ASSUME DispatchInv, report # <<>> PROVE Dispatch!Tallies(report[1], Len(report[1]), heard)
  BY DEF ScanExact, Dispatch!ScanExact
<1> DEFINE p == SubSeq(s_scan, 1, s_scan_n)
<1>1. report[1] = p /\ ScanOK(s_scan, s_scan_n, heard)
  BY DEF DispatchInv
<1>2. CAN_SCAN_MAX \in Nat /\ s_scan_n \in 0 .. CAN_SCAN_MAX
  BY DispatchAssumption DEF DispatchInv, Dispatch!SizesAssumption
<1>3. s_scan \in Seq([id : Nat, ext : BOOLEAN, count : Nat]) /\ Len(s_scan) = CAN_SCAN_MAX
  <2> DEFINE E == [id : Nat, ext : BOOLEAN, count : Nat]
  <2>1. s_scan \in [1 .. CAN_SCAN_MAX -> E]
    BY DEF DispatchInv
  <2> HIDE DEF E
  <2>2. s_scan \in Seq(E)
    BY <1>2, <2>1, SeqDef
  <2>3. Len(s_scan) \in Nat /\ DOMAIN s_scan = 1 .. Len(s_scan)
    BY <2>2, LenProperties
  <2>4. Len(s_scan) = CAN_SCAN_MAX
    BY <1>2, <2>1, <2>3
  <2> QED
    BY <2>2, <2>4 DEF E
<1>4. Len(p) = s_scan_n /\ \A k \in 1 .. s_scan_n : p[k] = s_scan[k]
  BY <1>2, <1>3
<1> HIDE DEF p
<1>5. heard \in Seq(Heard) /\ Dispatch!Tallies(s_scan, s_scan_n, heard)
  BY <1>1 DEF ScanOK
<1>6. Cardinality(Dispatch!Firsts(heard)) \in Nat
  BY <1>5, Counts
<1>7. ASSUME NEW i \in Dispatch!Firsts(heard), Dispatch!Rank(heard, i) <= CAN_SCAN_MAX
      PROVE  p[Dispatch!Rank(heard, i)] = Dispatch!EntryOf(heard, i)
  <2>1. Dispatch!Rank(heard, i) \in 1 .. Cardinality(Dispatch!Firsts(heard))
    BY <1>5, Counts
  <2>2. Dispatch!Rank(heard, i) \in 1 .. s_scan_n
    BY <1>2, <1>5, <1>6, <1>7, <2>1, TalliesIs
  <2>3. s_scan[Dispatch!Rank(heard, i)] = Dispatch!EntryOf(heard, i)
    BY <1>5, <1>7, TalliesIs
  <2> QED
    BY <1>4, <2>2, <2>3
<1>8. Dispatch!Tallies(p, s_scan_n, heard)
  BY <1>5, <1>7, TalliesIs
<1> QED
  BY <1>1, <1>4, <1>8

(***************************************************************************)
(* CAN,scan,stop, for any frames and any size of the table: what it prints *)
(* are the first ids bus 1 carried since the scan was started, as many as  *)
(* the table holds, with exact counts.                                     *)
(***************************************************************************)
THEOREM ScansExact == FeedbackSpec => []ScanExact
<1>1. [FeedbackNext]_fvars => [Dispatch!Next]_dvars
  BY DEF FeedbackNext, SbusStep, CanStep, DispatchStep, Imx5Step, ImuStep, HipStep, LegStep, fvars
<1>2. DispatchInv /\ [FeedbackNext]_fvars => DispatchInv'
  BY <1>1, DispatchNext
<1> QED
  BY <1>2, DispatchInitial, ReportExact, PTL DEF FeedbackSpec, fvars
=============================================================================
