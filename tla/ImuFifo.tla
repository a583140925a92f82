------------------------------- MODULE ImuFifo -------------------------------
(***************************************************************************)
(* An ICM-45686 and its driver (coms/IMUs/ICM45686.cpp) as SPIThread runs  *)
(* it.  The sensor samples at about 800 Hz into a FIFO that stops when     *)
(* full; read() takes one packet, the oldest, a thousand times a second.   *)
(* The sensor keeps its power when the controller resets.  A packet is the *)
(* boot it was sampled in.  Time passes in units of 250 us: a sample every *)
(* SampleUnits, a pass of SPIThread every PassUnits.                       *)
(***************************************************************************)
EXTENDS Naturals, Sequences

CONSTANTS
  SampleUnits, PassUnits,  \* 5 and 4: 1.25 ms and 1 ms
  Depth,                   \* packets the FIFO holds
  MaxOwed,                 \* bound: passes SPIThread is late
  MaxResets                \* bound: resets of the controller

RateAssumption ==
  /\ {SampleUnits, PassUnits, Depth, MaxOwed} \subseteq Nat \ {0}
  /\ MaxResets \in Nat

VARIABLES
  mode, stores,   \* FIFO_CONFIG0 is not bypass; FIFO_CONFIG3 enables the sensors
  fifo,           \* the packets, oldest first
  sample,         \* units until the next sample
  pc,             \* the driver: the next step of init(), "run", or "absent"
  pass, owed,     \* units until the next pass falls due, passes due
  boot,           \* resets so far
  g_imu           \* the sample published last

vars == <<mode, stores, fifo, sample, pc, pass, owed, boot, g_imu>>
sensor == <<mode, stores, fifo, sample>>
sched  == <<pass, owed>>

NoSample == MaxResets + 1

-----------------------------------------------------------------------------
(* The sensor and the clock *)

\* 250 us pass.  SPIThread's passes fall due whether or not it could run:
\* chThdSleepUntilWindowed does not sleep while it is behind.
Unit ==
  LET due == pc = "run" /\ pass = 1 IN
  /\ due => owed < MaxOwed
  /\ sample' = IF sample = 1 THEN SampleUnits ELSE sample - 1
  /\ fifo' = IF sample = 1 /\ mode /\ stores /\ Len(fifo) < Depth
             THEN Append(fifo, boot) ELSE fifo
  /\ pass' = IF pass = 1 THEN PassUnits ELSE pass - 1
  /\ owed' = IF due THEN owed + 1 ELSE owed
  /\ UNCHANGED <<mode, stores, pc, boot, g_imu>>

-----------------------------------------------------------------------------
(* ICM45686::init, with samples between its register writes *)

\* WHO_AM_I is not the expected one: read() returns false for ever.
InitAbsent ==
  /\ pc = "whoami" /\ pc' = "absent"
  /\ UNCHANGED <<sensor, sched, boot, g_imu>>

\* Power and rates are set; then FIFO_CONFIG3 = 0 and FIFO_CONFIG0 = 0.
InitDisable ==
  /\ pc = "whoami" /\ pc' = "flush"
  /\ mode' = FALSE /\ stores' = FALSE
  /\ UNCHANGED <<fifo, sample, sched, boot, g_imu>>

\* Mutant: the flush command is not sent.
InitFlush_None ==
  /\ pc = "flush" /\ pc' = "enable"
  /\ UNCHANGED <<sensor, sched, boot, g_imu>>

InitFlush ==
  /\ pc = "flush" /\ pc' = "enable"
  /\ fifo' = <<>>
  /\ UNCHANGED <<mode, stores, sample, sched, boot, g_imu>>

\* FIFO_CONFIG3 = 6, FIFO_CONFIG0 = stop-on-full, FIFO_CONFIG3 = 7.  The other
\* IMUs' init() may follow before the first pass.
InitEnable ==
  /\ pc = "enable" /\ pc' = "ready"
  /\ mode' = TRUE /\ stores' = TRUE
  /\ UNCHANGED <<fifo, sample, sched, boot, g_imu>>

\* spi_drv_init() has returned: next = chVTGetSystemTime().
FirstPass ==
  /\ pc = "ready" /\ pc' = "run"
  /\ pass' = PassUnits /\ owed' = 1
  /\ UNCHANGED <<sensor, boot, g_imu>>

-----------------------------------------------------------------------------
(* SPIThread *)

\* n # 0, the FIFO's record count.
Ready == Len(fifo) > 0

\* read(): no packet, a packet whose header is wrong, or a sample.
Read(header) ==
  /\ pc = "run" /\ owed > 0
  /\ owed' = owed - 1
  /\ fifo' = IF Ready THEN Tail(fifo) ELSE fifo
  /\ g_imu' = IF Ready /\ header THEN Head(fifo) ELSE g_imu
  /\ UNCHANGED <<mode, stores, sample, pc, pass, boot>>

\* The controller is reset; the sensor is not.
Reset ==
  /\ boot < MaxResets /\ boot' = boot + 1
  /\ pc' = "whoami" /\ owed' = 0 /\ g_imu' = NoSample
  /\ UNCHANGED <<sensor, pass>>

Init ==
  /\ mode = FALSE /\ stores = FALSE /\ fifo = <<>> /\ sample = SampleUnits
  /\ pc = "whoami" /\ pass = PassUnits /\ owed = 0 /\ boot = 0
  /\ g_imu = NoSample

Next ==
  \/ Unit \/ InitAbsent \/ InitDisable \/ InitFlush \/ InitEnable \/ FirstPass \/ Reset
  \/ \E header \in BOOLEAN : Read(header)

Spec == Init /\ [][Next]_vars

-----------------------------------------------------------------------------
(***************************************************************************)
(* No sample from before a reset of the controller is published after it:  *)
(* init() empties the FIFO of a sensor that went on sampling.              *)
(***************************************************************************)
NothingFromBefore == g_imu \in {boot, NoSample}
=============================================================================
