------------------------------ MODULE MotorTool ------------------------------
(***************************************************************************)
(* The bench firmware Motor_tool: CmdThread obeys the host's text commands *)
(* (CmdShell.cpp), WatchdogThread stops the motors when the host falls     *)
(* silent, CANRxThread decodes the replies (RmdMotor.cpp, GimMotor.cpp,    *)
(* OdriveMotor.cpp).  There is one motor of each kind, on bus Wired; a     *)
(* command to another id, or on the other bus, reaches nobody.  Time goes  *)
(* in ticks and is kept as ages that saturate.                             *)
(***************************************************************************)
EXTENDS Naturals, Sequences

CONSTANTS
  Kinds,        \* the kinds of motor on the bench
  Buses,        \* the buses BUS,<n> selects
  Wired,        \* the bus the motors are on
  SameId,       \* the GIM replies on its own CAN id
  MasterIds,    \* what GIM,<id>,MASTERID may say: the right id or not
  TIMEOUT_MS, RESEND_PERIOD_MS,  \* in ticks
  MaxLag,       \* ticks one watchdog pass may take
  MaxWire,      \* replies under way
  MaxFaults,    \* bound: frames refused or lost, in either direction
  MaxResets, MaxUnplugs  \* bounds

ToolAssumption ==
  /\ Kinds \subseteq {"rmd", "gim", "odrive"}
  /\ Wired \in Buses /\ SameId \in BOOLEAN /\ MasterIds \subseteq BOOLEAN
  /\ {TIMEOUT_MS, RESEND_PERIOD_MS, MaxLag, MaxWire} \subseteq Nat

VARIABLES
  s_active_bus, s_bus,  \* the selected bus, and the one each driver uses
  s_state,      \* driver state of each motor: [valid, enabled]
  reply_id,     \* gim_get_reply_id matches the id the GIM replies on
  drive,        \* the motors themselves: [started, moving]
  wire,         \* replies on their way to CANRxThread
  cable,        \* the USB cable is in
  usb,          \* the host has configured the device: SDU1's queue is not suspended
  host_age,     \* ticks since s_last_host_ms was stored
  stop_age,     \* ticks since last_stop_ms
  w_lag,        \* ticks since the watchdog read `now`
  pc,           \* program counter of CmdThread ("cmd") and WatchdogThread ("wd")
  job,          \* the command CmdThread is sending: <<kind, operation>>
  faults, resets, unplugs  \* counters for the bounds

driver == <<s_active_bus, s_bus, s_state, reply_id>>
clock  == <<host_age, stop_age, w_lag>>
bench  == <<drive, wire>>
link   == <<cable, usb>>
bounds == <<faults, resets, unplugs>>
vars   == <<driver, bench, link, clock, pc, job, bounds>>

Older(age, limit) == IF age <= limit + MaxLag THEN age + 1 ELSE age

-----------------------------------------------------------------------------
(* The motors *)

\* What a motor does on a command; a GIM may refuse to start.  An RMD needs no
\* start: "started" says it has a motion that RESUME takes up again.
Obeys(k, op) ==
  LET d == drive[k] IN
  CASE op = "drive" /\ k = "rmd" -> {[started |-> TRUE, moving |-> TRUE]}
    [] op = "drive" /\ k # "rmd" -> {[d EXCEPT !.moving = d.started]}
    [] op = "resume" -> {[d EXCEPT !.moving = d.started]}
    [] op = "start" -> {[d EXCEPT !.started = TRUE]} \cup (IF k = "gim" THEN {d} ELSE {})
    [] op = "pause" -> {[d EXCEPT !.moving = FALSE]}
    [] op = "stop"  -> {[started |-> k = "rmd" /\ d.started, moving |-> FALSE]}
    [] op \in {"mode", "query"} -> {d}

\* The replies the drivers look at: an ODrive sends only heartbeats, and the
\* echoes of RMD stops and resumes and of GIM pauses are not decoded.
Reply(k, op, d) ==
  CASE k = "rmd" /\ op \in {"drive", "query"} -> <<[kind |-> k, ack |-> op]>>
    [] k = "gim" /\ op = "start" -> <<[kind |-> k, ack |-> IF d.started THEN "start" ELSE "refused"]>>
    [] k = "gim" /\ op \in {"stop", "drive", "query"} -> <<[kind |-> k, ack |-> op]>>
    [] OTHER -> <<>>

\* can_send: the frame is not accepted in time, or it is lost (automatic
\* retransmission is off), or it arrives; ok is its return value.
can_send(k, op, ok) ==
  \/ /\ faults < MaxFaults /\ faults' = faults + 1
     /\ UNCHANGED bench
  \/ /\ ok /\ s_bus[k] # Wired
     /\ UNCHANGED <<bench, faults>>
  \/ /\ ok /\ s_bus[k] = Wired
     /\ \E d \in Obeys(k, op) :
          /\ Len(wire) + Len(Reply(k, op, d)) <= MaxWire
          /\ drive' = [drive EXCEPT ![k] = d]
          /\ wire' = wire \o Reply(k, op, d)
     /\ UNCHANGED faults

-----------------------------------------------------------------------------
(* CANRxThread *)

Decoded(st, ack) ==
  [valid |-> TRUE,
   enabled |-> IF ack \in {"start", "stop", "refused"} THEN ack = "start" ELSE st.enabled]

\* Replies from the bus not selected, and GIM replies on an id no GIM is
\* expected to reply on, are ignored.
Heard(k) == s_bus[k] = Wired /\ (k = "gim" => reply_id)

\* rmd_rx_cb, gim_rx_cb.
Receive ==
  /\ wire # <<>>
  /\ wire' = Tail(wire)
  /\ LET k == Head(wire).kind IN
     \/ /\ Heard(k)
        /\ s_state' = [s_state EXCEPT ![k] = Decoded(@, Head(wire).ack)]
        /\ UNCHANGED faults
     \/ ~Heard(k) /\ UNCHANGED <<s_state, faults>>
     \/ faults < MaxFaults /\ faults' = faults + 1 /\ UNCHANGED s_state
  /\ UNCHANGED <<s_active_bus, s_bus, reply_id, drive, link, clock, pc, job, resets, unplugs>>

\* odrive_rx_cb: the periodic heartbeat.
Heartbeat ==
  /\ "odrive" \in Kinds /\ s_bus["odrive"] = Wired
  /\ s_state' = [s_state EXCEPT !["odrive"].valid = TRUE]
  /\ UNCHANGED <<s_active_bus, s_bus, reply_id, bench, link, clock, pc, job, bounds>>

-----------------------------------------------------------------------------
(* The stop_all loops, run by CmdThread for STOP,ALL and by WatchdogThread *)

Turn(k) == CASE k = "rmd" -> "gim" [] k = "gim" -> "odrive" [] k = "odrive" -> "done"

\* Which motors a stop_all addresses.
Stops(k) == k \in Kinds /\ (s_state[k].valid \/ s_state[k].enabled)

StopSend(t) ==
  /\ pc[t] \in {"rmd", "gim", "odrive"}
  /\ LET k == pc[t] IN
     IF Stops(k)
     THEN \E ok \in BOOLEAN :
            /\ can_send(k, "stop", ok)
            /\ pc' = [pc EXCEPT ![t] = IF ok /\ k = "gim" THEN "unset" ELSE Turn(k)]
     ELSE pc' = [pc EXCEPT ![t] = Turn(k)] /\ UNCHANGED <<bench, faults>>
  /\ UNCHANGED <<driver, link, clock, job, resets, unplugs>>

\* gim_stop clears enabled after the send.
StopUnset(t) ==
  /\ pc[t] = "unset"
  /\ s_state' = [s_state EXCEPT !["gim"].enabled = FALSE]
  /\ pc' = [pc EXCEPT ![t] = Turn("gim")]
  /\ UNCHANGED <<s_active_bus, s_bus, reply_id, bench, link, clock, job, bounds>>

-----------------------------------------------------------------------------
(* CmdThread *)

\* A byte of the host: touch_watchdog.
Touched == pc["cmd"] = "idle" /\ usb /\ host_age' = 0 /\ UNCHANGED <<stop_age, w_lag>>

\* A byte that ends no line, or a command that concerns no motor.
HostByte ==
  /\ Touched
  /\ UNCHANGED <<driver, bench, link, pc, job, bounds>>

SelectBus(b) ==
  /\ Touched /\ s_active_bus' = b
  /\ UNCHANGED <<s_bus, s_state, reply_id, bench, link, pc, job, bounds>>

\* GIM,<id>,MASTERID: the id the replies are expected on.
MasterId(same) ==
  /\ "gim" \in Kinds /\ Touched
  /\ reply_id' = same
  /\ s_bus' = [s_bus EXCEPT !["gim"] = s_active_bus]
  /\ UNCHANGED <<s_active_bus, s_state, bench, link, pc, job, bounds>>

\* What the drivers send, by what it does to the motor: torque, velocity and
\* position commands are "drive", whatever asks for a reply is "query".
RmdCommands    == {"drive", "stop", "resume", "query"}
GimCommands    == {"start", "drive", "pause", "stop", "query"}
OdriveCommands == {"start", "mode", "drive", "stop"}

\* A command whose frame is sent next: the driver changes to the selected bus.
Begin(k, op) ==
  /\ k \in Kinds /\ Touched
  /\ s_bus' = [s_bus EXCEPT ![k] = s_active_bus]
  /\ pc' = [pc EXCEPT !["cmd"] = "send"] /\ job' = <<k, op>>
  /\ UNCHANGED <<s_active_bus, s_state, reply_id, bench, link, bounds>>

handle_rmd == \E op \in RmdCommands : Begin("rmd", op)

\* A GIM that is not enabled is not driven.
handle_gim ==
  \/ \E op \in GimCommands \ {"drive"} : Begin("gim", op)
  \/ "gim" \in Kinds /\ s_state["gim"].enabled /\ Begin("gim", "drive")
  \/ /\ "gim" \in Kinds /\ ~s_state["gim"].enabled /\ Touched
     /\ s_bus' = [s_bus EXCEPT !["gim"] = s_active_bus]
     /\ UNCHANGED <<s_active_bus, s_state, reply_id, bench, link, pc, job, bounds>>

handle_odrive == \E op \in OdriveCommands : Begin("odrive", op)

\* The send; odrive_start also sends the mode, 50 ms ahead (not told apart).
CommandSend ==
  /\ pc["cmd"] = "send"
  /\ \E ok \in BOOLEAN :
       /\ can_send(job[1], job[2], ok)
       /\ pc' = [pc EXCEPT !["cmd"] =
                   IF ok /\ job[1] = "gim" /\ job[2] \in {"start", "stop"} THEN "store" ELSE "idle"]
  /\ job' = IF pc'["cmd"] = "idle" THEN <<>> ELSE job
  /\ UNCHANGED <<driver, link, clock, resets, unplugs>>

\* gim_start, gim_stop: enabled is stored once the frame is accepted.
CommandStore ==
  /\ pc["cmd"] = "store"
  /\ s_state' = [s_state EXCEPT !["gim"].enabled = (job[2] = "start")]
  /\ pc' = [pc EXCEPT !["cmd"] = "idle"] /\ job' = <<>>
  /\ UNCHANGED <<s_active_bus, s_bus, reply_id, bench, link, clock, bounds>>

StopAll ==
  /\ Touched /\ pc' = [pc EXCEPT !["cmd"] = "rmd"]
  /\ UNCHANGED <<driver, bench, link, job, bounds>>

StopAllDone ==
  /\ pc["cmd"] = "done" /\ pc' = [pc EXCEPT !["cmd"] = "idle"]
  /\ UNCHANGED <<driver, bench, link, clock, job, bounds>>

CmdStep == CommandSend \/ CommandStore \/ StopSend("cmd") \/ StopUnset("cmd") \/ StopAllDone

-----------------------------------------------------------------------------
(* WatchdogThread, which runs only while CmdThread waits *)

CmdWaits == IF pc["cmd"] = "idle" THEN usb ELSE pc["cmd"] \notin {"store", "unset", "done"}

\* `now` is read ...
WatchRead ==
  /\ CmdWaits /\ pc["wd"] = "idle"
  /\ pc' = [pc EXCEPT !["wd"] = "check"] /\ w_lag' = 0
  /\ UNCHANGED <<driver, bench, link, host_age, stop_age, job, bounds>>

\* Mutant: the motors are stopped once for each silence.
Due_Once == host_age > TIMEOUT_MS + w_lag /\ stop_age > host_age

\* ... and compared with times that may be newer: the difference is unsigned.
Due ==
  /\ host_age < w_lag \/ host_age - w_lag > TIMEOUT_MS
  /\ stop_age - w_lag > RESEND_PERIOD_MS

WatchCheck ==
  /\ CmdWaits /\ pc["wd"] = "check"
  /\ pc' = [pc EXCEPT !["wd"] = IF Due THEN "rmd" ELSE "idle"]
  /\ w_lag' = IF Due THEN w_lag ELSE 0
  /\ UNCHANGED <<driver, bench, link, host_age, stop_age, job, bounds>>

WatchStop == CmdWaits /\ (StopSend("wd") \/ StopUnset("wd"))

WatchDone ==
  /\ CmdWaits /\ pc["wd"] = "done"
  /\ pc' = [pc EXCEPT !["wd"] = "idle"]
  /\ stop_age' = w_lag /\ w_lag' = 0
  /\ UNCHANGED <<driver, bench, link, host_age, job, bounds>>

WatchStep == WatchRead \/ WatchCheck \/ WatchStop \/ WatchDone

-----------------------------------------------------------------------------
(* Time, the cable and resets *)

\* A watchdog pass takes at most MaxLag ticks while it may run, and it
\* sleeps less than a tick.
Tick ==
  /\ pc["wd"] # "idle" => w_lag < MaxLag
  /\ w_lag' = IF pc["wd"] = "idle" THEN 0 ELSE w_lag + 1
  /\ host_age' = Older(host_age, TIMEOUT_MS) /\ stop_age' = Older(stop_age, RESEND_PERIOD_MS)
  /\ UNCHANGED <<driver, bench, link, pc, job, bounds>>

\* USB_EVENT_SUSPEND suspends the queue: chnGetTimeout then returns MSG_RESET
\* at once, and CmdThread, which outranks the watchdog, asks again at once.
Unplug ==
  /\ cable /\ unplugs < MaxUnplugs /\ unplugs' = unplugs + 1
  /\ cable' = FALSE /\ usb' = FALSE
  /\ UNCHANGED <<driver, bench, clock, pc, job, faults, resets>>

Plug ==
  /\ ~cable /\ cable' = TRUE
  /\ UNCHANGED <<driver, bench, usb, clock, pc, job, bounds>>

\* USB_EVENT_CONFIGURED, in an interrupt.
Configured ==
  /\ cable /\ ~usb /\ usb' = TRUE
  /\ UNCHANGED <<driver, bench, cable, clock, pc, job, bounds>>

Fresh == [k \in Kinds |-> [valid |-> FALSE, enabled |-> FALSE]]

\* sduObjectInit leaves the queues suspended, whether the cable is in or not.
Restart ==
  /\ s_active_bus' = 1 /\ s_bus' = [k \in Kinds |-> 1] /\ s_state' = Fresh
  /\ reply_id' = SameId /\ wire' = <<>> /\ usb' = FALSE
  /\ host_age' = 0 /\ stop_age' = RESEND_PERIOD_MS + 1 /\ w_lag' = 0
  /\ pc' = [t \in {"cmd", "wd"} |-> "idle"] /\ job' = <<>>
  /\ UNCHANGED <<drive, cable, faults, unplugs>>

\* The command BOOT.
Boot ==
  /\ pc["cmd"] = "idle" /\ usb
  /\ resets < MaxResets /\ resets' = resets + 1
  /\ Restart

\* The main thread, which feeds the IWDG, is starved as well.
Iwdg ==
  /\ pc["cmd"] = "idle" /\ ~usb
  /\ resets' = resets
  /\ Restart

Init ==
  /\ s_active_bus = 1 /\ s_bus = [k \in Kinds |-> 1] /\ s_state = Fresh
  /\ reply_id = SameId
  /\ drive = [k \in Kinds |-> [started |-> FALSE, moving |-> FALSE]]
  /\ wire = <<>> /\ cable = TRUE /\ usb = FALSE
  /\ host_age = 0 /\ stop_age = RESEND_PERIOD_MS + 1 /\ w_lag = 0
  /\ pc = [t \in {"cmd", "wd"} |-> "idle"] /\ job = <<>>
  /\ faults = 0 /\ resets = 0 /\ unplugs = 0

Host ==
  \/ HostByte \/ StopAll \/ handle_rmd \/ handle_gim \/ handle_odrive
  \/ \E b \in Buses : SelectBus(b)
  \/ \E same \in MasterIds : MasterId(same)

Next ==
  \/ Host \/ CmdStep \/ WatchStep \/ Receive \/ Heartbeat
  \/ Tick \/ Unplug \/ Plug \/ Configured \/ Boot \/ Iwdg

\* Threads that can run do, time passes, replies and heartbeats arrive, a host
\* configures a device it finds; beyond that it promises nothing.
Fairness ==
  /\ WF_vars(CmdStep) /\ WF_vars(WatchStep) /\ WF_vars(Receive)
  /\ WF_vars(Heartbeat) /\ WF_vars(Tick) /\ WF_vars(Configured)
  /\ WF_vars(Iwdg)

Spec == Init /\ [][Next]_vars /\ Fairness

-----------------------------------------------------------------------------
Silent == host_age > TIMEOUT_MS

\* No motor turns which the tool has heard of on the selected bus.
Stopped == \A k \in Kinds : Stops(k) /\ s_bus[k] = Wired => ~drive[k].moving

(***************************************************************************)
(* A host that falls silent does not leave a motor turning which the tool  *)
(* has heard of on the selected bus, though stop frames may be lost: they  *)
(* are sent again every RESEND_PERIOD_MS.  This needs the cable in: pulled *)
(* and put back it may be, but a watchdog without one never runs.          *)
(***************************************************************************)
SilenceStops == <>[](Silent /\ cable) => <>[]Stopped

(***************************************************************************)
(* README.md of Motor_tool: when the cable is unplugged the tool "actively *)
(* stops/disables every motor it has ever touched".  That is, if the cable *)
(* stays out, no motor keeps turning.                                      *)
(***************************************************************************)
UnpluggedStops == <>[]~cable => <>[](\A k \in Kinds : ~drive[k].moving)
=============================================================================
