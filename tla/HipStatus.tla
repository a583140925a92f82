----------------------------- MODULE HipStatus -----------------------------
(***************************************************************************)
(* The slow telemetry of the hips: ControlThread asks one hip for its 0x9A *)
(* status every POLL_TICKS ticks (can_motor_poll_status_round_robin), the  *)
(* replies set voltage_V, and telemetry_update averages the voltages of    *)
(* the valid hips.  Torque replies come far more often and make a hip      *)
(* valid too.                                                              *)
(***************************************************************************)
EXTENDS Naturals, Sequences, FiniteSetsExt

CONSTANTS
  POLL_TICKS,          \* 100 ticks of ControlThread
  Volts                \* readings of the battery voltage

PollAssumption == POLL_TICKS \in Nat \ {0} /\ Volts \subseteq Nat \ {0}

Hip == 1..4
Entries == <<"rmd", "rmd", "rmd", "rmd", "odrive", "odrive">>   \* s_entries, main.cpp
s_count == Len(Entries)

VARIABLES
  s_next,              \* where the next search starts, 0..s_count-1
  s_status_poll_tick,
  asked,               \* hips whose 0x9A request is on the bus
  valid,               \* the hips with g_motors[].valid
  voltage_V,           \* hip -> g_motors[].voltage_V
  battery_voltage_V    \* the sum and number of the published average

vars == <<s_next, s_status_poll_tick, asked, valid, voltage_V, battery_voltage_V>>

-----------------------------------------------------------------------------
(* ControlThread *)

\* The first RMD entry at or after s_next, 0-based.
Found == LET n == CHOOSE n \in 0..s_count-1 :
                    /\ Entries[((s_next + n) % s_count) + 1] = "rmd"
                    /\ \A j \in 0..n-1 : Entries[((s_next + j) % s_count) + 1] # "rmd"
         IN (s_next + n) % s_count

\* Mutant: the search starts again at the entry just found.
Advance_Stays == Found

Advance == (Found + 1) % s_count

\* The poll at the end of a tick.
ControlTick ==
  /\ s_status_poll_tick' = (s_status_poll_tick + 1) % POLL_TICKS
  /\ IF s_status_poll_tick + 1 >= POLL_TICKS
     THEN asked' = asked \cup {Found + 1} /\ s_next' = Advance
     ELSE UNCHANGED <<asked, s_next>>
  /\ UNCHANGED <<valid, voltage_V, battery_voltage_V>>

-----------------------------------------------------------------------------
(* CANThread: rmd_rx_cb.  A request or its reply may be lost. *)

StatusReply(h, v) ==
  /\ h \in asked
  /\ asked' = asked \ {h}
  /\ valid' = valid \cup {h}
  /\ voltage_V' = [voltage_V EXCEPT ![h] = v]
  /\ UNCHANGED <<s_next, s_status_poll_tick, battery_voltage_V>>

StatusLost(h) ==
  /\ h \in asked
  /\ asked' = asked \ {h}
  /\ UNCHANGED <<s_next, s_status_poll_tick, valid, voltage_V, battery_voltage_V>>

TorqueReply(h) ==
  /\ h \notin valid
  /\ valid' = valid \cup {h}
  /\ UNCHANGED <<s_next, s_status_poll_tick, asked, voltage_V, battery_voltage_V>>

-----------------------------------------------------------------------------
\* StateEstThread: telemetry_update's average, zero over no hips.
telemetry_update ==
  /\ battery_voltage_V' = [sum |-> MapThenSumSet(LAMBDA h : voltage_V[h], valid),
                           n |-> Cardinality(valid)]
  /\ UNCHANGED <<s_next, s_status_poll_tick, asked, valid, voltage_V>>

Init ==
  /\ s_next = 0 /\ s_status_poll_tick = 0 /\ asked = {}
  /\ valid = {} /\ voltage_V = [h \in Hip |-> 0]
  /\ battery_voltage_V = [sum |-> 0, n |-> 0]

Next ==
  \/ ControlTick
  \/ \E h \in Hip : \E v \in Volts : StatusReply(h, v)
  \/ \E h \in Hip : StatusLost(h) \/ TorqueReply(h)
  \/ telemetry_update

\* ControlThread is periodic; what is on the bus arrives or is lost.
Fairness == WF_vars(ControlTick) /\ \A h \in Hip : WF_vars(StatusLost(h) \/ \E v \in Volts : StatusReply(h, v))

Spec == Init /\ [][Next]_vars /\ Fairness

-----------------------------------------------------------------------------
(***************************************************************************)
(* Every hip is asked again and again, though the search skips the wheels  *)
(* and restarts from s_next: a fault flag of any hip is seen in the end.   *)
(***************************************************************************)
EveryHipPolled == \A h \in Hip : []<>(h \in asked)
=============================================================================
