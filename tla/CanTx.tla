------------------------------- MODULE CanTx -------------------------------
(***************************************************************************)
(* can_send and can_send_rtr of coms/CAN.cpp with their diagnostic         *)
(* counters, and motor_record_tx of CANMotor.cpp.  ControlThread,          *)
(* WheelSendThread and USBCmdThread send on bus 1.  The counters of a bus  *)
(* are incremented without a lock (a load and a store), a motor's under    *)
(* motor_state_mtx.  A thread is preempted only by one of higher priority. *)
(***************************************************************************)
EXTENDS Integers, FiniteSets

CONSTANTS Threads,     \* sending threads, numbered by priority
          MaxCalls     \* bound: calls in a behaviour

BoundsAssumption == Threads \subseteq Nat /\ IsFiniteSet(Threads) /\ MaxCalls \in Nat

Result == {"ok", "fail"}

VARIABLES
  pc,                  \* "idle", "sending", "count", "store", "record"
  res,                 \* the result of each thread's transmission
  reg,                 \* the counter value each thread has loaded
  tx,                  \* s_diag[].tx_ok and tx_fail
  motor_tx,            \* a motor's tx_ok and tx_fail
  returned             \* history: transmissions that ended, by result

vars == <<pc, res, reg, tx, motor_tx, returned>>

Running(t) == pc[t] \in {"count", "store", "record"}

\* A thread computes only while no higher one does; a sending thread waits
\* for a free transmit buffer and may be overtaken.
May(t) == \A u \in Threads : u > t => ~Running(u)

Call(t) ==
  /\ pc[t] = "idle" /\ May(t)
  /\ returned["ok"] + returned["fail"]
       + Cardinality({u \in Threads : pc[u] # "idle"}) < MaxCalls
  /\ pc' = [pc EXCEPT ![t] = "sending"]
  /\ UNCHANGED <<res, reg, tx, motor_tx, returned>>

\* canTransmitTimeout: a buffer frees up, or timeout_ms passes.
canTransmit(t) ==
  /\ pc[t] = "sending" /\ May(t)
  /\ \E r \in Result :
       /\ res' = [res EXCEPT ![t] = r]
       /\ returned' = [returned EXCEPT ![r] = @ + 1]
  /\ pc' = [pc EXCEPT ![t] = "count"]
  /\ UNCHANGED <<reg, tx, motor_tx>>

CountLoad(t) ==
  /\ pc[t] = "count" /\ May(t)
  /\ reg' = [reg EXCEPT ![t] = tx[res[t]]]
  /\ pc' = [pc EXCEPT ![t] = "store"]
  /\ UNCHANGED <<res, tx, motor_tx, returned>>

\* Mutant: a failure is counted in both counters.
Counted_Both(t) == [r \in Result |-> IF r = res[t] \/ res[t] = "fail" THEN reg[t] + 1 ELSE tx[r]]

Counted(t) == [tx EXCEPT ![res[t]] = reg[t] + 1]

CountStore(t) ==
  /\ pc[t] = "store" /\ May(t)
  /\ tx' = Counted(t)
  /\ pc' = [pc EXCEPT ![t] = "record"]
  /\ UNCHANGED <<res, reg, motor_tx, returned>>

\* motor_record_tx: the mutex makes the increment one step.
motor_record_tx(t) ==
  /\ pc[t] = "record" /\ May(t)
  /\ motor_tx' = [motor_tx EXCEPT ![res[t]] = @ + 1]
  /\ pc' = [pc EXCEPT ![t] = "idle"]
  /\ UNCHANGED <<res, reg, tx, returned>>

Init ==
  /\ pc = [t \in Threads |-> "idle"]
  /\ res = [t \in Threads |-> "ok"]
  /\ reg = [t \in Threads |-> 0]
  /\ tx = [r \in Result |-> 0]
  /\ motor_tx = [r \in Result |-> 0]
  /\ returned = [r \in Result |-> 0]

Next == \E t \in Threads :
  Call(t) \/ canTransmit(t) \/ CountLoad(t) \/ CountStore(t) \/ motor_record_tx(t)

Spec == Init /\ [][Next]_vars

-----------------------------------------------------------------------------
(***************************************************************************)
(* The bus counters may lose a transmission but never invent one: a        *)
(* nonzero tx_fail always means a frame that did not go out.               *)
(***************************************************************************)
DiagNeverOver == \A r \in Result : tx[r] <= returned[r]
=============================================================================
