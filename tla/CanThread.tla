----------------------------- MODULE CanThread -----------------------------
(***************************************************************************)
(* CANThread (threads.cpp) and can_check_busoff (coms/CAN.cpp): the loop   *)
(* that drains both receive FIFOs in turn and keeps the two FDCAN          *)
(* peripherals alive.  The frames themselves are the business of           *)
(* CanDispatch; here a FIFO is its fill level.  The peripheral (bus-off,   *)
(* INIT, the message-lost flag) is modelled from the bits the code reads   *)
(* and writes.                                                             *)
(***************************************************************************)
EXTENDS Naturals

CONSTANTS DEPTH,      \* elements of a receive FIFO
          CounterMod  \* the diagnostic counters are uint32_t: modulo 2^32

DepthAssumption == DEPTH \in Nat \ {0}
ModAssumption == CounterMod \in Nat /\ CounterMod > 1

Bus == {1, 2}
Other(b) == 3 - b
Inc(n) == (n + 1) % CounterMod

VARIABLES
  turn,               \* the bus whose receive call comes next
  fifo,               \* frames waiting in each FIFO
  lost_flag,          \* RXF0S.RF0L: set by an overrun, cleared by a stored frame
  hw,                 \* "ok", "off" (PSR.BO and INIT set), "recovering" (BO set)
  s_was_busoff, s_was_fifo_lost,
  busoff_count, rx_fifo_lost    \* the diagnostic counters

hvars == <<fifo, lost_flag, hw>>
dvars == <<s_was_busoff, s_was_fifo_lost, busoff_count, rx_fifo_lost>>
vars  == <<turn, hvars, dvars>>

Busoff(b) == hw[b] # "ok"

-----------------------------------------------------------------------------
(* The peripherals and the bus. *)

Arrive(b) ==
  /\ hw[b] = "ok"
  /\ IF fifo[b] < DEPTH
     THEN /\ fifo' = [fifo EXCEPT ![b] = @ + 1]
          /\ lost_flag' = [lost_flag EXCEPT ![b] = FALSE]
     ELSE /\ lost_flag' = [lost_flag EXCEPT ![b] = TRUE]
          /\ UNCHANGED fifo
  /\ UNCHANGED <<turn, hw, dvars>>

\* Going bus-off takes at least 32 failed frames, several loop periods: the
\* loop has seen the bus up since the last time.
GoBusOff(b) ==
  /\ hw[b] = "ok" /\ ~s_was_busoff[b]
  /\ hw' = [hw EXCEPT ![b] = "off"]
  /\ UNCHANGED <<turn, fifo, lost_flag, dvars>>

\* 128 x 11 recessive bits after INIT was cleared.
Rejoin(b) ==
  /\ hw[b] = "recovering"
  /\ hw' = [hw EXCEPT ![b] = "ok"]
  /\ UNCHANGED <<turn, fifo, lost_flag, dvars>>

-----------------------------------------------------------------------------
(* CANThread *)

\* Mutant: INIT is cleared for bus 1 only.
can_check_busoff_Bus1Only(b) ==
  /\ hw' = [hw EXCEPT ![b] = IF Busoff(b) /\ b = 1 THEN "recovering" ELSE @]
  /\ busoff_count' = [busoff_count EXCEPT ![b] = IF Busoff(b) /\ ~s_was_busoff[b] THEN Inc(@) ELSE @]
  /\ s_was_busoff' = [s_was_busoff EXCEPT ![b] = Busoff(b)]
  /\ UNCHANGED <<rx_fifo_lost, s_was_fifo_lost>>

\* Count rising edges, and clear INIT whenever the bus is off.
can_check_busoff(b) ==
  /\ hw' = [hw EXCEPT ![b] = IF Busoff(b) THEN "recovering" ELSE @]
  /\ busoff_count' =
       [busoff_count EXCEPT ![b] = IF Busoff(b) /\ ~s_was_busoff[b] THEN Inc(@) ELSE @]
  /\ s_was_busoff' = [s_was_busoff EXCEPT ![b] = Busoff(b)]
  /\ rx_fifo_lost' =
       [rx_fifo_lost EXCEPT ![b] = IF lost_flag[b] /\ ~s_was_fifo_lost[b] THEN Inc(@) ELSE @]
  /\ s_was_fifo_lost' = [s_was_fifo_lost EXCEPT ![b] = lost_flag[b]]

\* Mutant: bus 1 is drained before bus 2 gets its turn.
NextTurn_DrainFirst(b) == IF b = 1 /\ fifo[1] > 1 THEN 1 ELSE Other(b)

NextTurn(b) == Other(b)

\* One bus's half of the loop: at most one frame within 500 us, then the check.
Poll(b) ==
  /\ turn = b
  /\ turn' = NextTurn(b)
  /\ fifo' = [fifo EXCEPT ![b] = IF @ > 0 THEN @ - 1 ELSE 0]
  /\ can_check_busoff(b)
  /\ UNCHANGED lost_flag

Init ==
  /\ turn = 1
  /\ fifo = [b \in Bus |-> 0]
  /\ lost_flag = [b \in Bus |-> FALSE]
  /\ hw = [b \in Bus |-> "ok"]
  /\ s_was_busoff = [b \in Bus |-> FALSE]
  /\ s_was_fifo_lost = [b \in Bus |-> FALSE]
  /\ busoff_count = [b \in Bus |-> 0]
  /\ rx_fifo_lost = [b \in Bus |-> 0]

Next == \E b \in Bus : Arrive(b) \/ GoBusOff(b) \/ Rejoin(b) \/ Poll(b)

\* The loop never blocks for more than a millisecond, and a peripheral whose
\* INIT is clear finds its recessive bits.
Fairness == WF_vars(\E b \in Bus : Poll(b)) /\ \A b \in Bus : WF_vars(Rejoin(b))

Spec == Init /\ [][Next]_vars /\ Fairness

-----------------------------------------------------------------------------
(***************************************************************************)
(* Bus-off is never for good: without can_check_busoff the peripheral      *)
(* would stay silent forever (CAN.hpp).                                    *)
(***************************************************************************)
BusOffRecovers == \A b \in Bus : []<>(hw[b] = "ok")

(***************************************************************************)
(* A flood on one bus does not starve the other: its FIFO always drains.   *)
(***************************************************************************)
NeitherBusStarves == \A b \in Bus : []<>(fifo[b] < DEPTH)
=============================================================================
