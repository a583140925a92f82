---------------------------- MODULE BatteryInfo ----------------------------
(***************************************************************************)
(* Reassembly of DroneCAN BatteryInfo (coms/CANPower.cpp): the callback    *)
(* takes voltage and the low byte of the current from frame 1 of a         *)
(* transfer and the high byte from frame 2.  Power modules send their      *)
(* transfers frame by frame, interleaved with each other; a frame may be   *)
(* lost at this receiver (FIFO overrun, bus error).                        *)
(*                                                                         *)
(* The payload is abstracted to where it comes from: <<node, transfer,     *)
(* frame>>.  All callbacks run on CANThread, one frame at a time.          *)
(***************************************************************************)
EXTENDS Naturals

CONSTANTS
  Node,          \* the power modules on bus 2
  FRAMES,        \* frames of one transfer
  TidMod,        \* transfer IDs are 5 bits: modulo 32
  MaxTransfers,  \* bound: transfers a node sends
  MaxLost        \* bound: frames lost altogether

FramesAssumption == FRAMES \in Nat /\ FRAMES >= 3
TidAssumption == TidMod \in Nat \ {0}

VARIABLES
  sent,          \* sent[n] = <<transfer, frame>> node n has sent last
  lost,          \* number of lost frames
  missed,        \* history: the nodes whose last transfer has lost its frame 2
  s_pending,     \* the six s_pending_* statics
  g_power        \* what is published under power_mtx

vars == <<sent, lost, missed, s_pending, g_power>>

NoTransfer == <<>>

\* The fields of the tail byte, and whether the frame is full: only the last
\* frame of a transfer may be shorter than 8 bytes.
Frame(n, t, k) ==
  [node |-> n, tid |-> t % TidMod, sot |-> k = 1, toggle |-> k % 2 = 0,
   full |-> k < FRAMES, from |-> <<n, t, k>>]

FrameAfter(n) ==
  IF sent[n][2] = FRAMES THEN <<sent[n][1] + 1, 1>> ELSE <<sent[n][1], sent[n][2] + 1>>

\* What a start frame stashes: frame 2 must show the flipped toggle.
Pending(f) ==
  [valid |-> TRUE, node |-> f.node, tid |-> f.tid, toggle |-> ~f.toggle, from |-> f.from]

\* Mutant: the transfer ID is not compared.
Matches_AnyTid(f) == s_pending.valid /\ f.node = s_pending.node /\ f.toggle = s_pending.toggle

Matches(f) ==
  /\ s_pending.valid
  /\ f.node = s_pending.node
  /\ f.tid = s_pending.tid
  /\ f.toggle = s_pending.toggle

\* battery_info_cb.
battery_info_cb(f) ==
  \/ ~f.full /\ UNCHANGED <<s_pending, g_power>>
  \/ /\ f.full /\ f.sot
     /\ s_pending' = Pending(f)
     /\ UNCHANGED g_power
  \/ /\ f.full /\ ~f.sot /\ ~Matches(f)
     /\ UNCHANGED <<s_pending, g_power>>
  \/ /\ f.full /\ ~f.sot /\ Matches(f)
     /\ s_pending' = [s_pending EXCEPT !.valid = FALSE]
     /\ g_power' = [valid |-> TRUE, node |-> f.node,
                    voltage |-> s_pending.from, current |-> f.from]

Deliver(n) ==
  LET s == FrameAfter(n)
  IN  /\ s[1] <= MaxTransfers
      /\ sent' = [sent EXCEPT ![n] = s]
      /\ missed' = IF s[2] = 1 THEN missed \ {n} ELSE missed
      /\ battery_info_cb(Frame(n, s[1], s[2]))
      /\ UNCHANGED lost

Lose(n) ==
  LET s == FrameAfter(n)
  IN  /\ s[1] <= MaxTransfers
      /\ lost < MaxLost
      /\ sent' = [sent EXCEPT ![n] = s]
      /\ lost' = lost + 1
      /\ missed' = IF s[2] = 1 THEN missed \ {n} ELSE IF s[2] = 2 THEN missed \cup {n} ELSE missed
      /\ UNCHANGED <<s_pending, g_power>>

Init ==
  /\ sent = [n \in Node |-> <<0, FRAMES>>]
  /\ lost = 0 /\ missed = {}
  /\ s_pending = [valid |-> FALSE, node |-> CHOOSE n \in Node : TRUE, tid |-> 0,
                  toggle |-> FALSE, from |-> NoTransfer]
  /\ g_power = [valid |-> FALSE, node |-> CHOOSE n \in Node : TRUE,
                voltage |-> NoTransfer, current |-> NoTransfer]

Next == \E n \in Node : Deliver(n) \/ Lose(n)

Spec == Init /\ [][Next]_vars

-----------------------------------------------------------------------------
(***************************************************************************)
(* Voltage and current that are published together come from the same node *)
(* and, until more frames are lost than there are transfer IDs, from the   *)
(* same transfer: the callback tells transfers apart by a 5-bit ID only.   *)
(* The voltage is that of frame 1.  The current is that of frame 2 unless  *)
(* that frame was lost: then, the toggle being all that tells the frames   *)
(* of a transfer apart, a later frame is taken for it.                     *)
(***************************************************************************)
OneTransfer ==
  [][g_power' # g_power =>
       LET v == g_power'.voltage
           c == g_power'.current
       IN  /\ v[1] = g_power'.node /\ c[1] = g_power'.node
           /\ lost <= TidMod => v[2] = c[2]
           /\ v[3] = 1
           /\ c[3] = 2 \/ c[1] \in missed]_vars
=============================================================================
