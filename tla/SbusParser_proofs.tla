------------------------- MODULE SbusParser_proofs -------------------------
(***************************************************************************)
(* SbusParser resynchronises, for every frame length and every content.    *)
(***************************************************************************)
EXTENDS SbusParser, TLAPS

IInv == TypeOK /\ SyncInv

\* Before the first byte the parser hunts for a header.
LEMMA InitInv == Init => IInv
BY FrameAssumption DEF Init, IInv, TypeOK, SyncInv, Resynchronises, InStep

(***************************************************************************)
(* A byte keeps the parser's count and state within their types, whichever *)
(* it is and wherever the parser stands.                                   *)
(***************************************************************************)
LEMMA UpdateType ==
  ASSUME TypeOK, NEW b \in Bytes, NEW genuine \in BOOLEAN, update(b, genuine)
  PROVE  /\ {_buf', _ch'} \subseteq Content \cup {Mixed}
         /\ \/ _state' = "WAIT_START" /\ _count' = 0
            \/ _state' = "IN_FRAME" /\ _count' \in 1 .. FRAME - 1
<1>1. Gathered(genuine) \in Content \cup {Mixed}
  BY DEF TypeOK, Gathered
<1>2. CASE WaitStart(b, genuine)
  BY <1>1, <1>2, FrameAssumption DEF WaitStart, TypeOK
<1>3. CASE InFrame(b, genuine)
  BY <1>1, <1>3, FrameAssumption DEF InFrame, TypeOK
<1>4. QED
  BY <1>2, <1>3 DEF update

\* The receiver at the other end keeps to its frame.
LEMMA SendType ==
  ASSUME TypeOK, NEW d \in BOOLEAN, Send(d)
  PROVE  at' \in 0 .. FRAME - 1 /\ {frame', sent'} \subseteq Content /\ calm' \in 0 .. 3
BY FrameAssumption DEF TypeOK, Send

(***************************************************************************)
(* A disturbance says nothing about what follows.                          *)
(***************************************************************************)
LEMMA DisturbedInv ==
  ASSUME calm' = 0
  PROVE  SyncInv'
BY DEF SyncInv, Resynchronises

(***************************************************************************)
(* A genuine byte on a calm line: the crux.  A block that began before the *)
(* frame ends before it does, so that the frame's end finds the parser     *)
(* waiting, and a parser in step decodes the frame at its footer.          *)
(***************************************************************************)
LEMMA DeliverInv ==
  ASSUME IInv, NEW b \in Bytes, Deliver(b)
  PROVE  SyncInv'
<1> USE FrameAssumption, MixedAssumption DEF IInv, TypeOK
<1> DEFINE disturbed == b = "0x0F" /\ at > 0 /\ calm < 2
<1>1. CASE disturbed
  BY <1>1, DisturbedInv DEF Deliver, Send
<1>2. CASE ~disturbed /\ _state = "WAIT_START"
  <2>1. b \in ByteAt(at) /\ Send(FALSE) /\ WaitStart(b, TRUE)
    BY <1>2 DEF Deliver, update, InFrame
  <2>2. CASE at = 0
    <3>1. b = "0x0F"
      BY <2>1, <2>2 DEF ByteAt
    <3>2. _count' = 1 /\ at' = 1 /\ _buf' = frame /\ _ch' = _ch
      BY <1>2, <2>1, <2>2, <3>1 DEF WaitStart, Gathered, Send
    <3>3. frame' = frame /\ sent' = sent /\ calm' = calm
      BY <2>1, <2>2 DEF Send
    <3>4. QED
      BY <3>2, <3>3 DEF SyncInv, Resynchronises, InStep
  <2>3. CASE at > 0
    <3>1. calm < 2
      BY <1>2, <2>3 DEF SyncInv, InStep
    <3>2. _state' = "WAIT_START" /\ _count' = 0
      BY <1>2, <2>1, <2>3, <3>1 DEF WaitStart
    <3>3. calm' = calm \/ (at' = 0 /\ calm' = calm + 1)
      BY <2>1 DEF Send
    <3>4. QED
      BY <3>1, <3>2, <3>3 DEF SyncInv, Resynchronises, InStep
  <2>4. QED
    BY <2>2, <2>3
<1>3. CASE ~disturbed /\ _state = "IN_FRAME"
  <2>1. b \in ByteAt(at) /\ Send(FALSE) /\ InFrame(b, TRUE)
    BY <1>3 DEF Deliver, update, WaitStart
  <2>2. CASE _count = at
    <3>1. at > 0 /\ at' = _count'
      <4>1. CASE _count + 1 = FRAME
        BY <1>3, <2>1, <2>2, <4>1 DEF InFrame, Send
      <4>2. CASE _count + 1 # FRAME
        BY <1>3, <2>1, <2>2, <4>2 DEF InFrame, Send
      <4>3. QED
        BY <4>1, <4>2
    <3>2. calm >= 2 => _buf' = frame
      BY <2>1, <2>2, <3>1 DEF InFrame, Gathered, SyncInv
    <3>3. CASE at = FRAME - 1
      <4>1. b = "0x00" /\ _ch' = _buf' /\ sent' = frame /\ at' = 0
        <5>1. b = "0x00" /\ _count + 1 = FRAME
          BY <2>1, <2>2, <3>1, <3>3 DEF ByteAt
        <5>2. QED
          BY <2>1, <3>3, <5>1 DEF InFrame, Send
      <4>2. calm' = 3 => calm >= 2
        BY <2>1 DEF Send
      <4>3. QED
        BY <3>1, <3>2, <4>1, <4>2 DEF SyncInv, Resynchronises, InStep
    <3>4. CASE at # FRAME - 1
      <4>1. frame' = frame /\ sent' = sent /\ calm' = calm /\ _ch' = _ch
        BY <2>1, <2>2, <3>4 DEF InFrame, Send
      <4>2. QED
        BY <3>1, <3>2, <4>1 DEF SyncInv, Resynchronises, InStep
    <3>5. QED
      BY <3>3, <3>4
  <2>3. CASE _count # at
    <3>1. calm < 2
      BY <2>3 DEF SyncInv, InStep
    <3>2. CASE at = FRAME - 1
      <4>1. calm = 0
        BY <1>3, <2>3, <3>2 DEF SyncInv, InStep
      <4>2. calm' = 1 /\ at' = 0
        BY <2>1, <3>2, <4>1 DEF Send
      <4>3. _count' \in Nat
        <5>1. CASE _count + 1 = FRAME
          BY <2>1, <5>1 DEF InFrame
        <5>2. CASE _count + 1 # FRAME
          BY <1>3, <2>1, <5>2 DEF InFrame
        <5>3. QED
          BY <5>1, <5>2
      <4>4. QED
        BY <4>2, <4>3 DEF SyncInv, Resynchronises, InStep
    <3>3. CASE at # FRAME - 1
      <4>1. calm' = calm /\ at' = at + 1
        BY <2>1, <3>3 DEF Send
      <4>2. calm >= 1 => _count > at
        BY <1>3, <2>3 DEF SyncInv, InStep
      <4>3. _state' = "WAIT_START" \/ _count' = _count + 1
        BY <2>1 DEF InFrame
      <4>4. QED
        BY <3>1, <4>1, <4>2, <4>3 DEF SyncInv, Resynchronises, InStep
    <3>4. QED
      BY <3>2, <3>3
  <2>4. QED
    BY <2>2, <2>3
<1>4. QED
  BY <1>1, <1>2, <1>3

\* Every byte and every disturbance keeps the invariant.
LEMMA NextInv == IInv /\ [Next]_vars => IInv'
<1> SUFFICES ASSUME IInv, [Next]_vars PROVE IInv'
  OBVIOUS
<1>1. ASSUME NEW b \in Bytes, Deliver(b) PROVE IInv'
  <2>1. TypeOK'
    BY <1>1, UpdateType, SendType DEF Deliver, IInv, TypeOK
  <2>2. QED
    BY <1>1, <2>1, DeliverInv DEF IInv
<1>2. ASSUME NEW b \in Bytes, Garble(b) PROVE IInv'
  <2>1. TypeOK'
    BY <1>2, UpdateType, SendType DEF Garble, IInv, TypeOK
  <2>2. calm' = 0
    BY <1>2 DEF Garble, Send
  <2>3. QED
    BY <2>1, <2>2, DisturbedInv DEF IInv
<1>3. CASE Lose
  <2>1. TypeOK'
    BY <1>3, SendType DEF Lose, IInv, TypeOK
  <2>2. calm' = 0
    BY <1>3 DEF Lose, Send
  <2>3. QED
    BY <2>1, <2>2, DisturbedInv DEF IInv
<1>4. CASE UNCHANGED vars
  BY <1>4 DEF IInv, TypeOK, SyncInv, Resynchronises, InStep, vars, line
<1>5. QED
  BY <1>1, <1>2, <1>3, <1>4 DEF Next

(***************************************************************************)
(* SbusParser::update finds its place again: at most the frame a byte of   *)
(* which was lost or garbled and the next one are spoilt, for every frame  *)
(* length and whatever the frames say.                                     *)
(***************************************************************************)
THEOREM FramingRecovers == Spec => []Resynchronises
<1>1. IInv => Resynchronises
  BY DEF IInv, SyncInv
<1>2. QED
  BY InitInv, NextInv, <1>1, PTL DEF Spec
=============================================================================
