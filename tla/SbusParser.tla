----------------------------- MODULE SbusParser -----------------------------
(***************************************************************************)
(* SbusParser::update (coms/SBUS.cpp) byte by byte, on a line that loses   *)
(* and garbles bytes.  SBUS has no escape: a channel byte may look like a  *)
(* header, and the parser has no other way to find the beginning of a      *)
(* frame.  A byte is what the parser tells apart; what a frame says (its   *)
(* channels and flags) is a content.  The drain reads the bytes of several *)
(* passes or of none at once; the parser cannot tell, so a step is a byte. *)
(***************************************************************************)
EXTENDS Naturals

CONSTANTS FRAME,          \* bytes of a frame: header, channels, flags, footer (25)
          Content,        \* what a frame says
          Mixed           \* what a block says that is not one frame of the receiver

ASSUME FrameAssumption == FRAME \in Nat /\ FRAME >= 3
ASSUME MixedAssumption == Mixed \notin Content

VARIABLES
  at,                     \* the receiver: the next byte of its frame ...
  frame, sent,            \* ... the frame it is sending, and the last one sent
  calm,                   \* history: frame ends since the last disturbance, up to 3
  _state, _count,         \* SbusParser
  _buf,                   \* what the bytes gathered say
  _ch                     \* what the parser has decoded last

line == <<at, frame, sent, calm>>
vars == <<line, _state, _count, _buf, _ch>>

Bytes == {"0x0F", "0x00", "other"}

\* The bytes the receiver may send at place i of a frame.
ByteAt(i) == IF i = 0 THEN {"0x0F"} ELSE IF i = FRAME - 1 THEN {"0x00"} ELSE Bytes

-----------------------------------------------------------------------------
\* What the buffer says with one byte more: genuine means that the byte is
\* the one the receiver sent at this place of its frame.
Gathered(genuine) ==
  IF genuine /\ _count = at /\ (at = 0 \/ _buf = frame) THEN frame ELSE Mixed

WaitStart(b, genuine) ==
  /\ _state = "WAIT_START"
  /\ IF b = "0x0F"
     THEN _state' = "IN_FRAME" /\ _count' = 1 /\ _buf' = Gathered(genuine)
     ELSE UNCHANGED <<_state, _count, _buf>>
  /\ UNCHANGED _ch

\* Mutant: after a block without a footer the parser goes on gathering.
InFrame_KeepsGathering(b, genuine) ==
  /\ _state = "IN_FRAME"
  /\ _buf' = Gathered(genuine)
  /\ IF _count + 1 = FRAME
     THEN /\ _ch' = IF b = "0x00" THEN _buf' ELSE _ch
          /\ _state' = IF b = "0x00" THEN "WAIT_START" ELSE "IN_FRAME"
          /\ _count' = 0
     ELSE _count' = _count + 1 /\ UNCHANGED <<_state, _ch>>

InFrame(b, genuine) ==
  /\ _state = "IN_FRAME"
  /\ _buf' = Gathered(genuine)
  /\ IF _count + 1 = FRAME
     THEN /\ _ch' = IF b = "0x00" THEN _buf' ELSE _ch
          /\ _state' = "WAIT_START"
          /\ _count' = 0
     ELSE _count' = _count + 1 /\ UNCHANGED <<_state, _ch>>

update(b, genuine) == WaitStart(b, genuine) \/ InFrame(b, genuine)

-----------------------------------------------------------------------------
\* The receiver goes on to its next byte, or to its next frame.
Send(disturbed) ==
  /\ at' = IF at = FRAME - 1 THEN 0 ELSE at + 1
  /\ IF at = FRAME - 1
     THEN sent' = frame /\ frame' \in Content
     ELSE UNCHANGED <<sent, frame>>
  /\ calm' = IF disturbed THEN 0
             ELSE IF at = FRAME - 1 /\ calm < 3 THEN calm + 1 ELSE calm

\* A byte that looks like a header disturbs a parser that is not yet in step.
Deliver(b) ==
  /\ b \in ByteAt(at)
  /\ Send(b = "0x0F" /\ at > 0 /\ calm < 2)
  /\ update(b, TRUE)

Lose == Send(TRUE) /\ UNCHANGED <<_state, _count, _buf, _ch>>

Garble(b) == Send(TRUE) /\ update(b, FALSE)

\* The receiver may have been sending for a while when the robot boots.
Init ==
  /\ at \in 0 .. FRAME - 1 /\ frame \in Content /\ sent \in Content /\ calm = 0
  /\ _state = "WAIT_START" /\ _count = 0 /\ _buf = Mixed /\ _ch = Mixed

Next == (\E b \in Bytes : Deliver(b) \/ Garble(b)) \/ Lose

Spec == Init /\ [][Next]_vars

-----------------------------------------------------------------------------
TypeOK ==
  /\ at \in 0 .. FRAME - 1 /\ {frame, sent} \subseteq Content /\ calm \in 0 .. 3
  /\ {_buf, _ch} \subseteq Content \cup {Mixed}
  /\ \/ _state = "WAIT_START" /\ _count = 0
     \/ _state = "IN_FRAME" /\ _count \in 1 .. FRAME - 1

(***************************************************************************)
(* However the parser lost its place (it starts in the middle of a frame,  *)
(* a byte is lost or garbled), at most the rest of that frame and the next *)
(* one are spoilt: from the second whole frame on, the channels and flags  *)
(* decoded are those of the latest frame the receiver has sent, whatever   *)
(* its bytes.  Only a channel byte that looks like a header in those two   *)
(* frames can delay this, by two more.                                     *)
(***************************************************************************)
Resynchronises == calm = 3 => _ch = sent

\* What makes it inductive.  After the first frame end the parser is in step,
\* or it waits for a header, or it is inside a block that ends with this frame
\* at the latest; after the second it is in step and gathers one frame.
InStep == _count = at
SyncInv ==
  /\ calm >= 1 => InStep \/ _state = "WAIT_START" \/ _count > at
  /\ calm >= 2 => InStep /\ (at > 0 => _buf = frame)
  /\ Resynchronises
=============================================================================
