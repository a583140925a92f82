------------------------------ MODULE CalStore ------------------------------
(***************************************************************************)
(* What the calibration store promises (coms/CalFlash.hpp): one            *)
(* calibration or none is stored.  It changes only while an operation is   *)
(* under way, and then only to nothing or to the operation's own value: a  *)
(* failure or a power cut never leaves a mixture, nor brings back a value  *)
(* that has been given up.                                                 *)
(***************************************************************************)
CONSTANTS Cal,    \* the calibrations
          None    \* nothing valid is stored

VARIABLES
  stored,         \* what the next boot would load
  op              \* {}: no operation; {c}: storing c; {None}: clearing

Init == stored = None /\ op = {}

Begin(c) == op = {} /\ op' = {c} /\ UNCHANGED stored

\* The operation destroys the old value ...
Lose == op # {} /\ stored' = None /\ UNCHANGED op

\* ... and its own value appears.
Land == \E c \in Cal : op = {c} /\ stored = None /\ stored' = c /\ UNCHANGED op

\* The operation ends: done, failed, or cut off by the loss of power.  The
\* cut, or the failing step, may itself destroy the old value or complete the
\* new one.
End ==
  /\ op # {}
  /\ op' = {}
  /\ \/ stored' \in {stored, None}
     \/ stored = None /\ op = {stored'}

Next == (\E c \in Cal \cup {None} : Begin(c)) \/ Lose \/ Land \/ End

Spec == Init /\ [][Next]_<<stored, op>>
=============================================================================
