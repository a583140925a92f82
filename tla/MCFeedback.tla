----------------------------- MODULE MCFeedback -----------------------------
(***************************************************************************)
(* Values for Feedback: the frames on the two CAN buses.                   *)
(***************************************************************************)
EXTENDS Feedback

\* Three ids of bus 1 (one of them a hip's id in an extended frame), and on
\* bus 2 the battery monitor, an IMU id, and the same id in the other format.
Wire == { [bus |-> 1, id |-> 321, ext |-> FALSE], [bus |-> 1, id |-> 65, ext |-> FALSE],
          [bus |-> 1, id |-> 321, ext |-> TRUE], [bus |-> 2, id |-> 1, ext |-> FALSE],
          [bus |-> 2, id |-> 1, ext |-> TRUE], [bus |-> 2, id |-> 1092, ext |-> TRUE],
          [bus |-> 2, id |-> 9, ext |-> FALSE] }
=============================================================================
