--------------------------- MODULE MCControlValues ---------------------------
(***************************************************************************)
(* Values for ControlValues: angles in 5 mrad, speeds in rad/s, torques in *)
(* Nm.  Hip 1 and the wheel are mirrored, hip 4 is not.                    *)
(***************************************************************************)
EXTENDS ControlValues

Mirrored(m) == m \in {1, 5}

MCSign   == [m \in Hip \cup Wheel |-> IF Mirrored(m) THEN -1 ELSE 1]
MCOffset == [m \in Hip |-> IF Mirrored(m) THEN 666 ELSE 748]

\* ANGLE_MIN and ANGLE_MAX of the hips, the ramps' rated speeds and margins.
MCAngleMin    == -290
MCVelLimit    == [m \in Hip \cup Wheel |-> IF m \in Hip THEN 20 ELSE 60]
MCVelMargin   == [m \in Hip \cup Wheel |-> IF m \in Hip THEN 4 ELSE 10]
MCTorqueLimit == [m \in Hip \cup Wheel |-> IF m \in Hip THEN 12 ELSE 8]

\* At both stops and within the margin of one of them, a different one for
\* each hip; at the speed limit, and within the margin of the other one.
MCAngles == [m \in Hip |-> {MCOffset[m] + MCSign[m] * a :
                             a \in {-290, 90, IF Mirrored(m) THEN -280 ELSE 70}}]
MCSpeeds == [m \in Hip \cup Wheel |-> IF m \in Hip THEN {-20, 18} ELSE {-61, 52}]
MCTorques == {-15, 10}
==============================================================================
