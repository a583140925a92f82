----------------------------- MODULE MCRadioLink -----------------------------
(***************************************************************************)
(* Small instance of RadioLink.  The stick vectors are the corner cases of *)
(* the accessors: the arm switch on either side of the centre and on it,   *)
(* the height stick centred, at both edges of the deadband and far out.    *)
(***************************************************************************)
EXTENDS RadioLink

Vector(arm, height, mode) ==
  [c \in Channel |-> CASE c = "arm"    -> arm
                       [] c = "height" -> height
                       [] c = "mode"   -> mode
                       [] OTHER        -> CENTRE]

MCSticks == { Vector(a, h, m) : a \in {172, 991, 992},
                                h \in {951, 952, 992, 1032, 1033, 1811},
                                m \in {172, 1811} }
=============================================================================
