---------------------------- MODULE MCLimitGuard ----------------------------
(* LimitGuard for TLC: a sixteen-count encoder with limits two counts off  *)
(* the seam on either side.  The end stops are further apart than a turn,  *)
(* so the joint can leave its limits on either side and cross the seam     *)
(* from either frame, and it moves less than half a turn while unseen.     *)
EXTENDS LimitGuard

CONSTANT joint

MCMotors == {joint}

MCTargets == {0, 5, 12}
MCCurrents == {0, -3}
MCOffsets == {0, -5}
MCStops == -7 .. 14

=============================================================================
