--------------------------- MODULE MCPositionSense --------------------------
(* PositionSense for TLC: two joints on a twelve-count encoder.  The pan's *)
(* travel of three counts crosses the seam in the raw frame, as every      *)
(* joint of the arm does, and is one more than it can move in a tick; the  *)
(* lift holds still.  Calibrations of opposite sign put the pan clear of   *)
(* the seam in the corrected frame, the third is the unswept one that      *)
(* covers the circle and yields no envelope.                               *)
EXTENDS PositionSense

CONSTANTS pan, lift

MCMotors == {pan, lift}
MCCommanded == {pan}
MCReachable == [m \in Motors |-> IF m = pan THEN {11, 0, 1} ELSE {0}]
MCFalseCounts == {3, 12}

BelowSeam == [min |-> 5, max |-> 7, offset |-> 6]
AboveSeam == [min |-> 2, max |-> 4, offset |-> -3]
Unswept == [min |-> 0, max |-> 11, offset |-> 0]
MCCalibrations ==
    [m \in Motors |-> IF m = pan THEN {BelowSeam, AboveSeam, Unswept} ELSE {BelowSeam}]

=============================================================================
