----------------------------- MODULE MCRelease ------------------------------
(* Release for TLC: three servos, in PWM mode or left in position mode, so *)
(* that a stage has a first, a middle and a last servo, and three faults,  *)
(* enough for a lost write and a lost readback of one servo, or for a late *)
(* answer that passes for those of two servos whose writes were lost.      *)
EXTENDS Release

MCModes == {0, 2}

=============================================================================
