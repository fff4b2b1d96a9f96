------------------------------ MODULE MCRollout ------------------------------
(* RolloutController, and in it RtcEngine, for TLC.                        *)
EXTENDS RolloutController
==============================================================================
