---------------------------- MODULE MCDriveLoop -----------------------------
(* DriveLoop for TLC.  The network asks for more than FfMax, and the sum   *)
(* with the feedback goes over Cap.  A packet goes stale before an input   *)
(* does, and a command can keep the loop past the watchdog.                *)
EXTENDS DriveLoop

MCFeedback == {1}
MCLearned == {3}

=============================================================================
