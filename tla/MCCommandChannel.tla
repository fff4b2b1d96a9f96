-------------------------- MODULE MCCommandChannel --------------------------
(* CommandChannel for TLC: one servo, still locked and armed from another  *)
(* session, and two commands: one for each belief, the one that arms and   *)
(* locks the servo, and the one that ends the loop and names no servo.     *)
EXTENDS CommandChannel

MCInitial == {[mode |-> 0, torque |-> 1, lock |-> 1, offset |-> 0]}

MCCommands ==
    {[kind |-> "SetOperatingMode", motor |-> 1, value |-> 2],
     [kind |-> "SetCalibration", motor |-> 1, value |-> 1],
     [kind |-> "SetTorqueEnable", motor |-> 1, value |-> 1],
     [kind |-> "Shutdown", motor |-> 0, value |-> 0]}

=============================================================================
