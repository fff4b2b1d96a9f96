SPECIFICATION Spec
CONSTANTS
    Unknown = Unknown
    N = 1
    Initial <- MCInitial
    Commands <- MCCommands
    ModeAttempts = 2
    MaxCommands = 2
    MaxFaults = 2
INVARIANT BeliefIsExact
CHECK_DEADLOCK FALSE
