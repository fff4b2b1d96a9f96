SPECIFICATION Spec
CONSTANTS
    Unknown = Unknown
    N = 1
    Initial <- MCInitial
    Commands <- MCCommands
    ModeAttempts = 2
    MaxCommands = 2
    MaxFaults = 1
INVARIANTS
    TypeOK
    AckedModeIsSet
    BeliefHoldsUnlessFailed
PROPERTIES
    TakenIsAcked
CHECK_DEADLOCK FALSE
