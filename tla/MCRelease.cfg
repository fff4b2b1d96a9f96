SPECIFICATION Spec
CONSTANTS
    N = 3
    Modes <- MCModes
    MaxFaults = 3
INVARIANTS
    TypeOK
    EnergisedFollowsNamed
    ReleasedUnlessSlipped
PROPERTIES
    StopEnds
CHECK_DEADLOCK FALSE
