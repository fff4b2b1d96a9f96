SPECIFICATION Spec
CONSTANTS
    N = 3
    Modes <- MCModes
    MaxFaults = 3
INVARIANT EnergisedIsReported
CHECK_DEADLOCK FALSE
