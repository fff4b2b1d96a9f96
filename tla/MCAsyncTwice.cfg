SPECIFICATION Spec
CONSTANTS
    None = None
    Chunk = 3
    Refill = 1
    MaxStep = 4
    MaxFaults = 1
    Straggler = FALSE
PROPERTIES
    PerformedOnce
CHECK_DEADLOCK FALSE
