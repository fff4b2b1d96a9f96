SPECIFICATION Spec
CONSTANTS
    None = None
    Chunk = 3
    Refill = 1
    MaxStep = 4
    MaxFaults = 1
    Straggler = TRUE
INVARIANTS
    QueueFollowsArm
CHECK_DEADLOCK FALSE
