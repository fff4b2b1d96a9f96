SPECIFICATION Spec
CONSTANTS
    Unknown = Unknown
    pan = pan
    lift = lift
    Motors <- MCMotors
    Commanded <- MCCommanded
    Resolution = 12
    Budget = 1
    MaxBlind = 3
    Margin = 1
    Unconstrained = 11
    Reachable <- MCReachable
    Calibrations <- MCCalibrations
    FalseCounts <- MCFalseCounts
    BlindBound = 4
INVARIANTS
    TypeOK
    DrivesFromRecentPosition
    SeesAgainAfterTwo
PROPERTIES
    CorroboratedJump
