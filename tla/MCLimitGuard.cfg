SPECIFICATION GuardSpec
CONSTANTS
    Unknown = Unknown
    joint = joint
    Motors <- MCMotors
    Resolution = 16
    K = 1
    D = 1
    PwmMax = 3
    Threshold = 1
    Gain = 1
    PosMin = 2
    PosMax = 14
    Targets <- MCTargets
    Currents <- MCCurrents
    Offsets <- MCOffsets
    Stops <- MCStops
    Step = 1
    MaxUnseen = 2
INVARIANTS
    GuardTypeOK
    RemembersWhereItWas
    DrivenBackTheWayItLeft
