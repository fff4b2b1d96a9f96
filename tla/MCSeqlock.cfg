SPECIFICATION Spec
CONSTANTS
    pos = pos
    stamp = stamp
    Words <- MCWords
    SeqMod = 6
    MaxRetries = 2
    MaxAttempts = 4
    MaxCrashes = 0
INVARIANTS
    TypeOK
    NoTornRead
PROPERTIES
    ReadIsCurrent
    RegisterSpec
    ReadEnds
