SPECIFICATION CrashSpec
CONSTANTS
    pos = pos
    stamp = stamp
    Words <- MCWords
    SeqMod = 6
    MaxRetries = 2
    MaxAttempts = 3
    MaxCrashes = 1
INVARIANT NoTornRead
