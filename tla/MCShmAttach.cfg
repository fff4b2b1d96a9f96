SPECIFICATION Spec
CONSTANTS
    Daemon = {d1, d2}
    Segment = {s1, s2, s3, s4}
    None = None
    Liveness = 2
    Overlap = FALSE
    TornGlance = FALSE
PROPERTIES
    ClientWaitsForDaemon
CHECK_DEADLOCK FALSE
