SPECIFICATION Spec
CONSTANTS
    Timeout = 1
    Staleness = 0
    MaxBlind = 2
    MaxBlock = 1
    Feedback <- MCFeedback
    Learned <- MCLearned
    FfMax = 1
    FfSlew = 1
    Cap = 1
INVARIANT WatchdogHolds
