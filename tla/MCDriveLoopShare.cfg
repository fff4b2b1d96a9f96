SPECIFICATION Spec
CONSTANTS
    Timeout = 1
    Staleness = 0
    MaxBlind = 2
    MaxBlock = 1
    Feedback <- MCFeedback
    Learned <- MCLearned
    FfMax = 2
    FfSlew = 1
    Cap = 2
INVARIANT FeedforwardIsShare
