SPECIFICATION FairSpec
CONSTANTS
    Cap = 2
    QueueCap = 1
    FlushEvery = 2
    Backoff0 = 10
    BackoffMax = 30
    DiskFails = TRUE
    MaxSent = 3
INVARIANT NothingLostInside
INVARIANT RecordingFollowsStrategy
PROPERTY BackoffGrows
PROPERTY MarksServed
