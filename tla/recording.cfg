SPECIFICATION FairRecording
CONSTANTS
    FlushLines = 2
    Late = 1
    MaxDay = 2
    MaxLines = 4
    MaxFaults = 2
INVARIANT CompactionLosesNothing
INVARIANT ReplayInOrder
INVARIANT OneLinePerTear
PROPERTY FinishedDaysArchived
CHECK_DEADLOCK FALSE
