SPECIFICATION FairSpec
CONSTANTS
    Levels = {97, 99, 100}
    Limit = 3
    MaxDay = 3
    MaxQueue = 3
    MidnightRace = TRUE
    Restarts = TRUE
CHECK_DEADLOCK FALSE
INVARIANT TypeOK
INVARIANT DrawdownLocks
PROPERTY NewDayOpens
PROPERTY LossAnswered
