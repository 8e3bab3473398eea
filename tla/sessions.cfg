SPECIFICATION Spec
CONSTANTS
    Configs = {c1, c2}
    Empty = Empty
    Torn = Torn
    MaxRuns = 2
    MaxTime = 2
    MaxFaults = 2
INVARIANT NoRunForgotten
INVARIANT CleanMeansStopped
INVARIANT CoverageCountsOnce
INVARIANT Attributable
SYMMETRY Symmetry
CHECK_DEADLOCK FALSE
