SPECIFICATION Spec
CONSTANTS
    a = a
    b = b
    Coins = {a, b}
    NoCoin = NoCoin
    WatchLists = {{a, b}, {a}}
    DryRuns = {FALSE}
    MakerModes = {FALSE}
    MaxLots = 1
    Faults = {"restart"}
PROPERTY RecoveryAdoptsAll
