SPECIFICATION Spec
CONSTANTS
    a = a
    b = b
    Coins = {a, b}
    NoCoin = NoCoin
    WatchLists = {{a, b}, {}}
    DryRuns = {FALSE}
    MakerModes = {TRUE, FALSE}
    MaxLots = 1
    Faults = {"restart", "lost", "disk", "noprice", "liquidation"}
SYMMETRY Symmetry
INVARIANT EveryLotManaged
