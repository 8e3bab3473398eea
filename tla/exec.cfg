SPECIFICATION FairSpec
CONSTANTS
    a = a
    b = b
    Coins = {a, b}
    NoCoin = NoCoin
    WatchLists = {{a, b}}
    DryRuns = {TRUE, FALSE}
    MakerModes = {TRUE, FALSE}
    MaxLots = 1
    Faults = {"restart"}
INVARIANT TypeOK
INVARIANT OneTradePerCoin
INVARIANT PositionsAreReal
INVARIANT AtMostOneLateEntry
INVARIANT FileAgrees
INVARIANT FileKnowsManaged
PROPERTY ExitsAreJournaled
PROPERTY NoEarlyReentry
PROPERTY PanicReachesAll
