SPECIFICATION Spec
CONSTANTS
    Prices = {975, 1000, 1002, 1008}
    StopWidths = {0, 20}
    FeeBuffer = 1
    Trigger = 2
    Callback = 6
    Reversion = TRUE
    MinHold = 3
    MaxHold = 6
    Gap = 4
    Debounce = 5
    Slippage = 10
    LiveModes = {TRUE, FALSE}
    MaxTime = 12
    MaxStep = 5
CHECK_DEADLOCK FALSE
INVARIANT ArmedNeverUnderwater
INVARIANT HoldEnds
INVARIANT PeakLagBounded
PROPERTY StopNeverLoosens
