SPECIFICATION Spec
CONSTANTS
    Coins = {c1, c2}
    Window = 1
    MaxSameSide = 1
    Skew = 1
    RegimeCoin = c1
    EmaPeriod = 2
    MinGrowth = 50
    Interests = {2, 3}
    Threshold = 2
    Warmup = 2
    Cooldown = 2
    Sizes = {1, 3}
    MaxBars = 4
    SignalCap = 1
    Bounds <- MCBounds
INVARIANT SignalBacked
INVARIANT SignalsSpaced
INVARIANT BarsCounted
INVARIANT BreadthBounds
CHECK_DEADLOCK FALSE
