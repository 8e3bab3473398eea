SPECIFICATION Spec
CONSTANTS
    Coins = {c1, c2}
    MaxConcurrent = 1
    Unit = 100
    MakerFee = 1
    TakerFee = 2
    Slippage = 1
    TakeProfit = 8
    StopLoss = 4
    Callback = 3
    Trigger = 5
    Buffer = 1
    TimeStop = 2
    FillTimeout = 2
    Prices = {100, 106, 110}
    MaxPrints = 4
INVARIANT Accounted
INVARIANT BooksAgree
PROPERTY KeepsTheBook
CHECK_DEADLOCK FALSE
