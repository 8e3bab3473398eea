SPECIFICATION Spec
CONSTANTS
    Coins = {c1, c2}
    Collaterals = {5, 200}
    Fallback = 100
    Cross = FALSE
    Risks = {10, 95}
    Leverage = 10
    Factors = {50}
    BackoffBase = 1
    BackoffMax = 2
    Overflow = 3
    MaxUpdates = 2
SYMMETRY Symmetry
INVARIANT OrdersCovered
INVARIANT OnceEach
