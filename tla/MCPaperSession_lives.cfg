SPECIFICATION Spec
CONSTANTS
    Bars = {b1, b2, b3}
    None = None
    Quantities = {1, 2}
    MaxPosition = 1
    MaxLoss = 1
    MaxDecisions = 3
    MaxLives = 2
    MaxDisturbances = 1
SYMMETRY BarSymmetry
INVARIANTS TypeOK BarDecidedOnce KillOnlyCloses RestartLosesNothing TradingStopsAtBreak
CHECK_DEADLOCK FALSE
