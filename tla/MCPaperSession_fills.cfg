SPECIFICATION Spec
CONSTANTS
    Bars = {b1, b2}
    None = None
    Quantities = {1, 2}
    MaxPosition = 1
    MaxLoss = 1
    MaxDecisions = 2
    MaxLives = 2
    MaxDisturbances = 0
INVARIANTS PassMeansFillsCounted
CHECK_DEADLOCK FALSE
