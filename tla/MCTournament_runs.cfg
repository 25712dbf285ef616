SPECIFICATION Spec
CONSTANTS
    Slots = {A, B}
    Catalog = 3
    Window = 3
    MaxAttempts = 2
    MaxWaits = 1
    MaxBars = 5
    MaxDrops = 2
    MaxFaults = 2
INVARIANTS TypeOK Synchronized StoppedForItsCause SealedAtEnd
PROPERTIES ImplementsLockstep RiskHaltIsFinal EpisodeEnds
CHECK_DEADLOCK FALSE
