SPECIFICATION FairSpec
CONSTANTS
    Cycles = {c1, c2}
    None = None
    MaxFaults = 2
    MaxCrashes = 2
INVARIANTS TypeOK CrashesKeepLedger AdmittedOncePerProcess LedgerTellsAdmission
PROPERTIES VetoHolds CycleReleased
