SPECIFICATION Spec
CONSTANTS
  Tx = {1, 2}
  NoTx = NoTx
  Genesis = Genesis
  MaxCrashes = 2
  MaxFaults = 2
  StartupScan = FALSE
  UseRunner = TRUE
INVARIANTS TypeOK ChainGrounded AbortedLeavesNoTrace AcknowledgedSurvives ScanSettles
PROPERTIES DecidedOnce ImplementsLedger
