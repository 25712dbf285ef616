SPECIFICATION Spec
CONSTANTS
  Tx = {1, 2}
  NoTx = NoTx
  Genesis = Genesis
  MaxCrashes = 1
  MaxFaults = 0
  StartupScan = TRUE
  UseRunner = FALSE
INVARIANTS NoFork
