SPECIFICATION FairSpec
CONSTANTS
  Tx = {1, 2, 3}
  NoTx = NoTx
  Genesis = Genesis
  MaxCrashes = 2
  MaxFaults = 0
  StartupScan = TRUE
  UseRunner = FALSE
INVARIANTS QuarantineFreezesAdmission
PROPERTIES InFlightSettles 
