SPECIFICATION Spec
CONSTANTS
    Qty = 2
    MaxReports = 3
INVARIANTS TypeOK TerminalIsTrue FillsAccounted
PROPERTIES ImplementsContract
