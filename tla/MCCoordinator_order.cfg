SPECIFICATION Spec
CONSTANTS
    Qty = 2
    MaxReports = 3
INVARIANT OrderingTolerant
