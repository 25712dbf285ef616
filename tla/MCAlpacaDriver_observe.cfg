SPECIFICATION FairDriver
CONSTANTS
    Qty = 3
    MaxReports = 4
    MaxPolls = 3
INVARIANTS DriverTypeOK AnswerIsTrue CountedOncePerSource
PROPERTY Answers
CHECK_DEADLOCK FALSE
