CONSTANTS
    MaxTime = 14
    Lengths = {4}
    Grace = 1
    Settle = 1
    Slack = 2
    IdleTime = 2
    Dedupe = 3
    MaxRun = 8
    SaveDelay = 1
    Gap = 4
    MaxTrouble = 2
    None = None
CHECK_DEADLOCK FALSE
SPECIFICATION Spec
INVARIANTS TypeOK EachRunOnce OwnLiters RowsApart RowsBounded
