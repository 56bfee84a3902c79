CONSTANTS
    MaxTime = 12
    Lengths = {3}
    Grace = 1
    Settle = 1
    Slack = 2
    IdleTime = 2
    Dedupe = 3
    MaxRun = 8
    SaveDelay = 1
    Gap = 4
    MaxTrouble = 0
    None = None
CHECK_DEADLOCK FALSE
SPECIFICATION Spec
INVARIANTS IdleRunRecorded
