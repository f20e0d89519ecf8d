SPECIFICATION NewsSpec
CONSTANTS
    Runners = {r1, r2}
    Manual = Manual
    NeverFetched = NeverFetched
    Period = 3
    Lookback = 3
    Threshold = 2
    MaxLate = 1
    MaxRun = 3
    LastInstant = 8
    MaxManual = 1
    MaxFailures = 0
SYMMETRY Symmetry
INVARIANTS NeverStuck
CHECK_DEADLOCK FALSE
