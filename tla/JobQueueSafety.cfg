SPECIFICATION BothSpec
CONSTANTS
    Jobs = {j1, j2}
    NoJob = NoJob
    Workers = {w1, w2}
    NoWorker = NoWorker
    SkipLocked = TRUE
    MaxRetries = 1
    RetryBase = 1
    RetryCap = 2
    LockTimeout = 2
    MaxRun = 2
    EnqueueDelays <- MCEnqueueDelays
    DeferDelays <- MCDeferDelays
    MaxLate = 1
    MaxFaults = 2
    MaxStops = 1
    MaxDefers = 1
SYMMETRY Symmetry
INVARIANTS TypeOK OneExecutor NeverOvercharged NoneStranded
PROPERTIES ImplementsLifecycle
