SPECIFICATION Spec
CONSTANTS
    Jobs = {j1}
    NoJob = NoJob
    Workers = {w1, w2}
    NoWorker = NoWorker
    SkipLocked = TRUE
    MaxRetries = 1
    RetryBase = 1
    RetryCap = 2
    LockTimeout = 2
    MaxRun = 2
    EnqueueDelays <- MCEnqueueDelays
    DeferDelays <- MCDeferDelays
    MaxLate = 1
    MaxFaults = 0
    MaxStops = 0
    MaxDefers = 0
INVARIANTS FailureRollsBack
