SPECIFICATION ProcessesSpec
CONSTANTS
    s1 = s1
    s2 = s2
    Schedulers = {s1, s2}
    NoOne = NoOne
    Daemons = {s2}
    LeaseTime = 1
    Period = 2
    MaxLag = 1
    MaxDue = 2
    MaxFaults = 1
    MaxStops = 1
    MaxCollisions = 1
    j1 = j1
    NoJob = NoJob
    w1 = w1
    w2 = w2
    NoWorker = NoWorker
INVARIANTS OneTick CleanExitReleases
PROPERTIES LeaseRespected ImplementsLoneScheduler DueTimeServed NoJobForgotten
