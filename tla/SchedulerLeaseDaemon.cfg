SPECIFICATION Spec
CONSTANTS
    Schedulers = {s1, s2}
    NoOne = NoOne
    Daemons <- MCAllDaemons
    LeaseTime = 2
    Period = 2
    MaxLag = 1
    MaxDue = 1
    MaxFaults = 0
    MaxStops = 1
    MaxCollisions = 0
INVARIANTS DaemonExitReleases
