SPECIFICATION Spec
CONSTANTS
    MaxHits = 2
    DistanceLimit = 4
    CountLimit = 1
    DiffLimit = 5
    SkipShare = 20
    IntBits = 5
    Threads = {t1}
    Addresses = {1, 33}
    Deltas = {1}
    Cpus = {0, 1}
    Boot = 0
    Self = 1
    CapSets <- OneCap
    Cr3s = {c1}
    MaxClock = 15
    MaxEvents = 4
    MaxOps = 1
    MaxSteps = 5
INVARIANT DistanceAsserted
CHECK_DEADLOCK FALSE
