SPECIFICATION Spec
CONSTANTS
    MaxHits = 2
    DistanceLimit = 4
    CountLimit = 1
    DiffLimit = 5
    SkipShare = 20
    IntBits = 7
    Threads = {t1, t2}
    Addresses = {1, 3, 6}
    Deltas = {1, 4}
    Cpus = {0, 1}
    Boot = 0
    Self = 1
    CapSets <- AllCaps
    Cr3s = {c1, c2}
    MaxClock = 20
    MaxEvents = 4
    MaxOps = 3
    MaxSteps = 5
INVARIANT EntryAllowed
INVARIANT GuestReadsBack
INVARIANT TimeStampsTrap
INVARIANT ExitsEnd
INVARIANT TableSound
SYMMETRY Symmetric
CHECK_DEADLOCK FALSE
