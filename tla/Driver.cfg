SPECIFICATION DSpec
CONSTANTS
    c1 = c1
    c2 = c2
    p1 = p1
    p2 = p2
    Cpus = {c1, c2}
    Affinity <- Pinned
    Procs = {p1, p2}
    Entry = Entry
    Worker = Worker
    Null = Null
    NodesPerPage = 2
    MaxLives <- Lives
    MaxReports = 2
INVARIANT HoldersRunAtHigh
INVARIANT ListsSound
INVARIANT LockedUsersAreSafe
INVARIANT NothingStays
INVARIANT ExemptAreListed
CHECK_DEADLOCK FALSE
