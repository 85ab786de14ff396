SPECIFICATION Spec
CONSTANTS
    Cpus = {p1, p2}
    Callers = {t1}
    Requests = {"start"}
    LaunchFailures <- AnySubset
    MaxHvms = 1
    NoCpu = NoCpu
INVARIANT FinalizedWhenStopped
