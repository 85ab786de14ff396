SPECIFICATION FairSpec
CONSTANTS
    Cpus = {p1, p2, p3}
    Callers = {t1}
    Requests = {"start", "stop", "sleep", "resume", "unload"}
    LaunchFailures <- TogetherOnly
    MaxHvms = 3
    NoCpu = NoCpu
INVARIANT MemoryOutlivesVmx
INVARIANT AllOrNothing
INVARIANT NothingLeaks
INVARIANT ShieldSound
PROPERTY RequestReturns
