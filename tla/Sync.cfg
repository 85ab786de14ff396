SPECIFICATION Spec
CONSTANTS
    Threads = {t1, t2, t3}
    NoThread = NoThread
INVARIANT AllMeet
INVARIANT Exclusion
INVARIANT NoStandstill
