SPECIFICATION MFairSpec
CONSTANTS
    Size = 5
    Writers = {c1, c2}
    Readers = {worker}
    Byte <- MCByte
    MaxLen = 2
    NoThread = NoThread
    Rec = 2
    Worker = worker
    WorkerCpu = c1
    MaxPosts = 6
INVARIANT TypeOK
INVARIANT LockDiscipline
INVARIANT RecordsSound
INVARIANT RetrieveSucceeds
INVARIANT FreedWhenUnused
PROPERTY ImplementsByteQueue
PROPERTY ImplementsRecordQueue
PROPERTY RecordsLeave
PROPERTY StopReturns
PROPERTY LockIsReleased
