SPECIFICATION FairSpec
CONSTANTS
    Clients = {s1}
    SetupClients = {s1}
    Senders = {w1, w2}
    Buckets = {0, 1}
    MaxChannels = 2
    MaxMessages = 2
    HelperMayDie = TRUE
INVARIANT NotFreedUnderSender
INVARIANT BucketsAccounted
INVARIANT AnswersMatch
PROPERTY TeardownCompletes
CHECK_DEADLOCK FALSE
