SPECIFICATION FairSpec
CONSTANTS
    Clients = {s1}
    SetupClients = {s1}
    Senders = {worker}
    Buckets = {0}
    MaxChannels = 1
    MaxMessages = 1
    HelperMayDie = TRUE
PROPERTY SendTimesOut
CHECK_DEADLOCK FALSE
