SPECIFICATION Spec
CONSTANTS
    Clients = {s1, s2}
    SetupClients = {s1}
    Senders = {worker}
    Buckets = {0}
    MaxChannels = 2
    MaxMessages = 2
    HelperMayDie = FALSE
INVARIANT OneDestroyer
INVARIANT NoChannelLeft
