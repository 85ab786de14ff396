SPECIFICATION Spec
CONSTANTS
    Boot = 1
    Entries = 4
    Levels = 2
    SelfMap = 3
    HostCr3 = 1
    GuestCr3s = {1, 2}
    Memory <- Tables
    SlotVa <- Addresses
    SlotPage <- Backing
    Remaps <- Changes
    Instructions <- Code
    Siblings <- Pairs
CHECK_DEADLOCK FALSE
INVARIANT SlotsSound
INVARIANT ReadsTheGuest
INVARIANT TablesKept
