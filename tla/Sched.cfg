SPECIFICATION SchedSpec
CONSTANTS
    MinHart = 0
    MaxHart = 2
    Hart <- McHart
    Tickets = 3
    MaxAcquired = 6
    SlotCnt = 2
    LengthRange = 256
    Updates <- McUpdates
INVARIANTS
    WriterExcludes
    SlotServed
    ClaimUnique
PROPERTIES
    TableIsAtomic
    EveryoneServed
CHECK_DEADLOCK FALSE
