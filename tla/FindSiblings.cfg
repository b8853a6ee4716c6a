SPECIFICATION Spec
CONSTANTS
    ProcCnt = 1
    CapCnt = 6
    SlotCnt = 1
    ChanCnt = 2
    PmpCnt = 1
    Hart <- OneHart
    MinBlock = 3
    MaxBlock = 5
    AddrBits = 8
    LengthRange = 256
    InitCaps <- ChanTreeInit
    NewCaps <- ChanCaps
    Pinned = {0}
    ErrSigned = FALSE
    ErrRange = 32
    MaxCaps = 6
PROPERTIES
    RevokeOnlyDescendants
CHECK_DEADLOCK FALSE
VIEW View
ACTION_CONSTRAINT Bounded
