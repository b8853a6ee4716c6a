SPECIFICATION Spec
CONSTANTS
    ProcCnt = 2
    CapCnt = 4
    SlotCnt = 2
    ChanCnt = 1
    PmpCnt = 1
    Hart <- OneHart
    MinBlock = 3
    MaxBlock = 5
    AddrBits = 8
    LengthRange = 256
    InitCaps <- TimeInit
    NewCaps <- TimeCaps
    Pinned = {0, 2}
    ErrSigned = FALSE
    ErrRange = 32
    MaxCaps = 8
PROPERTIES
    RevokeRestores
CHECK_DEADLOCK FALSE
VIEW View
ACTION_CONSTRAINT Bounded
