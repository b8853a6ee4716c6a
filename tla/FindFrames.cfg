SPECIFICATION Spec
CONSTANTS
    ProcCnt = 1
    CapCnt = 6
    SlotCnt = 1
    ChanCnt = 1
    PmpCnt = 2
    Hart <- OneHart
    MinBlock = 3
    MaxBlock = 5
    AddrBits = 8
    LengthRange = 256
    InitCaps <- TreeInit
    NewCaps <- TreeCaps
    Pinned = {0, 2}
    ErrSigned = FALSE
    ErrRange = 32
    MaxCaps = 6
PROPERTIES
    RevokeTakesFrames
CHECK_DEADLOCK FALSE
VIEW View
ACTION_CONSTRAINT Bounded
