SPECIFICATION FamilySpec
CONSTANTS
    ProcCnt = 2
    CapCnt = 6
    SlotCnt = 2
    ChanCnt = 2
    PmpCnt = 2
    Hart <- OneHart
    MinBlock = 3
    MaxBlock = 5
    AddrBits = 8
    LengthRange = 256
    InitCaps <- TimeInit
    NewCaps <- AnyCaps
    Pinned = {0, 2, 3}
    ErrSigned = FALSE
    ErrRange = 32
    MaxCaps = 8
INVARIANTS
    TypeOK
    ListOK
    SlicesSound
    ScheduleMatchesCaps
    PmpMatchesCaps
    UniqueServer
    LibraryAgrees
PROPERTIES
    DeletesDescendants
    RevokeTargetStable
    RevokeTakesClients
    SignedRestores
    RevokeTerminates
CHECK_DEADLOCK FALSE
VIEW FamilyView
ACTION_CONSTRAINT FamilyBounded
