SPECIFICATION FairSpec
CONSTANTS
    Hart = {0, 1}
    Process = {0, 1, 2}
    Chan = {0, 1}
    Images <- McImages
    Watched = {1}
INVARIANTS
    OneOwner
    StrayBeforeHang
    AnswersOwnRequest
    OwnRegisters
    WaiterKnown
PROPERTIES
    StaysSuspended
    PreemptedDidNothing
    ClientKeepsCap
    SuspendStops
    ClientReturns
CHECK_DEADLOCK FALSE
