SPECIFICATION Spec
CONSTANTS
    Hart = {0, 1}
    Process = {0, 1, 2}
    Chan = {0, 1}
    Images <- McImages
    Watched = {1}
INVARIANT AssertHolds
CHECK_DEADLOCK FALSE
