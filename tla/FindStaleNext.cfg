SPECIFICATION FairLockSpec
CONSTANTS
    h1 = h1
    h2 = h2
    h3 = h3
    Hart <- Three
    LockTail = LockTail
    Null = Null
PROPERTIES
    CallsReturn
ACTION_CONSTRAINT OnceEach
