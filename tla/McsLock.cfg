SPECIFICATION LockSpec
CONSTANTS
    h1 = h1
    h2 = h2
    h3 = h3
    Hart <- Three
    LockTail = LockTail
    Null = Null
INVARIANTS
    LockTypeOK
    MutualExclusion
    QueueOK
PROPERTIES
    ServesInOrder
SYMMETRY Alike
