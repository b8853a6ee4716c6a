CONSTANTS
    NUM = 4
    Wrap = 8
    MaxSector = 1
    Data <- MCData
    Zero = 0
    Fixed = 1
    Faulty = TRUE
    None = None
SPECIFICATION Spec
INVARIANTS
    ChainHeld
    CompletesOwn
PROPERTIES
    ImplementsAtomicDisk
    CallsReturn
