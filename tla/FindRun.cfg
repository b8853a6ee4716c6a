CONSTANTS
    NUM = 4
    Wrap = 8
    MaxSector = 2
    Data <- MCData
    Zero = 0
    Fixed = 0
    Faulty = FALSE
    None = None
SPECIFICATION Spec
INVARIANT ReadsTheRun
