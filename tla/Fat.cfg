CONSTANTS
    SS = 2
    MAX_FAT16 = 3
    Upper <- MCUpper
    Zero = Zero
    EOC = 99
    Deleted = Deleted
    Off = Off
    None = None
    Handles = {h1, h2}
    Paths <- MCPaths
    One = One
    Two = Two
    Data <- MCData
    Counts = {3}
    Targets = {0, 5}
    New = One
    MaxSize = 6
    MaxMount = 1
    MaxChange = 3
    Volumes <- MCVolumes
SYMMETRY Symmetry
SPECIFICATION ShownSpec
INVARIANTS
    VolumeSound
    ReadsContent
    FindsNames
PROPERTIES
    SurvivesPowerCut
    ImplementsFileTree
