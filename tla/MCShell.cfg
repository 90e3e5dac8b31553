SPECIFICATION ShellSpec
CONSTANTS
    CLUSTER_MAP_SIZE = 6
    TABLE_SIZE = 4
    CLUSTER_SIZE = 2
    FAT_PER_BLOCK = 4
    U8 = 256
    Names <- ABC
    Payloads = {"x"}
    Sizes = {0, 2, 4, 6}
    MaxCrashes = 0
    CrashInFormat = FALSE
    Shells = {"sh"}
    Commands <- AllCommands
    CarefulMoves = TRUE
    Overlay <- LastName
    BlankPieces = {}
    CopyClusters = 3
    MaxDepth = 6
    ImageFile = "a"
    ImageFolder = "b"
    ImageSize = 2
INVARIANTS
    ShellTypeOK
    TreeSound
    MoveCrashSound
    NothingLost
    CwdFresh
PROPERTY FilesIntact
CHECK_DEADLOCK FALSE
