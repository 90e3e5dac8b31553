SPECIFICATION Spec
CONSTANTS
    PAGE_FRAME_MAX_COUNT = 8
    PAGING_DIRECTORY_TABLE_MAX_COUNT = 5
    PROCESS_COUNT_MAX = 4
    U32 = 8
    LoadPages <- MCLoadPages
    BufferSizes <- MCBufferSizes
    ReadOutcomes = {"ok", "fail"}
    KillPids <- MCKillPids
INVARIANTS
    TypeOK
    KernelInv
    MemoryIsolation
    FramesAccounted
    DirectoriesOwned
    UserRunsInOwnSpace
PROPERTY OthersUndisturbed
CHECK_DEADLOCK FALSE
