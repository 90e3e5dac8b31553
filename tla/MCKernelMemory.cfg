SPECIFICATION Spec
CONSTANTS
    PAGE_FRAME_MAX_COUNT = 6
    PAGING_DIRECTORY_TABLE_MAX_COUNT = 4
    PROCESS_COUNT_MAX = 3
    U32 = 8
    LoadPages <- OneLoadPage
    BufferSizes <- OneBufferSize
    ReadOutcomes = {"ok"}
    KillPids <- MCKillPids
INVARIANT AcceptedHasMemory
CHECK_DEADLOCK FALSE
