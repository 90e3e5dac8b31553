SPECIFICATION PsSpec
CONSTANTS
    PAGE_FRAME_MAX_COUNT = 8
    PAGING_DIRECTORY_TABLE_MAX_COUNT = 4
    PROCESS_COUNT_MAX = 3
    U32 = 5
    LoadPages <- OneLoadPage
    BufferSizes <- OneBufferSize
    ReadOutcomes = {"ok", "fail"}
    KillPids <- MCKillPids
INVARIANTS
    UsedSlotsLoaded
    OneRunning
    CountFollowsKills
    OverrunNeedsKill
    PsTruthful
PROPERTY EveryProcessRuns
CHECK_DEADLOCK FALSE
