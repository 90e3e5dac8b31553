SPECIFICATION ViewSpec
CONSTANTS
    CLUSTER_MAP_SIZE = 7
    TABLE_SIZE = 4
    CLUSTER_SIZE = 2
    FAT_PER_BLOCK = 4
    U8 = 256
    Names = {"a", "b"}
    Payloads = {"x", "y"}
    Sizes = {0, 2, 3}
    MaxCrashes = 1
    CrashInFormat = FALSE
PROPERTY
    ImplementsStore
