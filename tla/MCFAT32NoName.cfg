SPECIFICATION Spec
CONSTANTS
    CLUSTER_MAP_SIZE = 6
    TABLE_SIZE = 4
    CLUSTER_SIZE = 2
    FAT_PER_BLOCK = 4
    U8 = 256
    Names <- MCNamesEmpty
    Payloads = {"x"}
    Sizes <- MCSizes
    MaxCrashes = 0
    CrashInFormat = FALSE
PROPERTY DeleteSparesSystem
