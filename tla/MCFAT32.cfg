SPECIFICATION FairSpec
CONSTANTS
    CLUSTER_MAP_SIZE = 7
    TABLE_SIZE = 4
    CLUSTER_SIZE = 2
    FAT_PER_BLOCK = 4
    U8 = 256
    Names <- MCNames
    Payloads = {"x"}
    Sizes <- MCSizes
    MaxCrashes = 1
    CrashInFormat = TRUE
INVARIANTS
    TypeOK
    ChainsSound
    LinksSound
    CacheCoherent
    NoClusterLeak
    ReadFitsBuffer
PROPERTIES
    DeleteSparesSystem
    OperationsEnd
CHECK_DEADLOCK FALSE
