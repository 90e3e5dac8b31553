-------------------------------- MODULE FAT32 -------------------------------
(***************************************************************************)
(* The file system driver (fat32.c) on a disk that survives a loss of power. *)
(*                                                                         *)
(* A system call runs with interrupts off, so no other caller of the driver  *)
(* interleaves with it; the power may fail between any two disk writes, and   *)
(* each write_clusters is an action of its own.  A crash loses the cached      *)
(* allocation table and the operation in progress.                          *)
(*                                                                         *)
(* The content of a cluster is one of: zeroes, the boot signature, an          *)
(* allocation table, a directory table, or a piece of a file.                *)
(***************************************************************************)
EXTENDS Integers, Sequences, FiniteSets, FiniteSetsExt, TLC

CONSTANTS
    CLUSTER_MAP_SIZE,       \* 512 in fat32.h
    TABLE_SIZE,             \* entries of a directory table, 64 in the code
    CLUSTER_SIZE,           \* bytes of a cluster, 2048 in the code
    FAT_PER_BLOCK,          \* allocation table entries of a disk block, 128
    U8,                     \* modulus of uint8_t, 256
    Names,                  \* names in requests
    Payloads,               \* contents of request.buf
    Sizes,                  \* values of request.buffer_size in writes
    MaxCrashes,             \* bound: losses of power in a behaviour
    CrashInFormat           \* whether one may fall inside create_fat32

NoName   == "noname"        \* eight zero bytes: the name of an empty entry
RootName == "root"

BOOT_SECTOR           == 0
FAT_CLUSTER_NUMBER    == 1
ROOT_CLUSTER_NUMBER   == 2
CLUSTER_0_VALUE       == 268435440   \* 0x0FFFFFF0
FAT32_FAT_END_OF_FILE == 268435455   \* 0x0FFFFFFF, CLUSTER_1_VALUE too
FAT32_FAT_EMPTY_ENTRY == 0

ASSUME FAT32Assumption ==
    /\ CLUSTER_MAP_SIZE \in Nat /\ CLUSTER_MAP_SIZE > 3 /\ CLUSTER_MAP_SIZE < CLUSTER_0_VALUE
    /\ TABLE_SIZE \in Nat /\ TABLE_SIZE > 2
    /\ CLUSTER_SIZE \in Nat \ {0} /\ FAT_PER_BLOCK \in Nat \ {0} /\ U8 \in Nat \ {0, 1}
    /\ Sizes \subseteq Nat
    /\ "folder" \notin Payloads      \* what a folder in the making has for a payload
    /\ MaxCrashes \in Nat
    /\ CrashInFormat \in BOOLEAN

Clusters     == 0 .. CLUSTER_MAP_SIZE - 1
DataClusters == 3 .. CLUSTER_MAP_SIZE - 1
Indices      == 0 .. TABLE_SIZE - 1

VARIABLES
    disk,       \* content of every cluster
    fat,        \* fat32_driverstate.fat_table.cluster_map
    op,         \* the operation in progress and its local variables
    crashes

vars == <<disk, fat, op, crashes>>

Zero        == [kind |-> "zero"]
Signature   == [kind |-> "signature"]
FatBlock(m) == [kind |-> "fat", map |-> m]
Table(t)    == [kind |-> "table", table |-> t]
Piece(p, i) == [kind |-> "data", piece |-> <<p, i>>]

\* user_attribute = UATTR_NOT_EMPTY is "used", ATTR_SUBDIRECTORY is "folder"
EmptyEntry == [used |-> FALSE, name |-> NoName, folder |-> FALSE, cluster |-> 0, filesize |-> 0]
FolderEntry(n, c) == [used |-> TRUE, name |-> n, folder |-> TRUE, cluster |-> c, filesize |-> 0]
EmptyTable == [i \in Indices |-> EmptyEntry]
EmptyFat   == [c \in Clusters |-> FAT32_FAT_EMPTY_ENTRY]

\* What read_clusters finds in a cluster taken for a table of either kind.
TableAt(d, c) == IF d[c].kind = "table" THEN d[c].table ELSE EmptyTable
FatOf(d) == IF d[FAT_CLUSTER_NUMBER].kind = "fat" THEN d[FAT_CLUSTER_NUMBER].map ELSE EmptyFat

Idle == [pc |-> "idle"]
Off  == [pc |-> "off"]

\* A disk image of zeroes.
Init ==
    /\ disk = [c \in Clusters |-> Zero]
    /\ fat = EmptyFat
    /\ op = Off
    /\ crashes = 0

write_clusters(content, c) == disk' = [disk EXCEPT ![c] = content]

-----------------------------------------------------------------------------
(***************************************************************************)
(* Mounting: initialize_filesystem_fat32.                                   *)
(***************************************************************************)
is_empty_storage == disk[BOOT_SECTOR] # Signature

Mount ==
    /\ op = Off
    /\ ~ is_empty_storage
    /\ fat' = FatOf(disk)
    /\ op' = Idle
    /\ UNCHANGED <<disk, crashes>>

\* create_fat32: four writes, the signature first.
FormatBoot ==
    /\ op = Off
    /\ is_empty_storage
    /\ write_clusters(Signature, BOOT_SECTOR)
    /\ op' = [pc |-> "f_fat"]
    /\ UNCHANGED <<fat, crashes>>

\* Mutant: the root's chain ends with another FAT32 end mark, 0x0FFFFFF8.
FreshFatOtherMark == [EmptyFat EXCEPT ![0] = CLUSTER_0_VALUE,
                                      ![1] = FAT32_FAT_END_OF_FILE,
                                      ![2] = 268435448]

FreshFat == [EmptyFat EXCEPT ![0] = CLUSTER_0_VALUE,
                             ![1] = FAT32_FAT_END_OF_FILE,
                             ![2] = FAT32_FAT_END_OF_FILE]

FormatFat ==
    /\ op.pc = "f_fat"
    /\ fat' = FreshFat
    /\ write_clusters(FatBlock(FreshFat), FAT_CLUSTER_NUMBER)
    /\ op' = [pc |-> "f_name"]
    /\ UNCHANGED crashes

\* One block of the root cluster, so that the next step can read the name; that
\* step rewrites the blocks this one leaves alone.
FormatName ==
    /\ op.pc = "f_name"
    /\ write_clusters(Table([EmptyTable EXCEPT ![0].name = RootName]), ROOT_CLUSTER_NUMBER)
    /\ op' = [pc |-> "f_root"]
    /\ UNCHANGED <<fat, crashes>>

(***************************************************************************)
(* Entry 0 is the directory itself, without its cluster number; entry 1 is    *)
(* the parent, its name taken from entry 0 of the parent's table on disk.     *)
(***************************************************************************)
init_directory_table(name, parent) ==
    [EmptyTable EXCEPT ![0] = FolderEntry(name, 0),
                       ![1] = FolderEntry(TableAt(disk, parent)[0].name, parent)]

FormatRoot ==
    /\ op.pc = "f_root"
    /\ write_clusters(Table(init_directory_table(RootName, ROOT_CLUSTER_NUMBER)), ROOT_CLUSTER_NUMBER)
    /\ op' = Idle
    /\ UNCHANGED <<fat, crashes>>

-----------------------------------------------------------------------------
\* ceil(size / (float) CLUSTER_SIZE), returned as uint8_t
ceil(size) == ((size + CLUSTER_SIZE - 1) \div CLUSTER_SIZE) % U8

\* Mutant: a search that finds nothing ends at the last entry.
IndexOfNameOrLast(table, name, from) ==
    Min({i \in Indices : i >= from /\ table[i].name = name} \cup {TABLE_SIZE - 1})

\* The least index, from "from" on, whose name is "name" (user_attribute is
\* not looked at), and TABLE_SIZE if there is none.
IndexOfName(table, name, from) ==
    Min({i \in Indices : i >= from /\ table[i].name = name} \cup {TABLE_SIZE})

EntriesNamed(parent, name) == {i \in Indices : TableAt(disk, parent)[i].name = name}

\* Mutant: the last cluster of a chain is taken for an empty slot.
EmptyOrLastSlots == {c \in DataClusters : fat[c] \in {FAT32_FAT_EMPTY_ENTRY, FAT32_FAT_END_OF_FILE}}

\* The first "required" empty slots of the cached table, in order.
EmptyFatSlots == {c \in Clusters : fat[c] = FAT32_FAT_EMPTY_ENTRY}
count_empty_fat_slots(required) ==
    LET rank(c) == Cardinality({b \in EmptyFatSlots : b <= c})
    IN  [j \in 1 .. Min({required, Cardinality(EmptyFatSlots)}) |->
            CHOOSE c \in EmptyFatSlots : rank(c) = j]

required_clusters(size) == (ceil(size) + IF size = 0 THEN 1 ELSE 0) % U8

\* Slot 0 of a table stands for "no empty slot" in the code.
EmptyTableSlots(table) == {i \in Indices \ {0} : ~ table[i].used}

write_retcode(parent, name, size) ==
    IF fat[parent] # FAT32_FAT_END_OF_FILE THEN 2
    ELSE IF EntriesNamed(parent, name) # {} THEN 1
    ELSE IF EmptyTableSlots(TableAt(disk, parent)) = {} THEN -1
    ELSE IF Len(count_empty_fat_slots(required_clusters(size))) < required_clusters(size) THEN -1
    ELSE 0

(***************************************************************************)
(* write: the checks, and the local copy of the parent's table with the new   *)
(* entry in it, which is written last.  If the number of clusters wraps to 0,  *)
(* slot_buf[0] is read uninitialised.                                       *)
(***************************************************************************)
WriteStart(parent, name, size, payload) ==
    LET table == TableAt(disk, parent)
        slots == count_empty_fat_slots(required_clusters(size))
    IN
    /\ op = Idle
    /\ write_retcode(parent, name, size) = 0
    /\ \E first \in IF slots = <<>> THEN Clusters ELSE {slots[1]} :
         op' = [pc |-> IF size = 0 THEN "w_child" ELSE IF slots = <<>> THEN "w_parent" ELSE "w_fat",
                parent |-> parent, name |-> name, payload |-> IF size = 0 THEN "folder" ELSE payload,
                slots |-> slots, j |-> 1,
                table |-> [table EXCEPT ![Min(EmptyTableSlots(table))] =
                              [used |-> TRUE, name |-> name, folder |-> size = 0,
                               cluster |-> first, filesize |-> size]]]
    /\ UNCHANGED <<disk, fat, crashes>>

\* Mutant: the folder's own cluster number is left out of its entry 0.
WriteChildUnnumbered ==
    /\ op.pc = "w_child"
    /\ write_clusters(Table(init_directory_table(op.name, op.parent)), op.slots[1])
    /\ op' = [op EXCEPT !.pc = "w_fat"]
    /\ UNCHANGED <<fat, crashes>>

\* A folder: its own table first, then its entry in the allocation table.
WriteChild ==
    /\ op.pc = "w_child"
    /\ write_clusters(Table([init_directory_table(op.name, op.parent) EXCEPT
                                ![0].cluster = op.slots[1]]), op.slots[1])
    /\ op' = [op EXCEPT !.pc = "w_fat"]
    /\ UNCHANGED <<fat, crashes>>

\* Mutant: an off-by-one ends the chain at its last cluster but one.
LinkedFatShort ==
    [fat EXCEPT ![op.slots[op.j]] =
        IF op.j < Len(op.slots) - 1 THEN op.slots[op.j + 1] ELSE FAT32_FAT_END_OF_FILE]

\* The allocation table once entry j of the chain is linked.
LinkedFat ==
    [fat EXCEPT ![op.slots[op.j]] =
        IF op.j < Len(op.slots) THEN op.slots[op.j + 1] ELSE FAT32_FAT_END_OF_FILE]

WriteFat ==
    /\ op.pc = "w_fat"
    /\ fat' = LinkedFat
    /\ write_clusters(FatBlock(LinkedFat), FAT_CLUSTER_NUMBER)
    /\ op' = [op EXCEPT !.pc = IF op.payload = "folder" THEN "w_parent" ELSE "w_data"]
    /\ UNCHANGED crashes

\* Mutant: request.buf is not advanced between clusters.
WriteDataAgain ==
    /\ op.pc = "w_data"
    /\ write_clusters(Piece(op.payload, 1), op.slots[op.j])
    /\ op' = IF op.j < Len(op.slots)
             THEN [op EXCEPT !.pc = "w_fat", !.j = @ + 1]
             ELSE [op EXCEPT !.pc = "w_parent"]
    /\ UNCHANGED <<fat, crashes>>

WriteData ==
    /\ op.pc = "w_data"
    /\ write_clusters(Piece(op.payload, op.j), op.slots[op.j])
    /\ op' = IF op.j < Len(op.slots)
             THEN [op EXCEPT !.pc = "w_fat", !.j = @ + 1]
             ELSE [op EXCEPT !.pc = "w_parent"]
    /\ UNCHANGED <<fat, crashes>>

WriteParent ==
    /\ op.pc = "w_parent"
    /\ write_clusters(Table(op.table), op.parent)
    /\ op' = Idle
    /\ UNCHANGED <<fat, crashes>>

-----------------------------------------------------------------------------
\* Mutant: the search for a used entry skips the first one after the links.
FolderEmptyFrom3(c) == \A i \in Indices \ {0, 1, 2} : ~ TableAt(disk, c)[i].used

FolderEmpty(c) == \A i \in Indices \ {0, 1} : ~ TableAt(disk, c)[i].used

delete_retcode(parent, name) ==
    LET table == TableAt(disk, parent)
        i     == IndexOfName(table, name, 2)
    IN  IF fat[parent] # FAT32_FAT_END_OF_FILE THEN 2
        ELSE IF i = TABLE_SIZE THEN 1
        ELSE IF table[i].folder /\ ~ FolderEmpty(table[i].cluster) THEN 2
        ELSE 0

DeleteStart(parent, name) ==
    LET table == TableAt(disk, parent)
        i     == IndexOfName(table, name, 2)
    IN
    /\ op = Idle
    /\ delete_retcode(parent, name) = 0
    /\ op' = [pc |-> "d_parent", parent |-> parent, cluster |-> table[i].cluster,
              table |-> [table EXCEPT ![i] = EmptyEntry]]
    /\ UNCHANGED <<disk, fat, crashes>>

DeleteParent ==
    /\ op.pc = "d_parent"
    /\ write_clusters(Table(op.table), op.parent)
    /\ op' = [op EXCEPT !.pc = "d_free"]
    /\ UNCHANGED <<fat, crashes>>

\* Mutant: current_cluster is not advanced.
DeleteFreeAgain ==
    /\ op.pc = "d_free"
    /\ fat' = [fat EXCEPT ![op.cluster] = FAT32_FAT_EMPTY_ENTRY]
    /\ write_clusters(Zero, op.cluster)
    /\ UNCHANGED <<op, crashes>>

(***************************************************************************)
(* One turn of the loop: the cached entry is freed and the cluster zeroed.     *)
(* An index beyond the table faults in the kernel, for ever.                 *)
(***************************************************************************)
DeleteFree ==
    /\ op.pc = "d_free"
    /\ fat' = [fat EXCEPT ![op.cluster] = FAT32_FAT_EMPTY_ENTRY]
    /\ write_clusters(Zero, op.cluster)
    /\ LET next == fat[op.cluster] IN
       op' = [op EXCEPT !.pc = IF next = FAT32_FAT_END_OF_FILE THEN "d_fat"
                               ELSE IF next \in Clusters THEN "d_free" ELSE "stuck",
                        !.cluster = next]
    /\ UNCHANGED crashes

\* Mutant: the freed entries are not written back.
DeleteFatUnwritten ==
    /\ op.pc = "d_fat"
    /\ op' = Idle
    /\ UNCHANGED <<disk, fat, crashes>>

DeleteFat ==
    /\ op.pc = "d_fat"
    /\ write_clusters(FatBlock(fat), FAT_CLUSTER_NUMBER)
    /\ op' = Idle
    /\ UNCHANGED <<fat, crashes>>

-----------------------------------------------------------------------------
(***************************************************************************)
(* Loss of power.  write_clusters writes the blocks of a cluster in order:     *)
(* when it is cut short, the blocks of the allocation table already written    *)
(* are new and the others old.  A directory table changes in one entry, so in  *)
(* one block.                                                               *)
(***************************************************************************)
PendingFat ==
    CASE op.pc = "f_fat" -> FreshFat
      [] op.pc = "w_fat" -> LinkedFat
      [] op.pc = "d_fat" -> fat

TornFat(k) ==
    [c \in Clusters |-> IF c \div FAT_PER_BLOCK < k THEN PendingFat[c] ELSE FatOf(disk)[c]]

PowerFails ==
    /\ op # Off
    /\ crashes < MaxCrashes
    /\ op.pc \in {"f_fat", "f_name", "f_root"} => CrashInFormat
    /\ fat' = EmptyFat
    /\ op' = Off
    /\ crashes' = crashes + 1

Crash == PowerFails /\ UNCHANGED disk

CrashInFatWrite ==
    /\ op.pc \in {"f_fat", "w_fat", "d_fat"}
    /\ PowerFails
    /\ \E k \in 1 .. (CLUSTER_MAP_SIZE - 1) \div FAT_PER_BLOCK :
         write_clusters(FatBlock(TornFat(k)), FAT_CLUSTER_NUMBER)

-----------------------------------------------------------------------------
(***************************************************************************)
(* The tree on disk: the directories reachable from the root through used     *)
(* entries, and the entries that are files or folders (0 and 1 are links).     *)
(***************************************************************************)
Entries(d, c) == {i \in Indices \ {0, 1} : TableAt(d, c)[i].used}

Formatted(d) ==
    /\ d[BOOT_SECTOR] = Signature
    /\ FatOf(d)[ROOT_CLUSTER_NUMBER] = FAT32_FAT_END_OF_FILE
    /\ TableAt(d, ROOT_CLUSTER_NUMBER)[0].used

LiveDirs(d) ==
    LET folders(c) == {TableAt(d, c)[i].cluster :
                          i \in {i \in Entries(d, c) : TableAt(d, c)[i].folder}}
        reach[n \in 0 .. CLUSTER_MAP_SIZE] ==
            IF n = 0 THEN {ROOT_CLUSTER_NUMBER}
            ELSE LET near == reach[n - 1] IN near \cup UNION {folders(c) : c \in near}
    IN  IF Formatted(d) THEN reach[CLUSTER_MAP_SIZE] ELSE {}

\* Two places may hold equal entries; that is what must not happen.
LivePlaces(d) == UNION {{<<c, i>> : i \in Entries(d, c)} : c \in LiveDirs(d)}
EntryAt(d, place) == TableAt(d, place[1])[place[2]]
LiveEntries(d) == {EntryAt(d, p) : p \in LivePlaces(d)}

\* The clusters read visits from c on; a chain that does not end at the end
\* of file mark is cut after CLUSTER_MAP_SIZE of them.
Chain(m, c) ==
    LET walk[n \in 0 .. CLUSTER_MAP_SIZE] ==
            IF n = 0 THEN <<c>>
            ELSE LET before == walk[n - 1]
                     last   == before[Len(before)]
                 IN  IF last \in Clusters /\ m[last] # FAT32_FAT_END_OF_FILE /\ Len(before) = n
                     THEN Append(before, m[last]) ELSE before
    IN  walk[CLUSTER_MAP_SIZE]

ChainSet(m, c) == {Chain(m, c)[i] : i \in 1 .. Len(Chain(m, c))}

\* Mutant: sizes are compared in bytes, although whole clusters are copied.
read_retcode_bytes(parent, name, buffer_size) ==
    LET table == TableAt(disk, parent)
        i     == IndexOfName(table, name, 0)
    IN  IF fat[parent] # FAT32_FAT_END_OF_FILE THEN 2
        ELSE IF i = TABLE_SIZE THEN 2
        ELSE IF table[i].folder THEN 1
        ELSE IF buffer_size < table[i].filesize THEN -1
        ELSE 0

\* read: what it returns, and the pieces it copies when it returns 0.
read_retcode(parent, name, buffer_size) ==
    LET table == TableAt(disk, parent)
        i     == IndexOfName(table, name, 0)
    IN  IF fat[parent] # FAT32_FAT_END_OF_FILE THEN 2
        ELSE IF i = TABLE_SIZE THEN 2
        ELSE IF table[i].folder THEN 1
        ELSE IF buffer_size \div CLUSTER_SIZE < ceil(table[i].filesize) THEN -1
        ELSE 0

\* A piece as a reader sees it.
PieceAt(d, c) == IF c \in Clusters /\ d[c].kind = "data" THEN d[c].piece ELSE <<>>
read_data(d, m, c) == [i \in 1 .. Len(Chain(m, c)) |-> PieceAt(d, Chain(m, c)[i])]

-----------------------------------------------------------------------------
(***************************************************************************)
(* The callers name as parent a directory they have walked to.              *)
(***************************************************************************)
Start ==
    \E parent \in LiveDirs(disk), name \in Names :
        \/ \E size \in Sizes, payload \in Payloads : WriteStart(parent, name, size, payload)
        \/ DeleteStart(parent, name)

\* The next disk write of whatever is in progress.
Step ==
    \/ FormatFat \/ FormatName \/ FormatRoot
    \/ WriteChild \/ WriteFat \/ WriteData \/ WriteParent
    \/ DeleteParent \/ DeleteFree \/ DeleteFat

Next ==
    \/ Mount
    \/ FormatBoot
    \/ Start
    \/ Step
    \/ Crash
    \/ CrashInFatWrite

Spec == Init /\ [][Next]_vars
\* The CPU goes on executing the system call it is in, unless the power fails.
FairSpec == Spec /\ WF_vars(Step)

-----------------------------------------------------------------------------
\* The type invariant of the disk, the cached table and the operation.
Contents ==
    {Zero, Signature} \cup [kind : {"data"}, piece : Payloads \X (1 .. CLUSTER_MAP_SIZE)]
Entry == [used : BOOLEAN, name : Names \cup {NoName, RootName}, folder : BOOLEAN,
          cluster : Clusters, filesize : Sizes \cup {0}]
FatValues == Clusters \cup {CLUSTER_0_VALUE, FAT32_FAT_END_OF_FILE}
TypeOK ==
    /\ \A c \in Clusters :
         \/ disk[c] \in Contents
         \/ disk[c].kind = "table" /\ \A i \in Indices : disk[c].table[i] \in Entry
         \/ disk[c].kind = "fat" /\ \A b \in Clusters : disk[c].map[b] \in FatValues
    /\ fat \in [Clusters -> FatValues]
    /\ op.pc \in {"idle", "off", "stuck", "f_fat", "f_name", "f_root", "w_child", "w_fat",
                  "w_data", "w_parent", "d_parent", "d_free", "d_fat"}
    /\ crashes \in 0 .. MaxCrashes

\* The clusters that a file of this size, or a folder (size 0), takes.
ClustersOf(size) == IF size = 0 THEN 1 ELSE (size + CLUSTER_SIZE - 1) \div CLUSTER_SIZE

(***************************************************************************)
(* Crash consistency of the allocation table: in every state the disk can be  *)
(* found in, half way through a write or a delete too, the chain of every file *)
(* and folder in the tree runs through data clusters to the end of file mark,   *)
(* is as long as the size of its file, and shares no cluster with another.     *)
(***************************************************************************)
ChainsSound ==
    LET m == FatOf(disk) IN
    /\ \A e \in LiveEntries(disk) :
         /\ ChainSet(m, e.cluster) \subseteq DataClusters
         /\ m[Chain(m, e.cluster)[Len(Chain(m, e.cluster))]] = FAT32_FAT_END_OF_FILE
         /\ Len(Chain(m, e.cluster)) = ClustersOf(e.filesize)
    /\ \A p, q \in LivePlaces(disk) :
         p # q => ChainSet(m, EntryAt(disk, p).cluster) \cap ChainSet(m, EntryAt(disk, q).cluster) = {}

(***************************************************************************)
(* The links of the tree: a live folder's table carries its own cluster in     *)
(* entry 0 and its parent's in entry 1, so that cd .. leads back, and it is     *)
(* the child of one entry only.                                             *)
(***************************************************************************)
LinksSoundBut(moving) ==
    \A p \in LivePlaces(disk) :
        LET e == EntryAt(disk, p) IN
        e.folder =>
          /\ disk[e.cluster].kind = "table"
          /\ TableAt(disk, e.cluster)[0].cluster = e.cluster
          /\ e.cluster \notin moving =>
               /\ TableAt(disk, e.cluster)[1].cluster = p[1]
               /\ TableAt(disk, e.cluster)[0].name = e.name
          /\ \A q \in LivePlaces(disk) : EntryAt(disk, q).cluster = e.cluster => p = q
LinksSound == LinksSoundBut({})

(***************************************************************************)
(* Between operations the cached allocation table is the one on disk.         *)
(***************************************************************************)
CacheCoherent == op = Idle => fat = FatOf(disk)

(***************************************************************************)
(* Without a loss of power no cluster leaks: between operations every          *)
(* allocated data cluster belongs to a file or folder of the tree.            *)
(***************************************************************************)
NoClusterLeak ==
    (op = Idle /\ crashes = 0) =>
        {c \in DataClusters : fat[c] # FAT32_FAT_EMPTY_ENTRY}
            = UNION {ChainSet(fat, e.cluster) : e \in LiveEntries(disk)}

(***************************************************************************)
(* "buffer_size will limit reading count": when read returns 0 the file fits   *)
(* in the caller's buffer.                                                  *)
(***************************************************************************)
ReadFitsBuffer ==
    op = Idle => \A c \in LiveDirs(disk), name \in Names, size \in Sizes :
        read_retcode(c, name, size) = 0 =>
            LET e == TableAt(disk, c)[IndexOfName(TableAt(disk, c), name, 0)]
            IN  Len(Chain(fat, e.cluster)) * CLUSTER_SIZE <= size

(***************************************************************************)
(* A delete that finds no such file returns 1 and changes nothing: no delete    *)
(* ever erases the boot sector or the allocation table.                      *)
(***************************************************************************)
DeleteSparesSystem ==
    [][op.pc = "d_free" => /\ disk'[BOOT_SECTOR] = disk[BOOT_SECTOR]
                           /\ disk'[FAT_CLUSTER_NUMBER] = disk[FAT_CLUSTER_NUMBER]]_vars

(***************************************************************************)
(* Every operation that was started ends, unless the power fails first.       *)
(***************************************************************************)
OperationsEnd == (op.pc \notin {"idle", "off"}) ~> (op.pc \in {"idle", "off"})
=============================================================================
