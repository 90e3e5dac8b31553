----------------------------- MODULE FAT32Proofs -----------------------------
(***************************************************************************)
(* The driver keeps the tree on the disk sound, in every state the power may fail    *)
(* in, for every size of disk, of table, of cluster and of disk block.           *)
(*                                                                         *)
(* The inductive invariant says, besides that the tree is sound (TreeOK of             *)
(* FAT32TreeProofs), what an operation in progress has already put on the disk           *)
(* outside the tree, so that the one write which links it into its directory, or         *)
(* out of it, finds the chain complete.                                         *)
(***************************************************************************)
EXTENDS FAT32TreeProofs

(***************************************************************************)
(* What the theorems suppose of the requests: no file whose number of clusters     *)
(* wraps in eight bits (fat32.c keeps it in a uint8_t), and no request for the        *)
(* name of an empty entry, which destroys the tree (the run fat32_noname).         *)
(***************************************************************************)
Ordinary ==
    /\ \A s \in Sizes : (s + CLUSTER_SIZE - 1) \div CLUSTER_SIZE < U8
    /\ NoName \notin Names

PCs == {"idle", "off", "f_fat", "f_name", "f_root", "w_child", "w_fat",
        "w_data", "w_parent", "d_parent", "d_free", "d_fat"}
WritePCs == {"w_child", "w_fat", "w_data", "w_parent"}
DeletePCs == {"d_parent", "d_free", "d_fat"}

\* The entry a write adds.
NewEntry(name, c, size) ==
    [used |-> TRUE, name |-> name, folder |-> size = 0, cluster |-> c, filesize |-> size]

\* The record of a write, and of a delete, in progress.
WriteRec(o) == o = [pc |-> o.pc, parent |-> o.parent, name |-> o.name, payload |-> o.payload,
                    slots |-> o.slots, j |-> o.j, table |-> o.table]
DeleteRec(o) == o = [pc |-> o.pc, parent |-> o.parent, cluster |-> o.cluster, table |-> o.table]

\* How many clusters of the chain are linked.
Linked(o) ==
    IF o.pc = "w_child" THEN 0
    ELSE IF o.pc = "w_fat" THEN o.j - 1
    ELSE IF o.pc = "w_data" THEN o.j ELSE Len(o.slots)

\* Where a write stands in its loops.
StageOK(o) ==
    /\ o.name \in Names /\ o.payload \in Payloads \cup {"folder"}
    /\ o.slots \in Seq(DataClusters) /\ Len(o.slots) \in 1 .. CLUSTER_MAP_SIZE
    /\ o.j \in 1 .. Len(o.slots)
    /\ \A i, j \in 1 .. Len(o.slots) : o.slots[i] = o.slots[j] => i = j
    /\ o.pc = "w_child" => o.payload = "folder" /\ o.j = 1
    /\ o.pc = "w_data" => o.payload # "folder"

\* The clusters it has taken are in no chain of the tree.
SlotsApart(d, o) == \A i \in 1 .. Len(o.slots) : ~ InTree(d, o.slots[i])

\* The table it will write last: the parent's, with one entry more.
ParentOK(d, o) ==
    /\ o.parent \in LiveDirs(d)
    /\ \E i \in Indices, size \in Sizes :
         /\ ~ TableAt(d, o.parent)[i].used
         /\ o.table = [TableAt(d, o.parent) EXCEPT ![i] = NewEntry(o.name, o.slots[1], size)]
         /\ size = 0 <=> o.payload = "folder"
         /\ ClustersOf(size) = Len(o.slots)

\* The chain so far.
LinkOK(m, o) ==
    /\ \A i \in 1 .. Linked(o) :
         m[o.slots[i]] = IF i < Len(o.slots) THEN o.slots[i + 1] ELSE FAT32_FAT_END_OF_FILE
    /\ \A i \in Linked(o) + 1 .. Len(o.slots) : m[o.slots[i]] = FAT32_FAT_EMPTY_ENTRY

\* A new folder's own table is on the disk before the folder is in the tree.
ChildOK(d, o) ==
    (o.payload = "folder" /\ o.pc # "w_child") =>
        /\ d[o.slots[1]].kind = "table"
        /\ TableAt(d, o.slots[1])[0] = FolderEntry(o.name, o.slots[1])
        /\ TableAt(d, o.slots[1])[1].used /\ TableAt(d, o.slots[1])[1].folder
        /\ TableAt(d, o.slots[1])[1].cluster = o.parent
        /\ \A i \in Indices \ {0, 1} : TableAt(d, o.slots[1])[i] = EmptyEntry

WriteOK(d, m, o) ==
    /\ WriteRec(o) /\ StageOK(o)
    /\ SlotsApart(d, o) /\ ParentOK(d, o) /\ LinkOK(m, o) /\ ChildOK(d, o)

\* A delete that has checked its request and has written nothing.
UnlinkOK(d, o) ==
    /\ DeleteRec(o)
    /\ o.parent \in LiveDirs(d)
    /\ \E i \in Entries(d, o.parent) :
         /\ o.table = [TableAt(d, o.parent) EXCEPT ![i] = EmptyEntry]
         /\ o.cluster = TableAt(d, o.parent)[i].cluster
         /\ TableAt(d, o.parent)[i].folder => Entries(d, o.cluster) = {}

\* The rest of the chain it frees, which is out of the tree.
FreeingOK(d, m, o) ==
    /\ DeleteRec(o)
    /\ Good(FatOf(d), o.cluster)
    /\ \A c \in ChainSet(FatOf(d), o.cluster) : ~ InTree(d, c) /\ m[c] = FatOf(d)[c]

\* The entries it has freed, in memory only.
FreedOK(d, m) ==
    \A c \in Clusters :
        \/ m[c] = FatOf(d)[c]
        \/ m[c] = FAT32_FAT_EMPTY_ENTRY /\ c \in DataClusters /\ ~ InTree(d, c)

FormatOK(d, o) ==
    /\ d[BOOT_SECTOR] # Signature => o = Off /\ \A c \in Clusters : d[c] = Zero
    /\ o.pc \in {"f_fat", "f_name"} => d[ROOT_CLUSTER_NUMBER] = Zero
    /\ o.pc = "f_root" => d[ROOT_CLUSTER_NUMBER] = Table([EmptyTable EXCEPT ![0].name = RootName])
    /\ o.pc \in {"f_name", "f_root"} => FatOf(d) = FreshFat

DriverOK(d, m, o) ==
    /\ d \in Disks /\ m \in Maps /\ o.pc \in PCs
    /\ FormatOK(d, o)
    /\ Formatted(d) => TreeOK(d)
    /\ o.pc \in WritePCs \cup DeletePCs => Formatted(d)
    /\ o.pc \in {"idle", "f_name", "f_root", "d_parent"} \cup WritePCs => m = FatOf(d)
    /\ o.pc \in WritePCs => WriteOK(d, m, o)
    /\ o.pc = "d_parent" => UnlinkOK(d, o)
    /\ o.pc = "d_free" => FreeingOK(d, m, o)
    /\ o.pc \in {"d_free", "d_fat"} => FreedOK(d, m)

\* The clusters that an operation in progress holds outside the tree.
OpClusters(d, o) ==
    IF o.pc \in WritePCs THEN {o.slots[i] : i \in 1 .. Linked(o)}
    ELSE IF o.pc = "d_free" THEN ChainSet(FatOf(d), o.cluster) ELSE {}

\* As long as the power never failed, nothing else is allocated.
LeakFree(d, m, o, k) ==
    k = 0 =>
      /\ o = Off => d[BOOT_SECTOR] # Signature
      /\ o.pc = "idle" => Formatted(d)
      /\ Formatted(d) => \A c \in DataClusters :
            m[c] # FAT32_FAT_EMPTY_ENTRY <=> InTree(d, c) \/ c \in OpClusters(d, o)

DriverInv ==
    /\ crashes \in 0 .. MaxCrashes
    /\ DriverOK(disk, fat, op) /\ LeakFree(disk, fat, op, crashes)

-----------------------------------------------------------------------------
(***************************************************************************)
(* Records, disks and sizes.                                                *)
(***************************************************************************)
SameWrite(o, r) ==
    /\ r.parent = o.parent /\ r.name = o.name /\ r.payload = o.payload
    /\ r.slots = o.slots /\ r.table = o.table

\* A step of a write changes where the write stands and nothing else of its record.
LEMMA WriteForm ==
    ASSUME NEW o, WriteRec(o), NEW r, NEW x, r = [o EXCEPT !.pc = x]
    PROVE  WriteRec(r) /\ SameWrite(o, r) /\ r.pc = x /\ r.j = o.j
<1>1. o = [pc |-> o.pc, parent |-> o.parent, name |-> o.name, payload |-> o.payload,
           slots |-> o.slots, j |-> o.j, table |-> o.table]
  BY DEF WriteRec
<1>2. r = [pc |-> x, parent |-> o.parent, name |-> o.name, payload |-> o.payload,
           slots |-> o.slots, j |-> o.j, table |-> o.table]
  BY <1>1
<1> QED
  BY <1>2 DEF WriteRec, SameWrite

Advanced(o, r, x, k) == r = [o EXCEPT !.pc = x, !.j = k]

\* The same for a step to the next cluster.
LEMMA WriteFormNext ==
    ASSUME NEW o, WriteRec(o), NEW r, NEW x, NEW k, Advanced(o, r, x, k)
    PROVE  WriteRec(r) /\ SameWrite(o, r) /\ r.pc = x /\ r.j = k
<1> DEFINE q == [o EXCEPT !.pc = x]
<1>1. o = [pc |-> o.pc, parent |-> o.parent, name |-> o.name, payload |-> o.payload,
           slots |-> o.slots, j |-> o.j, table |-> o.table]
  BY DEF WriteRec
<1>2. q = [pc |-> x, parent |-> o.parent, name |-> o.name, payload |-> o.payload,
           slots |-> o.slots, j |-> o.j, table |-> o.table]
  BY <1>1
<1>3. r = [q EXCEPT !.j = k]
  BY DEF Advanced
<1> HIDE DEF q
<1>4. r = [pc |-> x, parent |-> o.parent, name |-> o.name, payload |-> o.payload,
           slots |-> o.slots, j |-> k, table |-> o.table]
  BY <1>2, <1>3
<1> QED
  BY <1>4 DEF WriteRec, SameWrite

\* The records without fields but pc.
LEMMA IdleFacts ==
    Off.pc = "off" /\ Idle.pc = "idle" /\ Off # Idle
BY DEF Off, Idle

\* What a disk may hold.
LEMMA ContentFacts ==
    /\ Zero \in Content /\ Signature \in Content /\ Zero # Signature
    /\ \A t \in Tables : Table(t) \in Content /\ Table(t) # Signature /\ Table(t) # Zero
    /\ \A m \in Maps : FatBlock(m) \in Content
    /\ \A p \in Payloads, i \in 1 .. CLUSTER_MAP_SIZE : Piece(p, i) \in Content
    /\ EmptyTable \in Tables /\ EmptyFat \in Maps /\ FreshFat \in Maps
    /\ Zero.kind = "zero"
<1>1. EmptyEntry \in Entry
  BY ClusterFacts DEF EmptyEntry, Entry
<1>2. EmptyTable \in Tables /\ EmptyFat \in Maps
  BY <1>1, ClusterFacts DEF EmptyTable, Tables, EmptyFat, Maps, FAT32_FAT_EMPTY_ENTRY
<1>3. FreshFat \in Maps
  <2>1. CLUSTER_0_VALUE \in FatValues /\ FAT32_FAT_END_OF_FILE \in FatValues
    BY DEF FatValues
  <2> QED
    BY <1>2, <2>1 DEF FreshFat, Maps
<1>4. Zero # Signature /\ Zero.kind = "zero" /\ \A t : Table(t) # Signature /\ Table(t) # Zero
  <2>1. Zero.kind = "zero" /\ Signature.kind = "signature" /\ \A t : Table(t).kind = "table"
    BY DEF Zero, Signature, Table
  <2> QED
    BY <2>1
<1>5. \A p \in Payloads, i \in 1 .. CLUSTER_MAP_SIZE : Piece(p, i) \in Contents
  BY DEF Piece, Contents
<1> QED
  BY <1>2, <1>3, <1>4, <1>5 DEF Content, Contents

\* A root that is blank, or that has only its name, is no directory yet.
LEMMA RootBlank ==
    ASSUME NEW d,
           d[ROOT_CLUSTER_NUMBER] = Zero \/ d[ROOT_CLUSTER_NUMBER] = Table([EmptyTable EXCEPT ![0].name = RootName])
    PROVE  ~ Formatted(d)
<1>1. EmptyTable[0].used = FALSE
  BY ClusterFacts DEF EmptyTable, EmptyEntry
<1>2. CASE d[ROOT_CLUSTER_NUMBER] = Zero
  <2>1. TableAt(d, ROOT_CLUSTER_NUMBER) = EmptyTable
    BY <1>2, ContentFacts DEF TableAt
  <2> QED
    BY <1>1, <2>1 DEF Formatted
<1>3. CASE d[ROOT_CLUSTER_NUMBER] = Table([EmptyTable EXCEPT ![0].name = RootName])
  <2> DEFINE t == [EmptyTable EXCEPT ![0].name = RootName]
  <2>1. t[0] = [EmptyEntry EXCEPT !.name = RootName]
    BY ClusterFacts DEF EmptyTable
  <2>2. t[0].used = EmptyEntry.used
    BY <2>1 DEF EmptyEntry
  <2>3. EmptyEntry.used = FALSE
    BY DEF EmptyEntry
  <2>4. TableAt(d, ROOT_CLUSTER_NUMBER) = t
    BY <1>3 DEF TableAt, Table
  <2> HIDE DEF t
  <2> QED
    BY <2>2, <2>3, <2>4 DEF Formatted
<1> QED
  BY <1>2, <1>3

-----------------------------------------------------------------------------
(***************************************************************************)
(* Mounting and formatting.                                                 *)
(***************************************************************************)

\* A disk of zeroes.
LEMMA InitOK ==
    ASSUME Init PROVE DriverInv
<1>1. disk \in Disks /\ fat \in Maps
  BY ContentFacts DEF Init, Disks
<1>2. disk[ROOT_CLUSTER_NUMBER] = Zero /\ disk[BOOT_SECTOR] = Zero /\ \A c \in Clusters : disk[c] = Zero
  BY ClusterFacts DEF Init, ROOT_CLUSTER_NUMBER, BOOT_SECTOR
<1>3. ~ Formatted(disk)
  BY <1>2, RootBlank
<1>4. op.pc = "off" /\ op = Off /\ crashes = 0
  BY IdleFacts DEF Init
<1>5. DriverOK(disk, fat, op)
  BY <1>1, <1>2, <1>3, <1>4 DEF DriverOK, FormatOK, PCs, WritePCs, DeletePCs
<1>6. LeakFree(disk, fat, op, crashes)
  BY <1>2, <1>3, <1>4, ContentFacts DEF LeakFree
<1> QED
  BY <1>4, <1>5, <1>6, FAT32Assumption DEF DriverInv

\* The cached table is read from the disk.
LEMMA MountStep ==
    ASSUME DriverInv, Mount PROVE DriverInv'
<1>1. /\ op = Off /\ op' = Idle /\ disk' = disk /\ crashes' = crashes
      /\ fat' = FatOf(disk) /\ disk[BOOT_SECTOR] = Signature
  BY DEF Mount, is_empty_storage
<1>2. disk \in Disks /\ (Formatted(disk) => TreeOK(disk)) /\ op'.pc = "idle"
  BY <1>1, IdleFacts DEF DriverInv, DriverOK
<1>3. DriverOK(disk', fat', op')
  BY <1>1, <1>2, DiskFacts DEF DriverOK, FormatOK, PCs, WritePCs, DeletePCs
<1>4. crashes # 0
  BY <1>1 DEF DriverInv, LeakFree
<1>5. LeakFree(disk', fat', op', crashes')
  BY <1>1, <1>4 DEF LeakFree
<1> QED
  BY <1>1, <1>3, <1>5 DEF DriverInv

\* The signature is written first.
LEMMA FormatBootStep ==
    ASSUME DriverInv, FormatBoot PROVE DriverInv'
<1>1. /\ op = Off /\ op' = [pc |-> "f_fat"] /\ fat' = fat /\ crashes' = crashes
      /\ Written(disk, disk', BOOT_SECTOR, Signature) /\ disk[BOOT_SECTOR] # Signature
  BY DEF FormatBoot, is_empty_storage, write_clusters, Written
<1>2. disk \in Disks /\ fat \in Maps /\ \A c \in Clusters : disk[c] = Zero
  BY <1>1 DEF DriverInv, DriverOK, FormatOK
<1>3. op'.pc = "f_fat" /\ op' # Off
  BY <1>1 DEF Off
<1>4. /\ disk' \in Disks /\ disk'[BOOT_SECTOR] = Signature
      /\ disk'[ROOT_CLUSTER_NUMBER] = Zero
  BY <1>1, <1>2, WriteFacts, ContentFacts, ClusterFacts DEF BOOT_SECTOR, ROOT_CLUSTER_NUMBER
<1>5. ~ Formatted(disk')
  BY <1>4, RootBlank
<1>6. DriverOK(disk', fat', op')
  BY <1>1, <1>2, <1>3, <1>4, <1>5 DEF DriverOK, FormatOK, PCs, WritePCs, DeletePCs
<1>7. LeakFree(disk', fat', op', crashes')
  BY <1>3, <1>5 DEF LeakFree
<1> QED
  BY <1>1, <1>6, <1>7 DEF DriverInv

\* A write of the allocation table changes no other cluster.
LEMMA FatWritten ==
    ASSUME NEW d \in Disks, NEW d2, NEW m \in Maps, Written(d, d2, FAT_CLUSTER_NUMBER, FatBlock(m))
    PROVE  /\ d2 \in Disks /\ FatOf(d2) = m
           /\ \A c \in Clusters : c # FAT_CLUSTER_NUMBER => d2[c] = d[c]
           /\ d2[BOOT_SECTOR] = d[BOOT_SECTOR] /\ d2[ROOT_CLUSTER_NUMBER] = d[ROOT_CLUSTER_NUMBER]
<1>1. FAT_CLUSTER_NUMBER \in Clusters /\ FatBlock(m) \in Content
  BY ContentFacts, ClusterFacts DEF FAT_CLUSTER_NUMBER
<1>2. /\ BOOT_SECTOR \in Clusters /\ BOOT_SECTOR # FAT_CLUSTER_NUMBER
      /\ ROOT_CLUSTER_NUMBER \in Clusters /\ ROOT_CLUSTER_NUMBER # FAT_CLUSTER_NUMBER
  BY ClusterFacts DEF FAT_CLUSTER_NUMBER, BOOT_SECTOR, ROOT_CLUSTER_NUMBER
<1>3. d2 \in Disks /\ \A c \in Clusters : c # FAT_CLUSTER_NUMBER => d2[c] = d[c]
  BY <1>1, WriteFacts
<1>4. FatOf(d2) = m
  BY <1>1, WriteFacts
<1> QED
  BY <1>2, <1>3, <1>4

\* Then the fresh allocation table.
LEMMA FormatFatStep ==
    ASSUME DriverInv, FormatFat PROVE DriverInv'
<1>1. /\ op.pc = "f_fat" /\ op' = [pc |-> "f_name"] /\ fat' = FreshFat /\ crashes' = crashes
      /\ Written(disk, disk', FAT_CLUSTER_NUMBER, FatBlock(FreshFat))
  BY DEF FormatFat, write_clusters, Written
<1>2. disk \in Disks /\ disk[ROOT_CLUSTER_NUMBER] = Zero /\ disk[BOOT_SECTOR] = Signature
  BY <1>1, IdleFacts DEF DriverInv, DriverOK, FormatOK
<1>3. op'.pc = "f_name" /\ op' # Off
  BY <1>1 DEF Off
<1>4. /\ disk' \in Disks /\ disk'[BOOT_SECTOR] = Signature
      /\ disk'[ROOT_CLUSTER_NUMBER] = Zero
      /\ FatOf(disk') = FreshFat
  BY <1>1, <1>2, ContentFacts, FatWritten
<1>5. ~ Formatted(disk')
  BY <1>4, RootBlank
<1>6. DriverOK(disk', fat', op')
  BY <1>1, <1>3, <1>4, <1>5, ContentFacts DEF DriverOK, FormatOK, PCs, WritePCs, DeletePCs
<1>7. LeakFree(disk', fat', op', crashes')
  BY <1>3, <1>5 DEF LeakFree
<1> QED
  BY <1>1, <1>6, <1>7 DEF DriverInv

\* Then the name of the root.
LEMMA FormatNameStep ==
    ASSUME DriverInv, FormatName PROVE DriverInv'
<1> DEFINE t == [EmptyTable EXCEPT ![0].name = RootName]
<1>1. /\ op.pc = "f_name" /\ op' = [pc |-> "f_root"] /\ fat' = fat /\ crashes' = crashes
      /\ Written(disk, disk', ROOT_CLUSTER_NUMBER, Table(t))
  BY DEF FormatName, write_clusters, Written
<1>2. /\ disk \in Disks /\ disk[BOOT_SECTOR] = Signature /\ FatOf(disk) = FreshFat
      /\ fat \in Maps /\ fat = FatOf(disk)
  BY <1>1, IdleFacts DEF DriverInv, DriverOK, FormatOK
<1>3. op'.pc = "f_root" /\ op' # Off
  BY <1>1 DEF Off
<1>4. t \in Tables
  <2>1. [EmptyEntry EXCEPT !.name = RootName] \in Entry
    BY ClusterFacts DEF EmptyEntry, Entry
  <2>2. EmptyTable[0] = EmptyEntry /\ EmptyTable \in [Indices -> Entry]
    BY ClusterFacts, ContentFacts DEF EmptyTable, Tables
  <2> QED
    BY <2>1, <2>2 DEF Tables
<1> HIDE DEF t
<1>5. /\ disk' \in Disks /\ disk'[BOOT_SECTOR] = Signature
      /\ disk'[ROOT_CLUSTER_NUMBER] = Table(t) /\ FatOf(disk') = FreshFat
  <2>1. /\ BOOT_SECTOR \in Clusters /\ BOOT_SECTOR # ROOT_CLUSTER_NUMBER
        /\ ROOT_CLUSTER_NUMBER \in Clusters /\ ROOT_CLUSTER_NUMBER # FAT_CLUSTER_NUMBER
    BY ClusterFacts DEF FAT_CLUSTER_NUMBER, BOOT_SECTOR, ROOT_CLUSTER_NUMBER
  <2>2. Table(t) \in Content
    BY <1>4, ContentFacts
  <2> QED
    BY <1>1, <1>2, <2>1, <2>2, WriteFacts
<1>6. ~ Formatted(disk')
  BY <1>5, RootBlank DEF t
<1>7. DriverOK(disk', fat', op')
  BY <1>1, <1>2, <1>3, <1>5, <1>6 DEF DriverOK, FormatOK, PCs, WritePCs, DeletePCs, t
<1>8. LeakFree(disk', fat', op', crashes')
  BY <1>3, <1>6 DEF LeakFree
<1> QED
  BY <1>1, <1>7, <1>8 DEF DriverInv

Links(t, a, b) == t = [EmptyTable EXCEPT ![0] = a, ![1] = b]

\* What init_directory_table makes, for a folder with its cluster or the root without.
LEMMA DirectoryTable ==
    ASSUME NEW t, NEW a \in Entry, NEW b \in Entry, Links(t, a, b)
    PROVE  /\ t \in Tables /\ t[0] = a /\ t[1] = b
           /\ \A i \in Indices \ {0, 1} : t[i] = EmptyEntry
<1>1. EmptyTable \in [Indices -> Entry] /\ \A i \in Indices : EmptyTable[i] = EmptyEntry
  BY ContentFacts DEF Tables, EmptyTable
<1>2. 0 \in Indices /\ 1 \in Indices
  BY ClusterFacts
<1> QED
  BY <1>1, <1>2 DEF Tables, Links

\* The links of a directory are entries.
LEMMA LinkFacts ==
    ASSUME NEW n \in Names \cup {NoName, RootName}, NEW c \in Clusters
    PROVE  /\ FolderEntry(n, c) \in Entry
           /\ FolderEntry(n, c).used /\ FolderEntry(n, c).folder
           /\ FolderEntry(n, c).cluster = c /\ FolderEntry(n, c).name = n
BY DEF FolderEntry, Entry

\* With the root's table the tree is there, and holds nothing.
LEMMA FormatRootStep ==
    ASSUME DriverInv, FormatRoot
    PROVE  /\ DriverInv' /\ LiveDirs(disk') = {ROOT_CLUSTER_NUMBER} /\ LivePlaces(disk') = {}
           /\ Entries(disk', ROOT_CLUSTER_NUMBER) = {}
<1> DEFINE t == init_directory_table(RootName, ROOT_CLUSTER_NUMBER)
<1>1. /\ op.pc = "f_root" /\ op' = Idle /\ fat' = fat /\ crashes' = crashes
      /\ Written(disk, disk', ROOT_CLUSTER_NUMBER, Table(t))
  BY DEF FormatRoot, write_clusters, Written
<1>2. /\ disk \in Disks /\ disk[BOOT_SECTOR] = Signature /\ FatOf(disk) = FreshFat
      /\ fat \in Maps /\ fat = FatOf(disk)
  BY <1>1, IdleFacts DEF DriverInv, DriverOK, FormatOK
<1>3. op'.pc = "idle" /\ op' # Off
  BY <1>1, IdleFacts
<1>4. /\ t \in Tables /\ t[0].used /\ t[0].folder /\ t[1].used /\ t[1].folder
      /\ \A i \in Indices \ {0, 1} : t[i] = EmptyEntry
  <2>1. ROOT_CLUSTER_NUMBER \in Clusters /\ 0 \in Clusters /\ 0 \in Indices
    BY ClusterFacts DEF ROOT_CLUSTER_NUMBER
  <2>2. TableAt(disk, ROOT_CLUSTER_NUMBER) \in Tables
    BY <1>2, <2>1, DiskFacts
  <2>3. TableAt(disk, ROOT_CLUSTER_NUMBER)[0].name \in Names \cup {NoName, RootName}
    BY <2>1, <2>2 DEF Tables, Entry
  <2> DEFINE a == FolderEntry(RootName, 0)
             b == FolderEntry(TableAt(disk, ROOT_CLUSTER_NUMBER)[0].name, ROOT_CLUSTER_NUMBER)
  <2>4. a \in Entry /\ a.used /\ a.folder /\ b \in Entry /\ b.used /\ b.folder
    BY <2>1, <2>3, LinkFacts
  <2>5. Links(t, a, b)
    BY DEF init_directory_table, Links
  <2> HIDE DEF a, b, t
  <2> QED
    BY <2>4, <2>5, DirectoryTable
<1> HIDE DEF t
<1>5. /\ disk' \in Disks /\ disk'[BOOT_SECTOR] = Signature
      /\ disk'[ROOT_CLUSTER_NUMBER].kind = "table"
      /\ TableAt(disk', ROOT_CLUSTER_NUMBER) = t /\ FatOf(disk') = FreshFat
  <2>1. /\ BOOT_SECTOR \in Clusters /\ BOOT_SECTOR # ROOT_CLUSTER_NUMBER
        /\ ROOT_CLUSTER_NUMBER \in Clusters /\ ROOT_CLUSTER_NUMBER # FAT_CLUSTER_NUMBER
    BY ClusterFacts DEF FAT_CLUSTER_NUMBER, BOOT_SECTOR, ROOT_CLUSTER_NUMBER
  <2>2. Table(t) \in Content /\ Table(t).kind = "table"
    BY <1>4, ContentFacts DEF Table
  <2> QED
    BY <1>1, <1>2, <1>4, <2>1, <2>2, WriteFacts
<1>6. /\ FreshFat[0] # FAT32_FAT_EMPTY_ENTRY /\ FreshFat[1] # FAT32_FAT_EMPTY_ENTRY
      /\ FreshFat[ROOT_CLUSTER_NUMBER] = FAT32_FAT_END_OF_FILE
      /\ \A c \in DataClusters : FreshFat[c] = FAT32_FAT_EMPTY_ENTRY
  <2>1. EmptyFat \in [Clusters -> Nat] /\ \A c \in Clusters : EmptyFat[c] = FAT32_FAT_EMPTY_ENTRY
    BY DEF EmptyFat, FAT32_FAT_EMPTY_ENTRY
  <2>2. 0 \in Clusters /\ 1 \in Clusters /\ 2 \in Clusters /\ \A c \in DataClusters : c \in Clusters /\ c # 0 /\ c # 1 /\ c # 2
    BY ClusterFacts
  <2> QED
    BY <2>1, <2>2 DEF FreshFat, ROOT_CLUSTER_NUMBER, FAT32_FAT_EMPTY_ENTRY, FAT32_FAT_END_OF_FILE, CLUSTER_0_VALUE
<1>7. Formatted(disk')
  BY <1>4, <1>5, <1>6 DEF Formatted
<1>8. Entries(disk', ROOT_CLUSTER_NUMBER) = {} /\ Folders(disk', ROOT_CLUSTER_NUMBER) = {}
  <2>1. \A i \in Indices \ {0, 1} : ~ t[i].used
    BY <1>4 DEF EmptyEntry
  <2> QED
    BY <1>5, <2>1 DEF Entries, Folders
<1>9. LiveDirs(disk') = {ROOT_CLUSTER_NUMBER}
  <2> DEFINE X == {ROOT_CLUSTER_NUMBER}
  <2>1. ROOT_CLUSTER_NUMBER \in X /\ \A c \in X : Folders(disk', c) \subseteq X
    BY <1>8
  <2> HIDE DEF X
  <2>2. ROOT_CLUSTER_NUMBER \in LiveDirs(disk') /\ LiveDirs(disk') \subseteq X
    BY <1>7, <2>1, LiveLeast
  <2> QED
    BY <2>2 DEF X
<1>10. LivePlaces(disk') = {}
  BY <1>8, <1>9 DEF LivePlaces
<1>11. TreeOK(disk')
  <2>1. DirOK(disk', ROOT_CLUSTER_NUMBER)
    BY <1>4, <1>5 DEF DirOK
  <2> QED
    BY <1>4, <1>5, <1>6, <1>9, <1>10, <2>1 DEF TreeOK
<1>12. \A c : ~ InTree(disk', c)
  BY <1>10 DEF InTree
<1>13. DriverOK(disk', fat', op')
  BY <1>1, <1>2, <1>3, <1>5, <1>11 DEF DriverOK, FormatOK, PCs, WritePCs, DeletePCs
<1>14. LeakFree(disk', fat', op', crashes')
  <2>1. OpClusters(disk', op') = {}
    BY <1>3 DEF OpClusters, WritePCs
  <2> QED
    BY <1>1, <1>2, <1>3, <1>6, <1>7, <1>12, <2>1 DEF LeakFree
<1> QED
  BY <1>1, <1>8, <1>9, <1>10, <1>13, <1>14 DEF DriverInv

-----------------------------------------------------------------------------
(***************************************************************************)
(* Writes outside the tree.                                                 *)
(***************************************************************************)

\* A cluster that no chain of the tree holds.
LEMMA ClusterSpares ==
    ASSUME NEW d \in Disks, NEW d2, NEW c \in DataClusters, ~ InTree(d, c), NEW x \in Content,
           Written(d, d2, c, x)
    PROVE  /\ d2 \in Disks /\ Spares(d, d2) /\ FatOf(d2) = FatOf(d)
           /\ d2[c] = x /\ \A t \in Tables : x = Table(t) => TableAt(d2, c) = t
           /\ \A b \in Clusters : b # c => d2[b] = d[b] /\ TableAt(d2, b) = TableAt(d, b)
<1>1. c \in Clusters /\ c # BOOT_SECTOR /\ c # FAT_CLUSTER_NUMBER /\ c # ROOT_CLUSTER_NUMBER
  BY ClusterFacts DEF BOOT_SECTOR, FAT_CLUSTER_NUMBER, ROOT_CLUSTER_NUMBER
<1>2. BOOT_SECTOR \in Clusters /\ ROOT_CLUSTER_NUMBER \in Clusters /\ DataClusters \subseteq Clusters
  BY ClusterFacts DEF BOOT_SECTOR, ROOT_CLUSTER_NUMBER
<1>3. /\ d2 \in Disks /\ FatOf(d2) = FatOf(d) /\ d2[c] = x
      /\ \A t \in Tables : x = Table(t) => TableAt(d2, c) = t
      /\ \A b \in Clusters : b # c => d2[b] = d[b] /\ TableAt(d2, b) = TableAt(d, b)
  BY <1>1, WriteFacts
<1>4. Spares(d, d2)
  BY <1>1, <1>2, <1>3 DEF Spares
<1> QED
  BY <1>3, <1>4

\* An allocation table that differs only there.
LEMMA FatSpares ==
    ASSUME NEW d \in Disks, NEW d2, NEW m \in Maps, Written(d, d2, FAT_CLUSTER_NUMBER, FatBlock(m)),
           \A c \in Clusters : m[c] = FatOf(d)[c] \/ (c \in DataClusters /\ ~ InTree(d, c))
    PROVE  /\ d2 \in Disks /\ Spares(d, d2) /\ FatOf(d2) = m
           /\ \A c \in Clusters : c # FAT_CLUSTER_NUMBER => d2[c] = d[c]
<1>1. /\ d2 \in Disks /\ FatOf(d2) = m
      /\ \A c \in Clusters : c # FAT_CLUSTER_NUMBER => d2[c] = d[c]
      /\ d2[BOOT_SECTOR] = d[BOOT_SECTOR] /\ d2[ROOT_CLUSTER_NUMBER] = d[ROOT_CLUSTER_NUMBER]
  BY FatWritten
<1>2. \A c \in {0, 1, 2} : c \in Clusters /\ c \notin DataClusters
  BY ClusterFacts
<1>3. \A c \in DataClusters : c \in Clusters /\ c # FAT_CLUSTER_NUMBER
  BY ClusterFacts DEF FAT_CLUSTER_NUMBER
<1>4. Spares(d, d2)
  BY <1>1, <1>2, <1>3 DEF Spares
<1> QED
  BY <1>1, <1>4

\* They leave the request of a write, and of a delete, as sound as it was.
LEMMA RequestKept ==
    ASSUME NEW d \in Disks, NEW d2 \in Disks, TreeOK(d), Spares(d, d2), NEW o, NEW r, SameWrite(o, r),
           SlotsApart(d, o), ParentOK(d, o)
    PROVE  SlotsApart(d2, r) /\ ParentOK(d2, r)
<1>1. /\ LiveDirs(d2) = LiveDirs(d) /\ \A c \in LiveDirs(d) : TableAt(d2, c) = TableAt(d, c)
      /\ \A c : InTree(d2, c) <=> InTree(d, c)
  BY TreeKept
<1>2. SlotsApart(d2, r)
  BY <1>1 DEF SlotsApart, SameWrite
<1>3. ParentOK(d2, r)
  BY <1>1 DEF ParentOK, SameWrite
<1> QED
  BY <1>2, <1>3

-----------------------------------------------------------------------------
(***************************************************************************)
(* write.                                                                   *)
(***************************************************************************)

\* A parent can only be a directory of a tree.
LEMMA LiveFormatted ==
    ASSUME NEW d, NEW c \in LiveDirs(d) PROVE Formatted(d)
BY LiveReach

\* The number of clusters asked for is the number the file takes.
LEMMA ClustersAsked ==
    ASSUME Ordinary, NEW size \in Sizes
    PROVE  /\ required_clusters(size) = ClustersOf(size)
           /\ required_clusters(size) \in Nat /\ required_clusters(size) >= 1
<1> DEFINE q == (size + CLUSTER_SIZE - 1) \div CLUSTER_SIZE
<1>1. size \in Nat /\ CLUSTER_SIZE \in Nat /\ CLUSTER_SIZE # 0 /\ U8 \in Nat /\ U8 > 1
  BY FAT32Assumption
<1>2. size + CLUSTER_SIZE - 1 \in Nat
  BY <1>1
<1>3. q \in Nat
  BY <1>1, <1>2
<1>4. q < U8
  BY DEF Ordinary
<1>5. ceil(size) = q % U8
  BY DEF ceil
<1>6. CASE size = 0
  <2>1. q = 0
    BY <1>1, <1>2, <1>6
  <2> HIDE DEF q
  <2>2. ceil(size) = 0
    BY <1>1, <1>5, <2>1
  <2> QED
    BY <1>1, <1>6, <2>2 DEF required_clusters, ClustersOf
<1>7. CASE size # 0
  <2>1. q >= 1
    BY <1>1, <1>2, <1>7
  <2>2. ClustersOf(size) = q
    BY <1>7 DEF ClustersOf
  <2> HIDE DEF q
  <2>3. ceil(size) = q /\ (q + 0) % U8 = q
    BY <1>1, <1>3, <1>4, <1>5
  <2> QED
    BY <1>3, <1>7, <2>1, <2>2, <2>3 DEF required_clusters
<1> QED
  BY <1>6, <1>7

\* The entry that a write adds.
LEMMA NewEntryFacts ==
    ASSUME NEW n \in Names, NEW c \in Clusters, NEW size \in Sizes
    PROVE  LET e == NewEntry(n, c, size) IN
           /\ e \in Entry /\ e.used /\ e.cluster = c /\ e.name = n /\ e.filesize = size
           /\ e.folder <=> e.filesize = 0
BY FAT32Assumption DEF NewEntry, Entry

\* The checks of write, and the local copy of the parent's table.
LEMMA WriteStartStep ==
    ASSUME Ordinary, DriverInv, NEW parent \in LiveDirs(disk), NEW name \in Names, NEW size \in Sizes,
           NEW payload \in Payloads, WriteStart(parent, name, size, payload)
    PROVE  /\ DriverInv' /\ disk' = disk /\ op'.j = 1
           /\ op'.pc \in {"w_child", "w_fat"} /\ op'.name = name /\ op'.parent = parent
           /\ \A k \in Indices : TableAt(disk, parent)[k].name # name
<1> DEFINE table == TableAt(disk, parent)
           need  == required_clusters(size)
           slots == count_empty_fat_slots(need)
           i     == Min(EmptyTableSlots(table))
           L     == Len(slots)
<1>1. /\ op = Idle /\ write_retcode(parent, name, size) = 0
      /\ disk' = disk /\ fat' = fat /\ crashes' = crashes
  BY DEF WriteStart
<1>2. op.pc = "idle" /\ Formatted(disk)
  BY <1>1, IdleFacts, LiveFormatted
<1>3. disk \in Disks /\ fat \in Maps /\ TreeOK(disk) /\ fat = FatOf(disk) /\ disk[BOOT_SECTOR] = Signature
  BY <1>2 DEF DriverInv, DriverOK, FormatOK, TreeOK
<1>4. EmptyTableSlots(table) # {} /\ ~ (L < need)
  <2> HIDE DEF table, slots
  <2> QED
    BY <1>1 DEF write_retcode, table, slots
<1>5. need = ClustersOf(size) /\ need \in Nat /\ need >= 1
  BY ClustersAsked
<1> HIDE DEF need
<1>6. /\ slots \in Seq(EmptyFatSlots) /\ L <= need /\ L \in 0 .. CLUSTER_MAP_SIZE
      /\ \A j, k \in 1 .. L : slots[j] = slots[k] => j = k
  BY <1>5, SlotsFound
<1> HIDE DEF slots
<1>7. L = need /\ L \in 1 .. CLUSTER_MAP_SIZE
  <2> HIDE DEF L
  <2> QED
    BY <1>4, <1>5, <1>6, ClusterFacts
<1>8. \A k \in 1 .. L : slots[k] \in Clusters /\ fat[slots[k]] = FAT32_FAT_EMPTY_ENTRY
  BY <1>6 DEF EmptyFatSlots
<1>9. \A k \in 1 .. L : slots[k] \in DataClusters
  <2>1. \A c \in Clusters : c \in {0, 1, 2} \/ c \in DataClusters
    BY ClusterFacts DEF Clusters, DataClusters
  <2>2. \A c \in {0, 1, 2} : fat[c] # FAT32_FAT_EMPTY_ENTRY
    BY <1>3 DEF TreeOK, ROOT_CLUSTER_NUMBER, FAT32_FAT_END_OF_FILE, FAT32_FAT_EMPTY_ENTRY
  <2> QED
    BY <1>8, <2>1, <2>2
<1>10. \A k \in 1 .. L : ~ InTree(disk, slots[k])
  BY <1>3, <1>8, TreeFacts
<1>11. slots \in Seq(DataClusters)
  <2>1. slots \in [1 .. L -> DataClusters] /\ L \in Nat
    BY <1>6, <1>9, ClusterFacts
  <2> QED
    BY <2>1
<1>12. i \in Indices /\ ~ table[i].used
  <2>1. EmptyTableSlots(table) \in SUBSET Nat
    BY ClusterFacts DEF EmptyTableSlots
  <2>2. i \in EmptyTableSlots(table)
    BY <1>4, <2>1, MinElement
  <2> QED
    BY <2>2 DEF EmptyTableSlots
<1> HIDE DEF i
<1> DEFINE pc2 == IF size = 0 THEN "w_child" ELSE "w_fat"
           pay2 == IF size = 0 THEN "folder" ELSE payload
           table2 == [table EXCEPT ![i] = NewEntry(name, slots[1], size)]
<1>13. op' = [pc |-> pc2, parent |-> parent, name |-> name, payload |-> pay2,
              slots |-> slots, j |-> 1, table |-> table2]
  <2>1. slots # <<>> /\ 1 \in 1 .. L
    BY <1>7, ClusterFacts
  <2>2. PICK first \in IF slots = <<>> THEN Clusters ELSE {slots[1]} :
          op' = [pc |-> IF size = 0 THEN "w_child" ELSE IF slots = <<>> THEN "w_parent" ELSE "w_fat",
                 parent |-> parent, name |-> name, payload |-> pay2,
                 slots |-> slots, j |-> 1,
                 table |-> [table EXCEPT ![i] = [used |-> TRUE, name |-> name, folder |-> size = 0,
                                                 cluster |-> first, filesize |-> size]]]
    BY DEF WriteStart, slots, need, i
  <2>3. first = slots[1]
    BY <2>1, <2>2
  <2>4. table2 = [table EXCEPT ![i] = [used |-> TRUE, name |-> name, folder |-> size = 0,
                                       cluster |-> first, filesize |-> size]]
    BY <2>3 DEF NewEntry
  <2> HIDE DEF table2, pay2, L
  <2> QED
    BY <2>1, <2>2, <2>4
<1>14. /\ WriteRec(op') /\ op'.pc = pc2 /\ op'.parent = parent /\ op'.name = name /\ op'.payload = pay2
       /\ op'.slots = slots /\ op'.j = 1 /\ op'.table = table2
  <2> HIDE DEF pc2, pay2, table2
  <2> QED
    BY <1>13 DEF WriteRec
<1>15. /\ pc2 \in {"w_child", "w_fat"} /\ (pc2 = "w_child" <=> size = 0)
       /\ pay2 \in Payloads \cup {"folder"} /\ (pay2 = "folder" <=> size = 0)
  BY FAT32Assumption
<1> HIDE DEF pc2, pay2
<1>16. Linked(op') = 0
  BY <1>14, <1>15 DEF Linked
<1>17. WriteOK(disk, fat, op')
  <2>1. StageOK(op')
    BY <1>6, <1>7, <1>11, <1>14, <1>15, ClusterFacts DEF StageOK
  <2>2. SlotsApart(disk, op')
    BY <1>10, <1>14 DEF SlotsApart
  <2>3. ParentOK(disk, op')
    BY <1>5, <1>7, <1>12, <1>14, <1>15 DEF ParentOK
  <2>4. LinkOK(fat, op')
    BY <1>7, <1>8, <1>14, <1>16 DEF LinkOK
  <2>5. ChildOK(disk, op')
    BY <1>14, <1>15 DEF ChildOK
  <2> QED
    BY <1>14, <2>1, <2>2, <2>3, <2>4, <2>5 DEF WriteOK
<1>18. op'.pc \in WritePCs /\ op'.pc \in PCs /\ op' # Off
  BY <1>14, <1>15, IdleFacts DEF WritePCs, PCs
<1>19. DriverOK(disk', fat', op')
  BY <1>1, <1>2, <1>3, <1>17, <1>18 DEF DriverOK, FormatOK, WritePCs, DeletePCs
<1>20. LeakFree(disk', fat', op', crashes')
  <2>1. OpClusters(disk, op') = {} /\ OpClusters(disk, op) = {}
    BY <1>2, <1>16, <1>18 DEF OpClusters, WritePCs
  <2>2. op'.pc # "idle"
    BY <1>18 DEF WritePCs
  <2> QED
    BY <1>1, <1>2, <1>18, <2>1, <2>2 DEF DriverInv, LeakFree
<1>21. \A k \in Indices : TableAt(disk, parent)[k].name # name
  BY <1>1 DEF write_retcode, EntriesNamed
<1> QED
  BY <1>1, <1>14, <1>15, <1>19, <1>20, <1>21 DEF DriverInv

\* What holds while a write is in progress.
LEMMA WriteBefore ==
    ASSUME DriverInv, op.pc \in WritePCs
    PROVE  /\ disk \in Disks /\ fat \in Maps /\ Formatted(disk) /\ TreeOK(disk) /\ fat = FatOf(disk)
           /\ WriteRec(op) /\ StageOK(op) /\ SlotsApart(disk, op) /\ ParentOK(disk, op)
           /\ LinkOK(fat, op) /\ ChildOK(disk, op)
           /\ 1 \in 1 .. Len(op.slots)
           /\ \A i \in 1 .. Len(op.slots) : op.slots[i] \in DataClusters /\ ~ InTree(disk, op.slots[i])
<1>1. /\ disk \in Disks /\ fat \in Maps /\ Formatted(disk) /\ TreeOK(disk) /\ fat = FatOf(disk)
      /\ WriteOK(disk, fat, op)
  BY DEF DriverInv, DriverOK
<1>2. Len(op.slots) \in 1 .. CLUSTER_MAP_SIZE /\ op.slots \in Seq(DataClusters)
  BY <1>1 DEF WriteOK, StageOK
<1>3. \A i \in 1 .. Len(op.slots) : op.slots[i] \in DataClusters
  BY <1>2
<1>4. 1 \in 1 .. Len(op.slots)
  BY <1>2, ClusterFacts
<1> QED
  BY <1>1, <1>3, <1>4 DEF WriteOK, SlotsApart

\* What a write that goes on must leave behind.
LEMMA WriteAfter ==
    ASSUME NEW d \in Disks, NEW m \in Maps, NEW o, TreeOK(d), m = FatOf(d), o.pc \in WritePCs,
           WriteRec(o), StageOK(o), SlotsApart(d, o), ParentOK(d, o), LinkOK(m, o), ChildOK(d, o)
    PROVE  DriverOK(d, m, o) /\ o # Off /\ o.pc # "idle"
<1>1. Formatted(d) /\ d[BOOT_SECTOR] = Signature
  BY TreeFacts DEF TreeOK
<1>2. WriteOK(d, m, o)
  BY DEF WriteOK
<1>3. DriverOK(d, m, o)
  BY <1>1, <1>2 DEF DriverOK, FormatOK, PCs, WritePCs, DeletePCs
<1> QED
  BY <1>3, IdleFacts DEF WritePCs

\* A step of a write that allocates no cluster.
LEMMA LeakKept ==
    ASSUME DriverInv, op.pc \in WritePCs, NEW d2, NEW r, Formatted(disk), r # Off, r.pc # "idle",
           \A c : InTree(d2, c) <=> InTree(disk, c), OpClusters(d2, r) = OpClusters(disk, op)
    PROVE  LeakFree(d2, fat, r, crashes)
BY DEF DriverInv, LeakFree

\* A folder's own table.
LEMMA WriteChildStep ==
    ASSUME DriverInv, WriteChild
    PROVE  DriverInv' /\ TreeOK(disk) /\ Spares(disk, disk') /\ SameWrite(op, op') /\ op'.j = op.j
<1> DEFINE c == op.slots[1]
           t0 == init_directory_table(op.name, op.parent)
           t == [t0 EXCEPT ![0].cluster = c]
           b == FolderEntry(TableAt(disk, op.parent)[0].name, op.parent)
<1>1. /\ op.pc = "w_child" /\ fat' = fat /\ crashes' = crashes /\ op' = [op EXCEPT !.pc = "w_fat"]
      /\ Written(disk, disk', c, Table(t))
  BY DEF WriteChild, write_clusters, Written
<1>2. op.pc \in WritePCs
  BY <1>1 DEF WritePCs
<1>3. /\ disk \in Disks /\ fat \in Maps /\ Formatted(disk) /\ TreeOK(disk) /\ fat = FatOf(disk)
      /\ WriteRec(op) /\ StageOK(op) /\ SlotsApart(disk, op) /\ ParentOK(disk, op) /\ LinkOK(fat, op)
      /\ 1 \in 1 .. Len(op.slots) /\ c \in DataClusters /\ ~ InTree(disk, c)
  BY <1>2, WriteBefore
<1>4. WriteRec(op') /\ SameWrite(op, op') /\ op'.pc = "w_fat" /\ op'.j = op.j
  BY <1>1, <1>3, WriteForm
<1>5. op.parent \in Clusters /\ op.parent \in LiveDirs(disk) /\ op.name \in Names /\ c \in Clusters
  BY <1>3, LiveClosed, ClusterFacts DEF ParentOK, StageOK
<1>6. b \in Entry /\ b.used /\ b.folder /\ b.cluster = op.parent
  <2>1. TableAt(disk, op.parent)[0].name \in Names \cup {NoName, RootName}
    <3>1. TableAt(disk, op.parent) \in Tables /\ 0 \in Indices
      BY <1>3, <1>5, DiskFacts, ClusterFacts
    <3> QED
      BY <3>1 DEF Tables, Entry
  <2> QED
    BY <1>5, <2>1, LinkFacts
<1>7. /\ t \in Tables /\ t[0] = FolderEntry(op.name, c) /\ t[1] = b
      /\ \A i \in Indices \ {0, 1} : t[i] = EmptyEntry
  <2> DEFINE a0 == FolderEntry(op.name, 0)
  <2>1. a0 \in Entry /\ 0 \in Clusters /\ 0 \in Indices /\ 1 \in Indices
    BY <1>5, ClusterFacts, LinkFacts
  <2>2. Links(t0, a0, b)
    BY DEF init_directory_table, Links
  <2>3. [a0 EXCEPT !.cluster = c] = FolderEntry(op.name, c) /\ FolderEntry(op.name, c) \in Entry
    <3>1. [a0 EXCEPT !.cluster = c] = FolderEntry(op.name, c)
      <4> DEFINE yes == TRUE
      <4>1. a0 = [used |-> yes, name |-> op.name, folder |-> yes, cluster |-> 0, filesize |-> 0]
        BY DEF FolderEntry
      <4>2. FolderEntry(op.name, c) = [used |-> yes, name |-> op.name, folder |-> yes, cluster |-> c, filesize |-> 0]
        BY DEF FolderEntry
      <4> HIDE DEF yes, a0
      <4> QED
        BY <4>1, <4>2
    <3> QED
      BY <1>5, <3>1, LinkFacts
  <2> HIDE DEF a0, b, t0
  <2>4. /\ t0 \in Tables /\ t0[0] = a0 /\ t0[1] = b
        /\ \A i \in Indices \ {0, 1} : t0[i] = EmptyEntry
    BY <1>6, <2>1, <2>2, DirectoryTable
  <2>5. t = [t0 EXCEPT ![0] = FolderEntry(op.name, c)]
    <3>1. [t0[0] EXCEPT !.cluster = c] = FolderEntry(op.name, c)
      BY <2>3, <2>4
    <3> QED
      BY <3>1
  <2> HIDE DEF t, c
  <2> QED
    BY <2>1, <2>3, <2>4, <2>5 DEF Tables
<1> HIDE DEF t, c, b
<1>8. /\ disk' \in Disks /\ Spares(disk, disk') /\ FatOf(disk') = FatOf(disk)
      /\ disk'[c] = Table(t) /\ TableAt(disk', c) = t
  BY <1>1, <1>3, <1>7, ContentFacts, ClusterSpares
<1>9. TreeOK(disk') /\ \A x : InTree(disk', x) <=> InTree(disk, x)
  BY <1>3, <1>8, TreeKept
<1>10. SlotsApart(disk', op') /\ ParentOK(disk', op')
  BY <1>3, <1>4, <1>8, RequestKept
<1>11. op.j = 1 /\ Linked(op) = 0 /\ Linked(op') = 0 /\ op.payload = "folder"
  BY <1>1, <1>3, <1>4 DEF Linked, StageOK
<1>12. StageOK(op')
  BY <1>3, <1>4 DEF StageOK, SameWrite
<1>13. LinkOK(fat', op')
  BY <1>1, <1>3, <1>4, <1>11 DEF LinkOK, SameWrite
<1>14. ChildOK(disk', op')
  <2>1. op'.slots[1] = c /\ op'.name = op.name /\ op'.parent = op.parent
    BY <1>4 DEF SameWrite, c
  <2>2. disk'[c].kind = "table"
    BY <1>8 DEF Table
  <2> QED
    BY <1>6, <1>7, <1>8, <2>1, <2>2 DEF ChildOK
<1>15. DriverOK(disk', fat', op') /\ op' # Off /\ op'.pc # "idle"
  <2>1. op'.pc \in WritePCs
    BY <1>4 DEF WritePCs
  <2> QED
    BY <1>1, <1>3, <1>4, <1>8, <1>9, <1>10, <1>12, <1>13, <1>14, <2>1, WriteAfter
<1>16. LeakFree(disk', fat', op', crashes')
  <2>1. OpClusters(disk', op') = OpClusters(disk, op)
    BY <1>2, <1>4, <1>11 DEF OpClusters, WritePCs, SameWrite
  <2> QED
    BY <1>1, <1>2, <1>3, <1>9, <1>15, <2>1, LeakKept
<1> QED
  BY <1>1, <1>3, <1>4, <1>8, <1>15, <1>16 DEF DriverInv

\* One cluster more is linked, in memory and on the disk.
LEMMA WriteFatStep ==
    ASSUME DriverInv, WriteFat
    PROVE  DriverInv' /\ TreeOK(disk) /\ Spares(disk, disk') /\ SameWrite(op, op') /\ op'.j = op.j
<1> DEFINE c == op.slots[op.j]
           m2 == LinkedFat
           next == IF op.j < Len(op.slots) THEN op.slots[op.j + 1] ELSE FAT32_FAT_END_OF_FILE
           pc2 == IF op.payload = "folder" THEN "w_parent" ELSE "w_data"
<1>1. /\ op.pc = "w_fat" /\ fat' = m2 /\ crashes' = crashes /\ op' = [op EXCEPT !.pc = pc2]
      /\ Written(disk, disk', FAT_CLUSTER_NUMBER, FatBlock(m2))
  BY DEF WriteFat, write_clusters, Written
<1>2. op.pc \in WritePCs
  BY <1>1 DEF WritePCs
<1>3. /\ disk \in Disks /\ fat \in Maps /\ Formatted(disk) /\ TreeOK(disk) /\ fat = FatOf(disk)
      /\ WriteRec(op) /\ StageOK(op) /\ SlotsApart(disk, op) /\ ParentOK(disk, op) /\ LinkOK(fat, op)
      /\ ChildOK(disk, op) /\ 1 \in 1 .. Len(op.slots)
      /\ \A i \in 1 .. Len(op.slots) : op.slots[i] \in DataClusters /\ ~ InTree(disk, op.slots[i])
  BY <1>2, WriteBefore
<1>4. op.j \in 1 .. Len(op.slots) /\ Len(op.slots) \in Nat
      /\ \A i, j \in 1 .. Len(op.slots) : op.slots[i] = op.slots[j] => i = j
  BY <1>3, ClusterFacts DEF StageOK
<1>5. c \in DataClusters /\ c \in Clusters /\ ~ InTree(disk, c)
  BY <1>3, <1>4, ClusterFacts
<1>6. next \in FatValues /\ next # FAT32_FAT_EMPTY_ENTRY
  <2>1. CASE op.j < Len(op.slots)
    <3>1. op.j + 1 \in 1 .. Len(op.slots)
      BY <1>4, <2>1
    <3>2. next \in DataClusters
      BY <1>3, <2>1, <3>1
    <3> QED
      BY <3>2, ClusterFacts DEF FAT32_FAT_EMPTY_ENTRY
  <2>2. CASE ~ (op.j < Len(op.slots))
    BY <2>2 DEF FatValues, FAT32_FAT_END_OF_FILE, FAT32_FAT_EMPTY_ENTRY
  <2> QED
    BY <2>1, <2>2
<1>7. m2 \in Maps /\ m2[c] = next /\ \A x \in Clusters : x # c => m2[x] = fat[x]
  <2>1. m2 = [fat EXCEPT ![c] = next]
    BY DEF LinkedFat
  <2> HIDE DEF m2, c, next
  <2> QED
    BY <1>3, <1>5, <1>6, <2>1 DEF Maps
<1> HIDE DEF m2, c, next, pc2
<1>8. WriteRec(op') /\ SameWrite(op, op') /\ op'.pc = pc2 /\ op'.j = op.j
  BY <1>1, <1>3, WriteForm
<1>9. /\ disk' \in Disks /\ Spares(disk, disk') /\ FatOf(disk') = m2
      /\ \A x \in Clusters : x # FAT_CLUSTER_NUMBER => disk'[x] = disk[x]
  <2>1. \A x \in Clusters : m2[x] = FatOf(disk)[x] \/ (x \in DataClusters /\ ~ InTree(disk, x))
    BY <1>3, <1>5, <1>7
  <2> QED
    BY <1>1, <1>3, <1>7, <2>1, FatSpares
<1>10. TreeOK(disk') /\ \A x : InTree(disk', x) <=> InTree(disk, x)
  BY <1>3, <1>9, TreeKept
<1>11. SlotsApart(disk', op') /\ ParentOK(disk', op')
  BY <1>3, <1>8, <1>9, RequestKept
<1>12. Linked(op) = op.j - 1 /\ Linked(op') = op.j
  <2>1. op.payload = "folder" => Len(op.slots) = 1
    BY <1>3 DEF ParentOK, ClustersOf
  <2>2. op.payload = "folder" => op.j = Len(op.slots)
    BY <1>4, <2>1
  <2> QED
    BY <1>1, <1>8, <2>2 DEF Linked, pc2, SameWrite
<1>13. StageOK(op')
  BY <1>3, <1>8 DEF StageOK, SameWrite, pc2
<1>14. LinkOK(fat', op')
  <2>1. op'.slots = op.slots
    BY <1>8 DEF SameWrite
  <2>2. ASSUME NEW i \in 1 .. op.j
        PROVE  m2[op.slots[i]] = IF i < Len(op.slots) THEN op.slots[i + 1] ELSE FAT32_FAT_END_OF_FILE
    <3>0. i \in 1 .. Len(op.slots)
      BY <1>4
    <3>1. CASE i = op.j
      BY <1>7, <3>1 DEF c, next
    <3>2. CASE i # op.j
      <4>1. i \in 1 .. op.j - 1
        BY <1>4, <3>2
      <4>2. op.slots[i] # c /\ op.slots[i] \in Clusters
        BY <1>3, <1>4, <3>0, <3>2, ClusterFacts DEF c
      <4>3. fat[op.slots[i]] = IF i < Len(op.slots) THEN op.slots[i + 1] ELSE FAT32_FAT_END_OF_FILE
        BY <1>3, <1>12, <4>1 DEF LinkOK
      <4> QED
        BY <1>7, <4>2, <4>3
    <3> QED
      BY <3>1, <3>2
  <2>3. ASSUME NEW i \in op.j + 1 .. Len(op.slots) PROVE m2[op.slots[i]] = FAT32_FAT_EMPTY_ENTRY
    <3>1. i \in 1 .. Len(op.slots) /\ i # op.j /\ i \in (op.j - 1) + 1 .. Len(op.slots)
      BY <1>4
    <3>2. op.slots[i] # c /\ op.slots[i] \in Clusters
      BY <1>3, <1>4, <3>1, ClusterFacts DEF c
    <3>3. fat[op.slots[i]] = FAT32_FAT_EMPTY_ENTRY
      BY <1>3, <1>12, <3>1 DEF LinkOK
    <3> QED
      BY <1>7, <3>2, <3>3
  <2> QED
    BY <1>1, <1>12, <2>1, <2>2, <2>3 DEF LinkOK
<1>15. ChildOK(disk', op')
  <2>1. op.slots[1] \in Clusters /\ op.slots[1] # FAT_CLUSTER_NUMBER
    BY <1>3, ClusterFacts DEF FAT_CLUSTER_NUMBER
  <2>2. disk'[op.slots[1]] = disk[op.slots[1]] /\ TableAt(disk', op.slots[1]) = TableAt(disk, op.slots[1])
    BY <1>9, <2>1 DEF TableAt
  <2> QED
    BY <1>1, <1>3, <1>8, <2>2 DEF ChildOK, SameWrite
<1>16. DriverOK(disk', fat', op') /\ op' # Off /\ op'.pc # "idle"
  <2>1. op'.pc \in WritePCs
    BY <1>8 DEF WritePCs, pc2
  <2> QED
    BY <1>1, <1>7, <1>8, <1>9, <1>10, <1>11, <1>13, <1>14, <1>15, <2>1, WriteAfter
<1>17. LeakFree(disk', fat', op', crashes')
  <2>1. OpClusters(disk, op) = {op.slots[i] : i \in 1 .. op.j - 1}
    BY <1>2, <1>12 DEF OpClusters
  <2>2. OpClusters(disk', op') = {op.slots[i] : i \in 1 .. op.j}
    BY <1>8, <1>12 DEF OpClusters, SameWrite, WritePCs, pc2
  <2>3. {op.slots[i] : i \in 1 .. op.j} = {op.slots[i] : i \in 1 .. op.j - 1} \cup {c}
    <3>1. \A i : i \in 1 .. op.j <=> i \in 1 .. op.j - 1 \/ i = op.j
      BY <1>4
    <3> QED
      BY <3>1 DEF c
  <2>4. OpClusters(disk', op') = OpClusters(disk, op) \cup {c}
    BY <2>1, <2>2, <2>3
  <2>5. \A x \in DataClusters : m2[x] # FAT32_FAT_EMPTY_ENTRY <=> fat[x] # FAT32_FAT_EMPTY_ENTRY \/ x = c
    BY <1>6, <1>7, ClusterFacts
  <2> QED
    BY <1>1, <1>3, <1>10, <1>16, <2>4, <2>5 DEF DriverInv, LeakFree
<1> QED
  BY <1>1, <1>3, <1>8, <1>9, <1>16, <1>17 DEF DriverInv

\* One cluster of the file's contents.
LEMMA WriteDataStep ==
    ASSUME DriverInv, WriteData
    PROVE  /\ DriverInv' /\ TreeOK(disk) /\ Spares(disk, disk') /\ SameWrite(op, op')
           /\ op'.j - 1 = op.j \/ (op'.pc = "w_parent" /\ op.j = Len(op.slots))
<1> DEFINE c == op.slots[op.j]
           x == Piece(op.payload, op.j)
<1>1. /\ op.pc = "w_data" /\ fat' = fat /\ crashes' = crashes
      /\ op' = IF op.j < Len(op.slots) THEN [op EXCEPT !.pc = "w_fat", !.j = op.j + 1]
               ELSE [op EXCEPT !.pc = "w_parent"]
      /\ Written(disk, disk', c, x)
  BY DEF WriteData, write_clusters, Written
<1>2. op.pc \in WritePCs
  BY <1>1 DEF WritePCs
<1>3. /\ disk \in Disks /\ fat \in Maps /\ Formatted(disk) /\ TreeOK(disk) /\ fat = FatOf(disk)
      /\ WriteRec(op) /\ StageOK(op) /\ SlotsApart(disk, op) /\ ParentOK(disk, op) /\ LinkOK(fat, op)
      /\ 1 \in 1 .. Len(op.slots)
      /\ \A i \in 1 .. Len(op.slots) : op.slots[i] \in DataClusters /\ ~ InTree(disk, op.slots[i])
  BY <1>2, WriteBefore
<1>4. /\ op.j \in 1 .. Len(op.slots) /\ Len(op.slots) \in 1 .. CLUSTER_MAP_SIZE
      /\ CLUSTER_MAP_SIZE \in Nat /\ op.payload \in Payloads /\ op.payload # "folder"
  BY <1>1, <1>3, ClusterFacts DEF StageOK
<1>5. c \in DataClusters /\ ~ InTree(disk, c)
  BY <1>3, <1>4
<1>6. x \in Content
  <2>1. op.j \in 1 .. CLUSTER_MAP_SIZE
    BY <1>4
  <2> QED
    BY <1>4, <2>1, ContentFacts
<1> HIDE DEF c, x
<1>7. /\ WriteRec(op') /\ SameWrite(op, op')
      /\ op'.pc = (IF op.j < Len(op.slots) THEN "w_fat" ELSE "w_parent")
      /\ op'.j = (IF op.j < Len(op.slots) THEN op.j + 1 ELSE op.j)
  <2>1. CASE op.j < Len(op.slots)
    <3>1. Advanced(op, op', "w_fat", op.j + 1)
      BY <1>1, <2>1 DEF Advanced
    <3> QED
      BY <1>3, <2>1, <3>1, WriteFormNext
  <2>2. CASE ~ (op.j < Len(op.slots))
    BY <1>1, <1>3, <2>2, WriteForm
  <2> QED
    BY <2>1, <2>2
<1>8. disk' \in Disks /\ Spares(disk, disk') /\ FatOf(disk') = FatOf(disk)
  BY <1>1, <1>3, <1>5, <1>6, ClusterSpares
<1>9. TreeOK(disk') /\ \A y : InTree(disk', y) <=> InTree(disk, y)
  BY <1>3, <1>8, TreeKept
<1>10. SlotsApart(disk', op') /\ ParentOK(disk', op')
  BY <1>3, <1>7, <1>8, RequestKept
<1>11. Linked(op) = op.j /\ Linked(op') = op.j
  <2>1. op'.slots = op.slots
    BY <1>7 DEF SameWrite
  <2> QED
    BY <1>1, <1>4, <1>7, <2>1 DEF Linked
<1>12. StageOK(op')
  <2>1. op'.j \in 1 .. Len(op.slots)
    BY <1>4, <1>7
  <2> QED
    BY <1>3, <1>7, <2>1 DEF StageOK, SameWrite
<1>13. LinkOK(fat', op')
  BY <1>1, <1>3, <1>7, <1>11 DEF LinkOK, SameWrite
<1>14. ChildOK(disk', op')
  BY <1>4, <1>7 DEF ChildOK, SameWrite
<1>15. DriverOK(disk', fat', op') /\ op' # Off /\ op'.pc # "idle"
  <2>1. op'.pc \in WritePCs
    BY <1>7 DEF WritePCs
  <2> QED
    BY <1>1, <1>3, <1>7, <1>8, <1>9, <1>10, <1>12, <1>13, <1>14, <2>1, WriteAfter
<1>16. LeakFree(disk', fat', op', crashes')
  <2>1. OpClusters(disk', op') = OpClusters(disk, op)
    BY <1>2, <1>7, <1>11 DEF OpClusters, WritePCs, SameWrite
  <2> QED
    BY <1>1, <1>2, <1>3, <1>9, <1>15, <2>1, LeakKept
<1> QED
  BY <1>1, <1>3, <1>4, <1>7, <1>8, <1>15, <1>16 DEF DriverInv

\* The step that puts the file or folder in the tree: its chain is complete.
LEMMA WriteParentStep ==
    ASSUME DriverInv, WriteParent
    PROVE  /\ DriverInv' /\ TreeOK(disk)
           /\ Chain(FatOf(disk), op.slots[1]) = op.slots
           /\ \E i \in Indices, size \in Sizes :
                /\ size = 0 <=> op.payload = "folder"
                /\ ClustersOf(size) = Len(op.slots)
                /\ Adds(disk, disk', op.parent, i, NewEntry(op.name, op.slots[1], size))
<1>1. /\ op.pc = "w_parent" /\ fat' = fat /\ crashes' = crashes /\ op' = Idle
      /\ Written(disk, disk', op.parent, Table(op.table))
  BY DEF WriteParent, write_clusters, Written
<1>2. op.pc \in WritePCs
  BY <1>1 DEF WritePCs
<1>3. /\ disk \in Disks /\ fat \in Maps /\ Formatted(disk) /\ TreeOK(disk) /\ fat = FatOf(disk)
      /\ StageOK(op) /\ SlotsApart(disk, op) /\ ParentOK(disk, op) /\ LinkOK(fat, op) /\ ChildOK(disk, op)
      /\ 1 \in 1 .. Len(op.slots)
      /\ \A i \in 1 .. Len(op.slots) : op.slots[i] \in DataClusters /\ ~ InTree(disk, op.slots[i])
  BY <1>2, WriteBefore
<1>4. PICK i \in Indices, size \in Sizes :
        /\ ~ TableAt(disk, op.parent)[i].used
        /\ op.table = [TableAt(disk, op.parent) EXCEPT ![i] = NewEntry(op.name, op.slots[1], size)]
        /\ size = 0 <=> op.payload = "folder"
        /\ ClustersOf(size) = Len(op.slots)
  BY <1>3 DEF ParentOK
<1> DEFINE e == NewEntry(op.name, op.slots[1], size)
           s == op.slots
           L == Len(op.slots)
<1>5. Linked(op) = L
  BY <1>1 DEF Linked
<1>6. IsChain(fat, s)
  <2>1. L \in Nat /\ L \in 1 .. L
    BY <1>3, ClusterFacts DEF StageOK
  <2>2. ASSUME NEW k \in 1 .. L - 1 PROVE fat[s[k]] = s[k + 1]
    <3>1. k \in 1 .. L /\ k < L
      BY <2>1
    <3> QED
      BY <1>3, <1>5, <3>1 DEF LinkOK
  <2>3. fat[s[L]] = FAT32_FAT_END_OF_FILE
    <3>1. ~ (L < L)
      BY <2>1
    <3> QED
      BY <1>3, <1>5, <2>1, <3>1 DEF LinkOK
  <2> QED
    BY <1>3, <2>2, <2>3 DEF IsChain, StageOK
<1>7. Chain(fat, s[1]) = s /\ Good(fat, s[1])
  BY <1>6, ChainIs
<1>8. ChainSet(fat, s[1]) = {s[k] : k \in 1 .. L}
  BY <1>7 DEF ChainSet
<1>9. /\ e \in Entry /\ e.used /\ e.cluster = s[1] /\ e.name = op.name /\ e.filesize = size
      /\ (e.folder <=> e.filesize = 0)
  <2>1. s[1] \in Clusters /\ op.name \in Names
    BY <1>3, ClusterFacts DEF StageOK
  <2> QED
    BY <2>1, NewEntryFacts
<1> HIDE DEF e
<1>10. FreshEntry(disk, op.parent, e)
  <2>1. e.folder => op.payload = "folder" /\ op.pc # "w_child"
    BY <1>1, <1>4, <1>9
  <2>2. \A c \in ChainSet(fat, s[1]) : ~ InTree(disk, c)
    BY <1>3, <1>8
  <2> QED
    BY <1>3, <1>4, <1>7, <1>9, <2>1, <2>2 DEF FreshEntry, ChildOK
<1>11. /\ disk' \in Disks /\ TreeOK(disk') /\ FatOf(disk') = FatOf(disk)
       /\ \A c : InTree(disk', c) <=> InTree(disk, c) \/ c \in ChainSet(fat, s[1])
  <2>1. op.parent \in LiveDirs(disk)
    BY <1>3 DEF ParentOK
  <2>2. Written(disk, disk', op.parent, Table(WithEntry(TableAt(disk, op.parent), i, e)))
    BY <1>1, <1>4 DEF e, WithEntry
  <2>3. e.cluster = s[1] /\ fat = FatOf(disk)
    BY <1>3, <1>9
  <2>4. disk \in Disks /\ TreeOK(disk) /\ Adds(disk, disk', op.parent, i, e)
    BY <1>3, <1>4, <1>10, <2>1, <2>2 DEF Adds
  <2>5. /\ disk' \in Disks /\ TreeOK(disk') /\ FatOf(disk') = FatOf(disk)
        /\ \A c : InTree(disk', c) <=> InTree(disk, c) \/ c \in ChainSet(FatOf(disk), e.cluster)
    BY <2>4, PlaceAdded
  <2> QED
    BY <2>3, <2>5
<1>11a. Adds(disk, disk', op.parent, i, NewEntry(op.name, op.slots[1], size))
  <2>1. op.parent \in LiveDirs(disk)
    BY <1>3 DEF ParentOK
  <2>2. Written(disk, disk', op.parent, Table(WithEntry(TableAt(disk, op.parent), i, e)))
    BY <1>1, <1>4 DEF e, WithEntry
  <2> QED
    BY <1>3, <1>4, <1>10, <2>1, <2>2 DEF Adds, e
<1>12. Formatted(disk') /\ disk'[BOOT_SECTOR] = Signature /\ op'.pc = "idle" /\ op' # Off
  BY <1>1, <1>11, TreeFacts, IdleFacts DEF TreeOK
<1>13. DriverOK(disk', fat', op')
  BY <1>1, <1>3, <1>11, <1>12 DEF DriverOK, FormatOK, PCs, WritePCs, DeletePCs
<1>14. LeakFree(disk', fat', op', crashes')
  <2>1. OpClusters(disk, op) = ChainSet(fat, s[1])
    BY <1>2, <1>5, <1>8 DEF OpClusters
  <2>2. OpClusters(disk', op') = {}
    BY <1>12 DEF OpClusters, WritePCs
  <2> QED
    BY <1>1, <1>3, <1>11, <1>12, <2>1, <2>2 DEF DriverInv, LeakFree
<1> QED
  BY <1>1, <1>3, <1>4, <1>7, <1>11a, <1>13, <1>14 DEF DriverInv

-----------------------------------------------------------------------------
(***************************************************************************)
(* delete.                                                                  *)
(***************************************************************************)

\* A search by name that finds something finds a used entry past the links.
LEMMA SearchFinds ==
    ASSUME Ordinary, NEW d \in Disks, TreeOK(d), NEW parent \in LiveDirs(d), NEW name \in Names, NEW from \in Nat,
           IndexOfName(TableAt(d, parent), name, from) # TABLE_SIZE
    PROVE  LET i == IndexOfName(TableAt(d, parent), name, from) IN
           i \in Indices /\ i >= from /\ TableAt(d, parent)[i].used /\ TableAt(d, parent)[i].name = name
<1> DEFINE t == TableAt(d, parent)
           S == {k \in Indices : k >= from /\ t[k].name = name} \cup {TABLE_SIZE}
           i == IndexOfName(t, name, from)
<1>1. S \in SUBSET Nat /\ S # {}
  BY ClusterFacts
<1>2. i \in S
  BY <1>1, MinElement DEF IndexOfName
<1>3. i \in Indices /\ i >= from /\ t[i].name = name
  BY <1>2
<1>4. t[i].used
  <2>1. ~ t[i].used => t[i] = EmptyEntry
    BY <1>3 DEF TreeOK, DirOK
  <2>2. EmptyEntry.name = NoName
    BY DEF EmptyEntry
  <2> QED
    BY <1>3, <2>1, <2>2 DEF Ordinary
<1> QED
  BY <1>3, <1>4

\* The checks of delete, and the local copy of the parent's table.
LEMMA DeleteStartStep ==
    ASSUME Ordinary, DriverInv, NEW parent \in LiveDirs(disk), NEW name \in Names, DeleteStart(parent, name)
    PROVE  DriverInv'
<1> DEFINE table == TableAt(disk, parent)
           i     == IndexOfName(table, name, 2)
           table2 == [table EXCEPT ![i] = EmptyEntry]
           cl    == table[i].cluster
<1>1. /\ op = Idle /\ delete_retcode(parent, name) = 0
      /\ disk' = disk /\ fat' = fat /\ crashes' = crashes
      /\ op' = [pc |-> "d_parent", parent |-> parent, cluster |-> cl, table |-> table2]
  BY DEF DeleteStart
<1>2. op.pc = "idle" /\ Formatted(disk)
  BY <1>1, IdleFacts, LiveFormatted
<1>3. disk \in Disks /\ fat \in Maps /\ TreeOK(disk) /\ fat = FatOf(disk) /\ disk[BOOT_SECTOR] = Signature
  BY <1>2 DEF DriverInv, DriverOK, FormatOK, TreeOK
<1>4. i # TABLE_SIZE /\ (table[i].folder => FolderEmpty(cl))
  <2> HIDE DEF table, i, cl
  <2>1. delete_retcode(parent, name) =
           IF fat[parent] # FAT32_FAT_END_OF_FILE THEN 2
           ELSE IF i = TABLE_SIZE THEN 1
           ELSE IF table[i].folder /\ ~ FolderEmpty(cl) THEN 2
           ELSE 0
    BY DEF delete_retcode, table, i, cl
  <2> QED
    BY <1>1, <2>1
<1>5. i \in Indices /\ i >= 2 /\ table[i].used
  BY <1>3, <1>4, SearchFinds
<1>6. i \in Entries(disk, parent)
  <2>1. i \notin {0, 1}
    BY <1>5, ClusterFacts
  <2> QED
    BY <1>5, <2>1 DEF Entries
<1>7. table[i].folder => Entries(disk, cl) = {}
  BY <1>4 DEF FolderEmpty, Entries
<1>8. /\ DeleteRec(op') /\ op'.pc = "d_parent" /\ op'.parent = parent /\ op'.cluster = cl /\ op'.table = table2
  <2> HIDE DEF cl, table2
  <2> QED
    BY <1>1 DEF DeleteRec
<1>9. UnlinkOK(disk, op')
  BY <1>6, <1>7, <1>8 DEF UnlinkOK
<1>10. op' # Off
  BY <1>8, IdleFacts
<1>11. DriverOK(disk', fat', op')
  BY <1>1, <1>2, <1>3, <1>8, <1>9 DEF DriverOK, FormatOK, PCs, WritePCs, DeletePCs
<1>12. LeakFree(disk', fat', op', crashes')
  <2>1. OpClusters(disk, op') = {} /\ OpClusters(disk, op) = {}
    BY <1>2, <1>8 DEF OpClusters, WritePCs
  <2> QED
    BY <1>1, <1>2, <1>8, <1>10, <2>1 DEF DriverInv, LeakFree
<1> QED
  BY <1>1, <1>11, <1>12 DEF DriverInv

\* What a delete that goes on must leave behind.
LEMMA DeleteAfter ==
    ASSUME NEW d \in Disks, NEW m \in Maps, NEW o, TreeOK(d), o.pc \in {"d_free", "d_fat"},
           o.pc = "d_free" => FreeingOK(d, m, o), FreedOK(d, m)
    PROVE  DriverOK(d, m, o) /\ o # Off /\ o.pc # "idle"
<1>1. Formatted(d) /\ d[BOOT_SECTOR] = Signature
  BY TreeFacts DEF TreeOK
<1>2. o # Off
  BY IdleFacts
<1> QED
  BY <1>1, <1>2 DEF DriverOK, FormatOK, PCs, WritePCs, DeletePCs

FreesNext(o, r, x, k) ==
    \/ r = [o EXCEPT !.pc = x] /\ k = o.cluster
    \/ r = [o EXCEPT !.pc = x, !.cluster = k]

\* A step of a delete changes where it stands and the cluster it is at.
LEMMA DeleteForm ==
    ASSUME NEW o, DeleteRec(o), NEW r, NEW x, NEW k, FreesNext(o, r, x, k)
    PROVE  DeleteRec(r) /\ r.pc = x /\ r.cluster = k
<1> DEFINE q == [o EXCEPT !.pc = x]
<1>1. o = [pc |-> o.pc, parent |-> o.parent, cluster |-> o.cluster, table |-> o.table]
  BY DEF DeleteRec
<1>2. q = [pc |-> x, parent |-> o.parent, cluster |-> o.cluster, table |-> o.table]
  BY <1>1
<1>3. CASE r = [o EXCEPT !.pc = x] /\ k = o.cluster
  BY <1>2, <1>3 DEF DeleteRec
<1>4. CASE r = [o EXCEPT !.pc = x, !.cluster = k]
  <2>1. r = [q EXCEPT !.cluster = k]
    BY <1>4
  <2> HIDE DEF q
  <2>2. r = [pc |-> x, parent |-> o.parent, cluster |-> k, table |-> o.table]
    BY <1>2, <2>1
  <2> QED
    BY <2>2 DEF DeleteRec
<1> QED
  BY <1>3, <1>4 DEF FreesNext

\* The step that takes the file or folder out of the tree.
LEMMA DeleteParentStep ==
    ASSUME DriverInv, DeleteParent
    PROVE  /\ DriverInv' /\ TreeOK(disk)
           /\ \E i \in Entries(disk, op.parent) :
                Drops(disk, disk', op.parent, i, TableAt(disk, op.parent)[i])
<1>1. /\ op.pc = "d_parent" /\ fat' = fat /\ crashes' = crashes /\ op' = [op EXCEPT !.pc = "d_free"]
      /\ Written(disk, disk', op.parent, Table(op.table))
  BY DEF DeleteParent, write_clusters, Written
<1>2. /\ disk \in Disks /\ fat \in Maps /\ Formatted(disk) /\ TreeOK(disk) /\ fat = FatOf(disk)
      /\ UnlinkOK(disk, op)
  BY <1>1 DEF DriverInv, DriverOK, DeletePCs
<1>3. PICK i \in Entries(disk, op.parent) :
        /\ op.table = [TableAt(disk, op.parent) EXCEPT ![i] = EmptyEntry]
        /\ op.cluster = TableAt(disk, op.parent)[i].cluster
        /\ TableAt(disk, op.parent)[i].folder => Entries(disk, op.cluster) = {}
  BY <1>2 DEF UnlinkOK
<1> DEFINE e == TableAt(disk, op.parent)[i]
           CS == ChainSet(FatOf(disk), op.cluster)
<1>4. DeleteRec(op') /\ op'.pc = "d_free" /\ op'.cluster = op.cluster
  <2>1. DeleteRec(op) /\ FreesNext(op, op', "d_free", op.cluster)
    BY <1>1, <1>2 DEF UnlinkOK, FreesNext
  <2> QED
    BY <2>1, DeleteForm
<1>5. Drops(disk, disk', op.parent, i, e)
  BY <1>1, <1>2, <1>3 DEF Drops, WithEntry, UnlinkOK
<1>6. e.cluster = op.cluster /\ i \in Entries(disk, op.parent) /\ op.parent \in LiveDirs(disk)
  BY <1>2, <1>3 DEF UnlinkOK
<1>7. \A c \in CS : InTree(disk, c)
  <2>1. <<op.parent, i>> \in LivePlaces(disk) /\ EntryAt(disk, <<op.parent, i>>) = e
    BY <1>2, <1>6, PlaceFacts
  <2> QED
    BY <1>2, <1>6, <2>1, TreeFacts
<1> HIDE DEF e
<1>8. /\ disk' \in Disks /\ TreeOK(disk') /\ FatOf(disk') = FatOf(disk)
      /\ Good(FatOf(disk), e.cluster)
      /\ \A c : InTree(disk', c) <=> InTree(disk, c) /\ c \notin ChainSet(FatOf(disk), e.cluster)
  BY <1>2, <1>5, PlaceDropped
<1>9. FreeingOK(disk', fat', op') /\ FreedOK(disk', fat')
  BY <1>1, <1>2, <1>4, <1>6, <1>8 DEF FreeingOK, FreedOK
<1>10. DriverOK(disk', fat', op') /\ op' # Off /\ op'.pc # "idle"
  BY <1>1, <1>2, <1>4, <1>8, <1>9, DeleteAfter
<1>11. LeakFree(disk', fat', op', crashes')
  <2>1. OpClusters(disk, op) = {} /\ OpClusters(disk', op') = CS
    BY <1>1, <1>4, <1>8 DEF OpClusters, WritePCs
  <2>2. \A c : InTree(disk, c) <=> InTree(disk', c) \/ c \in CS
    BY <1>6, <1>7, <1>8
  <2> QED
    BY <1>1, <1>2, <1>10, <2>1, <2>2 DEF DriverInv, LeakFree
<1> QED
  BY <1>1, <1>2, <1>5, <1>10, <1>11 DEF DriverInv, e

\* One cluster of the chain is freed in memory and erased on the disk.
LEMMA DeleteFreeStep ==
    ASSUME DriverInv, DeleteFree PROVE DriverInv' /\ TreeOK(disk) /\ Spares(disk, disk')
<1> DEFINE c == op.cluster
           m == FatOf(disk)
           next == fat[c]
           pc2 == IF next = FAT32_FAT_END_OF_FILE THEN "d_fat"
                  ELSE IF next \in Clusters THEN "d_free" ELSE "stuck"
<1>1. /\ op.pc = "d_free" /\ crashes' = crashes /\ fat' = [fat EXCEPT ![c] = FAT32_FAT_EMPTY_ENTRY]
      /\ op' = [op EXCEPT !.pc = pc2, !.cluster = next]
      /\ Written(disk, disk', c, Zero)
  BY DEF DeleteFree, write_clusters, Written
<1>2. /\ disk \in Disks /\ fat \in Maps /\ Formatted(disk) /\ TreeOK(disk)
      /\ FreeingOK(disk, fat, op) /\ FreedOK(disk, fat)
  BY <1>1 DEF DriverInv, DriverOK, DeletePCs
<1>3. /\ Good(m, c) /\ DeleteRec(op)
      /\ \A x \in ChainSet(m, c) : ~ InTree(disk, x) /\ fat[x] = m[x]
  BY <1>2 DEF FreeingOK
<1>4. c \in ChainSet(m, c) /\ c \in DataClusters /\ ChainSet(m, c) \subseteq DataClusters
  BY <1>3, GoodFacts
<1>5. next = m[c] /\ ~ InTree(disk, c) /\ c \in Clusters
  BY <1>3, <1>4, ClusterFacts
<1>6. /\ fat' \in Maps /\ fat'[c] = FAT32_FAT_EMPTY_ENTRY
      /\ \A x \in Clusters : x # c => fat'[x] = fat[x]
  <2>1. FAT32_FAT_EMPTY_ENTRY \in FatValues
    BY ClusterFacts DEF FAT32_FAT_EMPTY_ENTRY
  <2> HIDE DEF c
  <2> QED
    BY <1>1, <1>2, <1>5, <2>1 DEF Maps
<1>7. DeleteRec(op') /\ op'.pc = pc2 /\ op'.cluster = next
  <2> HIDE DEF pc2, next
  <2>1. FreesNext(op, op', pc2, next)
    BY <1>1 DEF FreesNext
  <2> QED
    BY <1>3, <2>1, DeleteForm
<1>8. disk' \in Disks /\ Spares(disk, disk') /\ FatOf(disk') = m
  <2> HIDE DEF c
  <2> QED
    BY <1>1, <1>2, <1>4, <1>5, ContentFacts, ClusterSpares
<1>9. TreeOK(disk') /\ \A x : InTree(disk', x) <=> InTree(disk, x)
  BY <1>2, <1>8, TreeKept
<1>10. next # FAT32_FAT_END_OF_FILE =>
         /\ next \in DataClusters /\ Good(m, next)
         /\ ChainSet(m, c) = {c} \cup ChainSet(m, next) /\ c \notin ChainSet(m, next)
  <2> HIDE DEF c, m, next
  <2> QED
    BY <1>3, <1>5, GoodTail
<1>11. next = FAT32_FAT_END_OF_FILE => ChainSet(m, c) = {c}
  <2> HIDE DEF c, m, next
  <2> QED
    BY <1>3, <1>5, GoodLast
<1>12. pc2 = (IF next = FAT32_FAT_END_OF_FILE THEN "d_fat" ELSE "d_free")
  BY <1>10, ClusterFacts
<1> HIDE DEF c, m, next, pc2
<1>13. FreedOK(disk', fat')
  BY <1>2, <1>4, <1>5, <1>6, <1>8, <1>9 DEF FreedOK, m
<1>14. op'.pc = "d_free" => FreeingOK(disk', fat', op')
  <2> SUFFICES ASSUME op'.pc = "d_free" PROVE FreeingOK(disk', fat', op')
    OBVIOUS
  <2>1. next # FAT32_FAT_END_OF_FILE
    BY <1>7, <1>12
  <2>2. \A x \in ChainSet(m, next) : x # c /\ x \in ChainSet(m, c) /\ x \in Clusters
    BY <1>4, <1>10, <2>1, ClusterFacts
  <2>3. \A x \in ChainSet(m, next) : ~ InTree(disk', x) /\ fat'[x] = m[x]
    BY <1>3, <1>6, <1>9, <2>2
  <2> QED
    BY <1>7, <1>8, <1>10, <2>1, <2>3 DEF FreeingOK
<1>15. DriverOK(disk', fat', op') /\ op' # Off /\ op'.pc # "idle"
  <2>1. op'.pc \in {"d_free", "d_fat"}
    BY <1>7, <1>12
  <2> QED
    BY <1>6, <1>8, <1>9, <1>13, <1>14, <2>1, DeleteAfter
<1>16. LeakFree(disk', fat', op', crashes')
  <2>1. OpClusters(disk, op) = ChainSet(m, c)
    BY <1>1 DEF OpClusters, WritePCs, m, c
  <2>2. ChainSet(m, c) = {c} \cup OpClusters(disk', op') /\ c \notin OpClusters(disk', op')
    BY <1>7, <1>8, <1>10, <1>11, <1>12 DEF OpClusters, WritePCs
  <2>3. \A x \in DataClusters : fat'[x] # FAT32_FAT_EMPTY_ENTRY <=> fat[x] # FAT32_FAT_EMPTY_ENTRY /\ x # c
    BY <1>6, ClusterFacts
  <2> QED
    BY <1>1, <1>2, <1>5, <1>9, <1>15, <2>1, <2>2, <2>3 DEF DriverInv, LeakFree
<1> QED
  BY <1>1, <1>2, <1>8, <1>15, <1>16 DEF DriverInv

\* The freed entries reach the disk.
LEMMA DeleteFatStep ==
    ASSUME DriverInv, DeleteFat PROVE DriverInv' /\ TreeOK(disk) /\ Spares(disk, disk')
<1>1. /\ op.pc = "d_fat" /\ fat' = fat /\ crashes' = crashes /\ op' = Idle
      /\ Written(disk, disk', FAT_CLUSTER_NUMBER, FatBlock(fat))
  BY DEF DeleteFat, write_clusters, Written
<1>2. disk \in Disks /\ fat \in Maps /\ Formatted(disk) /\ TreeOK(disk) /\ FreedOK(disk, fat)
  BY <1>1 DEF DriverInv, DriverOK, DeletePCs
<1>3. disk' \in Disks /\ Spares(disk, disk') /\ FatOf(disk') = fat
  <2>1. \A c \in Clusters : fat[c] = FatOf(disk)[c] \/ (c \in DataClusters /\ ~ InTree(disk, c))
    BY <1>2 DEF FreedOK
  <2> QED
    BY <1>1, <1>2, <2>1, FatSpares
<1>4. TreeOK(disk') /\ \A x : InTree(disk', x) <=> InTree(disk, x)
  BY <1>2, <1>3, TreeKept
<1>5. Formatted(disk') /\ disk'[BOOT_SECTOR] = Signature /\ op'.pc = "idle" /\ op' # Off
  BY <1>1, <1>3, <1>4, TreeFacts, IdleFacts DEF TreeOK
<1>6. DriverOK(disk', fat', op')
  BY <1>1, <1>2, <1>3, <1>4, <1>5 DEF DriverOK, FormatOK, PCs, WritePCs, DeletePCs
<1>7. LeakFree(disk', fat', op', crashes')
  <2>1. OpClusters(disk, op) = {} /\ OpClusters(disk', op') = {}
    BY <1>1, <1>5 DEF OpClusters, WritePCs
  <2> QED
    BY <1>1, <1>2, <1>4, <1>5, <2>1 DEF DriverInv, LeakFree
<1> QED
  BY <1>1, <1>2, <1>3, <1>6, <1>7 DEF DriverInv

-----------------------------------------------------------------------------
(***************************************************************************)
(* Loss of power.                                                           *)
(***************************************************************************)

\* A machine that is off has only its disk.
LEMMA PowerOff ==
    ASSUME DriverInv, PowerFails, disk' \in Disks, Formatted(disk') => TreeOK(disk'),
           disk'[BOOT_SECTOR] = disk[BOOT_SECTOR]
    PROVE  DriverInv'
<1>1. op # Off /\ op' = Off /\ fat' = EmptyFat /\ crashes' = crashes + 1 /\ crashes < MaxCrashes
  BY DEF PowerFails
<1>2. crashes \in 0 .. MaxCrashes /\ MaxCrashes \in Nat
  BY FAT32Assumption DEF DriverInv
<1>3. disk'[BOOT_SECTOR] = Signature
  BY <1>1 DEF DriverInv, DriverOK, FormatOK
<1>4. op'.pc = "off"
  BY <1>1, IdleFacts
<1>5. DriverOK(disk', fat', op')
  BY <1>1, <1>3, <1>4, ContentFacts DEF DriverOK, FormatOK, PCs, WritePCs, DeletePCs
<1>6. crashes' \in 0 .. MaxCrashes /\ crashes' # 0
  BY <1>1, <1>2
<1>7. LeakFree(disk', fat', op', crashes')
  BY <1>6 DEF LeakFree
<1> QED
  BY <1>5, <1>6, <1>7 DEF DriverInv

\* Between two writes.
LEMMA CrashStep ==
    ASSUME DriverInv, Crash PROVE DriverInv'
<1>1. PowerFails /\ disk' = disk
  BY DEF Crash
<1>2. disk \in Disks /\ (Formatted(disk) => TreeOK(disk))
  BY DEF DriverInv, DriverOK
<1>3. disk' \in Disks /\ (Formatted(disk') => TreeOK(disk'))
  BY <1>1, <1>2
<1> QED
  BY <1>1, <1>3, PowerOff

\* The allocation table that a write in progress is putting on the disk.
LEMMA PendingFacts ==
    ASSUME DriverInv, op.pc \in {"f_fat", "w_fat", "d_fat"}
    PROVE  /\ PendingFat \in Maps
           /\ op.pc # "f_fat" => \A c \in Clusters :
                 PendingFat[c] = FatOf(disk)[c] \/ (c \in DataClusters /\ ~ InTree(disk, c))
<1>1. CASE op.pc = "f_fat"
  <2>1. PendingFat = FreshFat
    BY <1>1 DEF PendingFat
  <2> QED
    BY <1>1, <2>1, ContentFacts
<1>2. CASE op.pc = "w_fat"
  <2> DEFINE c == op.slots[op.j]
             next == IF op.j < Len(op.slots) THEN op.slots[op.j + 1] ELSE FAT32_FAT_END_OF_FILE
  <2>1. PendingFat = [fat EXCEPT ![c] = next]
    BY <1>2 DEF PendingFat, LinkedFat
  <2>2. /\ fat \in Maps /\ fat = FatOf(disk) /\ StageOK(op)
        /\ \A i \in 1 .. Len(op.slots) : op.slots[i] \in DataClusters /\ ~ InTree(disk, op.slots[i])
    <3>1. op.pc \in WritePCs
      BY <1>2 DEF WritePCs
    <3> QED
      BY <3>1, WriteBefore
  <2>3. op.j \in 1 .. Len(op.slots) /\ Len(op.slots) \in Nat
    BY <2>2, ClusterFacts DEF StageOK
  <2>4. c \in DataClusters /\ c \in Clusters /\ ~ InTree(disk, c)
    BY <2>2, <2>3, ClusterFacts
  <2>5. next \in FatValues
    <3>1. CASE op.j < Len(op.slots)
      <4>1. op.j + 1 \in 1 .. Len(op.slots)
        BY <2>3, <3>1
      <4> QED
        BY <2>2, <3>1, <4>1, ClusterFacts
    <3>2. CASE ~ (op.j < Len(op.slots))
      BY <3>2 DEF FatValues
    <3> QED
      BY <3>1, <3>2
  <2> HIDE DEF c, next
  <2> QED
    BY <2>1, <2>2, <2>4, <2>5 DEF Maps
<1>3. CASE op.pc = "d_fat"
  <2>1. PendingFat = fat
    BY <1>3 DEF PendingFat
  <2>2. fat \in Maps /\ FreedOK(disk, fat)
    BY <1>3 DEF DriverInv, DriverOK
  <2> QED
    BY <2>1, <2>2 DEF FreedOK
<1> QED
  BY <1>1, <1>2, <1>3

\* In the middle of a write of the allocation table.
LEMMA CrashInFatWriteStep ==
    ASSUME DriverInv, CrashInFatWrite
    PROVE  /\ DriverInv'
           /\ \/ ~ Formatted(disk) /\ ~ Formatted(disk')
              \/ TreeOK(disk) /\ Spares(disk, disk')
<1>1. PICK k \in 1 .. (CLUSTER_MAP_SIZE - 1) \div FAT_PER_BLOCK :
        Written(disk, disk', FAT_CLUSTER_NUMBER, FatBlock(TornFat(k)))
  BY DEF CrashInFatWrite, write_clusters, Written
<1>2. op.pc \in {"f_fat", "w_fat", "d_fat"} /\ PowerFails
  BY DEF CrashInFatWrite
<1>3. disk \in Disks /\ FatOf(disk) \in Maps
  BY DiskFacts DEF DriverInv, DriverOK
<1> DEFINE m == TornFat(k)
<1>4. m \in Maps /\ \A c \in Clusters : m[c] = PendingFat[c] \/ m[c] = FatOf(disk)[c]
  BY <1>2, <1>3, PendingFacts DEF TornFat, Maps
<1> HIDE DEF m
<1>5. Written(disk, disk', FAT_CLUSTER_NUMBER, FatBlock(m))
  BY <1>1 DEF m
<1>6. disk' \in Disks /\ disk'[BOOT_SECTOR] = disk[BOOT_SECTOR] /\ disk'[ROOT_CLUSTER_NUMBER] = disk[ROOT_CLUSTER_NUMBER]
  BY <1>3, <1>4, <1>5, FatWritten
<1>7. /\ Formatted(disk') => TreeOK(disk')
      /\ (~ Formatted(disk) /\ ~ Formatted(disk')) \/ (TreeOK(disk) /\ Spares(disk, disk'))
  <2>1. CASE op.pc = "f_fat"
    <3>1. disk'[ROOT_CLUSTER_NUMBER] = Zero /\ disk[ROOT_CLUSTER_NUMBER] = Zero
      BY <1>6, <2>1 DEF DriverInv, DriverOK, FormatOK
    <3> QED
      BY <3>1, RootBlank
  <2>2. CASE op.pc # "f_fat"
    <3>1. TreeOK(disk)
      BY <1>2, <2>2 DEF DriverInv, DriverOK, WritePCs, DeletePCs
    <3>2. \A c \in Clusters : m[c] = FatOf(disk)[c] \/ (c \in DataClusters /\ ~ InTree(disk, c))
      BY <1>2, <1>4, <2>2, PendingFacts
    <3>3. Spares(disk, disk')
      BY <1>3, <1>4, <1>5, <3>2, FatSpares
    <3> QED
      BY <1>3, <1>6, <3>1, <3>3, TreeKept
  <2> QED
    BY <2>1, <2>2
<1> QED
  BY <1>2, <1>6, <1>7, PowerOff

-----------------------------------------------------------------------------
(***************************************************************************)
(* The theorems.                                                            *)
(***************************************************************************)

\* The invariant is inductive.
LEMMA DriverStep ==
    ASSUME Ordinary, DriverInv, [Next]_vars PROVE DriverInv'
<1>1. CASE UNCHANGED vars
  BY <1>1 DEF vars, DriverInv
<1>2. CASE Mount
  BY <1>2, MountStep
<1>3. CASE FormatBoot
  BY <1>3, FormatBootStep
<1>4. CASE Start
  <2>1. PICK parent \in LiveDirs(disk), name \in Names :
          \/ \E size \in Sizes, payload \in Payloads : WriteStart(parent, name, size, payload)
          \/ DeleteStart(parent, name)
    BY <1>4 DEF Start
  <2>2. CASE \E size \in Sizes, payload \in Payloads : WriteStart(parent, name, size, payload)
    BY <2>1, <2>2, WriteStartStep
  <2>3. CASE DeleteStart(parent, name)
    BY <2>1, <2>3, DeleteStartStep
  <2> QED
    BY <2>1, <2>2, <2>3
<1>5. CASE Step
  BY <1>5, FormatFatStep, FormatNameStep, FormatRootStep, WriteChildStep, WriteFatStep, WriteDataStep,
     WriteParentStep, DeleteParentStep, DeleteFreeStep, DeleteFatStep DEF Step
<1>6. CASE Crash
  BY <1>6, CrashStep
<1>7. CASE CrashInFatWrite
  BY <1>7, CrashInFatWriteStep
<1> QED
  BY <1>1, <1>2, <1>3, <1>4, <1>5, <1>6, <1>7 DEF Next

(***************************************************************************)
(* The driver's invariant holds in every state of every behaviour, whatever the     *)
(* number of losses of power and wherever they fall (fat32.c, all of it).         *)
(***************************************************************************)
THEOREM DriverInvariant == Spec => [](Ordinary => DriverInv)
<1>1. Init => (Ordinary => DriverInv)
  BY InitOK
<1>2. (Ordinary => DriverInv) /\ [Next]_vars => (Ordinary => DriverInv)'
  <2> SUFFICES ASSUME Ordinary => DriverInv, [Next]_vars, Ordinary' PROVE DriverInv'
    OBVIOUS
  <2>1. Ordinary
    BY DEF Ordinary
  <2> QED
    BY <2>1, DriverStep
<1> QED
  BY <1>1, <1>2, PTL DEF Spec

\* The type invariant, of the disk above all.
THEOREM DriverTypes == Spec => [](Ordinary => TypeOK)
<1>1. DriverInv => TypeOK
  <2> SUFFICES ASSUME DriverInv PROVE TypeOK
    OBVIOUS
  <2>1. disk \in Disks /\ fat \in Maps /\ op.pc \in PCs /\ crashes \in 0 .. MaxCrashes
    BY DEF DriverInv, DriverOK
  <2>2. ASSUME NEW c \in Clusters
        PROVE  \/ disk[c] \in Contents
               \/ disk[c].kind = "table" /\ \A i \in Indices : disk[c].table[i] \in Entry
               \/ disk[c].kind = "fat" /\ \A b \in Clusters : disk[c].map[b] \in FatValues
    <3>1. disk[c] \in Content
      BY <2>1 DEF Disks
    <3>2. ASSUME NEW t \in Tables, disk[c] = Table(t)
          PROVE  disk[c].kind = "table" /\ \A i \in Indices : disk[c].table[i] \in Entry
      BY <3>2 DEF Table, Tables
    <3>3. ASSUME NEW m \in Maps, disk[c] = FatBlock(m)
          PROVE  disk[c].kind = "fat" /\ \A b \in Clusters : disk[c].map[b] \in FatValues
      BY <3>3 DEF FatBlock, Maps
    <3> QED
      BY <3>1, <3>2, <3>3 DEF Content
  <2> QED
    BY <2>1, <2>2 DEF TypeOK, PCs, Maps
<1> QED
  BY <1>1, DriverInvariant, PTL

\* A disk that is not formatted has no tree; one that is has a sound one.
LEMMA TreeOrNone ==
    ASSUME DriverInv
    PROVE  disk \in Disks /\ (TreeOK(disk) \/ (LiveDirs(disk) = {} /\ LivePlaces(disk) = {}))
<1>1. disk \in Disks /\ (Formatted(disk) => TreeOK(disk))
  BY DEF DriverInv, DriverOK
<1>2. ~ Formatted(disk) => LiveDirs(disk) = {} /\ LivePlaces(disk) = {}
  BY LiveFormatted DEF LivePlaces
<1> QED
  BY <1>1, <1>2

\* ChainsSound, in every state the power may fail in.
THEOREM Chains == Spec => [](Ordinary => ChainsSound)
<1>1. DriverInv => ChainsSound
  <2> SUFFICES ASSUME DriverInv PROVE ChainsSound
    OBVIOUS
  <2>1. disk \in Disks /\ (TreeOK(disk) \/ (LiveDirs(disk) = {} /\ LivePlaces(disk) = {}))
    BY TreeOrNone
  <2>2. CASE LivePlaces(disk) = {}
    BY <2>2 DEF ChainsSound, LiveEntries
  <2>3. CASE TreeOK(disk)
    <3> DEFINE m == FatOf(disk)
    <3>1. ASSUME NEW e \in LiveEntries(disk)
          PROVE  /\ ChainSet(m, e.cluster) \subseteq DataClusters
                 /\ m[Chain(m, e.cluster)[Len(Chain(m, e.cluster))]] = FAT32_FAT_END_OF_FILE
                 /\ Len(Chain(m, e.cluster)) = ClustersOf(e.filesize)
      <4>1. PICK p \in LivePlaces(disk) : e = EntryAt(disk, p)
        BY DEF LiveEntries
      <4>2. Good(m, e.cluster) /\ Len(Chain(m, e.cluster)) = ClustersOf(e.filesize)
        BY <2>3, <4>1 DEF TreeOK, PlaceOK
      <4> QED
        BY <4>2, GoodFacts
    <3> QED
      BY <2>3, <3>1 DEF ChainsSound, TreeOK
  <2> QED
    BY <2>1, <2>2, <2>3
<1> QED
  BY <1>1, DriverInvariant, PTL

\* LinksSound, in every state the power may fail in.
THEOREM TreeLinks == Spec => [](Ordinary => LinksSound)
<1>1. DriverInv => LinksSound
  <2> SUFFICES ASSUME DriverInv, NEW p \in LivePlaces(disk), EntryAt(disk, p).folder
               PROVE  LET e == EntryAt(disk, p) IN
                      /\ disk[e.cluster].kind = "table"
                      /\ TableAt(disk, e.cluster)[0].cluster = e.cluster
                      /\ TableAt(disk, e.cluster)[1].cluster = p[1]
                      /\ TableAt(disk, e.cluster)[0].name = e.name
                      /\ \A q \in LivePlaces(disk) : EntryAt(disk, q).cluster = e.cluster => p = q
    BY DEF LinksSound, LinksSoundBut
  <2> DEFINE e == EntryAt(disk, p)
  <2>1. disk \in Disks /\ TreeOK(disk)
    BY TreeOrNone
  <2>2. PlaceOK(disk, p) /\ e.cluster \in LiveDirs(disk)
    BY <2>1, PlaceFacts DEF TreeOK
  <2>3. disk[e.cluster].kind = "table"
    BY <2>1, <2>2 DEF TreeOK, DirOK
  <2>4. ASSUME NEW q \in LivePlaces(disk), EntryAt(disk, q).cluster = e.cluster PROVE p = q
    <3>1. e.cluster \in ChainSet(FatOf(disk), e.cluster)
      BY <2>2, GoodFacts DEF PlaceOK
    <3> QED
      BY <2>1, <2>4, <3>1 DEF TreeOK
  <2> QED
    BY <2>2, <2>3, <2>4 DEF PlaceOK
<1> QED
  BY <1>1, DriverInvariant, PTL

\* CacheCoherent: no failure path leaves the cached table behind the one on the disk.
THEOREM Cached == Spec => [](Ordinary => CacheCoherent)
<1>1. DriverInv => CacheCoherent
  BY IdleFacts DEF DriverInv, DriverOK, CacheCoherent
<1> QED
  BY <1>1, DriverInvariant, PTL

\* The allocated clusters are those of the tree.
LEMMA NothingLeaks ==
    ASSUME DriverInv PROVE NoClusterLeak
<1> SUFFICES ASSUME op = Idle, crashes = 0
             PROVE  {c \in DataClusters : fat[c] # FAT32_FAT_EMPTY_ENTRY}
                      = UNION {ChainSet(fat, e.cluster) : e \in LiveEntries(disk)}
  BY DEF NoClusterLeak
<1>1. op.pc = "idle" /\ disk \in Disks /\ TreeOK(disk) /\ fat = FatOf(disk)
  BY IdleFacts DEF DriverInv, DriverOK, LeakFree
<1>2. \A c \in DataClusters : fat[c] # FAT32_FAT_EMPTY_ENTRY <=> InTree(disk, c)
  <2>1. OpClusters(disk, op) = {}
    BY <1>1 DEF OpClusters, WritePCs
  <2>2. Formatted(disk)
    BY <1>1, TreeFacts
  <2> QED
    BY <2>1, <2>2 DEF DriverInv, LeakFree
<1>3. \A c : InTree(disk, c) => c \in DataClusters
  BY <1>1, TreeFacts
<1>4. \A c : InTree(disk, c) <=> c \in UNION {ChainSet(fat, e.cluster) : e \in LiveEntries(disk)}
  BY <1>1 DEF InTree, LiveEntries
<1> QED
  BY <1>2, <1>3, <1>4

\* NoClusterLeak: what is allocated is what the tree holds.
THEOREM NoLeak == Spec => [](Ordinary => NoClusterLeak)
<1>1. DriverInv => NoClusterLeak
  BY NothingLeaks
<1> QED
  BY <1>1, DriverInvariant, PTL

\* ReadFitsBuffer: the test of read in whole clusters is enough.
LEMMA ReadFits ==
    Ordinary /\ DriverInv => ReadFitsBuffer
<1> SUFFICES ASSUME Ordinary, DriverInv, op = Idle, NEW c \in LiveDirs(disk), NEW name \in Names,
                    NEW size \in Sizes, read_retcode(c, name, size) = 0
             PROVE  LET e == TableAt(disk, c)[IndexOfName(TableAt(disk, c), name, 0)]
                    IN  Len(Chain(fat, e.cluster)) * CLUSTER_SIZE <= size
  BY DEF ReadFitsBuffer
<1> DEFINE table == TableAt(disk, c)
           i == IndexOfName(table, name, 0)
           e == table[i]
           q == (e.filesize + CLUSTER_SIZE - 1) \div CLUSTER_SIZE
           n == size \div CLUSTER_SIZE
           L == Len(Chain(fat, e.cluster))
<1>1. op.pc = "idle" /\ disk \in Disks /\ TreeOK(disk) /\ fat = FatOf(disk)
  BY IdleFacts, TreeOrNone DEF DriverInv, DriverOK
<1>2. i # TABLE_SIZE /\ ~ e.folder /\ ~ (n < ceil(e.filesize))
  <2> HIDE DEF table, i
  <2>1. read_retcode(c, name, size) =
          IF fat[c] # FAT32_FAT_END_OF_FILE THEN 2
          ELSE IF i = TABLE_SIZE THEN 2
          ELSE IF e.folder THEN 1
          ELSE IF n < ceil(e.filesize) THEN -1 ELSE 0
    BY DEF read_retcode, table, i
  <2> QED
    BY <2>1
<1>3. i \in Indices /\ e.used
  BY <1>1, <1>2, SearchFinds
<1>4. i \notin {0, 1}
  BY <1>1, <1>2 DEF TreeOK, DirOK
<1>5. <<c, i>> \in LivePlaces(disk) /\ EntryAt(disk, <<c, i>>) = e
  BY <1>1, <1>3, <1>4, PlaceFacts DEF Entries
<1>6. /\ L = ClustersOf(e.filesize) /\ L \in Nat
      /\ e.filesize # 0 /\ e.filesize \in Sizes
  <2>1. PlaceOK(disk, <<c, i>>) /\ e \in Entry
    BY <1>1, <1>5, PlaceFacts DEF TreeOK
  <2>2. e.filesize # 0 /\ Good(fat, e.cluster) /\ L = ClustersOf(e.filesize)
    BY <1>1, <1>2, <1>5, <2>1 DEF PlaceOK
  <2>3. e.filesize \in Sizes
    BY <2>1, <2>2 DEF Entry
  <2> QED
    BY <2>2, <2>3, GoodFacts, ClusterFacts
<1>7. /\ size \in Nat /\ e.filesize \in Nat /\ CLUSTER_SIZE \in Nat /\ CLUSTER_SIZE # 0
      /\ U8 \in Nat /\ U8 # 0 /\ q < U8
  BY <1>6, FAT32Assumption DEF Ordinary
<1>8. q \in Nat /\ n \in Nat /\ n * CLUSTER_SIZE <= size
  <2> HIDE DEF e
  <2>1. e.filesize + CLUSTER_SIZE - 1 \in Nat
    BY <1>7
  <2> QED
    BY <1>7, <2>1
<1>9. L = q /\ ceil(e.filesize) = q % U8
  BY <1>6 DEF ClustersOf, ceil
<1> HIDE DEF e, q, n, L
<1>10. q % U8 = q
  BY <1>7, <1>8
<1>11. L <= n
  BY <1>2, <1>8, <1>9, <1>10
<1>12. L * CLUSTER_SIZE <= n * CLUSTER_SIZE
  BY <1>6, <1>7, <1>8, <1>11
<1>13. L * CLUSTER_SIZE <= size
  BY <1>6, <1>7, <1>8, <1>12
<1> QED
  BY <1>13 DEF e, L

\* ReadFitsBuffer: what read copies when it returns 0 is never more than the buffer.
THEOREM ReadsFit == Spec => [](Ordinary => ReadFitsBuffer)
BY ReadFits, DriverInvariant, PTL

\* DeleteSparesSystem: the loop of delete stays within the data clusters.
THEOREM SystemSpared == ASSUME Ordinary PROVE Spec => DeleteSparesSystem
<1>1. DriverInv /\ [Next]_vars =>
        [op.pc = "d_free" => /\ disk'[BOOT_SECTOR] = disk[BOOT_SECTOR]
                             /\ disk'[FAT_CLUSTER_NUMBER] = disk[FAT_CLUSTER_NUMBER]]_vars
  <2> SUFFICES ASSUME DriverInv, Next, op.pc = "d_free"
               PROVE  /\ disk'[BOOT_SECTOR] = disk[BOOT_SECTOR]
                      /\ disk'[FAT_CLUSTER_NUMBER] = disk[FAT_CLUSTER_NUMBER]
    OBVIOUS
  <2>1. disk \in Disks /\ op.cluster \in DataClusters
    <3>1. disk \in Disks /\ FreeingOK(disk, fat, op)
      BY DEF DriverInv, DriverOK
    <3> QED
      BY <3>1, GoodFacts DEF FreeingOK
  <2>2. op # Off /\ op # Idle
    BY IdleFacts
  <2>3. DeleteFree \/ Crash
    BY <2>2 DEF Next, Mount, FormatBoot, Start, WriteStart, DeleteStart, Step, FormatFat, FormatName, FormatRoot,
                WriteChild, WriteFat, WriteData, WriteParent, DeleteParent, DeleteFat, CrashInFatWrite
  <2>4. CASE Crash
    BY <2>4 DEF Crash
  <2>5. CASE DeleteFree
    <3>1. Written(disk, disk', op.cluster, Zero)
      BY <2>5 DEF DeleteFree, write_clusters, Written
    <3>2. /\ op.cluster \in Clusters /\ op.cluster # BOOT_SECTOR /\ op.cluster # FAT_CLUSTER_NUMBER
          /\ BOOT_SECTOR \in Clusters /\ FAT_CLUSTER_NUMBER \in Clusters
      BY <2>1, ClusterFacts DEF BOOT_SECTOR, FAT_CLUSTER_NUMBER
    <3> QED
      BY <2>1, <3>1, <3>2 DEF Written, Disks
  <2> QED
    BY <2>3, <2>4, <2>5
<1>2. Ordinary
  OBVIOUS
<1> QED
  BY <1>1, <1>2, DriverInvariant, PTL DEF Spec, DeleteSparesSystem

-----------------------------------------------------------------------------
(***************************************************************************)
(* What the tree holds: names and contents.  The invariant above does not need      *)
(* them; what a reader of the disk finds (FAT32Store) and the shell (Shell) do.     *)
(***************************************************************************)

\* A directory lists a name once, and its links do not bear it.
NamesOK(d) ==
    \A c \in LiveDirs(d) : \A i \in Entries(d, c) :
        /\ TableAt(d, c)[i].name \in Names
        /\ \A k \in Indices : TableAt(d, c)[k].name = TableAt(d, c)[i].name => k = i

\* The clusters of a file hold pieces of files.
DataOK(d) ==
    \A p \in LivePlaces(d) : ~ EntryAt(d, p).folder =>
        \A c \in ChainSet(FatOf(d), EntryAt(d, p).cluster) : d[c].kind = "data"

\* How many pieces of the file are on the disk.
Stored(o) == IF o.pc = "w_parent" THEN Len(o.slots) ELSE o.j - 1

\* A write in progress: the name is free, and the pieces so far are those of the payload, in order.
RequestOK(d, o) ==
    o.pc \in WritePCs =>
        /\ \A k \in Indices : TableAt(d, o.parent)[k].name # o.name
        /\ o.payload # "folder" => \A i \in 1 .. Stored(o) : d[o.slots[i]] = Piece(o.payload, i)

ContentInv == NamesOK(disk) /\ DataOK(disk) /\ RequestOK(disk, op)

\* The directories are the root and what the folders of the tree name.
LEMMA DirsOf ==
    ASSUME NEW d \in Disks, TreeOK(d)
    PROVE  \A c : c \in LiveDirs(d) <=>
              \/ c = ROOT_CLUSTER_NUMBER
              \/ \E p \in LivePlaces(d) : EntryAt(d, p).folder /\ EntryAt(d, p).cluster = c
<1>1. Formatted(d)
  BY TreeFacts
<1> QED
  BY <1>1, DirsHavePlaces, PlaceFacts, LiveLeast

\* Two places of the tree do not share their first cluster.
LEMMA OnePlace ==
    ASSUME NEW d \in Disks, TreeOK(d), NEW p \in LivePlaces(d), NEW q \in LivePlaces(d),
           EntryAt(d, p).cluster = EntryAt(d, q).cluster
    PROVE  p = q
<1>1. EntryAt(d, p).cluster \in ChainSet(FatOf(d), EntryAt(d, p).cluster)
  <2>1. Good(FatOf(d), EntryAt(d, p).cluster)
    BY DEF TreeOK, PlaceOK
  <2> QED
    BY <2>1, GoodFacts
<1> QED
  BY <1>1 DEF TreeOK

\* The directories and their entries once an entry was added.
LEMMA DirsAdded ==
    ASSUME NEW d \in Disks, TreeOK(d), NEW d2, NEW parent, NEW i, NEW e, Adds(d, d2, parent, i, e)
    PROVE  /\ parent \in LiveDirs(d) /\ i \in Indices \ {0, 1}
           /\ LiveDirs(d2) = LiveDirs(d) \cup {c \in {e.cluster} : e.folder}
           /\ \A c \in LiveDirs(d) : c # parent => TableAt(d2, c) = TableAt(d, c) /\ Entries(d2, c) = Entries(d, c)
           /\ TableAt(d2, parent)[i] = e /\ Entries(d2, parent) = Entries(d, parent) \cup {i}
           /\ i \notin Entries(d, parent)
           /\ \A k \in Indices : k # i => TableAt(d2, parent)[k] = TableAt(d, parent)[k]
           /\ e.folder => e.cluster \notin LiveDirs(d) /\ Entries(d2, e.cluster) = {}
           /\ \A c \in DataClusters : InTree(d, c) /\ c # parent => d2[c] = d[c]
           /\ e.cluster \in DataClusters
           /\ \A c \in ChainSet(FatOf(d), e.cluster) : d2[c] = d[c]
<1> DEFINE t == WithEntry(TableAt(d, parent), i, e)
<1>1. /\ d2 \in Disks /\ TreeOK(d2) /\ FatOf(d2) = FatOf(d)
      /\ LivePlaces(d2) = LivePlaces(d) \cup {<<parent, i>>}
      /\ \A p \in LivePlaces(d) : EntryAt(d2, p) = EntryAt(d, p)
      /\ EntryAt(d2, <<parent, i>>) = e
  BY PlaceAdded
<1>2. /\ parent \in LiveDirs(d) /\ i \in Indices /\ ~ TableAt(d, parent)[i].used
      /\ FreshEntry(d, parent, e) /\ Written(d, d2, parent, Table(t))
  BY DEF Adds
<1>3. /\ e \in Entry /\ e.used /\ Good(FatOf(d), e.cluster)
      /\ \A c \in ChainSet(FatOf(d), e.cluster) : ~ InTree(d, c)
      /\ e.folder => \A k \in Indices \ {0, 1} : TableAt(d, e.cluster)[k] = EmptyEntry
  BY <1>2 DEF FreshEntry
<1>4. e.cluster \in DataClusters /\ e.cluster \in Clusters /\ ~ InTree(d, e.cluster)
  BY <1>3, GoodFacts, ClusterFacts
<1>5. i \in Indices \ {0, 1}
  BY <1>2 DEF TreeOK, DirOK
<1>6. TableAt(d, parent) \in Tables /\ parent \in Clusters /\ LiveDirs(d) \subseteq Clusters
  BY <1>2, DiskFacts, LiveClosed
<1>7. t \in Tables /\ t[i] = e /\ \A k \in Indices : k # i => t[k] = TableAt(d, parent)[k]
  BY <1>2, <1>3, <1>6 DEF Tables, WithEntry
<1> HIDE DEF t
<1>8. /\ \A c \in Clusters : c # parent => d2[c] = d[c] /\ TableAt(d2, c) = TableAt(d, c)
      /\ TableAt(d2, parent) = t
  BY <1>2, <1>7, ParentWritten
<1>9. e.cluster \notin LiveDirs(d)
  <2>1. e.cluster # ROOT_CLUSTER_NUMBER
    BY <1>4, ClusterFacts DEF ROOT_CLUSTER_NUMBER
  <2> QED
    BY <1>4, <2>1, TreeFacts
<1>10. LiveDirs(d2) = LiveDirs(d) \cup {c \in {e.cluster} : e.folder}
  BY <1>1, DirsOf
<1>11. \A c \in LiveDirs(d) : c # parent => TableAt(d2, c) = TableAt(d, c) /\ Entries(d2, c) = Entries(d, c)
  BY <1>6, <1>8 DEF Entries
<1>12. Entries(d2, parent) = Entries(d, parent) \cup {i} /\ i \notin Entries(d, parent)
  BY <1>2, <1>3, <1>5, <1>7, <1>8 DEF Entries
<1>13. e.folder => Entries(d2, e.cluster) = {}
  <2>1. e.cluster # parent
    BY <1>2, <1>9
  <2>2. ~ EmptyEntry.used
    BY DEF EmptyEntry
  <2> QED
    BY <1>3, <1>4, <1>8, <2>1, <2>2 DEF Entries
<1>14. \A c \in DataClusters : InTree(d, c) /\ c # parent => d2[c] = d[c]
  BY <1>8, ClusterFacts
<1>15. \A c \in ChainSet(FatOf(d), e.cluster) : d2[c] = d[c]
  <2>1. \A c \in ChainSet(FatOf(d), e.cluster) : c \in DataClusters /\ c \in Clusters /\ ~ InTree(d, c)
    BY <1>3, GoodFacts, ClusterFacts
  <2>2. parent = ROOT_CLUSTER_NUMBER \/ InTree(d, parent)
    BY <1>2, TreeFacts
  <2>3. \A c \in ChainSet(FatOf(d), e.cluster) : c # parent
    BY <2>1, <2>2, ClusterFacts DEF ROOT_CLUSTER_NUMBER
  <2> QED
    BY <1>8, <2>1, <2>3
<1> QED
  BY <1>2, <1>4, <1>5, <1>7, <1>8, <1>9, <1>10, <1>11, <1>12, <1>13, <1>14, <1>15

\* And once one was taken away.
LEMMA DirsDropped ==
    ASSUME NEW d \in Disks, TreeOK(d), NEW d2, NEW parent, NEW i, NEW e, Drops(d, d2, parent, i, e)
    PROVE  /\ parent \in LiveDirs(d) /\ i \in Entries(d, parent) /\ e = TableAt(d, parent)[i]
           /\ LiveDirs(d2) = LiveDirs(d) \ {c \in {e.cluster} : e.folder}
           /\ \A c \in LiveDirs(d) : c # parent => TableAt(d2, c) = TableAt(d, c) /\ Entries(d2, c) = Entries(d, c)
           /\ Entries(d2, parent) = Entries(d, parent) \ {i}
           /\ TableAt(d2, parent)[i] = EmptyEntry
           /\ \A k \in Indices : k # i => TableAt(d2, parent)[k] = TableAt(d, parent)[k]
           /\ e.folder => e.cluster \in LiveDirs(d) /\ Entries(d, e.cluster) = {} /\ e.cluster # parent
           /\ \A c \in DataClusters : c # parent => d2[c] = d[c]
<1> DEFINE t == WithEntry(TableAt(d, parent), i, EmptyEntry)
<1>1. /\ d2 \in Disks /\ TreeOK(d2) /\ FatOf(d2) = FatOf(d)
      /\ LivePlaces(d2) = LivePlaces(d) \ {<<parent, i>>}
      /\ \A p \in LivePlaces(d2) : EntryAt(d2, p) = EntryAt(d, p)
  BY PlaceDropped
<1>2. /\ parent \in LiveDirs(d) /\ i \in Entries(d, parent) /\ e = TableAt(d, parent)[i]
      /\ e.folder => Entries(d, e.cluster) = {}
      /\ Written(d, d2, parent, Table(t))
  BY DEF Drops
<1>3. <<parent, i>> \in LivePlaces(d) /\ EntryAt(d, <<parent, i>>) = e
  BY <1>2, PlaceFacts
<1>4. TableAt(d, parent) \in Tables /\ parent \in Clusters /\ LiveDirs(d) \subseteq Clusters
      /\ i \in Indices \ {0, 1} /\ EmptyEntry \in Entry
  BY <1>2, DiskFacts, LiveClosed DEF Entries
<1>5. t \in Tables /\ t[i] = EmptyEntry /\ \A k \in Indices : k # i => t[k] = TableAt(d, parent)[k]
  BY <1>2, <1>4 DEF Tables, WithEntry
<1> HIDE DEF t
<1>6. /\ \A c \in Clusters : c # parent => d2[c] = d[c] /\ TableAt(d2, c) = TableAt(d, c)
      /\ TableAt(d2, parent) = t
  BY <1>2, <1>5, ParentWritten
<1>7. e.folder => e.cluster \in LiveDirs(d) /\ e.cluster # parent
  BY <1>2, <1>3, PlaceFacts
<1>8. LiveDirs(d2) = LiveDirs(d) \ {c \in {e.cluster} : e.folder}
  <2>1. e.cluster # ROOT_CLUSTER_NUMBER
    BY <1>3, TreeFacts, ClusterFacts DEF ROOT_CLUSTER_NUMBER
  <2>2. \A q \in LivePlaces(d) : EntryAt(d, q).cluster = e.cluster => q = <<parent, i>>
    BY <1>3, OnePlace
  <2>3. \A c : c \in LiveDirs(d2) <=>
              \/ c = ROOT_CLUSTER_NUMBER
              \/ \E p \in LivePlaces(d2) : EntryAt(d, p).folder /\ EntryAt(d, p).cluster = c
    BY <1>1, DirsOf
  <2>4. \A c : c \in LiveDirs(d) <=>
              \/ c = ROOT_CLUSTER_NUMBER
              \/ \E p \in LivePlaces(d) : EntryAt(d, p).folder /\ EntryAt(d, p).cluster = c
    BY DirsOf
  <2> QED
    BY <1>1, <1>3, <2>1, <2>2, <2>3, <2>4
<1>9. \A c \in LiveDirs(d) : c # parent => TableAt(d2, c) = TableAt(d, c) /\ Entries(d2, c) = Entries(d, c)
  BY <1>4, <1>6 DEF Entries
<1>10. Entries(d2, parent) = Entries(d, parent) \ {i}
  BY <1>4, <1>5, <1>6 DEF Entries, EmptyEntry
<1>11. \A c \in DataClusters : c # parent => d2[c] = d[c]
  BY <1>6, ClusterFacts
<1> QED
  BY <1>2, <1>5, <1>6, <1>7, <1>8, <1>9, <1>10, <1>11

\* A disk without a tree lists nothing.
LEMMA NoTree ==
    ASSUME NEW d, ~ Formatted(d)
    PROVE  LiveDirs(d) = {} /\ LivePlaces(d) = {} /\ NamesOK(d) /\ DataOK(d)
<1>1. LiveDirs(d) = {}
  BY LiveReach
<1> QED
  BY <1>1 DEF LivePlaces, NamesOK, DataOK

\* A change outside the tree changes neither names nor contents.
LEMMA ContentKept ==
    ASSUME NEW d \in Disks, NEW d2 \in Disks, TreeOK(d), Spares(d, d2), NamesOK(d), DataOK(d)
    PROVE  NamesOK(d2) /\ DataOK(d2)
<1>1. /\ LiveDirs(d2) = LiveDirs(d) /\ LivePlaces(d2) = LivePlaces(d)
      /\ \A c \in LiveDirs(d) : TableAt(d2, c) = TableAt(d, c)
      /\ \A p \in LivePlaces(d) :
           /\ EntryAt(d2, p) = EntryAt(d, p)
           /\ Chain(FatOf(d2), EntryAt(d2, p).cluster) = Chain(FatOf(d), EntryAt(d, p).cluster)
  BY TreeKept
<1>2. NamesOK(d2)
  BY <1>1 DEF NamesOK, Entries
<1>3. DataOK(d2)
  <2> SUFFICES ASSUME NEW p \in LivePlaces(d), ~ EntryAt(d, p).folder,
                      NEW c \in ChainSet(FatOf(d), EntryAt(d, p).cluster)
               PROVE  d2[c].kind = "data"
    BY <1>1 DEF DataOK, ChainSet
  <2>1. InTree(d, c) /\ c \in DataClusters
    BY TreeFacts
  <2>2. d2[c] = d[c]
    BY <2>1 DEF Spares
  <2> QED
    BY <2>2 DEF DataOK
<1> QED
  BY <1>2, <1>3

\* A new entry whose name is free, with the clusters of a file or a folder.
LEMMA ContentAdded ==
    ASSUME NEW d \in Disks, TreeOK(d), NamesOK(d), DataOK(d), NEW d2, NEW parent, NEW i, NEW e,
           Adds(d, d2, parent, i, e), e.name \in Names,
           \A k \in Indices : TableAt(d, parent)[k].name # e.name,
           ~ e.folder => \A c \in ChainSet(FatOf(d), e.cluster) : d[c].kind = "data"
    PROVE  NamesOK(d2) /\ DataOK(d2)
<1>1. /\ d2 \in Disks /\ FatOf(d2) = FatOf(d)
      /\ LivePlaces(d2) = LivePlaces(d) \cup {<<parent, i>>}
      /\ \A p \in LivePlaces(d) : EntryAt(d2, p) = EntryAt(d, p)
      /\ EntryAt(d2, <<parent, i>>) = e
  BY PlaceAdded
<1>2. /\ parent \in LiveDirs(d) /\ i \in Indices \ {0, 1}
      /\ LiveDirs(d2) = LiveDirs(d) \cup {c \in {e.cluster} : e.folder}
      /\ \A c \in LiveDirs(d) : c # parent => TableAt(d2, c) = TableAt(d, c) /\ Entries(d2, c) = Entries(d, c)
      /\ TableAt(d2, parent)[i] = e /\ Entries(d2, parent) = Entries(d, parent) \cup {i}
      /\ \A k \in Indices : k # i => TableAt(d2, parent)[k] = TableAt(d, parent)[k]
      /\ e.folder => Entries(d2, e.cluster) = {}
      /\ \A c \in DataClusters : InTree(d, c) /\ c # parent => d2[c] = d[c]
      /\ \A c \in ChainSet(FatOf(d), e.cluster) : d2[c] = d[c]
      /\ i \notin Entries(d, parent)
  BY DirsAdded
<1>3. NamesOK(d2)
  <2> SUFFICES ASSUME NEW c \in LiveDirs(d2), NEW k \in Entries(d2, c)
               PROVE  /\ TableAt(d2, c)[k].name \in Names
                      /\ \A l \in Indices : TableAt(d2, c)[l].name = TableAt(d2, c)[k].name => l = k
    BY DEF NamesOK
  <2>1. c \in LiveDirs(d)
    BY <1>2
  <2>2. CASE c # parent
    BY <1>2, <2>1, <2>2 DEF NamesOK
  <2>3. CASE c = parent /\ k = i
    BY <1>2, <2>3
  <2>4. CASE c = parent /\ k # i
    <3>1. k \in Entries(d, parent) /\ k \in Indices
      BY <1>2, <2>4 DEF Entries
    <3>2. TableAt(d2, parent)[k] = TableAt(d, parent)[k] /\ TableAt(d, parent)[k].name # e.name
      BY <1>2, <2>4, <3>1
    <3> QED
      BY <1>2, <2>4, <3>1, <3>2 DEF NamesOK
  <2> QED
    BY <2>2, <2>3, <2>4
<1>4. DataOK(d2)
  <2> SUFFICES ASSUME NEW p \in LivePlaces(d2), ~ EntryAt(d2, p).folder,
                      NEW c \in ChainSet(FatOf(d), EntryAt(d2, p).cluster)
               PROVE  d2[c].kind = "data"
    BY <1>1 DEF DataOK
  <2>1. CASE p = <<parent, i>>
    BY <1>1, <1>2, <2>1
  <2>2. CASE p \in LivePlaces(d)
    <3>1. EntryAt(d2, p) = EntryAt(d, p) /\ InTree(d, c) /\ c \in DataClusters /\ d[c].kind = "data"
      BY <1>1, <2>2, TreeFacts DEF DataOK
    <3>2. d[parent].kind = "table"
      BY <1>2 DEF TreeOK, DirOK
    <3> QED
      BY <1>2, <3>1, <3>2
  <2> QED
    BY <1>1, <2>1, <2>2
<1> QED
  BY <1>3, <1>4

\* An entry less.
LEMMA ContentDropped ==
    ASSUME Ordinary, NEW d \in Disks, TreeOK(d), NamesOK(d), DataOK(d), NEW d2, NEW parent, NEW i, NEW e,
           Drops(d, d2, parent, i, e)
    PROVE  NamesOK(d2) /\ DataOK(d2)
<1>1. /\ d2 \in Disks /\ FatOf(d2) = FatOf(d)
      /\ LivePlaces(d2) = LivePlaces(d) \ {<<parent, i>>}
      /\ \A p \in LivePlaces(d2) : EntryAt(d2, p) = EntryAt(d, p)
  BY PlaceDropped
<1>2. /\ parent \in LiveDirs(d) /\ i \in Entries(d, parent)
      /\ LiveDirs(d2) = LiveDirs(d) \ {c \in {e.cluster} : e.folder}
      /\ \A c \in LiveDirs(d) : c # parent => TableAt(d2, c) = TableAt(d, c) /\ Entries(d2, c) = Entries(d, c)
      /\ Entries(d2, parent) = Entries(d, parent) \ {i}
      /\ TableAt(d2, parent)[i] = EmptyEntry
      /\ \A k \in Indices : k # i => TableAt(d2, parent)[k] = TableAt(d, parent)[k]
      /\ \A c \in DataClusters : c # parent => d2[c] = d[c]
  BY DirsDropped
<1>3. NamesOK(d2)
  <2> SUFFICES ASSUME NEW c \in LiveDirs(d2), NEW k \in Entries(d2, c)
               PROVE  /\ TableAt(d2, c)[k].name \in Names
                      /\ \A l \in Indices : TableAt(d2, c)[l].name = TableAt(d2, c)[k].name => l = k
    BY DEF NamesOK
  <2>1. c \in LiveDirs(d)
    BY <1>2
  <2>2. CASE c # parent
    BY <1>2, <2>1, <2>2 DEF NamesOK
  <2>3. CASE c = parent
    <3>1. k \in Entries(d, parent) /\ k # i /\ k \in Indices
      BY <1>2, <2>3 DEF Entries
    <3>2. TableAt(d2, parent)[k] = TableAt(d, parent)[k] /\ TableAt(d, parent)[k].name \in Names
      BY <1>2, <3>1 DEF NamesOK
    <3>3. EmptyEntry.name \notin Names
      BY DEF EmptyEntry, Ordinary
    <3> QED
      BY <1>2, <2>3, <3>1, <3>2, <3>3 DEF NamesOK
  <2> QED
    BY <2>2, <2>3
<1>4. DataOK(d2)
  <2> SUFFICES ASSUME NEW p \in LivePlaces(d2), ~ EntryAt(d2, p).folder,
                      NEW c \in ChainSet(FatOf(d), EntryAt(d2, p).cluster)
               PROVE  d2[c].kind = "data"
    BY <1>1 DEF DataOK
  <2>1. EntryAt(d2, p) = EntryAt(d, p) /\ c \in DataClusters /\ d[c].kind = "data"
    BY <1>1, TreeFacts DEF DataOK
  <2>2. d[parent].kind = "table"
    BY <1>2 DEF TreeOK, DirOK
  <2> QED
    BY <1>2, <2>1, <2>2
<1> QED
  BY <1>3, <1>4

\* What the driver's steps outside the tree have in common.
LEMMA OutsideContent ==
    ASSUME DriverInv, DriverInv', ContentInv, TreeOK(disk), Spares(disk, disk')
    PROVE  NamesOK(disk') /\ DataOK(disk')
           /\ \A c \in LiveDirs(disk) : TableAt(disk', c) = TableAt(disk, c)
<1>1. disk \in Disks /\ disk' \in Disks
  BY DEF DriverInv, DriverOK
<1> QED
  BY <1>1, ContentKept, TreeKept DEF ContentInv

\* The cluster of a folder, a link of a chain, a piece of a file.
LEMMA WriteContent ==
    ASSUME DriverInv, ContentInv, WriteChild \/ WriteFat \/ WriteData
    PROVE  ContentInv'
<1>1. /\ DriverInv' /\ TreeOK(disk) /\ Spares(disk, disk') /\ SameWrite(op, op')
      /\ \/ (WriteChild \/ WriteFat) /\ op'.j = op.j
         \/ WriteData /\ (op'.j - 1 = op.j \/ (op'.pc = "w_parent" /\ op.j = Len(op.slots)))
  BY WriteChildStep, WriteFatStep, WriteDataStep
<1>2. NamesOK(disk') /\ DataOK(disk') /\ \A c \in LiveDirs(disk) : TableAt(disk', c) = TableAt(disk, c)
  BY <1>1, OutsideContent
<1>3. op.pc \in WritePCs
  BY DEF WriteChild, WriteFat, WriteData, WritePCs
<1>4. /\ disk \in Disks /\ StageOK(op) /\ ParentOK(disk, op)
      /\ \A i \in 1 .. Len(op.slots) : op.slots[i] \in DataClusters
  BY <1>3, WriteBefore
<1>5. op.parent \in LiveDirs(disk) /\ op.j \in 1 .. Len(op.slots) /\ Len(op.slots) \in Nat
      /\ \A i, j \in 1 .. Len(op.slots) : op.slots[i] = op.slots[j] => i = j
  BY <1>4, ClusterFacts DEF ParentOK, StageOK
<1>6. \A k \in Indices : TableAt(disk', op'.parent)[k].name # op'.name
  BY <1>1, <1>2, <1>3, <1>5 DEF ContentInv, RequestOK, SameWrite
<1>7. ASSUME op'.payload # "folder", NEW i \in 1 .. Stored(op'), op'.pc \in WritePCs
      PROVE  disk'[op'.slots[i]] = Piece(op'.payload, i)
  <2>0. op'.slots = op.slots /\ op'.payload = op.payload /\ op.payload # "folder"
    BY <1>1, <1>7 DEF SameWrite
  <2>1. CASE WriteChild
    BY <2>0, <2>1, <1>4 DEF WriteChild, StageOK
  <2>2. CASE WriteFat
    <3>1. op.pc = "w_fat" /\ op'.pc = "w_data" /\ op'.j = op.j
      <4>1. op.pc = "w_fat" /\ op' = [op EXCEPT !.pc = "w_data"] /\ WriteRec(op)
        BY <1>3, <2>0, <2>2, WriteBefore DEF WriteFat
      <4> QED
        BY <4>1, WriteForm
    <3>2. i \in 1 .. Stored(op) /\ i \in 1 .. Len(op.slots)
      BY <1>5, <1>7, <3>1 DEF Stored
    <3>3. op.slots[i] \in Clusters /\ op.slots[i] # FAT_CLUSTER_NUMBER
      BY <1>4, <3>2, ClusterFacts DEF FAT_CLUSTER_NUMBER
    <3>4. disk'[op.slots[i]] = disk[op.slots[i]]
      BY <2>2, <1>4, <3>3 DEF WriteFat, write_clusters, Disks
    <3> QED
      BY <1>3, <2>0, <3>2, <3>4 DEF ContentInv, RequestOK
  <2>3. CASE WriteData
    <3>0. op.pc = "w_data" /\ op'.pc \in {"w_fat", "w_parent"}
          /\ op' = (IF op.j < Len(op.slots) THEN [op EXCEPT !.pc = "w_fat", !.j = op.j + 1]
                    ELSE [op EXCEPT !.pc = "w_parent"])
      <4>1. WriteRec(op) /\ op.pc = "w_data"
            /\ op' = (IF op.j < Len(op.slots) THEN [op EXCEPT !.pc = "w_fat", !.j = op.j + 1]
                      ELSE [op EXCEPT !.pc = "w_parent"])
        BY <1>3, <2>3, WriteBefore DEF WriteData
      <4>2. CASE op.j < Len(op.slots)
        <5>1. Advanced(op, op', "w_fat", op.j + 1)
          BY <4>1, <4>2 DEF Advanced
        <5> QED
          BY <4>1, <5>1, WriteFormNext
      <4>3. CASE ~ (op.j < Len(op.slots))
        BY <4>1, <4>3, WriteForm
      <4> QED
        BY <4>1, <4>2, <4>3
    <3>1. Stored(op') = op.j
      <4>1. CASE op.j < Len(op.slots)
        <5>1. Advanced(op, op', "w_fat", op.j + 1) /\ WriteRec(op)
          BY <1>3, <3>0, <4>1, WriteBefore DEF Advanced
        <5>2. op'.pc = "w_fat" /\ op'.j = op.j + 1
          BY <5>1, WriteFormNext
        <5> QED
          BY <1>5, <5>2 DEF Stored
      <4>2. CASE ~ (op.j < Len(op.slots))
        <5>1. op'.pc = "w_parent" /\ op.j = Len(op.slots)
          <6>1. WriteRec(op) /\ op' = [op EXCEPT !.pc = "w_parent"]
            BY <1>3, <3>0, <4>2, WriteBefore
          <6> QED
            BY <1>5, <4>2, <6>1, WriteForm
        <5> QED
          BY <2>0, <5>1 DEF Stored
      <4> QED
        BY <4>1, <4>2
    <3>2. i \in 1 .. op.j /\ i \in 1 .. Len(op.slots)
      BY <1>5, <1>7, <3>1
    <3>3. \A k \in 1 .. Len(op.slots) : op.slots[k] \in Clusters
      BY <1>4, ClusterFacts
    <3>4. disk' = [disk EXCEPT ![op.slots[op.j]] = Piece(op.payload, op.j)]
      BY <2>3 DEF WriteData, write_clusters
    <3>5. CASE i = op.j
      BY <1>4, <1>5, <2>0, <3>3, <3>4, <3>5 DEF Disks
    <3>6. CASE i # op.j
      <4>1. i \in 1 .. Stored(op) /\ op.slots[i] # op.slots[op.j]
        BY <1>5, <3>0, <3>2, <3>6 DEF Stored
      <4>2. disk'[op.slots[i]] = disk[op.slots[i]]
        BY <1>4, <3>2, <3>3, <3>4, <4>1 DEF Disks
      <4> QED
        BY <1>3, <2>0, <4>1, <4>2 DEF ContentInv, RequestOK
    <3> QED
      BY <3>5, <3>6
  <2> QED
    BY <2>1, <2>2, <2>3
<1> QED
  BY <1>2, <1>6, <1>7 DEF ContentInv, RequestOK

\* The parent's table with the new entry.
LEMMA ParentContent ==
    ASSUME DriverInv, ContentInv, WriteParent
    PROVE  ContentInv' /\ \A i \in 1 .. Len(op.slots) : op.payload # "folder" => disk[op.slots[i]] = Piece(op.payload, i)
<1>1. /\ DriverInv' /\ TreeOK(disk) /\ Chain(FatOf(disk), op.slots[1]) = op.slots
      /\ \E i \in Indices, size \in Sizes :
           /\ size = 0 <=> op.payload = "folder"
           /\ ClustersOf(size) = Len(op.slots)
           /\ Adds(disk, disk', op.parent, i, NewEntry(op.name, op.slots[1], size))
  BY WriteParentStep
<1>2. PICK i \in Indices, size \in Sizes :
           /\ size = 0 <=> op.payload = "folder"
           /\ Adds(disk, disk', op.parent, i, NewEntry(op.name, op.slots[1], size))
  BY <1>1
<1>3. op.pc = "w_parent" /\ op.pc \in WritePCs /\ op' = Idle
  BY DEF WriteParent, WritePCs
<1>4. /\ disk \in Disks /\ StageOK(op) /\ op.slots[1] \in Clusters
      /\ \A k \in 1 .. Len(op.slots) : op.slots[k] \in DataClusters
  BY <1>3, WriteBefore, ClusterFacts
<1> DEFINE e == NewEntry(op.name, op.slots[1], size)
<1>5. e.cluster = op.slots[1] /\ e.name = op.name /\ (e.folder <=> size = 0) /\ op.name \in Names
  BY <1>4, NewEntryFacts DEF StageOK
<1> HIDE DEF e
<1>6. \A k \in 1 .. Len(op.slots) : op.payload # "folder" => disk[op.slots[k]] = Piece(op.payload, k)
  BY <1>3 DEF ContentInv, RequestOK, Stored
<1>7. ~ e.folder => \A c \in ChainSet(FatOf(disk), e.cluster) : disk[c].kind = "data"
  <2>1. \A k : Piece(op.payload, k).kind = "data"
    BY DEF Piece
  <2> QED
    BY <1>1, <1>2, <1>5, <1>6, <2>1 DEF ChainSet
<1>8. \A k \in Indices : TableAt(disk, op.parent)[k].name # e.name
  BY <1>3, <1>5 DEF ContentInv, RequestOK
<1>9. NamesOK(disk') /\ DataOK(disk')
  <2>1. Adds(disk, disk', op.parent, i, e)
    BY <1>2 DEF e
  <2> QED
    BY <1>1, <1>4, <1>5, <1>7, <1>8, <2>1, ContentAdded DEF ContentInv
<1> QED
  BY <1>3, <1>6, <1>9, IdleFacts DEF ContentInv, RequestOK, WritePCs

\* The steps of a delete.
LEMMA DeleteContent ==
    ASSUME Ordinary, DriverInv, ContentInv, DeleteParent \/ DeleteFree \/ DeleteFat
    PROVE  ContentInv'
<1>1. CASE DeleteParent
  <2>1. /\ DriverInv' /\ TreeOK(disk)
        /\ \E i \in Entries(disk, op.parent) : Drops(disk, disk', op.parent, i, TableAt(disk, op.parent)[i])
    BY <1>1, DeleteParentStep
  <2>2. disk \in Disks /\ op.pc = "d_parent" /\ DeleteRec(op) /\ op' = [op EXCEPT !.pc = "d_free"]
    BY <1>1 DEF DriverInv, DriverOK, UnlinkOK, DeleteParent
  <2>3. op'.pc \notin WritePCs
    <3>1. FreesNext(op, op', "d_free", op.cluster)
      BY <2>2 DEF FreesNext
    <3> QED
      BY <2>2, <3>1, DeleteForm DEF WritePCs
  <2> QED
    BY <2>1, <2>2, <2>3, ContentDropped DEF ContentInv, RequestOK
<1>2. CASE DeleteFree \/ DeleteFat
  <2>1. DriverInv' /\ TreeOK(disk) /\ Spares(disk, disk')
    BY <1>2, DeleteFreeStep, DeleteFatStep
  <2>2. NamesOK(disk') /\ DataOK(disk')
    BY <2>1, OutsideContent
  <2>3. op'.pc \notin WritePCs
    <3>1. CASE DeleteFat
      BY <3>1, IdleFacts DEF DeleteFat, WritePCs
    <3>2. CASE DeleteFree
      <4> DEFINE x == IF fat[op.cluster] = FAT32_FAT_END_OF_FILE THEN "d_fat"
                      ELSE IF fat[op.cluster] \in Clusters THEN "d_free" ELSE "stuck"
      <4>1. op.pc = "d_free" /\ op' = [op EXCEPT !.pc = x, !.cluster = fat[op.cluster]]
        BY <3>2 DEF DeleteFree
      <4>2. DeleteRec(op)
        BY <4>1 DEF DriverInv, DriverOK, FreeingOK
      <4>3. x \notin WritePCs
        BY DEF WritePCs
      <4> HIDE DEF x
      <4>4. FreesNext(op, op', x, fat[op.cluster])
        BY <4>1 DEF FreesNext
      <4> QED
        BY <4>2, <4>3, <4>4, DeleteForm
    <3> QED
      BY <1>2, <3>1, <3>2
  <2> QED
    BY <2>2, <2>3 DEF ContentInv, RequestOK
<1> QED
  BY <1>1, <1>2

\* While create_fat32 runs, and before, there is no tree.
LEMMA NoTreeYet ==
    ASSUME DriverInv, op.pc \in {"f_fat", "f_name", "f_root"} \/ disk[BOOT_SECTOR] # Signature
    PROVE  ~ Formatted(disk)
<1>1. CASE op.pc \in {"f_fat", "f_name", "f_root"}
  BY <1>1, RootBlank DEF DriverInv, DriverOK, FormatOK
<1>2. CASE disk[BOOT_SECTOR] # Signature
  BY <1>2 DEF Formatted
<1> QED
  BY <1>1, <1>2

\* Mounting, and the writes of create_fat32 before the root's table.
LEMMA BootContent ==
    ASSUME DriverInv, DriverInv', ContentInv, Mount \/ FormatBoot \/ FormatFat \/ FormatName
    PROVE  /\ ContentInv'
           /\ disk' = disk \/ (~ Formatted(disk) /\ ~ Formatted(disk'))
<1>1. CASE Mount
  <2>1. disk' = disk /\ op'.pc = "idle"
    BY <1>1, IdleFacts DEF Mount
  <2> QED
    BY <2>1 DEF ContentInv, RequestOK, WritePCs
<1>2. CASE FormatBoot \/ FormatFat \/ FormatName
  <2>1. /\ op'.pc \in {"f_fat", "f_name", "f_root"}
        /\ op.pc \in {"f_fat", "f_name", "f_root"} \/ disk[BOOT_SECTOR] # Signature
    BY <1>2 DEF FormatBoot, FormatFat, FormatName, is_empty_storage
  <2>2. ~ Formatted(disk)
    BY <2>1, NoTreeYet
  <2>3. ~ Formatted(disk')
    <3>1. op'.pc = "f_root" => disk'[ROOT_CLUSTER_NUMBER] = Table([EmptyTable EXCEPT ![0].name = RootName])
      BY DEF DriverInv, DriverOK, FormatOK
    <3>2. op'.pc \in {"f_fat", "f_name"} => disk'[ROOT_CLUSTER_NUMBER] = Zero
      BY DEF DriverInv, DriverOK, FormatOK
    <3> QED
      BY <2>1, <3>1, <3>2, RootBlank
  <2>4. op'.pc \notin WritePCs
    BY <2>1 DEF WritePCs
  <2> QED
    BY <2>2, <2>3, <2>4, NoTree DEF ContentInv, RequestOK
<1> QED
  BY <1>1, <1>2

\* The names and contents of the tree are sound after every step, too.
LEMMA ContentStep ==
    ASSUME Ordinary, DriverInv, ContentInv, [Next]_vars
    PROVE  ContentInv'
<1>0. DriverInv'
  BY DriverStep
<1>1. CASE UNCHANGED vars
  BY <1>1 DEF vars, ContentInv
<1>2. CASE Mount \/ FormatBoot \/ FormatFat \/ FormatName
  BY <1>0, <1>2, BootContent
<1>3. CASE FormatRoot
  <2>1. /\ LiveDirs(disk') = {ROOT_CLUSTER_NUMBER} /\ LivePlaces(disk') = {}
        /\ Entries(disk', ROOT_CLUSTER_NUMBER) = {} /\ op'.pc = "idle"
    BY <1>3, FormatRootStep, IdleFacts DEF FormatRoot
  <2> QED
    BY <2>1 DEF ContentInv, NamesOK, DataOK, RequestOK, WritePCs
<1>4. CASE Start
  <2>1. PICK parent \in LiveDirs(disk), name \in Names :
          \/ \E size \in Sizes, payload \in Payloads : WriteStart(parent, name, size, payload)
          \/ DeleteStart(parent, name)
    BY <1>4 DEF Start
  <2>2. CASE \E size \in Sizes, payload \in Payloads : WriteStart(parent, name, size, payload)
    <3>1. /\ disk' = disk /\ op'.j = 1
          /\ op'.pc \in {"w_child", "w_fat"} /\ op'.name = name /\ op'.parent = parent
          /\ \A k \in Indices : TableAt(disk, parent)[k].name # name
      BY <2>1, <2>2, WriteStartStep
    <3>2. Stored(op') = 0
      BY <3>1 DEF Stored
    <3> QED
      BY <3>1, <3>2 DEF ContentInv, RequestOK
  <2>3. CASE DeleteStart(parent, name)
    <3>1. disk' = disk /\ op'.pc = "d_parent"
      BY <2>3 DEF DeleteStart
    <3> QED
      BY <3>1 DEF ContentInv, RequestOK, WritePCs
  <2> QED
    BY <2>1, <2>2, <2>3
<1>5. CASE WriteChild \/ WriteFat \/ WriteData
  BY <1>5, WriteContent
<1>6. CASE WriteParent
  BY <1>6, ParentContent
<1>7. CASE DeleteParent \/ DeleteFree \/ DeleteFat
  BY <1>7, DeleteContent
<1>8. CASE Crash \/ CrashInFatWrite
  <2>1. op'.pc = "off"
    BY <1>8, IdleFacts DEF Crash, CrashInFatWrite, PowerFails
  <2>2. NamesOK(disk') /\ DataOK(disk')
    <3>1. CASE Crash
      BY <3>1 DEF Crash, ContentInv
    <3>2. CASE CrashInFatWrite
      BY <1>0, <3>2, CrashInFatWriteStep, NoTree, OutsideContent
    <3> QED
      BY <1>8, <3>1, <3>2
  <2> QED
    BY <2>1, <2>2 DEF ContentInv, RequestOK, WritePCs
<1> QED
  BY <1>1, <1>2, <1>3, <1>4, <1>5, <1>6, <1>7, <1>8 DEF Next, Step

\* A disk of zeroes holds no file.
LEMMA ContentInit ==
    ASSUME Init PROVE ContentInv
<1>1. DriverInv /\ op.pc = "off" /\ disk[BOOT_SECTOR] = Zero
  BY InitOK, IdleFacts, ClusterFacts DEF Init, BOOT_SECTOR
<1>2. ~ Formatted(disk)
  BY <1>1, NoTreeYet, ContentFacts
<1> QED
  BY <1>1, <1>2, NoTree DEF ContentInv, RequestOK, WritePCs

(***************************************************************************)
(* In every state of every behaviour a directory lists a name once, and the      *)
(* clusters of a file hold pieces of files; the pieces that write has stored so     *)
(* far are those of the caller's buffer, in order.                          *)
(***************************************************************************)
THEOREM DriverContent == Spec => [](Ordinary => ContentInv)
<1>1. Init => (Ordinary => (DriverInv /\ ContentInv))
  BY InitOK, ContentInit
<1>2. (Ordinary => (DriverInv /\ ContentInv)) /\ [Next]_vars => (Ordinary => (DriverInv /\ ContentInv))'
  <2> SUFFICES ASSUME Ordinary => (DriverInv /\ ContentInv), [Next]_vars, Ordinary'
               PROVE  DriverInv' /\ ContentInv'
    OBVIOUS
  <2>1. Ordinary
    BY DEF Ordinary
  <2> QED
    BY <2>1, DriverStep, ContentStep
<1> QED
  BY <1>1, <1>2, PTL DEF Spec
=============================================================================
