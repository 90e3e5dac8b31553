-------------------------- MODULE FAT32StoreProofs ---------------------------
(***************************************************************************)
(* The driver implements the tree of FileStore, for every size of disk, of table,   *)
(* of cluster and of disk block, wherever the power fails.                     *)
(*                                                                         *)
(* A step of the driver leaves what a reader of the disk finds as it is, because it   *)
(* writes outside the tree; or it is the write of a parent's table, and then the      *)
(* tree gains, or loses, one entry, as an operation of FileStore does; or it is       *)
(* the write of the root's table that ends create_fat32.                     *)
(***************************************************************************)
EXTENDS FAT32Store, FAT32Proofs

\* What a reader finds behind an entry, and in a directory.
Node(d, e) ==
    IF e.folder
    THEN [kind |-> "folder", id |-> e.cluster]
    ELSE [kind |-> "file", size |-> e.filesize, data |-> read_data(d, FatOf(d), e.cluster)]
Listed(d, c) == {TableAt(d, c)[i].name : i \in Entries(d, c)}
DirView(d, c) ==
    [n \in Listed(d, c) |->
        Node(d, TableAt(d, c)[CHOOSE i \in Entries(d, c) : TableAt(d, c)[i].name = n])]

\* The tree, directory by directory.
LEMMA TreeViews ==
    ASSUME NEW d PROVE Tree(d) = [c \in LiveDirs(d) |-> DirView(d, c)]
BY DEF Tree, DirView, Listed, Node

\* Since a name is listed once, the directory maps the name of each entry to it.
LEMMA DirViewFacts ==
    ASSUME NEW d, NamesOK(d), NEW c \in LiveDirs(d)
    PROVE  /\ DirView(d, c) = [n \in Listed(d, c) |-> DirView(d, c)[n]]
           /\ \A i \in Entries(d, c) :
                /\ TableAt(d, c)[i].name \in Listed(d, c)
                /\ DirView(d, c)[TableAt(d, c)[i].name] = Node(d, TableAt(d, c)[i])
           /\ \A n \in Listed(d, c) : \E i \in Entries(d, c) : TableAt(d, c)[i].name = n
<1>1. \A n \in Listed(d, c) : \E i \in Entries(d, c) : TableAt(d, c)[i].name = n
  BY DEF Listed
<1>2. ASSUME NEW i \in Entries(d, c)
      PROVE  /\ TableAt(d, c)[i].name \in Listed(d, c)
             /\ DirView(d, c)[TableAt(d, c)[i].name] = Node(d, TableAt(d, c)[i])
  <2> DEFINE n == TableAt(d, c)[i].name
             k == CHOOSE k \in Entries(d, c) : TableAt(d, c)[k].name = n
  <2>1. n \in Listed(d, c)
    BY DEF Listed
  <2>2. k \in Entries(d, c) /\ TableAt(d, c)[k].name = n
    OBVIOUS
  <2>3. k = i
    BY <2>2 DEF NamesOK, Entries
  <2>4. DirView(d, c)[n] = Node(d, TableAt(d, c)[k])
    BY <2>1 DEF DirView
  <2> QED
    BY <2>1, <2>3, <2>4
<1>3. DirView(d, c) = [n \in Listed(d, c) |-> DirView(d, c)[n]]
  BY DEF DirView
<1> QED
  BY <1>1, <1>2, <1>3

\* A directory whose entries are the same, and lead to the same, reads the same.
LEMMA SameView ==
    ASSUME NEW d, NEW d2, NamesOK(d), NamesOK(d2), NEW c \in LiveDirs(d), c \in LiveDirs(d2),
           Entries(d2, c) = Entries(d, c),
           \A i \in Entries(d, c) :
              /\ TableAt(d2, c)[i].name = TableAt(d, c)[i].name
              /\ Node(d2, TableAt(d2, c)[i]) = Node(d, TableAt(d, c)[i])
    PROVE  DirView(d2, c) = DirView(d, c)
<1>1. Listed(d2, c) = Listed(d, c)
  BY DEF Listed
<1>2. \A n \in Listed(d, c) : DirView(d2, c)[n] = DirView(d, c)[n]
  BY DirViewFacts
<1> QED
  BY <1>1, <1>2, DirViewFacts

\* The pieces along a chain that is as it was.
LEMMA SameNode ==
    ASSUME NEW d, NEW d2, NEW e,
           ~ e.folder => /\ Chain(FatOf(d2), e.cluster) = Chain(FatOf(d), e.cluster)
                         /\ \A c \in ChainSet(FatOf(d), e.cluster) : d2[c] = d[c]
    PROVE  Node(d2, e) = Node(d, e)
<1>1. CASE e.folder
  BY <1>1 DEF Node
<1>2. CASE ~ e.folder
  <2> DEFINE s == Chain(FatOf(d), e.cluster)
  <2>1. \A i \in 1 .. Len(s) : PieceAt(d2, s[i]) = PieceAt(d, s[i])
    BY <1>2 DEF ChainSet, PieceAt
  <2>2. read_data(d2, FatOf(d2), e.cluster) = [i \in 1 .. Len(s) |-> PieceAt(d2, s[i])]
    BY <1>2 DEF read_data
  <2>3. read_data(d, FatOf(d), e.cluster) = [i \in 1 .. Len(s) |-> PieceAt(d, s[i])]
    BY DEF read_data
  <2> HIDE DEF s
  <2>4. read_data(d2, FatOf(d2), e.cluster) = read_data(d, FatOf(d), e.cluster)
    BY <2>1, <2>2, <2>3
  <2> QED
    BY <1>2, <2>4 DEF Node
<1> QED
  BY <1>1, <1>2

\* A write outside the tree is not seen.
LEMMA TreeUnseen ==
    ASSUME NEW d \in Disks, NEW d2 \in Disks, TreeOK(d), Spares(d, d2), NamesOK(d), DataOK(d)
    PROVE  Tree(d2) = Tree(d)
<1>1. /\ LiveDirs(d2) = LiveDirs(d) /\ LivePlaces(d2) = LivePlaces(d)
      /\ \A c \in LiveDirs(d) : TableAt(d2, c) = TableAt(d, c)
      /\ \A p \in LivePlaces(d) :
           /\ EntryAt(d2, p) = EntryAt(d, p)
           /\ Chain(FatOf(d2), EntryAt(d2, p).cluster) = Chain(FatOf(d), EntryAt(d, p).cluster)
  BY TreeKept
<1>2. NamesOK(d2)
  BY ContentKept
<1>3. ASSUME NEW c \in LiveDirs(d) PROVE DirView(d2, c) = DirView(d, c)
  <2>1. Entries(d2, c) = Entries(d, c) /\ TableAt(d2, c) = TableAt(d, c)
    BY <1>1 DEF Entries
  <2>2. ASSUME NEW i \in Entries(d, c) PROVE Node(d2, TableAt(d, c)[i]) = Node(d, TableAt(d, c)[i])
    <3> DEFINE e == TableAt(d, c)[i]
    <3>1. <<c, i>> \in LivePlaces(d) /\ EntryAt(d, <<c, i>>) = e
      BY PlaceFacts
    <3>2. \A x \in ChainSet(FatOf(d), e.cluster) : InTree(d, x) /\ x \in DataClusters
      BY <3>1, TreeFacts
    <3>3. \A x \in ChainSet(FatOf(d), e.cluster) : d2[x] = d[x]
      BY <3>2 DEF Spares
    <3>4. Chain(FatOf(d2), e.cluster) = Chain(FatOf(d), e.cluster)
      BY <1>1, <3>1
    <3> HIDE DEF e
    <3>5. Node(d2, e) = Node(d, e)
      BY <3>3, <3>4, SameNode
    <3> QED
      BY <3>5 DEF e
  <2> QED
    BY <1>1, <1>2, <2>1, <2>2, SameView
<1> QED
  BY <1>1, <1>3, TreeViews

\* Entries of the tree lead to the same when a directory's table is written.
LEMMA NodesKept ==
    ASSUME NEW d \in Disks, TreeOK(d), DataOK(d), NEW parent \in LiveDirs(d), NEW d2,
           FatOf(d2) = FatOf(d), \A c \in DataClusters : InTree(d, c) /\ c # parent => d2[c] = d[c],
           NEW c \in LiveDirs(d), NEW i \in Entries(d, c)
    PROVE  Node(d2, TableAt(d, c)[i]) = Node(d, TableAt(d, c)[i])
<1> DEFINE e == TableAt(d, c)[i]
<1>1. <<c, i>> \in LivePlaces(d) /\ EntryAt(d, <<c, i>>) = e
  BY PlaceFacts
<1>2. \A x \in ChainSet(FatOf(d), e.cluster) : InTree(d, x) /\ x \in DataClusters
  BY <1>1, TreeFacts
<1>3. d[parent].kind = "table"
  BY DEF TreeOK, DirOK
<1>4. ~ e.folder => \A x \in ChainSet(FatOf(d), e.cluster) : d[x].kind = "data"
  BY <1>1 DEF DataOK
<1> HIDE DEF e
<1>5. ~ e.folder => \A x \in ChainSet(FatOf(d), e.cluster) : d2[x] = d[x]
  BY <1>2, <1>3, <1>4
<1>6. Node(d2, e) = Node(d, e)
  BY <1>5, SameNode
<1> QED
  BY <1>6 DEF e

\* A directory with one entry more, and with one less, and an empty one.
ViewWith(d, c, name, node) ==
    [n \in Listed(d, c) \cup {name} |-> IF n = name THEN node ELSE DirView(d, c)[n]]
ViewWithout(d, c, name) == [n \in Listed(d, c) \ {name} |-> DirView(d, c)[n]]
NoView == [n \in {} |-> n]

\* The directories as they read once an entry was added.
LEMMA ViewAdded ==
    ASSUME NEW d \in Disks, TreeOK(d), NamesOK(d), DataOK(d), NEW d2, NEW parent, NEW i, NEW e,
           Adds(d, d2, parent, i, e), NamesOK(d2),
           \A k \in Indices : TableAt(d, parent)[k].name # e.name
    PROVE  /\ parent \in LiveDirs(d) /\ e.name \notin Listed(d, parent)
           /\ LiveDirs(d2) = LiveDirs(d) \cup {c \in {e.cluster} : e.folder}
           /\ e.folder => e.cluster \notin LiveDirs(d) /\ DirView(d2, e.cluster) = NoView
           /\ \A c \in LiveDirs(d) : c # parent => DirView(d2, c) = DirView(d, c)
           /\ DirView(d2, parent) = ViewWith(d, parent, e.name, Node(d2, e))
<1>1. /\ parent \in LiveDirs(d) /\ i \in Indices \ {0, 1}
      /\ LiveDirs(d2) = LiveDirs(d) \cup {c \in {e.cluster} : e.folder}
      /\ \A c \in LiveDirs(d) : c # parent => TableAt(d2, c) = TableAt(d, c) /\ Entries(d2, c) = Entries(d, c)
      /\ TableAt(d2, parent)[i] = e /\ Entries(d2, parent) = Entries(d, parent) \cup {i}
      /\ i \notin Entries(d, parent)
      /\ \A k \in Indices : k # i => TableAt(d2, parent)[k] = TableAt(d, parent)[k]
      /\ e.folder => e.cluster \notin LiveDirs(d) /\ Entries(d2, e.cluster) = {}
      /\ \A c \in DataClusters : InTree(d, c) /\ c # parent => d2[c] = d[c]
  BY DirsAdded
<1>2. FatOf(d2) = FatOf(d)
  BY PlaceAdded
<1>3. \A c \in LiveDirs(d) : \A k \in Entries(d, c) : Node(d2, TableAt(d, c)[k]) = Node(d, TableAt(d, c)[k])
  BY <1>1, <1>2, NodesKept
<1>4. ASSUME NEW c \in LiveDirs(d), c # parent PROVE DirView(d2, c) = DirView(d, c)
  BY <1>1, <1>3, <1>4, SameView
<1>5. \A k \in Entries(d, parent) : k \in Indices /\ k # i
  BY <1>1 DEF Entries
<1>6. e.name \notin Listed(d, parent) /\ Listed(d2, parent) = Listed(d, parent) \cup {e.name}
  BY <1>1, <1>5 DEF Listed
<1>7. parent \in LiveDirs(d2)
  BY <1>1
<1>8. DirView(d2, parent)[e.name] = Node(d2, e)
  BY <1>1, <1>7, DirViewFacts
<1>9. \A n \in Listed(d, parent) : DirView(d2, parent)[n] = DirView(d, parent)[n]
  <2> SUFFICES ASSUME NEW n \in Listed(d, parent) PROVE DirView(d2, parent)[n] = DirView(d, parent)[n]
    OBVIOUS
  <2>1. PICK k \in Entries(d, parent) : TableAt(d, parent)[k].name = n
    BY DEF Listed
  <2>2. TableAt(d2, parent)[k] = TableAt(d, parent)[k] /\ k \in Entries(d2, parent)
    BY <1>1, <1>5
  <2>3. DirView(d2, parent)[n] = Node(d2, TableAt(d, parent)[k])
    BY <1>7, <2>1, <2>2, DirViewFacts
  <2>4. DirView(d, parent)[n] = Node(d, TableAt(d, parent)[k])
    BY <1>1, <2>1, DirViewFacts
  <2> QED
    BY <1>1, <1>3, <2>3, <2>4
<1>10. DirView(d2, parent) = [n \in Listed(d, parent) \cup {e.name} |-> DirView(d2, parent)[n]]
  <2>1. DirView(d2, parent) = [n \in Listed(d2, parent) |-> DirView(d2, parent)[n]]
    BY <1>7, DirViewFacts
  <2> QED
    BY <1>6, <2>1
<1>11. DirView(d2, parent) = ViewWith(d, parent, e.name, Node(d2, e))
  BY <1>6, <1>8, <1>9, <1>10 DEF ViewWith
<1>12. e.folder => DirView(d2, e.cluster) = NoView
  BY <1>1 DEF DirView, Listed, NoView
<1> QED
  BY <1>1, <1>4, <1>6, <1>11, <1>12

\* And once one was taken away.
LEMMA ViewDropped ==
    ASSUME NEW d \in Disks, TreeOK(d), NamesOK(d), DataOK(d), NEW d2, NEW parent, NEW i, NEW e,
           Drops(d, d2, parent, i, e), NamesOK(d2)
    PROVE  /\ parent \in LiveDirs(d) /\ e.name \in Listed(d, parent) /\ e.name \in Names
           /\ DirView(d, parent)[e.name] = Node(d, e)
           /\ LiveDirs(d2) = LiveDirs(d) \ {c \in {e.cluster} : e.folder}
           /\ e.folder => /\ e.cluster \in LiveDirs(d) /\ e.cluster # parent
                          /\ DirView(d, e.cluster) = NoView
           /\ \A c \in LiveDirs(d2) : c # parent => DirView(d2, c) = DirView(d, c)
           /\ DirView(d2, parent) = ViewWithout(d, parent, e.name)
<1>1. /\ parent \in LiveDirs(d) /\ i \in Entries(d, parent) /\ e = TableAt(d, parent)[i]
      /\ LiveDirs(d2) = LiveDirs(d) \ {c \in {e.cluster} : e.folder}
      /\ \A c \in LiveDirs(d) : c # parent => TableAt(d2, c) = TableAt(d, c) /\ Entries(d2, c) = Entries(d, c)
      /\ Entries(d2, parent) = Entries(d, parent) \ {i}
      /\ \A k \in Indices : k # i => TableAt(d2, parent)[k] = TableAt(d, parent)[k]
      /\ e.folder => e.cluster \in LiveDirs(d) /\ Entries(d, e.cluster) = {} /\ e.cluster # parent
      /\ \A c \in DataClusters : c # parent => d2[c] = d[c]
  BY DirsDropped
<1>2. FatOf(d2) = FatOf(d)
  BY PlaceDropped
<1>3. \A c \in LiveDirs(d) : \A k \in Entries(d, c) : Node(d2, TableAt(d, c)[k]) = Node(d, TableAt(d, c)[k])
  BY <1>1, <1>2, NodesKept
<1>4. ASSUME NEW c \in LiveDirs(d2), c # parent PROVE DirView(d2, c) = DirView(d, c)
  BY <1>1, <1>3, <1>4, SameView
<1>5. \A k \in Entries(d, parent) : k \in Indices /\ (k # i => TableAt(d, parent)[k].name # e.name)
  BY <1>1 DEF Entries, NamesOK
<1>6. e.name \in Listed(d, parent) /\ e.name \in Names /\ DirView(d, parent)[e.name] = Node(d, e)
  BY <1>1, DirViewFacts DEF NamesOK
<1>7. Listed(d2, parent) = Listed(d, parent) \ {e.name}
  BY <1>1, <1>5 DEF Listed
<1>8. parent \in LiveDirs(d2)
  BY <1>1
<1>9. \A n \in Listed(d2, parent) : DirView(d2, parent)[n] = DirView(d, parent)[n]
  <2> SUFFICES ASSUME NEW n \in Listed(d2, parent) PROVE DirView(d2, parent)[n] = DirView(d, parent)[n]
    OBVIOUS
  <2>1. PICK k \in Entries(d2, parent) : TableAt(d2, parent)[k].name = n
    BY DEF Listed
  <2>2. TableAt(d2, parent)[k] = TableAt(d, parent)[k] /\ k \in Entries(d, parent)
    BY <1>1, <1>5
  <2>3. DirView(d2, parent)[n] = Node(d2, TableAt(d, parent)[k])
    BY <1>8, <2>1, <2>2, DirViewFacts
  <2>4. DirView(d, parent)[n] = Node(d, TableAt(d, parent)[k])
    BY <1>1, <2>1, <2>2, DirViewFacts
  <2> QED
    BY <1>1, <1>3, <2>2, <2>3, <2>4
<1>10. DirView(d2, parent) = [n \in Listed(d, parent) \ {e.name} |-> DirView(d2, parent)[n]]
  BY <1>7, <1>8, DirViewFacts
<1>11. DirView(d2, parent) = ViewWithout(d, parent, e.name)
  BY <1>7, <1>9, <1>10 DEF ViewWithout
<1>12. e.folder => DirView(d, e.cluster) = NoView
  BY <1>1 DEF DirView, Listed, NoView
<1> QED
  BY <1>1, <1>4, <1>6, <1>11, <1>12

-----------------------------------------------------------------------------
(***************************************************************************)
(* The steps that change the tree.                                          *)
(***************************************************************************)

\* A function on the directories, with some of them.
LEMMA TreeMapsTo ==
    ASSUME NEW d PROVE DOMAIN Tree(d) = LiveDirs(d) /\ \A c \in LiveDirs(d) : Tree(d)[c] = DirView(d, c)
BY TreeViews

\* The names of a directory.
LEMMA ViewDomain ==
    ASSUME NEW d, NEW c PROVE DOMAIN DirView(d, c) = Listed(d, c)
BY DEF DirView

\* The handle of a directory.
LEMMA DirHandle ==
    ASSUME NEW d \in Disks, TreeOK(d), NEW c \in LiveDirs(d)
    PROVE  c \in Clusters \ {BOOT_SECTOR, FAT_CLUSTER_NUMBER}
<1>1. c = ROOT_CLUSTER_NUMBER \/ c \in DataClusters
  BY TreeFacts
<1>2. ROOT_CLUSTER_NUMBER \in Clusters /\ ROOT_CLUSTER_NUMBER \notin {BOOT_SECTOR, FAT_CLUSTER_NUMBER}
  BY ClusterFacts DEF ROOT_CLUSTER_NUMBER, BOOT_SECTOR, FAT_CLUSTER_NUMBER
<1>3. \A x \in DataClusters : x \in Clusters /\ x \notin {BOOT_SECTOR, FAT_CLUSTER_NUMBER}
  BY ClusterFacts DEF BOOT_SECTOR, FAT_CLUSTER_NUMBER
<1> QED
  BY <1>1, <1>2, <1>3

\* The last write of create_fat32.
LEMMA RefinesFormat ==
    ASSUME DriverInv, FormatRoot, view = Tree(disk), view' = Tree(disk')
    PROVE  Store!Format
<1>1. ~ Formatted(disk)
  BY NoTreeYet DEF FormatRoot
<1>2. LiveDirs(disk) = {}
  BY <1>1, NoTree
<1>3. LiveDirs(disk') = {ROOT_CLUSTER_NUMBER} /\ Entries(disk', ROOT_CLUSTER_NUMBER) = {}
  BY FormatRootStep
<1>4. view = [c \in {} |-> DirView(disk, c)]
  BY <1>2, TreeViews
<1>5. view = [c \in {} |-> Store!EmptyDir]
  BY <1>4
<1>6. DirView(disk', ROOT_CLUSTER_NUMBER) = [n \in {} |-> n]
  BY <1>3 DEF DirView, Listed
<1>7. view' = [c \in {ROOT_CLUSTER_NUMBER} |-> DirView(disk', c)]
  BY <1>3, TreeViews
<1>8. view' = [c \in {ROOT_CLUSTER_NUMBER} |-> Store!EmptyDir]
  BY <1>6, <1>7 DEF Store!EmptyDir
<1> QED
  BY <1>5, <1>8 DEF Store!Format

\* The last write of write: the parent's table.
LEMMA RefinesWrite ==
    ASSUME DriverInv, ContentInv, WriteParent, view = Tree(disk), view' = Tree(disk')
    PROVE  Store!Next
<1>1. /\ TreeOK(disk) /\ Chain(FatOf(disk), op.slots[1]) = op.slots
      /\ \E i \in Indices, size \in Sizes :
           /\ size = 0 <=> op.payload = "folder"
           /\ ClustersOf(size) = Len(op.slots)
           /\ Adds(disk, disk', op.parent, i, NewEntry(op.name, op.slots[1], size))
  BY WriteParentStep
<1>2. PICK i \in Indices, size \in Sizes :
           /\ size = 0 <=> op.payload = "folder"
           /\ ClustersOf(size) = Len(op.slots)
           /\ Adds(disk, disk', op.parent, i, NewEntry(op.name, op.slots[1], size))
  BY <1>1
<1>3. op.pc = "w_parent" /\ op.pc \in WritePCs
  BY DEF WriteParent, WritePCs
<1>4. /\ disk \in Disks /\ StageOK(op) /\ op.slots[1] \in Clusters
      /\ \A k \in 1 .. Len(op.slots) : op.slots[k] \in DataClusters
  BY <1>3, WriteBefore, ClusterFacts
<1> DEFINE e == NewEntry(op.name, op.slots[1], size)
           p == op.parent
<1>5. /\ e.cluster = op.slots[1] /\ e.name = op.name /\ (e.folder <=> size = 0) /\ e.filesize = size
      /\ op.name \in Names /\ op.payload \in Payloads \cup {"folder"}
  BY <1>4, NewEntryFacts DEF StageOK, NewEntry
<1> HIDE DEF e
<1>6. NamesOK(disk') /\ \A k \in 1 .. Len(op.slots) : op.payload # "folder" => disk[op.slots[k]] = Piece(op.payload, k)
  BY ParentContent DEF ContentInv
<1>7. \A k \in Indices : TableAt(disk, p)[k].name # e.name
  BY <1>3, <1>5 DEF ContentInv, RequestOK
<1>8. Adds(disk, disk', p, i, e)
  BY <1>2 DEF e
<1>9. /\ p \in LiveDirs(disk) /\ e.name \notin Listed(disk, p)
      /\ LiveDirs(disk') = LiveDirs(disk) \cup {c \in {e.cluster} : e.folder}
      /\ e.folder => e.cluster \notin LiveDirs(disk) /\ DirView(disk', e.cluster) = NoView
      /\ \A c \in LiveDirs(disk) : c # p => DirView(disk', c) = DirView(disk, c)
      /\ DirView(disk', p) = ViewWith(disk, p, e.name, Node(disk', e))
  BY <1>1, <1>4, <1>6, <1>7, <1>8, ViewAdded DEF ContentInv
<1>10. DirView(disk', p) = Store!With(DirView(disk, p), op.name, Node(disk', e))
  BY <1>5, <1>9, ViewDomain DEF Store!With, ViewWith
<1>11. /\ view = [c \in LiveDirs(disk) |-> DirView(disk, c)]
       /\ view' = [c \in LiveDirs(disk') |-> DirView(disk', c)]
  BY TreeViews
<1>12. p \in DOMAIN view /\ op.name \notin DOMAIN view[p]
  BY <1>5, <1>9, <1>11, ViewDomain
<1>13. p \in Clusters \ {BOOT_SECTOR, FAT_CLUSTER_NUMBER}
  BY <1>1, <1>4, <1>9, DirHandle
<1>14. CASE size = 0
  <2>1. Node(disk', e) = Store!FolderNode(op.slots[1])
    BY <1>5, <1>14 DEF Node, Store!FolderNode
  <2>2. LiveDirs(disk') = LiveDirs(disk) \cup {op.slots[1]} /\ op.slots[1] \notin LiveDirs(disk)
    BY <1>5, <1>9, <1>14
  <2>3. op.slots[1] \in Clusters \ {BOOT_SECTOR, FAT_CLUSTER_NUMBER}
    <3>1. op.slots[1] \in DataClusters
      BY <1>4, ClusterFacts DEF StageOK
    <3> QED
      BY <3>1, ClusterFacts DEF BOOT_SECTOR, FAT_CLUSTER_NUMBER
  <2> DEFINE f == [view EXCEPT ![p] = Store!With(view[p], op.name, Store!FolderNode(op.slots[1]))]
  <2>4. DOMAIN f = LiveDirs(disk) /\ f[p] = DirView(disk', p)
        /\ \A c \in LiveDirs(disk) : c # p => f[c] = DirView(disk', c)
    BY <1>9, <1>10, <1>11, <2>1
  <2>5. view' = Store!With(f, op.slots[1], Store!EmptyDir)
    <3> HIDE DEF f
    <3>1. \A c \in LiveDirs(disk) : f[c] = DirView(disk', c) /\ c # op.slots[1]
      BY <2>2, <2>4
    <3>2. DirView(disk', op.slots[1]) = Store!EmptyDir
      BY <1>5, <1>9, <1>14 DEF Store!EmptyDir, NoView
    <3> QED
      BY <1>11, <2>2, <2>4, <3>1, <3>2 DEF Store!With
  <2>6. Store!CreateFolder(p, op.name, op.slots[1])
    BY <1>11, <1>12, <2>2, <2>5 DEF Store!CreateFolder
  <2> QED
    BY <1>5, <1>13, <2>3, <2>6 DEF Store!Next
<1>15. CASE size # 0
  <2>1. op.payload \in Payloads
    BY <1>2, <1>5, <1>15
  <2>2. read_data(disk', FatOf(disk'), e.cluster) = [k \in 1 .. Len(op.slots) |-> <<op.payload, k>>]
    <3>1. FatOf(disk') = FatOf(disk)
      BY <1>1, <1>4, <1>8, PlaceAdded
    <3>2. \A c \in ChainSet(FatOf(disk), e.cluster) : disk'[c] = disk[c]
      BY <1>1, <1>4, <1>8, DirsAdded
    <3>3. \A k \in 1 .. Len(op.slots) : disk'[op.slots[k]] = Piece(op.payload, k) /\ op.slots[k] \in Clusters
      BY <1>1, <1>2, <1>4, <1>5, <1>6, <1>15, <3>2, ClusterFacts DEF ChainSet
    <3>4. \A k : Piece(op.payload, k).kind = "data" /\ Piece(op.payload, k).piece = <<op.payload, k>>
      BY DEF Piece
    <3>5. \A k \in 1 .. Len(op.slots) : PieceAt(disk', op.slots[k]) = <<op.payload, k>>
      BY <3>3, <3>4 DEF PieceAt
    <3> QED
      BY <1>1, <1>5, <3>1, <3>5 DEF read_data
  <2>3. Store!Pieces(size) = Len(op.slots)
    BY <1>2, <1>15 DEF Store!Pieces, ClustersOf
  <2>4. Node(disk', e) = Store!FileNode(size, op.payload)
    BY <1>5, <1>15, <2>2, <2>3 DEF Node, Store!FileNode
  <2>5. LiveDirs(disk') = LiveDirs(disk)
    BY <1>5, <1>9, <1>15
  <2>6. view' = [view EXCEPT ![p] = Store!With(view[p], op.name, Store!FileNode(size, op.payload))]
    BY <1>9, <1>10, <1>11, <2>4, <2>5
  <2>7. Store!CreateFile(p, op.name, size, op.payload)
    BY <1>12, <2>6 DEF Store!CreateFile
  <2> QED
    BY <1>5, <1>13, <1>15, <2>1, <2>7 DEF Store!Next
<1> QED
  BY <1>14, <1>15

\* The first write of delete: the parent's table.
LEMMA RefinesDelete ==
    ASSUME Ordinary, DriverInv, ContentInv, DeleteParent, view = Tree(disk), view' = Tree(disk')
    PROVE  Store!Next
<1>1. /\ TreeOK(disk)
      /\ \E i \in Entries(disk, op.parent) : Drops(disk, disk', op.parent, i, TableAt(disk, op.parent)[i])
  BY DeleteParentStep
<1> DEFINE p == op.parent
<1>2. PICK i \in Entries(disk, p) : Drops(disk, disk', p, i, TableAt(disk, p)[i])
  BY <1>1
<1> DEFINE e == TableAt(disk, p)[i]
<1>3. Drops(disk, disk', p, i, e)
  BY <1>2
<1> HIDE DEF e
<1>4. disk \in Disks /\ NamesOK(disk')
  BY DeleteContent DEF DriverInv, DriverOK, ContentInv
<1>5. /\ p \in LiveDirs(disk) /\ e.name \in Listed(disk, p) /\ e.name \in Names
      /\ DirView(disk, p)[e.name] = Node(disk, e)
      /\ LiveDirs(disk') = LiveDirs(disk) \ {c \in {e.cluster} : e.folder}
      /\ e.folder => /\ e.cluster \in LiveDirs(disk) /\ e.cluster # p
                     /\ DirView(disk, e.cluster) = NoView
      /\ \A c \in LiveDirs(disk') : c # p => DirView(disk', c) = DirView(disk, c)
      /\ DirView(disk', p) = ViewWithout(disk, p, e.name)
  BY <1>1, <1>3, <1>4, ViewDropped DEF ContentInv
<1>6. DirView(disk', p) = Store!Without(DirView(disk, p), e.name)
  BY <1>5, ViewDomain DEF Store!Without, ViewWithout
<1>7. /\ view = [c \in LiveDirs(disk) |-> DirView(disk, c)]
      /\ view' = [c \in LiveDirs(disk') |-> DirView(disk', c)]
  BY TreeViews
<1>8. p \in DOMAIN view /\ e.name \in DOMAIN view[p] /\ view[p][e.name] = Node(disk, e)
  BY <1>5, <1>7, ViewDomain
<1>9. p \in Clusters \ {BOOT_SECTOR, FAT_CLUSTER_NUMBER}
  BY <1>1, <1>4, <1>5, DirHandle
<1>10. CASE e.folder
  <2>1. view[p][e.name].kind = "folder" /\ view[p][e.name].id = e.cluster
    BY <1>8, <1>10 DEF Node
  <2>2. view[e.cluster] = Store!EmptyDir
    BY <1>5, <1>7, <1>10 DEF Store!EmptyDir, NoView
  <2>3. LiveDirs(disk') = LiveDirs(disk) \ {e.cluster} /\ e.cluster # p
    BY <1>5, <1>10
  <2> DEFINE f == [view EXCEPT ![p] = Store!Without(view[p], e.name)]
  <2>4. DOMAIN f = LiveDirs(disk) /\ f[p] = DirView(disk', p)
        /\ \A c \in LiveDirs(disk') : c # p => f[c] = DirView(disk', c)
    BY <1>5, <1>6, <1>7, <2>3
  <2>5. view' = Store!Without(f, e.cluster)
    <3> HIDE DEF f
    <3>1. \A c \in LiveDirs(disk') : f[c] = DirView(disk', c)
      BY <2>4
    <3> QED
      BY <1>7, <2>3, <2>4, <3>1 DEF Store!Without
  <2>6. Store!RemoveFolder(p, e.name)
    BY <1>8, <2>1, <2>2, <2>5 DEF Store!RemoveFolder
  <2> QED
    BY <1>5, <1>9, <2>6 DEF Store!Next
<1>11. CASE ~ e.folder
  <2>1. view[p][e.name].kind = "file"
    BY <1>8, <1>11 DEF Node
  <2>2. LiveDirs(disk') = LiveDirs(disk)
    BY <1>5, <1>11
  <2>3. view' = [view EXCEPT ![p] = Store!Without(view[p], e.name)]
    BY <1>5, <1>6, <1>7, <2>2
  <2>4. Store!RemoveFile(p, e.name)
    BY <1>8, <2>1, <2>3 DEF Store!RemoveFile
  <2> QED
    BY <1>5, <1>9, <2>4 DEF Store!Next
<1> QED
  BY <1>10, <1>11

\* Every other step leaves the tree as it is.
LEMMA RefinesStutter ==
    ASSUME Ordinary, DriverInv, ContentInv, [Next]_vars,
           ~ FormatRoot, ~ WriteParent, ~ DeleteParent
    PROVE  Tree(disk') = Tree(disk)
<1>1. DriverInv'
  BY DriverStep
<1>2. disk \in Disks /\ disk' \in Disks /\ NamesOK(disk) /\ DataOK(disk)
  BY <1>1 DEF DriverInv, DriverOK, ContentInv
<1>3. CASE disk' = disk
  BY <1>3
<1>4. CASE ~ Formatted(disk) /\ ~ Formatted(disk')
  <2>1. LiveDirs(disk) = {} /\ LiveDirs(disk') = {}
    BY <1>4, NoTree
  <2>2. Tree(disk) = [c \in {} |-> DirView(disk, c)] /\ Tree(disk') = [c \in {} |-> DirView(disk', c)]
    BY <2>1, TreeViews
  <2> QED
    BY <2>2
<1>5. CASE TreeOK(disk) /\ Spares(disk, disk')
  BY <1>2, <1>5, TreeUnseen
<1>6. \/ disk' = disk
      \/ ~ Formatted(disk) /\ ~ Formatted(disk')
      \/ TreeOK(disk) /\ Spares(disk, disk')
  <2>1. CASE UNCHANGED vars
    BY <2>1 DEF vars
  <2>2. CASE Mount \/ FormatBoot \/ FormatFat \/ FormatName
    BY <1>1, <2>2, BootContent
  <2>3. CASE Start
    BY <2>3 DEF Start, WriteStart, DeleteStart
  <2>4. CASE WriteChild \/ WriteFat \/ WriteData
    BY <2>4, WriteChildStep, WriteFatStep, WriteDataStep
  <2>5. CASE DeleteFree \/ DeleteFat
    BY <2>5, DeleteFreeStep, DeleteFatStep
  <2>6. CASE Crash
    BY <2>6 DEF Crash
  <2>7. CASE CrashInFatWrite
    BY <2>7, CrashInFatWriteStep
  <2> QED
    BY <2>1, <2>2, <2>3, <2>4, <2>5, <2>6, <2>7 DEF Next, Step
<1> QED
  BY <1>3, <1>4, <1>5, <1>6

\* The tree is the one of the disk, and the driver's invariants hold.
ViewInv == DriverInv /\ ContentInv /\ view = Tree(disk)

(***************************************************************************)
(* ImplementsStore: whatever the sizes, and wherever the power fails, what a        *)
(* reader of the disk finds changes by one whole operation of FileStore at a time,     *)
(* at the write of the parent's directory table or at the end of create_fat32.      *)
(***************************************************************************)
THEOREM Implements == ASSUME Ordinary PROVE ViewSpec => ImplementsStore
<1>0. Ordinary
  OBVIOUS
<1>1. ViewInit => ViewInv /\ Store!Init
  <2> SUFFICES ASSUME ViewInit PROVE ViewInv /\ Store!Init
    OBVIOUS
  <2>1. DriverInv /\ ContentInv /\ view = Tree(disk)
    BY InitOK, ContentInit DEF ViewInit
  <2>2. ~ Formatted(disk)
    <3>1. disk[BOOT_SECTOR] # Signature
      BY ContentFacts, ClusterFacts DEF ViewInit, Init, BOOT_SECTOR
    <3> QED
      BY <2>1, <3>1, NoTreeYet
  <2>3. LiveDirs(disk) = {}
    BY <2>2, NoTree
  <2>4. view = [c \in {} |-> DirView(disk, c)]
    BY <2>1, <2>3, TreeViews
  <2>5. view = [c \in {} |-> Store!EmptyDir]
    BY <2>4
  <2> QED
    BY <2>1, <2>5 DEF ViewInv, Store!Init
<1>2. ViewInv /\ [ViewNext]_<<vars, view>> => ViewInv' /\ [Store!Next]_view
  <2> SUFFICES ASSUME ViewInv, [ViewNext]_<<vars, view>> PROVE ViewInv' /\ [Store!Next]_view
    OBVIOUS
  <2>1. DriverInv /\ ContentInv /\ view = Tree(disk) /\ [Next]_vars
    BY DEF ViewInv, ViewNext
  <2>2. DriverInv' /\ ContentInv'
    BY <1>0, <2>1, DriverStep, ContentStep
  <2>3. view' = Tree(disk')
    <3>1. CASE UNCHANGED <<vars, view>>
      BY <2>1, <3>1 DEF vars
    <3>2. CASE ViewNext
      BY <3>2 DEF ViewNext
    <3> QED
      BY <3>1, <3>2
  <2>4. [Store!Next]_view
    <3>1. CASE FormatRoot
      BY <2>1, <2>3, <3>1, RefinesFormat DEF Store!Next
    <3>2. CASE WriteParent
      BY <2>1, <2>3, <3>2, RefinesWrite
    <3>3. CASE DeleteParent
      BY <1>0, <2>1, <2>3, <3>3, RefinesDelete
    <3>4. CASE ~ FormatRoot /\ ~ WriteParent /\ ~ DeleteParent
      BY <1>0, <2>1, <2>3, <3>4, RefinesStutter
    <3> QED
      BY <3>1, <3>2, <3>3, <3>4
  <2> QED
    BY <2>2, <2>3, <2>4 DEF ViewInv
<1> QED
  BY <1>1, <1>2, PTL DEF ViewSpec, ImplementsStore, Store!Spec
=============================================================================
