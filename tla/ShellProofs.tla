----------------------------- MODULE ShellProofs -----------------------------
(***************************************************************************)
(* The shell's file commands keep the tree on the disk sound, for every size of     *)
(* disk, of table and of cluster, when one shell runs and its user moves with care.   *)
(*                                                                         *)
(* The driver's calls are the ones of FAT32Proofs.  What is new is mv, which writes    *)
(* directory tables itself: in the middle of a move the tree has lost an entry, or      *)
(* holds a folder whose own links are wrong.  The invariant keeps, for those states,     *)
(* the disk as it was when the command began and what has been written since.        *)
(***************************************************************************)
EXTENDS Shell, FAT32Proofs

(***************************************************************************)
(* Trees whose folders in M have wrong links.                               *)
(***************************************************************************)
PlaceBut(d, p, M) ==
    LET e == EntryAt(d, p) IN
    /\ Good(FatOf(d), e.cluster)
    /\ Len(Chain(FatOf(d), e.cluster)) = ClustersOf(e.filesize)
    /\ e.folder <=> e.filesize = 0
    /\ e.folder =>
         /\ TableAt(d, e.cluster)[0].cluster = e.cluster
         /\ e.cluster \notin M => /\ TableAt(d, e.cluster)[0].name = e.name
                                  /\ TableAt(d, e.cluster)[1].cluster = p[1]

TreeBut(d, M) ==
    /\ d[BOOT_SECTOR] = Signature
    /\ FatOf(d)[0] # FAT32_FAT_EMPTY_ENTRY /\ FatOf(d)[1] # FAT32_FAT_EMPTY_ENTRY
    /\ FatOf(d)[ROOT_CLUSTER_NUMBER] = FAT32_FAT_END_OF_FILE
    /\ TableAt(d, ROOT_CLUSTER_NUMBER)[0].used
    /\ \A c \in LiveDirs(d) : DirOK(d, c)
    /\ \A p \in LivePlaces(d) : PlaceBut(d, p, M)
    /\ \A p, q \in LivePlaces(d) :
         p # q => ChainSet(FatOf(d), EntryAt(d, p).cluster)
                    \cap ChainSet(FatOf(d), EntryAt(d, q).cluster) = {}

\* With none it is the tree of the driver.
LEMMA TreeButNone ==
    ASSUME NEW d PROVE TreeBut(d, {}) <=> TreeOK(d)
<1>1. \A p : PlaceBut(d, p, {}) <=> PlaceOK(d, p)
  BY DEF PlaceBut, PlaceOK
<1> QED
  BY <1>1 DEF TreeBut, TreeOK

\* Such a tree is sound but for these links.
LEMMA TreeButSound ==
    ASSUME disk \in Disks, NEW M, TreeBut(disk, M)
    PROVE  ChainsSound /\ LinksSoundBut(M)
<1> DEFINE m == FatOf(disk)
<1>1. ASSUME NEW e \in LiveEntries(disk)
      PROVE  /\ ChainSet(m, e.cluster) \subseteq DataClusters
             /\ m[Chain(m, e.cluster)[Len(Chain(m, e.cluster))]] = FAT32_FAT_END_OF_FILE
             /\ Len(Chain(m, e.cluster)) = ClustersOf(e.filesize)
  <2>1. PICK p \in LivePlaces(disk) : e = EntryAt(disk, p)
    BY DEF LiveEntries
  <2>2. Good(m, e.cluster) /\ Len(Chain(m, e.cluster)) = ClustersOf(e.filesize)
    BY <2>1 DEF TreeBut, PlaceBut
  <2> QED
    BY <2>2, GoodFacts
<1>2. ASSUME NEW p \in LivePlaces(disk), EntryAt(disk, p).folder
      PROVE  LET e == EntryAt(disk, p) IN
             /\ disk[e.cluster].kind = "table"
             /\ TableAt(disk, e.cluster)[0].cluster = e.cluster
             /\ e.cluster \notin M => /\ TableAt(disk, e.cluster)[1].cluster = p[1]
                                      /\ TableAt(disk, e.cluster)[0].name = e.name
             /\ \A q \in LivePlaces(disk) : EntryAt(disk, q).cluster = e.cluster => p = q
  <2> DEFINE e == EntryAt(disk, p)
  <2>1. PlaceBut(disk, p, M) /\ e.cluster \in LiveDirs(disk)
    BY <1>2, PlaceFacts DEF TreeBut
  <2>2. disk[e.cluster].kind = "table"
    BY <2>1 DEF TreeBut, DirOK
  <2>3. e.cluster \in ChainSet(m, e.cluster)
    BY <2>1, GoodFacts DEF PlaceBut
  <2>4. \A q \in LivePlaces(disk) : EntryAt(disk, q).cluster = e.cluster => p = q
    BY <2>3 DEF TreeBut
  <2> QED
    BY <1>2, <2>1, <2>2, <2>4 DEF PlaceBut
<1>3. ChainsSound
  BY <1>1 DEF ChainsSound, TreeBut
<1>4. LinksSoundBut(M)
  BY <1>2 DEF LinksSoundBut
<1> QED
  BY <1>3, <1>4

-----------------------------------------------------------------------------
(***************************************************************************)
(* Rearranging a tree: one entry, wherever it now stands and whatever its name.     *)
(***************************************************************************)

\* A write of a directory's table.
LEMMA TableWritten ==
    ASSUME NEW d \in Disks, NEW d2, NEW c \in Clusters, c # BOOT_SECTOR, c # FAT_CLUSTER_NUMBER,
           NEW t \in Tables, Written(d, d2, c, Table(t))
    PROVE  /\ d2 \in Disks /\ FatOf(d2) = FatOf(d) /\ d2[BOOT_SECTOR] = d[BOOT_SECTOR]
           /\ \A b \in Clusters : b # c => d2[b] = d[b] /\ TableAt(d2, b) = TableAt(d, b)
           /\ d2[c].kind = "table" /\ TableAt(d2, c) = t
<1>1. Table(t) \in Content /\ Table(t).kind = "table" /\ BOOT_SECTOR \in Clusters
  BY ContentFacts, ClusterFacts DEF Table, BOOT_SECTOR
<1> QED
  BY <1>1, WriteFacts

\* No folder is its own parent.
LEMMA NotOwnParent ==
    ASSUME NEW d \in Disks, TreeOK(d), NEW p \in LivePlaces(d), EntryAt(d, p).folder
    PROVE  EntryAt(d, p).cluster # p[1]
<1> SUFFICES ASSUME EntryAt(d, p).cluster = p[1] PROVE FALSE
  OBVIOUS
<1> DEFINE c == p[1]
           X == LiveDirs(d) \ {c}
<1>1. c \in LiveDirs(d) /\ c # ROOT_CLUSTER_NUMBER /\ Formatted(d)
  BY PlaceFacts, TreeFacts, ClusterFacts DEF ROOT_CLUSTER_NUMBER
<1>2. ROOT_CLUSTER_NUMBER \in X
  BY <1>1, LiveLeast
<1>3. \A b \in X : Folders(d, b) \subseteq X
  <2> SUFFICES ASSUME NEW b \in X, c \in Folders(d, b) PROVE FALSE
    BY LiveClosed
  <2>1. PICK i \in Entries(d, b) : TableAt(d, b)[i].cluster = c
    BY DEF Folders
  <2>2. <<b, i>> \in LivePlaces(d) /\ EntryAt(d, <<b, i>>).cluster = c
    BY <2>1, PlaceFacts
  <2>3. <<b, i>> = p
    BY <2>2, OnePlace
  <2> QED
    BY <2>3
<1> HIDE DEF X
<1>4. LiveDirs(d) \subseteq X
  BY <1>1, <1>2, <1>3, LiveLeast
<1> QED
  BY <1>1, <1>4 DEF X

\* The entry of p stands at q in d2, and nothing else of the tree has changed but its name and
\* the links of the folder it names.
Carried(d, d2, p, q, M) ==
    LET e  == EntryAt(d, p)
        e2 == EntryAt(d2, q) IN
    /\ FatOf(d2) = FatOf(d) /\ d2[BOOT_SECTOR] = d[BOOT_SECTOR]
    /\ LiveDirs(d2) = LiveDirs(d)
    /\ p \in LivePlaces(d) /\ LivePlaces(d2) = (LivePlaces(d) \ {p}) \cup {q}
    /\ q = p \/ q \notin LivePlaces(d)
    /\ \A r \in LivePlaces(d) : r # p => EntryAt(d2, r) = EntryAt(d, r)
    /\ e2.cluster = e.cluster /\ e2.folder = e.folder /\ e2.filesize = e.filesize
    /\ \A c \in LiveDirs(d) : DirOK(d2, c)
    /\ \A c \in LiveDirs(d) : \/ e.folder /\ c = e.cluster
                              \/ \A i \in {0, 1} : TableAt(d2, c)[i] = TableAt(d, c)[i]
    /\ e.folder =>
         /\ TableAt(d2, e.cluster)[0].cluster = e.cluster
         /\ e.cluster \notin M => /\ TableAt(d2, e.cluster)[0].name = e2.name
                                  /\ TableAt(d2, e.cluster)[1].cluster = q[1]
    /\ \A c \in DataClusters : d[c].kind = "data" => d2[c] = d[c]

\* The tree is as sound as it was, and holds the same clusters and contents.
LEMMA TreeCarried ==
    ASSUME NEW d \in Disks, NEW d2 \in Disks, TreeOK(d), DataOK(d), NEW p, NEW q, NEW M,
           Carried(d, d2, p, q, M)
    PROVE  TreeBut(d2, M) /\ DataOK(d2) /\ \A c : InTree(d2, c) <=> InTree(d, c)
<1> DEFINE e  == EntryAt(d, p)
           e2 == EntryAt(d2, q)
           m  == FatOf(d)
<1>1. /\ FatOf(d2) = m /\ d2[BOOT_SECTOR] = d[BOOT_SECTOR]
      /\ LiveDirs(d2) = LiveDirs(d)
      /\ p \in LivePlaces(d) /\ LivePlaces(d2) = (LivePlaces(d) \ {p}) \cup {q}
      /\ q = p \/ q \notin LivePlaces(d)
      /\ \A r \in LivePlaces(d) : r # p => EntryAt(d2, r) = EntryAt(d, r)
      /\ e2.cluster = e.cluster /\ e2.folder = e.folder /\ e2.filesize = e.filesize
      /\ \A c \in LiveDirs(d) : DirOK(d2, c)
      /\ \A c \in LiveDirs(d) : \/ e.folder /\ c = e.cluster
                                \/ \A i \in {0, 1} : TableAt(d2, c)[i] = TableAt(d, c)[i]
      /\ e.folder =>
           /\ TableAt(d2, e.cluster)[0].cluster = e.cluster
           /\ e.cluster \notin M => /\ TableAt(d2, e.cluster)[0].name = e2.name
                                    /\ TableAt(d2, e.cluster)[1].cluster = q[1]
      /\ \A c \in DataClusters : d[c].kind = "data" => d2[c] = d[c]
  BY DEF Carried
<1> HIDE DEF e, e2
<1>2. \A r \in LivePlaces(d) : PlaceOK(d, r) /\ (EntryAt(d, r).cluster = e.cluster => r = p)
  BY <1>1, OnePlace DEF TreeOK, e
<1>3. ASSUME NEW r \in LivePlaces(d2) PROVE PlaceBut(d2, r, M)
  <2>1. CASE r = q
    <3>1. EntryAt(d2, r) = e2 /\ PlaceOK(d, p)
      BY <1>1, <1>2, <2>1 DEF e2
    <3>2. /\ Good(m, e.cluster) /\ Len(Chain(m, e.cluster)) = ClustersOf(e.filesize)
          /\ e.folder <=> e.filesize = 0
      BY <3>1 DEF PlaceOK, e
    <3> QED
      BY <1>1, <2>1, <3>1, <3>2 DEF PlaceBut
  <2>2. CASE r # q
    <3>1. r \in LivePlaces(d) /\ r # p
      BY <1>1, <2>2
    <3>2. EntryAt(d2, r) = EntryAt(d, r) /\ EntryAt(d, r).cluster # e.cluster /\ PlaceOK(d, r)
      BY <1>1, <1>2, <3>1
    <3>3. EntryAt(d, r).folder => EntryAt(d, r).cluster \in LiveDirs(d)
      BY <3>1, PlaceFacts
    <3>4. EntryAt(d, r).folder =>
            \A i \in {0, 1} : TableAt(d2, EntryAt(d, r).cluster)[i] = TableAt(d, EntryAt(d, r).cluster)[i]
      BY <1>1, <3>2, <3>3
    <3> QED
      BY <1>1, <3>2, <3>4 DEF PlaceOK, PlaceBut
  <2> QED
    BY <2>1, <2>2
<1> DEFINE Back(r) == IF r = q THEN p ELSE r
<1>4. \A r \in LivePlaces(d2) : Back(r) \in LivePlaces(d) /\ EntryAt(d2, r).cluster = EntryAt(d, Back(r)).cluster
  BY <1>1 DEF e, e2
<1>5. \A r, s \in LivePlaces(d2) : r # s => Back(r) # Back(s)
  BY <1>1
<1>6. \A r, s \in LivePlaces(d2) :
         r # s => ChainSet(m, EntryAt(d2, r).cluster) \cap ChainSet(m, EntryAt(d2, s).cluster) = {}
  BY <1>4, <1>5 DEF TreeOK
<1>7. TreeBut(d2, M)
  <2>1. TableAt(d2, ROOT_CLUSTER_NUMBER)[0].used
    <3>1. ROOT_CLUSTER_NUMBER \in LiveDirs(d)
      BY TreeFacts, LiveLeast
    <3> QED
      BY <1>1, <3>1 DEF DirOK
  <2> QED
    BY <1>1, <1>3, <1>6, <2>1 DEF TreeBut, TreeOK
<1>8. DataOK(d2)
  <2> SUFFICES ASSUME NEW r \in LivePlaces(d2), ~ EntryAt(d2, r).folder,
                      NEW c \in ChainSet(m, EntryAt(d2, r).cluster)
               PROVE  d2[c].kind = "data"
    BY <1>1 DEF DataOK
  <2>1. Back(r) \in LivePlaces(d) /\ ~ EntryAt(d, Back(r)).folder /\ c \in ChainSet(m, EntryAt(d, Back(r)).cluster)
    BY <1>1, <1>4 DEF e, e2
  <2>2. d[c].kind = "data" /\ c \in DataClusters
    BY <2>1, TreeFacts DEF DataOK
  <2> QED
    BY <1>1, <2>2
<1>9. \A c : InTree(d2, c) <=> InTree(d, c)
  <2>1. \A r \in LivePlaces(d) : \E s \in LivePlaces(d2) : EntryAt(d2, s).cluster = EntryAt(d, r).cluster
    BY <1>1 DEF e, e2
  <2> QED
    BY <1>1, <1>4, <2>1 DEF InTree
<1> QED
  BY <1>7, <1>8, <1>9

\* Directories that name the same folders are the same directories.
LEMMA SameFolders ==
    ASSUME NEW d \in Disks, NEW d2 \in Disks, Formatted(d), Formatted(d2),
           \A c \in LiveDirs(d) : Folders(d2, c) = Folders(d, c)
    PROVE  LiveDirs(d2) = LiveDirs(d)
<1>1. LiveDirs(d2) \subseteq LiveDirs(d) \cup {}
  BY DirsWithin
<1>2. LiveDirs(d) \subseteq LiveDirs(d2) \cup {}
  BY DirsWithin
<1> QED
  BY <1>1, <1>2

\* A new boot sector is none, and the root is where it was.
LEMMA StillFormatted ==
    ASSUME NEW d \in Disks, TreeOK(d), NEW d2, FatOf(d2) = FatOf(d), d2[BOOT_SECTOR] = d[BOOT_SECTOR],
           TableAt(d2, ROOT_CLUSTER_NUMBER)[0].used
    PROVE  Formatted(d2) /\ Formatted(d) /\ ROOT_CLUSTER_NUMBER \in LiveDirs(d)
<1>1. Formatted(d)
  BY TreeFacts
<1> QED
  BY <1>1, LiveLeast DEF Formatted

-----------------------------------------------------------------------------
(***************************************************************************)
(* Renaming.                                                                *)
(***************************************************************************)

\* Entry k of a directory gets a name that is in neither table.
RenamePlan(d, here, k, n) ==
    LET e == TableAt(d, here)[k] IN
    /\ here \in LiveDirs(d) /\ k \in Entries(d, here) /\ n \in Names
    /\ \A l \in Indices : TableAt(d, here)[l].name # n
    /\ e.folder => \A l \in Indices : TableAt(d, e.cluster)[l].name # n

\* What it changes: the entry, and the links of the folder's own table.
Renames(d, d2, here, k, n, M) ==
    LET e == TableAt(d, here)[k]
        c == e.cluster IN
    /\ FatOf(d2) = FatOf(d) /\ d2[BOOT_SECTOR] = d[BOOT_SECTOR]
    /\ TableAt(d2, here)[k] = [e EXCEPT !.name = n]
    /\ \A b \in LiveDirs(d) :
         /\ d2[b].kind = "table"
         /\ \A i \in Indices : \/ TableAt(d2, b)[i] = TableAt(d, b)[i]
                               \/ b = here /\ i = k
                               \/ e.folder /\ b = c /\ i \in {0, 1}
    /\ e.folder =>
         /\ \A i \in {0, 1} : /\ TableAt(d2, c)[i].used /\ TableAt(d2, c)[i].folder
                              /\ TableAt(d2, c)[i].name \in {TableAt(d, c)[i].name, n}
         /\ TableAt(d2, c)[0].cluster = c
         /\ c \notin M => TableAt(d2, c)[0].name = n /\ TableAt(d2, c)[1].cluster = here
    /\ \A b \in DataClusters : d[b].kind = "data" => d2[b] = d[b]

\* The tree carries the entry under its new name, and no directory lists a name twice.
LEMMA TreeRenamed ==
    ASSUME NEW d \in Disks, NEW d2 \in Disks, TreeOK(d), NamesOK(d), NEW here, NEW k, NEW n, NEW M,
           RenamePlan(d, here, k, n), Renames(d, d2, here, k, n, M)
    PROVE  Carried(d, d2, <<here, k>>, <<here, k>>, M) /\ NamesOK(d2)
<1> DEFINE e == TableAt(d, here)[k]
           c == e.cluster
           p == <<here, k>>
           x == [e EXCEPT !.name = n]
<1>1. /\ here \in LiveDirs(d) /\ k \in Entries(d, here) /\ n \in Names
      /\ \A l \in Indices : TableAt(d, here)[l].name # n
      /\ e.folder => \A l \in Indices : TableAt(d, c)[l].name # n
  BY DEF RenamePlan
<1>2. p \in LivePlaces(d) /\ EntryAt(d, p) = e /\ e \in Entry /\ k \in Indices \ {0, 1} /\ e.used
  BY <1>1, PlaceFacts DEF Entries
<1>3. /\ x.used /\ x.cluster = e.cluster /\ x.folder = e.folder /\ x.filesize = e.filesize /\ x.name = n
  BY <1>2 DEF Entry
<1>4. e.folder => c # here /\ c \in LiveDirs(d) /\ c # ROOT_CLUSTER_NUMBER
  BY <1>2, NotOwnParent, PlaceFacts, TreeFacts, ClusterFacts DEF ROOT_CLUSTER_NUMBER
<1>5. /\ FatOf(d2) = FatOf(d) /\ d2[BOOT_SECTOR] = d[BOOT_SECTOR]
      /\ TableAt(d2, here)[k] = x
      /\ \A b \in LiveDirs(d) :
           /\ d2[b].kind = "table"
           /\ \A i \in Indices : \/ TableAt(d2, b)[i] = TableAt(d, b)[i]
                                 \/ b = here /\ i = k
                                 \/ e.folder /\ b = c /\ i \in {0, 1}
      /\ e.folder =>
           /\ \A i \in {0, 1} : /\ TableAt(d2, c)[i].used /\ TableAt(d2, c)[i].folder
                                /\ TableAt(d2, c)[i].name \in {TableAt(d, c)[i].name, n}
           /\ TableAt(d2, c)[0].cluster = c
           /\ c \notin M => TableAt(d2, c)[0].name = n /\ TableAt(d2, c)[1].cluster = here
      /\ \A b \in DataClusters : d[b].kind = "data" => d2[b] = d[b]
  BY DEF Renames
<1> HIDE DEF x, e
<1>6. \A b \in LiveDirs(d) : DirOK(d, b)
  BY DEF TreeOK
<1>7. \A b \in LiveDirs(d) : \A i \in Indices :
        /\ TableAt(d2, b)[i].used = TableAt(d, b)[i].used
        /\ TableAt(d2, b)[i].folder = TableAt(d, b)[i].folder
        /\ i \notin {0, 1} => TableAt(d2, b)[i].cluster = TableAt(d, b)[i].cluster
  <2> SUFFICES ASSUME NEW b \in LiveDirs(d), NEW i \in Indices
               PROVE  /\ TableAt(d2, b)[i].used = TableAt(d, b)[i].used
                      /\ TableAt(d2, b)[i].folder = TableAt(d, b)[i].folder
                      /\ i \notin {0, 1} => TableAt(d2, b)[i].cluster = TableAt(d, b)[i].cluster
    OBVIOUS
  <2>1. CASE TableAt(d2, b)[i] = TableAt(d, b)[i]
    BY <2>1
  <2>2. CASE b = here /\ i = k
    BY <1>2, <1>3, <1>5, <2>2 DEF e
  <2>3. CASE e.folder /\ b = c /\ i \in {0, 1}
    <3>1. TableAt(d, b) \in Tables /\ TableAt(d2, b) \in Tables /\ TableAt(d, b)[i].used /\ TableAt(d, b)[i].folder
      BY <1>6, <2>3, DiskFacts, LiveClosed DEF DirOK
    <3>2. TableAt(d, b)[i] \in Entry /\ TableAt(d2, b)[i] \in Entry
      BY <3>1 DEF Tables
    <3> QED
      BY <1>5, <2>3, <3>1, <3>2 DEF Entry
  <2> QED
    BY <1>5, <2>1, <2>2, <2>3
<1>8. \A b \in LiveDirs(d) : Entries(d2, b) = Entries(d, b) /\ Folders(d2, b) = Folders(d, b)
  <2>1. \A b \in LiveDirs(d) : Entries(d2, b) = Entries(d, b)
    BY <1>7 DEF Entries
  <2>2. \A b : Entries(d, b) \subseteq Indices \ {0, 1}
    BY DEF Entries
  <2> QED
    BY <1>7, <2>1, <2>2 DEF Folders
<1>9. LiveDirs(d2) = LiveDirs(d)
  <2>1. ROOT_CLUSTER_NUMBER \in LiveDirs(d)
    BY TreeFacts, LiveLeast
  <2>2. TableAt(d2, ROOT_CLUSTER_NUMBER)[0].used
    BY <1>6, <1>7, <2>1, ClusterFacts DEF DirOK
  <2> QED
    BY <1>5, <1>8, <2>2, StillFormatted, SameFolders
<1>10. LivePlaces(d2) = LivePlaces(d)
  BY <1>8, <1>9 DEF LivePlaces
<1>11. EntryAt(d2, p) = x /\ \A r \in LivePlaces(d) : r # p => EntryAt(d2, r) = EntryAt(d, r)
  <2>1. EntryAt(d2, p) = x
    BY <1>5, PlaceFacts
  <2>2. ASSUME NEW r \in LivePlaces(d), r # p PROVE EntryAt(d2, r) = EntryAt(d, r)
    <3>1. /\ r = <<r[1], r[2]>> /\ r[1] \in LiveDirs(d) /\ r[2] \in Entries(d, r[1])
          /\ EntryAt(d, r) = TableAt(d, r[1])[r[2]]
      BY PlaceFacts
    <3>2. EntryAt(d2, r) = TableAt(d2, r[1])[r[2]]
      BY DEF EntryAt
    <3>3. r[2] \in Indices \ {0, 1} /\ ~ (r[1] = here /\ r[2] = k)
      BY <2>2, <3>1 DEF Entries
    <3> QED
      BY <1>5, <3>1, <3>2, <3>3
  <2> QED
    BY <2>1, <2>2
<1>12. \A b \in LiveDirs(d) : DirOK(d2, b)
  <2> SUFFICES ASSUME NEW b \in LiveDirs(d) PROVE DirOK(d2, b)
    OBVIOUS
  <2>1. \A i \in {0, 1} : TableAt(d2, b)[i].used /\ TableAt(d2, b)[i].folder
    BY <1>6, <1>7, ClusterFacts DEF DirOK
  <2>2. ASSUME NEW i \in Indices, ~ TableAt(d2, b)[i].used PROVE TableAt(d2, b)[i] = EmptyEntry
    <3>1. ~ TableAt(d, b)[i].used /\ TableAt(d, b)[i] = EmptyEntry
      BY <1>6, <1>7, <2>2 DEF DirOK
    <3>2. i \notin {0, 1} /\ ~ (b = here /\ i = k)
      BY <1>2, <2>1, <2>2, <3>1 DEF e
    <3> QED
      BY <1>5, <3>1, <3>2
  <2> QED
    BY <1>5, <2>1, <2>2 DEF DirOK
<1>13. \A b \in LiveDirs(d) : \/ e.folder /\ b = c
                              \/ \A i \in {0, 1} : TableAt(d2, b)[i] = TableAt(d, b)[i]
  BY <1>2, <1>5, ClusterFacts
<1>14. p[1] = here
  OBVIOUS
<1>15. Carried(d, d2, p, p, M)
  BY <1>2, <1>3, <1>5, <1>9, <1>10, <1>11, <1>12, <1>13, <1>14 DEF Carried
<1>16. NamesOK(d2)
  <2> SUFFICES ASSUME NEW b \in LiveDirs(d), NEW i \in Entries(d, b)
               PROVE  /\ TableAt(d2, b)[i].name \in Names
                      /\ \A l \in Indices : TableAt(d2, b)[l].name = TableAt(d2, b)[i].name => l = i
    BY <1>8, <1>9 DEF NamesOK
  <2>1. i \in Indices \ {0, 1} /\ TableAt(d, b)[i].name \in Names
        /\ \A l \in Indices : TableAt(d, b)[l].name = TableAt(d, b)[i].name => l = i
    BY DEF Entries, NamesOK
  <2>2. CASE b = here
    <3>1. \A l \in Indices : l # k => TableAt(d2, b)[l] = TableAt(d, b)[l]
      BY <1>4, <1>5, <2>2
    <3> QED
      BY <1>1, <1>2, <1>3, <1>5, <2>1, <2>2, <3>1
  <2>3. CASE e.folder /\ b = c
    <3>1. \A l \in Indices \ {0, 1} : TableAt(d2, b)[l] = TableAt(d, b)[l]
      BY <1>4, <1>5, <2>3
    <3>2. \A l \in {0, 1} : TableAt(d2, b)[l].name # TableAt(d, b)[i].name
      BY <1>1, <1>5, <2>1, <2>3, ClusterFacts
    <3> QED
      BY <2>1, <3>1, <3>2
  <2>4. CASE b # here /\ ~ (e.folder /\ b = c)
    BY <1>5, <2>1, <2>4
  <2> QED
    BY <2>2, <2>3, <2>4
<1> QED
  BY <1>15, <1>16

\* The write of the directory's table: all of the rename, if the entry is a file.
LEMMA RenameEntry ==
    ASSUME NEW d \in Disks, TreeOK(d), NEW here, NEW k, NEW n, RenamePlan(d, here, k, n), NEW d2,
           Written(d, d2, here, Table([TableAt(d, here) EXCEPT ![k].name = n]))
    PROVE  LET e == TableAt(d, here)[k] IN
           /\ d2 \in Disks /\ Renames(d, d2, here, k, n, {e.cluster})
           /\ ~ e.folder => Renames(d, d2, here, k, n, {})
           /\ e.folder => TableAt(d2, e.cluster) = TableAt(d, e.cluster)
           /\ [TableAt(d, here) EXCEPT ![k].name = n] \in Tables
<1> DEFINE e == TableAt(d, here)[k]
           c == e.cluster
           t == [TableAt(d, here) EXCEPT ![k].name = n]
<1>1. /\ here \in LiveDirs(d) /\ k \in Entries(d, here) /\ n \in Names /\ k \in Indices
  BY DEF RenamePlan, Entries
<1>2. /\ <<here, k>> \in LivePlaces(d) /\ EntryAt(d, <<here, k>>) = e /\ e \in Entry
  BY <1>1, PlaceFacts
<1>3. here \in Clusters /\ here # BOOT_SECTOR /\ here # FAT_CLUSTER_NUMBER /\ LiveDirs(d) \subseteq Clusters
  <2>1. here = ROOT_CLUSTER_NUMBER \/ here \in DataClusters
    BY <1>1, TreeFacts
  <2> QED
    BY <1>1, <2>1, LiveClosed, ClusterFacts DEF ROOT_CLUSTER_NUMBER, BOOT_SECTOR, FAT_CLUSTER_NUMBER
<1>4. TableAt(d, here) \in Tables
  BY <1>3, DiskFacts
<1>5. [e EXCEPT !.name = n] \in Entry
  BY <1>1, <1>2 DEF Entry
<1>6. t[k] = [e EXCEPT !.name = n] /\ t \in Tables /\ \A i \in Indices : i # k => t[i] = TableAt(d, here)[i]
  BY <1>1, <1>4, <1>5 DEF Tables
<1> HIDE DEF t
<1>7. Written(d, d2, here, Table(t))
  BY DEF t
<1>8. /\ d2 \in Disks /\ FatOf(d2) = FatOf(d) /\ d2[BOOT_SECTOR] = d[BOOT_SECTOR]
      /\ \A b \in Clusters : b # here => d2[b] = d[b] /\ TableAt(d2, b) = TableAt(d, b)
      /\ d2[here].kind = "table" /\ TableAt(d2, here) = t
  BY <1>3, <1>6, <1>7, TableWritten
<1>9. e.folder => /\ c # here /\ c \in LiveDirs(d) /\ TableAt(d2, c) = TableAt(d, c)
                  /\ TableAt(d, c)[0].cluster = c
                  /\ \A i \in {0, 1} : TableAt(d, c)[i].used /\ TableAt(d, c)[i].folder
  <2>1. e.folder => c # here /\ c \in LiveDirs(d)
    BY <1>2, NotOwnParent, PlaceFacts
  <2>2. e.folder => TableAt(d, c)[0].cluster = c
    BY <1>2 DEF TreeOK, PlaceOK
  <2>3. e.folder => DirOK(d, c)
    BY <2>1 DEF TreeOK
  <2> QED
    BY <1>3, <1>8, <2>1, <2>2, <2>3 DEF DirOK
<1>10. \A b \in LiveDirs(d) :
         /\ d2[b].kind = "table"
         /\ \A i \in Indices : TableAt(d2, b)[i] = TableAt(d, b)[i] \/ (b = here /\ i = k)
  BY <1>3, <1>6, <1>8 DEF TreeOK, DirOK
<1>11. \A b \in DataClusters : d[b].kind = "data" => d2[b] = d[b]
  <2>1. d[here].kind = "table"
    BY <1>1 DEF TreeOK, DirOK
  <2> QED
    BY <1>8, <2>1, ClusterFacts
<1> QED
  BY <1>6, <1>8, <1>9, <1>10, <1>11 DEF Renames, t

\* And the write of the folder's own.
LEMMA RenameSelf ==
    ASSUME NEW d \in Disks, TreeOK(d), NEW here, NEW k, NEW n, RenamePlan(d, here, k, n),
           NEW d2 \in Disks, TableAt(d, here)[k].folder,
           Renames(d, d2, here, k, n, {TableAt(d, here)[k].cluster}),
           TableAt(d2, TableAt(d, here)[k].cluster) = TableAt(d, TableAt(d, here)[k].cluster), NEW d3,
           Written(d2, d3, TableAt(d, here)[k].cluster,
                   Table([TableAt(d, TableAt(d, here)[k].cluster) EXCEPT ![0].name = n]))
    PROVE  d3 \in Disks /\ Renames(d, d3, here, k, n, {})
<1> DEFINE e == TableAt(d, here)[k]
           c == e.cluster
           t == [TableAt(d, c) EXCEPT ![0].name = n]
<1>1. here \in LiveDirs(d) /\ k \in Entries(d, here) /\ n \in Names
  BY DEF RenamePlan
<1>2. /\ <<here, k>> \in LivePlaces(d) /\ EntryAt(d, <<here, k>>) = e
      /\ c # here /\ c \in LiveDirs(d) /\ PlaceOK(d, <<here, k>>)
  <2>1. <<here, k>> \in LivePlaces(d) /\ EntryAt(d, <<here, k>>) = e
    BY <1>1, PlaceFacts
  <2>2. PlaceOK(d, <<here, k>>)
    BY <2>1 DEF TreeOK
  <2>3. c # here /\ c \in LiveDirs(d)
    BY <2>1, PlaceFacts, NotOwnParent
  <2> QED
    BY <2>1, <2>2, <2>3
<1>3. LiveDirs(d) \subseteq Clusters /\ c \in DataClusters
  BY <1>2, TreeFacts, LiveClosed
<1>4. c \in Clusters /\ c # BOOT_SECTOR /\ c # FAT_CLUSTER_NUMBER /\ 0 \in Indices /\ 1 \in Indices
  BY <1>3, ClusterFacts DEF BOOT_SECTOR, FAT_CLUSTER_NUMBER
<1>5. TableAt(d, c) \in Tables /\ TableAt(d, c)[0] \in Entry /\ DirOK(d, c)
  BY <1>2, <1>4, DiskFacts DEF Tables, TreeOK
<1> DEFINE x == [TableAt(d, c)[0] EXCEPT !.name = n]
<1>6. x \in Entry /\ x.name = n /\ x.cluster = TableAt(d, c)[0].cluster
      /\ x.used = TableAt(d, c)[0].used /\ x.folder = TableAt(d, c)[0].folder
  BY <1>1, <1>5 DEF Entry
<1>7. t \in Tables /\ t[0] = x /\ \A i \in Indices : i # 0 => t[i] = TableAt(d, c)[i]
  BY <1>4, <1>5, <1>6 DEF Tables
<1> HIDE DEF x, t
<1>8. /\ d3 \in Disks /\ FatOf(d3) = FatOf(d2) /\ d3[BOOT_SECTOR] = d2[BOOT_SECTOR]
      /\ \A b \in Clusters : b # c => d3[b] = d2[b] /\ TableAt(d3, b) = TableAt(d2, b)
      /\ d3[c].kind = "table" /\ TableAt(d3, c) = t
  <2>1. Written(d2, d3, c, Table(t))
    BY DEF t
  <2> QED
    BY <1>4, <1>7, <2>1, TableWritten
<1>9. /\ FatOf(d2) = FatOf(d) /\ d2[BOOT_SECTOR] = d[BOOT_SECTOR]
      /\ TableAt(d2, here)[k] = [e EXCEPT !.name = n]
      /\ \A b \in LiveDirs(d) :
           /\ d2[b].kind = "table"
           /\ \A i \in Indices : \/ TableAt(d2, b)[i] = TableAt(d, b)[i]
                                 \/ b = here /\ i = k
                                 \/ e.folder /\ b = c /\ i \in {0, 1}
      /\ \A b \in DataClusters : d[b].kind = "data" => d2[b] = d[b]
  BY DEF Renames
<1>10. TableAt(d3, here)[k] = [e EXCEPT !.name = n]
  BY <1>1, <1>2, <1>3, <1>8, <1>9
<1>11. \A b \in LiveDirs(d) :
           /\ d3[b].kind = "table"
           /\ \A i \in Indices : \/ TableAt(d3, b)[i] = TableAt(d, b)[i]
                                 \/ b = here /\ i = k
                                 \/ e.folder /\ b = c /\ i \in {0, 1}
  <2> SUFFICES ASSUME NEW b \in LiveDirs(d), NEW i \in Indices
               PROVE  /\ d3[b].kind = "table"
                      /\ \/ TableAt(d3, b)[i] = TableAt(d, b)[i]
                         \/ b = here /\ i = k
                         \/ e.folder /\ b = c /\ i \in {0, 1}
    BY <1>4
  <2>1. CASE b = c
    BY <1>7, <1>8, <2>1
  <2>2. CASE b # c
    BY <1>3, <1>8, <1>9, <2>2
  <2> QED
    BY <2>1, <2>2
<1>12. /\ \A i \in {0, 1} : /\ t[i].used /\ t[i].folder
                            /\ t[i].name \in {TableAt(d, c)[i].name, n}
       /\ t[0].cluster = c /\ t[0].name = n /\ t[1].cluster = here
  <2>1. TableAt(d, c)[0].cluster = c /\ TableAt(d, c)[1].cluster = here
    BY <1>2 DEF PlaceOK
  <2>2. t[1] = TableAt(d, c)[1]
    BY <1>4, <1>7
  <2> QED
    BY <1>5, <1>6, <1>7, <2>1, <2>2 DEF DirOK
<1>13. \A b \in DataClusters : d[b].kind = "data" => d3[b] = d[b]
  <2>1. d[c].kind = "table"
    BY <1>5 DEF DirOK
  <2> QED
    BY <1>8, <1>9, <2>1, ClusterFacts
<1> QED
  BY <1>8, <1>9, <1>10, <1>11, <1>12, <1>13 DEF Renames

-----------------------------------------------------------------------------
(***************************************************************************)
(* Moving.                                                                  *)
(***************************************************************************)

\* Entry k of "here" goes to the free entry j of "there", which is a folder in "here" or the
\* parent of "here", and lists no such name.
MovePlan(d, here, k, there, j) ==
    /\ here \in LiveDirs(d) /\ k \in Entries(d, here)
    /\ \/ \E i \in Entries(d, here) : /\ i # k /\ TableAt(d, here)[i].folder
                                      /\ TableAt(d, here)[i].cluster = there
       \/ here # ROOT_CLUSTER_NUMBER /\ TableAt(d, here)[1].cluster = there
    /\ j \in Indices /\ ~ TableAt(d, there)[j].used
    /\ \A l \in Indices : TableAt(d, there)[l].name # TableAt(d, here)[k].name

\* The three directories of a move are three.
LEMMA MoveFacts ==
    ASSUME NEW d \in Disks, TreeOK(d), NEW here, NEW k, NEW there, NEW j, MovePlan(d, here, k, there, j)
    PROVE  LET e == TableAt(d, here)[k] IN
           /\ <<here, k>> \in LivePlaces(d) /\ EntryAt(d, <<here, k>>) = e /\ e \in Entry /\ e.used
           /\ k \in Indices \ {0, 1} /\ j \in Indices \ {0, 1}
           /\ here \in LiveDirs(d) /\ there \in LiveDirs(d) \ {here}
           /\ e.folder => e.cluster \in LiveDirs(d) \ {here, there}
           /\ \A b \in LiveDirs(d) : b \in Clusters /\ b # BOOT_SECTOR /\ b # FAT_CLUSTER_NUMBER
           /\ \A b \in LiveDirs(d) : DirOK(d, b)
           /\ e.folder => PlaceOK(d, <<here, k>>)
<1> DEFINE e == TableAt(d, here)[k]
           c == e.cluster
           p == <<here, k>>
<1>1. here \in LiveDirs(d) /\ k \in Entries(d, here) /\ j \in Indices /\ ~ TableAt(d, there)[j].used
  BY DEF MovePlan
<1>2. /\ p \in LivePlaces(d) /\ EntryAt(d, p) = e /\ e \in Entry /\ e.used
      /\ k \in Indices \ {0, 1} /\ p[1] = here
  BY <1>1, PlaceFacts DEF Entries
<1>3. \A b \in LiveDirs(d) : DirOK(d, b)
  BY DEF TreeOK
<1>4. \A b \in LiveDirs(d) : b \in Clusters /\ b # BOOT_SECTOR /\ b # FAT_CLUSTER_NUMBER
  <2>1. \A b \in LiveDirs(d) : b = ROOT_CLUSTER_NUMBER \/ b \in DataClusters
    BY TreeFacts
  <2> QED
    BY <2>1, LiveClosed, ClusterFacts DEF ROOT_CLUSTER_NUMBER, BOOT_SECTOR, FAT_CLUSTER_NUMBER
<1>5. e.folder => c \in LiveDirs(d) /\ c # here /\ c # ROOT_CLUSTER_NUMBER
  BY <1>2, NotOwnParent, PlaceFacts, TreeFacts, ClusterFacts DEF ROOT_CLUSTER_NUMBER
<1>6. there \in LiveDirs(d) /\ there # here /\ (e.folder => c # there)
  <2>1. CASE \E i \in Entries(d, here) : /\ i # k /\ TableAt(d, here)[i].folder
                                         /\ TableAt(d, here)[i].cluster = there
    <3>1. PICK i \in Entries(d, here) : /\ i # k /\ TableAt(d, here)[i].folder
                                        /\ TableAt(d, here)[i].cluster = there
      BY <2>1
    <3> DEFINE q == <<here, i>>
    <3>2. q \in LivePlaces(d) /\ EntryAt(d, q) = TableAt(d, here)[i] /\ q[1] = here /\ q # p
      BY <1>1, <3>1, PlaceFacts
    <3> HIDE DEF q
    <3>3. there \in LiveDirs(d) /\ there # here
      BY <3>1, <3>2, PlaceFacts, NotOwnParent
    <3>4. c # there
      BY <1>2, <3>1, <3>2, OnePlace
    <3> QED
      BY <3>3, <3>4
  <2>2. CASE here # ROOT_CLUSTER_NUMBER /\ TableAt(d, here)[1].cluster = there
    <3>1. PICK q \in LivePlaces(d) : EntryAt(d, q).folder /\ EntryAt(d, q).cluster = here
      BY <1>1, <2>2, TreeFacts, DirsHavePlaces
    <3>2. PlaceOK(d, q) /\ q[1] = there
      BY <2>2, <3>1 DEF TreeOK, PlaceOK
    <3>3. there \in LiveDirs(d) /\ there # here
      BY <3>1, <3>2, PlaceFacts, NotOwnParent
    <3>4. ASSUME e.folder, c = there PROVE FALSE
      <4> DEFINE X == LiveDirs(d) \ {here, there}
      <4>1. ROOT_CLUSTER_NUMBER \in X /\ Formatted(d)
        BY <1>5, <2>2, <3>4, TreeFacts, LiveLeast
      <4>2. ASSUME NEW b \in X PROVE Folders(d, b) \subseteq X
        <5>1. Folders(d, b) \subseteq LiveDirs(d)
          BY LiveClosed
        <5>2. ASSUME NEW i \in Entries(d, b), TableAt(d, b)[i].folder
              PROVE  TableAt(d, b)[i].cluster \notin {here, there}
          <6>1. <<b, i>> \in LivePlaces(d) /\ EntryAt(d, <<b, i>>) = TableAt(d, b)[i]
            BY PlaceFacts
          <6>2. TableAt(d, b)[i].cluster = here => <<b, i>> = q
            BY <3>1, <6>1, OnePlace
          <6>3. TableAt(d, b)[i].cluster = there => <<b, i>> = p
            BY <1>2, <3>4, <6>1, OnePlace
          <6> QED
            BY <1>2, <3>2, <6>2, <6>3
        <5> QED
          BY <5>1, <5>2 DEF Folders
      <4> HIDE DEF X
      <4>3. LiveDirs(d) \subseteq X
        BY <4>1, <4>2, LiveLeast
      <4> QED
        BY <1>1, <4>3 DEF X
    <3> QED
      BY <3>3, <3>4
  <2> QED
    BY <2>1, <2>2 DEF MovePlan
<1>7. j \notin {0, 1}
  BY <1>1, <1>3, <1>6 DEF DirOK
<1>8. PlaceOK(d, p)
  BY <1>2 DEF TreeOK
<1> QED
  BY <1>1, <1>2, <1>3, <1>4, <1>5, <1>6, <1>7, <1>8

\* What it changes: the two entries, and the parent link of the folder's own table.
Moves(d, d2, here, k, there, j, M) ==
    LET e == TableAt(d, here)[k]
        c == e.cluster IN
    /\ FatOf(d2) = FatOf(d) /\ d2[BOOT_SECTOR] = d[BOOT_SECTOR]
    /\ TableAt(d2, here)[k] = EmptyEntry /\ TableAt(d2, there)[j] = e
    /\ \A b \in LiveDirs(d) :
         /\ d2[b].kind = "table"
         /\ \A i \in Indices : \/ TableAt(d2, b)[i] = TableAt(d, b)[i]
                               \/ b = here /\ i = k
                               \/ b = there /\ i = j
                               \/ e.folder /\ b = c /\ i = 1
    /\ e.folder => /\ TableAt(d2, c)[1].used /\ TableAt(d2, c)[1].folder
                   /\ TableAt(d2, c)[1].name = TableAt(d, c)[1].name
                   /\ c \notin M => TableAt(d2, c)[1].cluster = there
    /\ \A b \in DataClusters : d[b].kind = "data" => d2[b] = d[b]

\* The entries of the directories after the move.
LEMMA EntriesMoved ==
    ASSUME NEW d \in Disks, NEW d2 \in Disks, TreeOK(d), NEW here, NEW k, NEW there, NEW j, NEW M,
           MovePlan(d, here, k, there, j), Moves(d, d2, here, k, there, j, M)
    PROVE  /\ \A b \in LiveDirs(d) \ {here, there} : Entries(d2, b) = Entries(d, b)
           /\ Entries(d2, here) = Entries(d, here) \ {k}
           /\ Entries(d2, there) = Entries(d, there) \cup {j} /\ j \notin Entries(d, there)
           /\ TableAt(d2, there)[j] = TableAt(d, here)[k]
           /\ \A b \in LiveDirs(d) : \A i \in Entries(d, b) :
                <<b, i>> # <<here, k>> => TableAt(d2, b)[i] = TableAt(d, b)[i]
<1> DEFINE e == TableAt(d, here)[k]
           c == e.cluster
<1>1. /\ e.used /\ k \in Indices \ {0, 1} /\ j \in Indices \ {0, 1}
      /\ here \in LiveDirs(d) /\ there \in LiveDirs(d) \ {here}
      /\ \A b \in LiveDirs(d) : b \in Clusters
  BY MoveFacts
<1>2. ~ TableAt(d, there)[j].used
  BY DEF MovePlan
<1>3. /\ TableAt(d2, here)[k] = EmptyEntry /\ TableAt(d2, there)[j] = e
      /\ \A b \in LiveDirs(d) : \A i \in Indices :
           \/ TableAt(d2, b)[i] = TableAt(d, b)[i]
           \/ b = here /\ i = k
           \/ b = there /\ i = j
           \/ e.folder /\ b = c /\ i = 1
  BY DEF Moves
<1>4. ~ EmptyEntry.used
  BY DEF EmptyEntry
<1> HIDE DEF e, c
<1>5. \A b \in LiveDirs(d) : \A i \in Indices \ {0, 1} :
        TableAt(d2, b)[i] = TableAt(d, b)[i] \/ (b = here /\ i = k) \/ (b = there /\ i = j)
  BY <1>3
<1>6. \A b \in LiveDirs(d) \ {here, there} : Entries(d2, b) = Entries(d, b)
  BY <1>5 DEF Entries
<1>7. Entries(d2, here) = Entries(d, here) \ {k}
  <2>1. \A i \in Indices \ {0, 1} : i # k => TableAt(d2, here)[i] = TableAt(d, here)[i]
    BY <1>1, <1>5
  <2> QED
    BY <1>3, <1>4, <2>1 DEF Entries
<1>8. Entries(d2, there) = Entries(d, there) \cup {j} /\ j \notin Entries(d, there)
  <2>1. \A i \in Indices \ {0, 1} : i # j => TableAt(d2, there)[i] = TableAt(d, there)[i]
    BY <1>1, <1>5
  <2> QED
    BY <1>1, <1>2, <1>3, <2>1 DEF Entries
<1>9. \A b \in LiveDirs(d) : \A i \in Entries(d, b) :
        <<b, i>> # <<here, k>> => TableAt(d2, b)[i] = TableAt(d, b)[i]
  <2> SUFFICES ASSUME NEW b \in LiveDirs(d), NEW i \in Entries(d, b), <<b, i>> # <<here, k>>
               PROVE  TableAt(d2, b)[i] = TableAt(d, b)[i]
    OBVIOUS
  <2>1. i \in Indices \ {0, 1} /\ TableAt(d, b)[i].used
    BY DEF Entries
  <2>2. ~ (b = here /\ i = k) /\ ~ (b = there /\ i = j)
    BY <1>2, <2>1
  <2> QED
    BY <1>5, <2>1, <2>2
<1> QED
  BY <1>3, <1>6, <1>7, <1>8, <1>9 DEF e

\* The same directories are reachable: the two of the move without the entry that is moved.
LEMMA DirsMoved ==
    ASSUME NEW d \in Disks, NEW d2 \in Disks, TreeOK(d), NEW here, NEW k, NEW there, NEW j, NEW M,
           MovePlan(d, here, k, there, j), Moves(d, d2, here, k, there, j, M), Formatted(d2)
    PROVE  LiveDirs(d2) = LiveDirs(d)
<1> DEFINE e == TableAt(d, here)[k]
           c == e.cluster
<1>1. /\ here \in LiveDirs(d) /\ there \in LiveDirs(d) \ {here}
      /\ e.folder => c \in LiveDirs(d) /\ c # here /\ c # there
      /\ Formatted(d)
  <2>1. Formatted(d)
    BY TreeFacts
  <2>2. here \in LiveDirs(d) /\ there \in LiveDirs(d) \ {here}
    BY MoveFacts
  <2>3. e.folder => c \in LiveDirs(d) \ {here, there}
    BY MoveFacts
  <2> QED
    BY <2>1, <2>2, <2>3
<1>2. /\ \A b \in LiveDirs(d) \ {here, there} : Entries(d2, b) = Entries(d, b)
      /\ Entries(d2, here) = Entries(d, here) \ {k}
      /\ Entries(d2, there) = Entries(d, there) \cup {j} /\ j \notin Entries(d, there)
      /\ TableAt(d2, there)[j] = e
      /\ \A b \in LiveDirs(d) : \A i \in Entries(d, b) :
           <<b, i>> # <<here, k>> => TableAt(d2, b)[i] = TableAt(d, b)[i]
  BY EntriesMoved
<1>3. k \in Entries(d, here)
  BY DEF MovePlan
<1> HIDE DEF e
<1>4. ASSUME NEW b \in LiveDirs(d), NEW i \in Entries(d2, b)
      PROVE  \/ i \in Entries(d, b) /\ TableAt(d2, b)[i] = TableAt(d, b)[i] /\ <<b, i>> # <<here, k>>
             \/ b = there /\ i = j
  <2>1. CASE b = here
    BY <1>1, <1>2, <2>1
  <2>2. CASE b = there
    BY <1>1, <1>2, <2>2
  <2>3. CASE b \notin {here, there}
    BY <1>2, <2>3
  <2> QED
    BY <2>1, <2>2, <2>3
<1>5. ASSUME NEW b \in LiveDirs(d), NEW i \in Entries(d, b), <<b, i>> # <<here, k>>
      PROVE  i \in Entries(d2, b) /\ TableAt(d2, b)[i] = TableAt(d, b)[i]
  <2>1. CASE b = here
    BY <1>2, <1>5, <2>1
  <2>2. CASE b # here
    BY <1>2, <1>5, <2>2
  <2> QED
    BY <2>1, <2>2
<1>6. \A b \in LiveDirs(d) : Folders(d2, b) \subseteq LiveDirs(d)
  <2> SUFFICES ASSUME NEW b \in LiveDirs(d), NEW i \in Entries(d2, b), TableAt(d2, b)[i].folder
               PROVE  TableAt(d2, b)[i].cluster \in LiveDirs(d)
    BY DEF Folders
  <2>1. CASE i \in Entries(d, b) /\ TableAt(d2, b)[i] = TableAt(d, b)[i]
    <3>1. TableAt(d, b)[i].cluster \in Folders(d, b)
      BY <2>1 DEF Folders
    <3> QED
      BY <2>1, <3>1, LiveClosed
  <2>2. CASE b = there /\ i = j
    BY <1>1, <1>2, <2>2
  <2> QED
    BY <1>4, <2>1, <2>2
<1>7. LiveDirs(d2) \subseteq LiveDirs(d)
  <2>1. ROOT_CLUSTER_NUMBER \in LiveDirs(d)
    BY <1>1, LiveLeast
  <2> QED
    BY <1>6, <2>1, LiveLeast
<1>8. ROOT_CLUSTER_NUMBER \in LiveDirs(d2) /\ \A b \in LiveDirs(d2) : Folders(d2, b) \subseteq LiveDirs(d2)
  BY LiveLeast, LiveClosed
<1>9. \A b \in LiveDirs(d) : b # here => Folders(d, b) \subseteq Folders(d2, b)
  BY <1>5 DEF Folders
<1>10. here \in LiveDirs(d2)
  <2> SUFFICES ASSUME here \notin LiveDirs(d2) PROVE FALSE
    OBVIOUS
  <2>1. \A b \in LiveDirs(d2) : Folders(d, b) \subseteq LiveDirs(d2)
    BY <1>7, <1>8, <1>9
  <2>2. LiveDirs(d) \subseteq LiveDirs(d2)
    BY <1>1, <1>8, <2>1, LiveLeast
  <2> QED
    BY <1>1, <2>2
<1>11. there \in LiveDirs(d2)
  <2>1. CASE \E i \in Entries(d, here) : /\ i # k /\ TableAt(d, here)[i].folder
                                         /\ TableAt(d, here)[i].cluster = there
    <3>1. PICK i \in Entries(d, here) : /\ i # k /\ TableAt(d, here)[i].folder
                                        /\ TableAt(d, here)[i].cluster = there
      BY <2>1
    <3>2. i \in Entries(d2, here) /\ TableAt(d2, here)[i] = TableAt(d, here)[i]
      BY <1>1, <1>5, <3>1
    <3>3. there \in Folders(d2, here)
      BY <3>1, <3>2 DEF Folders
    <3> QED
      BY <1>8, <1>10, <3>3
  <2>2. CASE here # ROOT_CLUSTER_NUMBER /\ TableAt(d, here)[1].cluster = there
    <3>1. PICK q \in LivePlaces(d2) : EntryAt(d2, q).folder /\ EntryAt(d2, q).cluster = here
      BY <1>10, <2>2, DirsHavePlaces
    <3>2. /\ q = <<q[1], q[2]>> /\ q[1] \in LiveDirs(d2) /\ q[2] \in Entries(d2, q[1])
          /\ EntryAt(d2, q) = TableAt(d2, q[1])[q[2]]
      BY PlaceFacts
    <3>3. ~ (q[1] = there /\ q[2] = j)
      BY <1>1, <1>2, <3>1, <3>2
    <3>4. q[1] \in LiveDirs(d) /\ q[2] \in Entries(d, q[1]) /\ TableAt(d2, q[1])[q[2]] = TableAt(d, q[1])[q[2]]
      BY <1>4, <1>7, <3>2, <3>3
    <3>5. q \in LivePlaces(d) /\ EntryAt(d, q) = EntryAt(d2, q)
      BY <3>2, <3>4, PlaceFacts
    <3>6. TableAt(d, here)[1].cluster = q[1]
      BY <3>1, <3>5 DEF TreeOK, PlaceOK
    <3> QED
      BY <2>2, <3>2, <3>6
  <2> QED
    BY <2>1, <2>2 DEF MovePlan
<1>12. e.folder => c \in LiveDirs(d2)
  <2>1. e.folder => c \in Folders(d2, there)
    BY <1>2 DEF Folders
  <2> QED
    BY <1>8, <1>11, <2>1
<1>13. \A b \in LiveDirs(d2) : Folders(d, b) \subseteq LiveDirs(d2)
  <2> SUFFICES ASSUME NEW b \in LiveDirs(d2), NEW i \in Entries(d, b), TableAt(d, b)[i].folder
               PROVE  TableAt(d, b)[i].cluster \in LiveDirs(d2)
    BY DEF Folders
  <2>1. CASE <<b, i>> = <<here, k>>
    BY <1>12, <2>1 DEF e
  <2>2. CASE <<b, i>> # <<here, k>>
    <3>1. i \in Entries(d2, b) /\ TableAt(d2, b)[i] = TableAt(d, b)[i]
      BY <1>5, <1>7, <2>2
    <3>2. TableAt(d, b)[i].cluster \in Folders(d2, b)
      BY <3>1 DEF Folders
    <3> QED
      BY <1>8, <3>2
  <2> QED
    BY <2>1, <2>2
<1>14. LiveDirs(d) \subseteq LiveDirs(d2)
  BY <1>1, <1>8, <1>13, LiveLeast
<1> QED
  BY <1>7, <1>14

\* The tree carries the entry to its new place, and no directory lists a name twice.
LEMMA TreeMoved ==
    ASSUME Ordinary,
           NEW d \in Disks, NEW d2 \in Disks, TreeOK(d), NamesOK(d), NEW here, NEW k, NEW there, NEW j, NEW M,
           MovePlan(d, here, k, there, j), Moves(d, d2, here, k, there, j, M)
    PROVE  Carried(d, d2, <<here, k>>, <<there, j>>, M) /\ NamesOK(d2)
<1> DEFINE e == TableAt(d, here)[k]
           c == e.cluster
           p == <<here, k>>
           q == <<there, j>>
<1>1. /\ p \in LivePlaces(d) /\ EntryAt(d, p) = e /\ e \in Entry /\ e.used
      /\ k \in Indices \ {0, 1} /\ j \in Indices \ {0, 1}
      /\ here \in LiveDirs(d) /\ there \in LiveDirs(d) \ {here}
      /\ \A b \in LiveDirs(d) : DirOK(d, b)
  BY MoveFacts
<1>2. e.folder => c \in LiveDirs(d) \ {here, there}
  BY MoveFacts
<1>3. e.folder => PlaceOK(d, p)
  BY MoveFacts
<1>4. /\ FatOf(d2) = FatOf(d) /\ d2[BOOT_SECTOR] = d[BOOT_SECTOR]
      /\ TableAt(d2, here)[k] = EmptyEntry /\ TableAt(d2, there)[j] = e
      /\ \A b \in LiveDirs(d) :
           /\ d2[b].kind = "table"
           /\ \A i \in Indices : \/ TableAt(d2, b)[i] = TableAt(d, b)[i]
                                 \/ b = here /\ i = k
                                 \/ b = there /\ i = j
                                 \/ e.folder /\ b = c /\ i = 1
      /\ e.folder => /\ TableAt(d2, c)[1].used /\ TableAt(d2, c)[1].folder
                     /\ TableAt(d2, c)[1].name = TableAt(d, c)[1].name
                     /\ c \notin M => TableAt(d2, c)[1].cluster = there
      /\ \A b \in DataClusters : d[b].kind = "data" => d2[b] = d[b]
  BY DEF Moves
<1>5. /\ \A b \in LiveDirs(d) \ {here, there} : Entries(d2, b) = Entries(d, b)
      /\ Entries(d2, here) = Entries(d, here) \ {k}
      /\ Entries(d2, there) = Entries(d, there) \cup {j} /\ j \notin Entries(d, there)
      /\ \A b \in LiveDirs(d) : \A i \in Entries(d, b) :
           <<b, i>> # p => TableAt(d2, b)[i] = TableAt(d, b)[i]
  BY EntriesMoved
<1>6. \A l \in Indices : TableAt(d, there)[l].name # e.name
  BY DEF MovePlan
<1> HIDE DEF e
<1>7. \A b \in LiveDirs(d) : \A i \in {0, 1} :
         /\ TableAt(d2, b)[i].used /\ TableAt(d2, b)[i].folder
         /\ TableAt(d2, b)[i].name = TableAt(d, b)[i].name
         /\ TableAt(d2, b)[i] = TableAt(d, b)[i] \/ (e.folder /\ b = c /\ i = 1)
  <2> SUFFICES ASSUME NEW b \in LiveDirs(d), NEW i \in {0, 1}
               PROVE  /\ TableAt(d2, b)[i].used /\ TableAt(d2, b)[i].folder
                      /\ TableAt(d2, b)[i].name = TableAt(d, b)[i].name
                      /\ TableAt(d2, b)[i] = TableAt(d, b)[i] \/ (e.folder /\ b = c /\ i = 1)
    OBVIOUS
  <2>1. TableAt(d2, b)[i] = TableAt(d, b)[i] \/ (e.folder /\ b = c /\ i = 1)
    BY <1>1, <1>4, ClusterFacts
  <2>2. CASE TableAt(d2, b)[i] = TableAt(d, b)[i]
    BY <1>1, <2>2 DEF DirOK
  <2>3. CASE e.folder /\ b = c /\ i = 1
    BY <1>4, <2>3
  <2> QED
    BY <2>1, <2>2, <2>3
<1>8. LiveDirs(d2) = LiveDirs(d)
  <2>1. ROOT_CLUSTER_NUMBER \in LiveDirs(d)
    BY TreeFacts, LiveLeast
  <2>2. TableAt(d2, ROOT_CLUSTER_NUMBER)[0].used
    BY <1>7, <2>1
  <2>3. Formatted(d2)
    BY <1>4, <2>2, StillFormatted
  <2> QED
    BY <2>3, DirsMoved
<1>9. LivePlaces(d2) = (LivePlaces(d) \ {p}) \cup {q} /\ q \notin LivePlaces(d)
  <2>1. \A b, i : <<b, i>> \in LivePlaces(d2) <=> b \in LiveDirs(d) /\ i \in Entries(d2, b)
    BY <1>8, PlaceFacts
  <2>2. \A b, i : <<b, i>> \in LivePlaces(d) <=> b \in LiveDirs(d) /\ i \in Entries(d, b)
    BY PlaceFacts
  <2>3. \A b, i : <<b, i>> \in LivePlaces(d2) <=> (<<b, i>> \in LivePlaces(d) /\ <<b, i>> # p) \/ <<b, i>> = q
    <3> SUFFICES ASSUME NEW b, NEW i
                 PROVE  <<b, i>> \in LivePlaces(d2) <=> (<<b, i>> \in LivePlaces(d) /\ <<b, i>> # p) \/ <<b, i>> = q
      OBVIOUS
    <3>1. CASE b = here
      BY <1>1, <1>5, <2>1, <2>2, <3>1
    <3>2. CASE b = there
      BY <1>1, <1>5, <2>1, <2>2, <3>2
    <3>3. CASE b \notin {here, there}
      BY <1>5, <2>1, <2>2, <3>3
    <3> QED
      BY <3>1, <3>2, <3>3
  <2>4. \A r \in LivePlaces(d) \cup LivePlaces(d2) : r = <<r[1], r[2]>>
    BY PlaceFacts
  <2>5. \A r : r \in LivePlaces(d2) <=> (r \in LivePlaces(d) /\ r # p) \/ r = q
    BY <2>3, <2>4
  <2>6. q \notin LivePlaces(d)
    BY <1>5, <2>2
  <2> QED
    BY <2>5, <2>6
<1>10. EntryAt(d2, q) = e
  BY <1>4, PlaceFacts
<1>11. \A r \in LivePlaces(d) : r # p => EntryAt(d2, r) = EntryAt(d, r)
  <2> SUFFICES ASSUME NEW r \in LivePlaces(d), r # p PROVE EntryAt(d2, r) = EntryAt(d, r)
    OBVIOUS
  <2>1. r = <<r[1], r[2]>> /\ r[1] \in LiveDirs(d) /\ r[2] \in Entries(d, r[1])
        /\ EntryAt(d, r) = TableAt(d, r[1])[r[2]]
    BY PlaceFacts
  <2>2. EntryAt(d2, r) = TableAt(d2, r[1])[r[2]]
    BY DEF EntryAt
  <2>3. <<r[1], r[2]>> # p
    BY <2>1
  <2> QED
    BY <1>5, <2>1, <2>2, <2>3
<1>12. \A b \in LiveDirs(d) : DirOK(d2, b)
  <2> SUFFICES ASSUME NEW b \in LiveDirs(d), NEW i \in Indices, ~ TableAt(d2, b)[i].used
               PROVE  TableAt(d2, b)[i] = EmptyEntry
    BY <1>4, <1>7 DEF DirOK
  <2>1. CASE b = here /\ i = k
    BY <1>4, <2>1
  <2>2. CASE TableAt(d2, b)[i] = TableAt(d, b)[i]
    BY <1>1, <2>2 DEF DirOK
  <2>3. ~ (b = there /\ i = j) /\ ~ (e.folder /\ b = c /\ i = 1)
    BY <1>1, <1>4, <1>7
  <2> QED
    BY <1>4, <2>1, <2>2, <2>3
<1>13. \A b \in LiveDirs(d) : \/ e.folder /\ b = c
                              \/ \A i \in {0, 1} : TableAt(d2, b)[i] = TableAt(d, b)[i]
  BY <1>7
<1>14. e.folder => /\ TableAt(d2, c)[0].cluster = c
                   /\ TableAt(d2, c)[0].name = e.name
                   /\ c \notin M => TableAt(d2, c)[1].cluster = q[1]
  <2>1. e.folder => TableAt(d2, c)[0] = TableAt(d, c)[0]
    BY <1>2, <1>7
  <2>2. e.folder => TableAt(d, c)[0].cluster = c /\ TableAt(d, c)[0].name = e.name
    BY <1>1, <1>3 DEF PlaceOK
  <2> QED
    BY <1>4, <2>1, <2>2
<1>15. Carried(d, d2, p, q, M)
  BY <1>1, <1>4, <1>8, <1>9, <1>10, <1>11, <1>12, <1>13, <1>14 DEF Carried
<1>16. NamesOK(d2)
  <2>1. ASSUME NEW b \in LiveDirs(d), NEW i \in Entries(d, b)
        PROVE  /\ i \in Indices \ {0, 1} /\ TableAt(d, b)[i].name \in Names
               /\ \A l \in Indices : TableAt(d, b)[l].name = TableAt(d, b)[i].name => l = i
    BY DEF Entries, NamesOK
  <2>2. e.name \in Names /\ \A l \in Indices : TableAt(d, here)[l].name = e.name => l = k
    <3>1. k \in Entries(d, here)
      BY DEF MovePlan
    <3> QED
      BY <1>1, <2>1, <3>1 DEF e
  <2> SUFFICES ASSUME NEW b \in LiveDirs(d), NEW i \in Entries(d2, b)
               PROVE  /\ TableAt(d2, b)[i].name \in Names
                      /\ \A l \in Indices : TableAt(d2, b)[l].name = TableAt(d2, b)[i].name => l = i
    BY <1>8 DEF NamesOK
  <2>3. i \in Indices \ {0, 1}
    BY DEF Entries
  <2>4. \A l \in Indices : \/ TableAt(d2, b)[l].name = TableAt(d, b)[l].name
                           \/ b = here /\ l = k
                           \/ b = there /\ l = j
    BY <1>4, <1>7
  <2>5. CASE b = here
    <3>1. i \in Entries(d, b) /\ i # k
      BY <1>5, <2>5
    <3>2. TableAt(d2, b)[i].name = TableAt(d, b)[i].name
      BY <1>1, <2>3, <2>4, <2>5, <3>1
    <3>3. TableAt(d2, b)[k].name = NoName
      BY <1>4, <2>5 DEF EmptyEntry
    <3>4. \A l \in Indices : l # k => TableAt(d2, b)[l].name = TableAt(d, b)[l].name
      BY <1>1, <2>4, <2>5
    <3>5. TableAt(d, b)[i].name # NoName
      BY <2>1, <3>1 DEF Ordinary
    <3> QED
      BY <2>1, <3>1, <3>2, <3>3, <3>4, <3>5
  <2>6. CASE b = there
    <3>1. \A l \in Indices : l # j => TableAt(d2, b)[l].name = TableAt(d, b)[l].name
      BY <1>1, <2>4, <2>6
    <3>2. TableAt(d2, b)[j].name = e.name
      BY <1>4, <2>6
    <3>3. CASE i = j
      BY <1>6, <2>2, <2>6, <3>1, <3>2, <3>3
    <3>4. CASE i # j
      BY <1>5, <1>6, <2>1, <2>3, <2>6, <3>1, <3>2, <3>4
    <3> QED
      BY <3>3, <3>4
  <2>7. CASE b \notin {here, there}
    <3>1. i \in Entries(d, b) /\ \A l \in Indices : TableAt(d2, b)[l].name = TableAt(d, b)[l].name
      BY <1>5, <2>4, <2>7
    <3> QED
      BY <2>1, <2>3, <3>1
  <2> QED
    BY <2>5, <2>6, <2>7
<1> QED
  BY <1>15, <1>16

\* A table with one entry replaced.
LEMMA EntryReplaced ==
    ASSUME NEW t \in Tables, NEW i \in Indices, NEW e \in Entry
    PROVE  /\ WithEntry(t, i, e) \in Tables /\ WithEntry(t, i, e)[i] = e
           /\ \A l \in Indices : l # i => WithEntry(t, i, e)[l] = t[l]
BY DEF WithEntry, Tables

\* The first write takes the entry out, and with a folder all that is in it; what is left of
\* the tree is sound.
LEMMA TreeCut ==
    ASSUME NEW d \in Disks, TreeOK(d), DataOK(d), NEW here, NEW k, NEW there, NEW j,
           MovePlan(d, here, k, there, j), NEW d1,
           Written(d, d1, here, Table(WithEntry(TableAt(d, here), k, EmptyEntry)))
    PROVE  /\ d1 \in Disks /\ TreeOK(d1) /\ DataOK(d1)
           /\ FatOf(d1) = FatOf(d) /\ d1[BOOT_SECTOR] = d[BOOT_SECTOR]
           /\ \A b \in Clusters : b # here => d1[b] = d[b] /\ TableAt(d1, b) = TableAt(d, b)
           /\ d1[here].kind = "table" /\ TableAt(d1, here) = WithEntry(TableAt(d, here), k, EmptyEntry)
<1> DEFINE p == <<here, k>>
           t == WithEntry(TableAt(d, here), k, EmptyEntry)
           m == FatOf(d)
<1>1. /\ k \in Indices \ {0, 1} /\ here \in LiveDirs(d)
      /\ \A b \in LiveDirs(d) : b \in Clusters /\ b # BOOT_SECTOR /\ b # FAT_CLUSTER_NUMBER
      /\ \A b \in LiveDirs(d) : DirOK(d, b)
  BY MoveFacts
<1>2. /\ TableAt(d, here) \in Tables /\ EmptyEntry \in Entry
  BY <1>1, DiskFacts
<1>3. t \in Tables /\ t[k] = EmptyEntry /\ \A l \in Indices : l # k => t[l] = TableAt(d, here)[l]
  BY <1>1, <1>2, EntryReplaced
<1> HIDE DEF t
<1>4. /\ d1 \in Disks /\ FatOf(d1) = m /\ d1[BOOT_SECTOR] = d[BOOT_SECTOR]
      /\ \A b \in Clusters : b # here => d1[b] = d[b] /\ TableAt(d1, b) = TableAt(d, b)
      /\ d1[here].kind = "table" /\ TableAt(d1, here) = t
  <2>1. Written(d, d1, here, Table(t))
    BY DEF t
  <2> QED
    BY <1>1, <1>3, <2>1, TableWritten
<1>5. ~ EmptyEntry.used
  BY DEF EmptyEntry
<1>6. \A b \in LiveDirs(d) : /\ Entries(d1, b) = Entries(d, b) \ {i \in {k} : b = here}
                             /\ \A i \in Indices : TableAt(d1, b)[i] = TableAt(d, b)[i] \/ (b = here /\ i = k)
  <2> SUFFICES ASSUME NEW b \in LiveDirs(d)
               PROVE  /\ Entries(d1, b) = Entries(d, b) \ {i \in {k} : b = here}
                      /\ \A i \in Indices : TableAt(d1, b)[i] = TableAt(d, b)[i] \/ (b = here /\ i = k)
    OBVIOUS
  <2>1. CASE b = here
    BY <1>3, <1>4, <1>5, <2>1 DEF Entries
  <2>2. CASE b # here
    BY <1>1, <1>4, <2>2 DEF Entries
  <2> QED
    BY <2>1, <2>2
<1>7. \A b \in LiveDirs(d) : DirOK(d1, b)
  <2>1. \A b \in LiveDirs(d) : d1[b].kind = "table"
    BY <1>1, <1>4 DEF DirOK
  <2>2. \A b \in LiveDirs(d) : \A i \in {0, 1} : TableAt(d1, b)[i] = TableAt(d, b)[i]
    BY <1>1, <1>6, ClusterFacts
  <2>3. \A b \in LiveDirs(d) : \A i \in Indices : ~ TableAt(d1, b)[i].used => TableAt(d1, b)[i] = EmptyEntry
    <3> SUFFICES ASSUME NEW b \in LiveDirs(d), NEW i \in Indices, ~ TableAt(d1, b)[i].used
                 PROVE  TableAt(d1, b)[i] = EmptyEntry
      OBVIOUS
    <3>1. CASE b = here /\ i = k
      BY <1>3, <1>4, <3>1
    <3>2. CASE ~ (b = here /\ i = k)
      BY <1>1, <1>6, <3>2 DEF DirOK
    <3> QED
      BY <3>1, <3>2
  <2> QED
    BY <1>1, <2>1, <2>2, <2>3 DEF DirOK
<1>8. Formatted(d) /\ Formatted(d1) /\ ROOT_CLUSTER_NUMBER \in LiveDirs(d)
  <2>1. ROOT_CLUSTER_NUMBER \in LiveDirs(d)
    BY TreeFacts, LiveLeast
  <2>2. TableAt(d1, ROOT_CLUSTER_NUMBER)[0].used
    BY <1>7, <2>1 DEF DirOK
  <2> QED
    BY <1>4, <2>2, StillFormatted
<1>9. \A b \in LiveDirs(d) : Folders(d1, b) \subseteq Folders(d, b)
  <2> SUFFICES ASSUME NEW b \in LiveDirs(d), NEW i \in Entries(d1, b), TableAt(d1, b)[i].folder
               PROVE  TableAt(d1, b)[i].cluster \in Folders(d, b)
    BY DEF Folders
  <2>1. i \in Entries(d, b) /\ TableAt(d1, b)[i] = TableAt(d, b)[i]
    BY <1>6 DEF Entries
  <2> QED
    BY <2>1 DEF Folders
<1>10. LiveDirs(d1) \subseteq LiveDirs(d)
  BY <1>8, <1>9, LiveClosed, LiveLeast
<1>11. ASSUME NEW q \in LivePlaces(d1)
       PROVE  q \in LivePlaces(d) /\ EntryAt(d1, q) = EntryAt(d, q)
  <2>1. /\ q = <<q[1], q[2]>> /\ q[1] \in LiveDirs(d1) /\ q[2] \in Entries(d1, q[1])
        /\ EntryAt(d1, q) = TableAt(d1, q[1])[q[2]] /\ q[2] \in Indices
    BY <1>4, PlaceFacts
  <2>2. q[1] \in LiveDirs(d) /\ q[2] \in Entries(d, q[1]) /\ TableAt(d1, q[1])[q[2]] = TableAt(d, q[1])[q[2]]
    BY <1>6, <1>10, <2>1
  <2>3. q \in LivePlaces(d)
    BY <2>1, <2>2, PlaceFacts
  <2> QED
    BY <2>1, <2>2, <2>3, PlaceFacts
<1>12. \A q \in LivePlaces(d1) : PlaceOK(d1, q)
  <2> SUFFICES ASSUME NEW q \in LivePlaces(d1) PROVE PlaceOK(d1, q)
    OBVIOUS
  <2>1. q \in LivePlaces(d) /\ EntryAt(d1, q) = EntryAt(d, q) /\ PlaceOK(d, q)
    BY <1>11 DEF TreeOK
  <2>2. EntryAt(d, q).folder =>
          \A i \in {0, 1} : TableAt(d1, EntryAt(d, q).cluster)[i] = TableAt(d, EntryAt(d, q).cluster)[i]
    <3>1. EntryAt(d, q).folder => EntryAt(d, q).cluster \in LiveDirs(d)
      BY <2>1, PlaceFacts
    <3> QED
      BY <1>1, <1>6, <3>1, ClusterFacts
  <2> QED
    BY <1>4, <2>1, <2>2, PlaceKept
<1>13. TreeOK(d1)
  <2>1. \A q, r \in LivePlaces(d1) :
           q # r => ChainSet(m, EntryAt(d1, q).cluster) \cap ChainSet(m, EntryAt(d1, r).cluster) = {}
    BY <1>11 DEF TreeOK
  <2>2. TableAt(d1, ROOT_CLUSTER_NUMBER)[0].used
    BY <1>7, <1>8 DEF DirOK
  <2> QED
    BY <1>4, <1>7, <1>10, <1>12, <2>1, <2>2 DEF TreeOK
<1>14. DataOK(d1)
  <2> SUFFICES ASSUME NEW q \in LivePlaces(d1), ~ EntryAt(d1, q).folder,
                      NEW c \in ChainSet(m, EntryAt(d1, q).cluster)
               PROVE  d1[c].kind = "data"
    BY <1>4 DEF DataOK
  <2>1. q \in LivePlaces(d) /\ EntryAt(d1, q) = EntryAt(d, q)
    BY <1>11
  <2>2. d[c].kind = "data" /\ c \in DataClusters
    BY <2>1, TreeFacts DEF DataOK
  <2>3. d[here].kind = "table"
    BY <1>1 DEF DirOK
  <2> QED
    BY <1>4, <2>2, <2>3, ClusterFacts
<1> QED
  BY <1>4, <1>13, <1>14 DEF t

\* The second puts it into the other directory: all of the move, if the entry is a file.
LEMMA TreePasted ==
    ASSUME NEW d \in Disks, TreeOK(d), DataOK(d), NEW here, NEW k, NEW there, NEW j,
           MovePlan(d, here, k, there, j), NEW d1,
           Written(d, d1, here, Table(WithEntry(TableAt(d, here), k, EmptyEntry))), NEW d2,
           Written(d1, d2, there, Table(WithEntry(TableAt(d, there), j, TableAt(d, here)[k])))
    PROVE  LET e == TableAt(d, here)[k] IN
           /\ d2 \in Disks /\ Moves(d, d2, here, k, there, j, {e.cluster})
           /\ ~ e.folder => Moves(d, d2, here, k, there, j, {})
           /\ e.folder => TableAt(d2, e.cluster) = TableAt(d, e.cluster)
<1> DEFINE e == TableAt(d, here)[k]
           c == e.cluster
           s == WithEntry(TableAt(d, here), k, EmptyEntry)
           t == WithEntry(TableAt(d, there), j, e)
<1>1. /\ e \in Entry /\ k \in Indices \ {0, 1} /\ j \in Indices \ {0, 1}
      /\ here \in LiveDirs(d) /\ there \in LiveDirs(d) \ {here}
      /\ \A b \in LiveDirs(d) : b \in Clusters /\ b # BOOT_SECTOR /\ b # FAT_CLUSTER_NUMBER
      /\ \A b \in LiveDirs(d) : DirOK(d, b)
  BY MoveFacts
<1>2. e.folder => c \in LiveDirs(d) \ {here, there}
  BY MoveFacts
<1>3. /\ d1 \in Disks /\ FatOf(d1) = FatOf(d) /\ d1[BOOT_SECTOR] = d[BOOT_SECTOR]
      /\ \A b \in Clusters : b # here => d1[b] = d[b] /\ TableAt(d1, b) = TableAt(d, b)
      /\ d1[here].kind = "table" /\ TableAt(d1, here) = s
  BY TreeCut
<1>4. TableAt(d, here) \in Tables /\ TableAt(d, there) \in Tables /\ EmptyEntry \in Entry
  BY <1>1, DiskFacts
<1>5. /\ s[k] = EmptyEntry /\ \A l \in Indices : l # k => s[l] = TableAt(d, here)[l]
      /\ t \in Tables /\ t[j] = e /\ \A l \in Indices : l # j => t[l] = TableAt(d, there)[l]
  BY <1>1, <1>4, EntryReplaced
<1> HIDE DEF s, t, e
<1>6. /\ d2 \in Disks /\ FatOf(d2) = FatOf(d1) /\ d2[BOOT_SECTOR] = d1[BOOT_SECTOR]
      /\ \A b \in Clusters : b # there => d2[b] = d1[b] /\ TableAt(d2, b) = TableAt(d1, b)
      /\ d2[there].kind = "table" /\ TableAt(d2, there) = t
  <2>1. Written(d1, d2, there, Table(t))
    BY DEF t, e
  <2> QED
    BY <1>1, <1>3, <1>5, <2>1, TableWritten
<1>7. /\ TableAt(d2, here) = s /\ d2[here].kind = "table"
      /\ \A b \in Clusters \ {here, there} : d2[b] = d[b] /\ TableAt(d2, b) = TableAt(d, b)
  BY <1>1, <1>3, <1>6
<1>8. \A b \in LiveDirs(d) :
         /\ d2[b].kind = "table"
         /\ \A i \in Indices : \/ TableAt(d2, b)[i] = TableAt(d, b)[i]
                               \/ b = here /\ i = k
                               \/ b = there /\ i = j
  <2> SUFFICES ASSUME NEW b \in LiveDirs(d), NEW i \in Indices
               PROVE  /\ d2[b].kind = "table"
                      /\ \/ TableAt(d2, b)[i] = TableAt(d, b)[i]
                         \/ b = here /\ i = k
                         \/ b = there /\ i = j
    BY ClusterFacts
  <2>1. CASE b = here
    BY <1>5, <1>7, <2>1
  <2>2. CASE b = there
    BY <1>5, <1>6, <2>2
  <2>3. CASE b \notin {here, there}
    BY <1>1, <1>7, <2>3 DEF DirOK
  <2> QED
    BY <2>1, <2>2, <2>3
<1>9. e.folder => TableAt(d2, c) = TableAt(d, c)
  BY <1>1, <1>2, <1>7
<1>10. e.folder => TableAt(d, c)[1].used /\ TableAt(d, c)[1].folder
  BY <1>1, <1>2 DEF DirOK
<1>11. \A b \in DataClusters : d[b].kind = "data" => d2[b] = d[b]
  <2>1. d[here].kind = "table" /\ d[there].kind = "table"
    BY <1>1 DEF DirOK
  <2> QED
    BY <1>7, <2>1, ClusterFacts
<1> QED
  BY <1>3, <1>5, <1>6, <1>7, <1>8, <1>9, <1>10, <1>11 DEF Moves, e

\* And the third writes the folder's own table, with its new parent.
LEMMA TreeRelinked ==
    ASSUME NEW d \in Disks, TreeOK(d), NEW here, NEW k, NEW there, NEW j,
           MovePlan(d, here, k, there, j), NEW d2 \in Disks, TableAt(d, here)[k].folder,
           Moves(d, d2, here, k, there, j, {TableAt(d, here)[k].cluster}),
           TableAt(d2, TableAt(d, here)[k].cluster) = TableAt(d, TableAt(d, here)[k].cluster), NEW d3,
           Written(d2, d3, TableAt(d, here)[k].cluster,
                   Table([TableAt(d, TableAt(d, here)[k].cluster) EXCEPT ![1].cluster = there]))
    PROVE  d3 \in Disks /\ Moves(d, d3, here, k, there, j, {})
<1> DEFINE e == TableAt(d, here)[k]
           c == e.cluster
           t == [TableAt(d, c) EXCEPT ![1].cluster = there]
<1>1. /\ e \in Entry /\ k \in Indices \ {0, 1} /\ j \in Indices \ {0, 1}
      /\ here \in LiveDirs(d) /\ there \in LiveDirs(d) \ {here}
      /\ \A b \in LiveDirs(d) : b \in Clusters /\ b # BOOT_SECTOR /\ b # FAT_CLUSTER_NUMBER
      /\ \A b \in LiveDirs(d) : DirOK(d, b)
  <2>1. e \in Entry /\ k \in Indices \ {0, 1} /\ j \in Indices \ {0, 1}
    BY MoveFacts
  <2>2. here \in LiveDirs(d) /\ there \in LiveDirs(d) \ {here}
    BY MoveFacts
  <2>3. \A b \in LiveDirs(d) : b \in Clusters /\ b # BOOT_SECTOR /\ b # FAT_CLUSTER_NUMBER
    BY MoveFacts
  <2> QED
    BY <2>1, <2>2, <2>3 DEF TreeOK
<1>2. c \in LiveDirs(d) \ {here, there}
  BY MoveFacts
<1>3. c \in Clusters /\ c # BOOT_SECTOR /\ c # FAT_CLUSTER_NUMBER /\ DirOK(d, c)
  BY <1>1, <1>2
<1>4. TableAt(d, c) \in Tables /\ TableAt(d, c)[1] \in Entry /\ 1 \in Indices /\ there \in Clusters
  <2>1. TableAt(d, c) \in Tables /\ 1 \in Indices /\ there \in Clusters
    BY <1>1, <1>3, DiskFacts, ClusterFacts
  <2> QED
    BY <2>1 DEF Tables
<1> DEFINE x == [TableAt(d, c)[1] EXCEPT !.cluster = there]
<1>5. /\ x \in Entry /\ x.cluster = there /\ x.name = TableAt(d, c)[1].name
      /\ x.used = TableAt(d, c)[1].used /\ x.folder = TableAt(d, c)[1].folder
  BY <1>4 DEF Entry
<1>6. t \in Tables /\ t[1] = x /\ \A i \in Indices : i # 1 => t[i] = TableAt(d, c)[i]
  BY <1>4, <1>5 DEF Tables
<1> HIDE DEF x, t
<1>7. /\ d3 \in Disks /\ FatOf(d3) = FatOf(d2) /\ d3[BOOT_SECTOR] = d2[BOOT_SECTOR]
      /\ \A b \in Clusters : b # c => d3[b] = d2[b] /\ TableAt(d3, b) = TableAt(d2, b)
      /\ d3[c].kind = "table" /\ TableAt(d3, c) = t
  <2>1. Written(d2, d3, c, Table(t))
    BY DEF t
  <2> QED
    BY <1>3, <1>6, <2>1, TableWritten
<1>8. /\ FatOf(d2) = FatOf(d) /\ d2[BOOT_SECTOR] = d[BOOT_SECTOR]
      /\ TableAt(d2, here)[k] = EmptyEntry /\ TableAt(d2, there)[j] = e
      /\ \A b \in LiveDirs(d) :
           /\ d2[b].kind = "table"
           /\ \A i \in Indices : \/ TableAt(d2, b)[i] = TableAt(d, b)[i]
                                 \/ b = here /\ i = k
                                 \/ b = there /\ i = j
                                 \/ e.folder /\ b = c /\ i = 1
      /\ \A b \in DataClusters : d[b].kind = "data" => d2[b] = d[b]
  BY DEF Moves
<1>9. TableAt(d3, here)[k] = EmptyEntry /\ TableAt(d3, there)[j] = e
  BY <1>1, <1>2, <1>7, <1>8
<1>10. \A b \in LiveDirs(d) :
           /\ d3[b].kind = "table"
           /\ \A i \in Indices : \/ TableAt(d3, b)[i] = TableAt(d, b)[i]
                                 \/ b = here /\ i = k
                                 \/ b = there /\ i = j
                                 \/ e.folder /\ b = c /\ i = 1
  <2> SUFFICES ASSUME NEW b \in LiveDirs(d), NEW i \in Indices
               PROVE  /\ d3[b].kind = "table"
                      /\ \/ TableAt(d3, b)[i] = TableAt(d, b)[i]
                         \/ b = here /\ i = k
                         \/ b = there /\ i = j
                         \/ e.folder /\ b = c /\ i = 1
    BY <1>4
  <2>1. CASE b = c
    BY <1>6, <1>7, <2>1
  <2>2. CASE b # c
    BY <1>1, <1>7, <1>8, <2>2
  <2> QED
    BY <2>1, <2>2
<1>11. /\ TableAt(d3, c)[1].used /\ TableAt(d3, c)[1].folder
       /\ TableAt(d3, c)[1].name = TableAt(d, c)[1].name /\ TableAt(d3, c)[1].cluster = there
  <2>1. TableAt(d, c)[1].used /\ TableAt(d, c)[1].folder
    BY <1>3 DEF DirOK
  <2> QED
    BY <1>5, <1>6, <1>7, <2>1
<1>12. \A b \in DataClusters : d[b].kind = "data" => d3[b] = d[b]
  BY <1>3, <1>7, <1>8, ClusterFacts DEF DirOK
<1> QED
  BY <1>7, <1>8, <1>9, <1>10, <1>11, <1>12 DEF Moves

-----------------------------------------------------------------------------
(***************************************************************************)
(* Between commands.                                                        *)
(***************************************************************************)

\* The image's root knows itself, which a root made by create_fat32 does not.
RootOK(d) == \A i \in {0, 1} : /\ TableAt(d, ROOT_CLUSTER_NUMBER)[i].cluster = ROOT_CLUSTER_NUMBER
                               /\ TableAt(d, ROOT_CLUSTER_NUMBER)[i].name = RootName

\* A disk between two operations, and the table the driver keeps of it.
Sound(d, m) ==
    /\ d \in Disks /\ m = FatOf(d)
    /\ TreeOK(d) /\ NamesOK(d) /\ DataOK(d) /\ RootOK(d)
    /\ \A c \in DataClusters : m[c] # FAT32_FAT_EMPTY_ENTRY <=> InTree(d, c)

\* This is the driver's invariant, between its operations.
Steady == /\ DriverInv /\ ContentInv /\ RootOK(disk) /\ crashes = 0
          /\ op = Idle \/ op.pc \in WritePCs \cup DeletePCs

\* Between calls, a disk the driver keeps is sound.
LEMMA SteadySound ==
    ASSUME Steady, op = Idle PROVE Sound(disk, fat)
<1>1. op.pc = "idle" /\ crashes = 0 /\ op.pc \notin WritePCs \cup {"d_free"}
  BY IdleFacts DEF Steady, WritePCs
<1>2. Formatted(disk) /\ fat = FatOf(disk) /\ disk \in Disks /\ TreeOK(disk)
  BY <1>1 DEF Steady, DriverInv, DriverOK, LeakFree
<1>3. OpClusters(disk, op) = {}
  BY <1>1 DEF OpClusters
<1>4. \A c \in DataClusters : fat[c] # FAT32_FAT_EMPTY_ENTRY <=> InTree(disk, c)
  BY <1>1, <1>2, <1>3 DEF Steady, DriverInv, LeakFree
<1> QED
  BY <1>2, <1>4 DEF Steady, Sound, ContentInv

\* And a sound disk is one the driver can go on with.
LEMMA SoundDriver ==
    ASSUME NEW d, NEW m, Sound(d, m)
    PROVE  /\ DriverOK(d, m, Idle) /\ LeakFree(d, m, Idle, 0) /\ 0 \in 0 .. MaxCrashes
           /\ NamesOK(d) /\ DataOK(d) /\ RequestOK(d, Idle) /\ RootOK(d)
<1> DEFINE o == Idle
<1>1. /\ o.pc = "idle" /\ o.pc \in PCs /\ o.pc \notin WritePCs \cup {"d_free"} /\ o # Off
      /\ o.pc \notin {"d_parent", "d_fat", "f_fat", "f_name", "f_root"}
  BY IdleFacts DEF PCs, WritePCs
<1> HIDE DEF o
<1>2. /\ d \in Disks /\ m = FatOf(d) /\ TreeOK(d) /\ m \in Maps
      /\ Formatted(d)
  BY DiskFacts, TreeFacts DEF Sound
<1>3. d[BOOT_SECTOR] = Signature
  BY <1>2 DEF TreeOK
<1>4. DriverOK(d, m, o)
  BY <1>1, <1>2, <1>3 DEF DriverOK, FormatOK, DeletePCs
<1>5. LeakFree(d, m, o, 0)
  <2>1. OpClusters(d, o) = {}
    BY <1>1 DEF OpClusters
  <2> QED
    BY <1>1, <1>2, <2>1 DEF LeakFree, Sound
<1>6. 0 \in 0 .. MaxCrashes
  BY FAT32Assumption
<1>7. RequestOK(d, o)
  BY <1>1 DEF RequestOK
<1> QED
  BY <1>4, <1>5, <1>6, <1>7 DEF Sound, o

\* Hence the driver's invariant on a sound disk.
LEMMA SoundSteady ==
    ASSUME Sound(disk, fat), op = Idle, crashes = 0 PROVE Steady
BY SoundDriver DEF Steady, DriverInv, ContentInv

\* The same, after a step.
LEMMA SoundSteadyNext ==
    ASSUME Sound(disk', fat'), op' = Idle, crashes' = 0 PROVE Steady'
BY SoundDriver DEF Steady, DriverInv, ContentInv

\* A tree that carries its entry is as sound as before.
LEMMA SoundCarried ==
    ASSUME NEW d, NEW m, Sound(d, m), NEW d2 \in Disks, NEW p, NEW q, Carried(d, d2, p, q, {}), NamesOK(d2)
    PROVE  Sound(d2, m)
<1> USE DEF Sound
<1>1. TreeOK(d2) /\ DataOK(d2) /\ \A c : InTree(d2, c) <=> InTree(d, c)
  BY TreeCarried, TreeButNone
<1>2. FatOf(d2) = FatOf(d)
  BY DEF Carried
<1>3. RootOK(d2)
  <2>1. ROOT_CLUSTER_NUMBER \in LiveDirs(d)
    BY TreeFacts, LiveLeast
  <2>2. EntryAt(d, p).cluster # ROOT_CLUSTER_NUMBER
    <3>1. EntryAt(d, p).cluster \in DataClusters
      BY TreeFacts DEF Carried
    <3> QED
      BY <3>1, ClusterFacts DEF ROOT_CLUSTER_NUMBER
  <2> QED
    BY <2>1, <2>2 DEF Carried, RootOK
<1> QED
  BY <1>1, <1>2, <1>3

-----------------------------------------------------------------------------
(***************************************************************************)
(* The disk image.                                                          *)
(***************************************************************************)

\* Where its file and its folder lie.
LEMMA ImageSpace ==
    /\ ImageClusters \in Nat /\ ImageClusters >= 3
    /\ ImageClusters - 2 = ClustersOf(ImageSize)
    /\ 3 .. ImageClusters + 1 \subseteq DataClusters
<1>1. ImageSize \in Nat /\ ImageSize # 0 /\ CLUSTER_SIZE \in Nat /\ CLUSTER_SIZE # 0
  BY ShellAssumption, FAT32Assumption
<1> DEFINE q == (ImageSize + CLUSTER_SIZE - 1) \div CLUSTER_SIZE
<1>2. ImageSize + CLUSTER_SIZE - 1 \in Nat
  BY <1>1
<1>3. q \in Nat /\ q >= 1
  BY <1>1, <1>2
<1>4. ClustersOf(ImageSize) = q /\ ImageClusters = 2 + q
  BY <1>1 DEF ClustersOf, ImageClusters, ROOT_CLUSTER_NUMBER
<1> HIDE DEF q
<1> QED
  BY <1>3, <1>4, ImageAssumption, ClusterFacts DEF DataClusters

\* Its allocation table.
LEMMA ImageMap ==
    /\ ImageFat \in Maps
    /\ ImageFat[0] # FAT32_FAT_EMPTY_ENTRY /\ ImageFat[1] # FAT32_FAT_EMPTY_ENTRY
    /\ ImageFat[ROOT_CLUSTER_NUMBER] = FAT32_FAT_END_OF_FILE
    /\ \A c \in 3 .. ImageClusters - 1 : ImageFat[c] = c + 1
    /\ ImageFat[ImageClusters] = FAT32_FAT_END_OF_FILE
    /\ ImageFat[ImageClusters + 1] = FAT32_FAT_END_OF_FILE
    /\ \A c \in DataClusters : ImageFat[c] # FAT32_FAT_EMPTY_ENTRY <=> c \in 3 .. ImageClusters + 1
<1> DEFINE N == ImageClusters
<1>1. N \in Nat /\ N >= 3 /\ 3 .. N + 1 \subseteq DataClusters
  BY ImageSpace
<1> HIDE DEF N
<1>2. \A c \in Clusters :
         ImageFat[c] = CASE c = 0 -> CLUSTER_0_VALUE
                         [] c \in 3 .. N - 1 -> c + 1
                         [] c \in {1, 2, N, N + 1} -> FAT32_FAT_END_OF_FILE
                         [] OTHER -> FAT32_FAT_EMPTY_ENTRY
  BY DEF ImageFat, N
<1>3. /\ ImageFat[0] = CLUSTER_0_VALUE /\ ImageFat[1] = FAT32_FAT_END_OF_FILE /\ ImageFat[2] = FAT32_FAT_END_OF_FILE
      /\ \A c \in 3 .. N - 1 : ImageFat[c] = c + 1
      /\ ImageFat[N] = FAT32_FAT_END_OF_FILE /\ ImageFat[N + 1] = FAT32_FAT_END_OF_FILE
      /\ \A c \in DataClusters : c \notin 3 .. N + 1 => ImageFat[c] = FAT32_FAT_EMPTY_ENTRY
  <2>1. ImageFat[0] = CLUSTER_0_VALUE
    BY <1>1, <1>2, ClusterFacts
  <2>2. ImageFat[1] = FAT32_FAT_END_OF_FILE /\ ImageFat[2] = FAT32_FAT_END_OF_FILE
    BY <1>1, <1>2, ClusterFacts
  <2>3. ASSUME NEW c \in 3 .. N - 1 PROVE ImageFat[c] = c + 1
    <3>1. c \in Clusters /\ c # 0
      BY <1>1, ClusterFacts
    <3> QED
      BY <1>1, <1>2, <3>1
  <2>4. ASSUME NEW c \in {N, N + 1} PROVE ImageFat[c] = FAT32_FAT_END_OF_FILE
    <3>1. c \in Clusters /\ c # 0 /\ c \notin 3 .. N - 1
      BY <1>1, ClusterFacts
    <3> QED
      BY <1>2, <3>1
  <2>5. ASSUME NEW c \in DataClusters, c \notin 3 .. N + 1 PROVE ImageFat[c] = FAT32_FAT_EMPTY_ENTRY
    <3>1. c \in Clusters /\ c # 0 /\ c # 1 /\ c # 2 /\ c # N /\ c # N + 1 /\ c \notin 3 .. N - 1
      BY <1>1, <2>5, ClusterFacts
    <3> QED
      BY <1>2, <3>1
  <2> QED
    BY <2>1, <2>2, <2>3, <2>4, <2>5
<1>4. ImageFat \in Maps
  <2>1. ASSUME NEW c \in Clusters PROVE ImageFat[c] \in FatValues
    <3>1. CASE c \in {0, 1, 2, N, N + 1}
      BY <1>3, <3>1 DEF FatValues
    <3>2. CASE c \in 3 .. N - 1
      <4>1. c + 1 \in Clusters
        BY <1>1, <3>2, ClusterFacts
      <4> QED
        BY <1>3, <3>2, <4>1 DEF FatValues
    <3>3. CASE c \notin {0, 1, 2, N, N + 1} /\ c \notin 3 .. N - 1
      <4>1. ImageFat[c] = 0
        BY <1>2, <3>3 DEF FAT32_FAT_EMPTY_ENTRY
      <4> QED
        BY <4>1, ClusterFacts DEF FatValues
    <3> QED
      BY <3>1, <3>2, <3>3
  <2>2. ImageFat = [c \in Clusters |-> ImageFat[c]]
    BY DEF ImageFat
  <2> QED
    BY <2>1, <2>2 DEF Maps
<1>5. ASSUME NEW c \in DataClusters PROVE ImageFat[c] # FAT32_FAT_EMPTY_ENTRY <=> c \in 3 .. N + 1
  BY <1>1, <1>3 DEF FAT32_FAT_EMPTY_ENTRY, FAT32_FAT_END_OF_FILE
<1> QED
  BY <1>3, <1>4, <1>5 DEF N, ROOT_CLUSTER_NUMBER, FAT32_FAT_EMPTY_ENTRY, FAT32_FAT_END_OF_FILE, CLUSTER_0_VALUE

\* The chains of its file and of its folder.
LEMMA ImageChains ==
    LET N == ImageClusters IN
    /\ Good(ImageFat, 3) /\ Len(Chain(ImageFat, 3)) = ClustersOf(ImageSize) /\ ChainSet(ImageFat, 3) = 3 .. N
    /\ Good(ImageFat, N + 1) /\ Len(Chain(ImageFat, N + 1)) = ClustersOf(0)
    /\ ChainSet(ImageFat, N + 1) = {N + 1}
<1> DEFINE N == ImageClusters
           s == [i \in 1 .. N - 2 |-> i + 2]
           r == <<N + 1>>
<1>1. N \in Nat /\ N >= 3 /\ N - 2 = ClustersOf(ImageSize) /\ 3 .. N + 1 \subseteq DataClusters
  BY ImageSpace
<1>2. /\ \A c \in 3 .. N - 1 : ImageFat[c] = c + 1
      /\ ImageFat[N] = FAT32_FAT_END_OF_FILE /\ ImageFat[N + 1] = FAT32_FAT_END_OF_FILE
  BY ImageMap
<1> HIDE DEF N
<1>3. s \in Seq(DataClusters) /\ Len(s) = N - 2 /\ \A i \in 1 .. N - 2 : s[i] = i + 2
  <2>1. \A i \in 1 .. N - 2 : i + 2 \in DataClusters
    BY <1>1
  <2>2. N - 2 \in Nat
    BY <1>1
  <2>3. s \in [1 .. N - 2 -> DataClusters]
    BY <2>1
  <2> QED
    BY <2>2, <2>3
<1>4. N - 2 <= CLUSTER_MAP_SIZE
  BY <1>1, ClusterFacts DEF DataClusters
<1> HIDE DEF s
<1>5. IsChain(ImageFat, s) /\ s[1] = 3
  <2>1. \A i \in 1 .. Len(s) - 1 : ImageFat[s[i]] = s[i + 1]
    BY <1>1, <1>2, <1>3
  <2>2. ImageFat[s[Len(s)]] = FAT32_FAT_END_OF_FILE
    BY <1>1, <1>2, <1>3
  <2>3. \A i, j \in 1 .. Len(s) : s[i] = s[j] => i = j
    BY <1>1, <1>3
  <2> QED
    BY <1>1, <1>3, <1>4, <2>1, <2>2, <2>3, ClusterFacts DEF IsChain
<1>6. Chain(ImageFat, 3) = s /\ Good(ImageFat, 3)
  BY <1>5, ChainIs
<1>7. ChainSet(ImageFat, 3) = 3 .. N
  <2>1. ChainSet(ImageFat, 3) = {s[i] : i \in 1 .. N - 2}
    BY <1>3, <1>6 DEF ChainSet
  <2>2. \A c \in 3 .. N : c - 2 \in 1 .. N - 2 /\ s[c - 2] = c
    BY <1>1, <1>3
  <2>3. \A i \in 1 .. N - 2 : s[i] \in 3 .. N
    BY <1>1, <1>3
  <2> QED
    BY <2>1, <2>2, <2>3
<1>8. IsChain(ImageFat, r) /\ r[1] = N + 1 /\ Len(r) = 1
  BY <1>1, <1>2, ClusterFacts DEF IsChain
<1> HIDE DEF r
<1>9. Chain(ImageFat, N + 1) = r /\ Good(ImageFat, N + 1)
  BY <1>8, ChainIs
<1>10. ChainSet(ImageFat, N + 1) = {N + 1}
  BY <1>8, <1>9 DEF ChainSet
<1>11. ClustersOf(0) = 1
  BY DEF ClustersOf
<1> QED
  BY <1>1, <1>3, <1>6, <1>7, <1>8, <1>9, <1>10, <1>11 DEF N

\* The contents of its clusters.
LEMMA ImageDisk ==
    ASSUME NEW payload \in Payloads, NEW d, d = Image(payload)
    PROVE  LET N == ImageClusters IN
           /\ d \in Disks /\ d[BOOT_SECTOR] = Signature /\ FatOf(d) = ImageFat
           /\ d[ROOT_CLUSTER_NUMBER].kind = "table" /\ TableAt(d, ROOT_CLUSTER_NUMBER) = ImageRoot
           /\ \A c \in 3 .. N : d[c].kind = "data"
           /\ d[N + 1].kind = "table"
           /\ Links(TableAt(d, N + 1), FolderEntry(ImageFolder, N + 1), FolderEntry(RootName, ROOT_CLUSTER_NUMBER))
<1> DEFINE N == ImageClusters
           a == FolderEntry(ImageFolder, N + 1)
           b == FolderEntry(RootName, ROOT_CLUSTER_NUMBER)
           t == [EmptyTable EXCEPT ![0] = a, ![1] = b]
           file == [used |-> TRUE, name |-> ImageFile, folder |-> FALSE, cluster |-> 3, filesize |-> ImageSize]
           child(c) == [EmptyTable EXCEPT ![0] = FolderEntry(ImageFolder, c), ![1] = b]
<1>1. N \in Nat /\ N >= 3 /\ 3 .. N + 1 \subseteq DataClusters /\ N + 1 \in Clusters /\ N + 1 <= CLUSTER_MAP_SIZE
  <2>1. N \in Nat /\ N >= 3 /\ 3 .. N + 1 \subseteq DataClusters
    BY ImageSpace
  <2>2. N + 1 \in DataClusters
    BY <2>1
  <2> QED
    BY <2>1, <2>2, ClusterFacts DEF DataClusters
<1> HIDE DEF N
<1>2. a \in Entry /\ b \in Entry
  BY <1>1, LinkFacts, ShellAssumption, ClusterFacts DEF ROOT_CLUSTER_NUMBER
<1>3. Links(t, a, b) /\ t \in Tables
  <2> HIDE DEF a, b
  <2>1. Links(t, a, b)
    BY DEF Links
  <2> HIDE DEF t
  <2> QED
    BY <1>2, <2>1, DirectoryTable
<1>4. ImageRoot \in Tables
  <2>1. file \in Entry
    <3>1. 3 \in Clusters /\ ImageSize \in Sizes /\ ImageFile \in Names
      BY ClusterFacts, SizesAssumption, ShellAssumption DEF Clusters
    <3> QED
      BY <3>1 DEF Entry
  <2>2. EmptyTable \in Tables
    BY ContentFacts
  <2>3. ImageRoot = [EmptyTable EXCEPT ![0] = b, ![1] = b, ![2] = file, ![3] = a]
    BY DEF ImageRoot, N
  <2> HIDE DEF a, b, file
  <2> QED
    BY <1>2, <2>1, <2>2, <2>3 DEF Tables
<1>5. \A c \in Clusters :
         d[c] = CASE c = 0 -> Signature
                  [] c = 1 -> FatBlock(ImageFat)
                  [] c = 2 -> Table(ImageRoot)
                  [] c \in 3 .. N -> Piece(payload, c - 2)
                  [] c = N + 1 -> Table(child(c))
                  [] OTHER -> Zero
  BY DEF Image, BOOT_SECTOR, FAT_CLUSTER_NUMBER, ROOT_CLUSTER_NUMBER, N
<1> HIDE DEF b, child
<1>6. d[0] = Signature /\ d[1] = FatBlock(ImageFat) /\ d[2] = Table(ImageRoot)
  <2>1. ASSUME NEW c \in {0, 1, 2} PROVE c \in Clusters /\ c \notin 3 .. N /\ c # N + 1
    BY <1>1, ClusterFacts
  <2>2. d[0] = Signature
    BY <1>5, <2>1
  <2>3. d[1] = FatBlock(ImageFat)
    BY <1>5, <2>1
  <2>4. d[2] = Table(ImageRoot)
    BY <1>5, <2>1
  <2> QED
    BY <2>2, <2>3, <2>4
<1>7. ASSUME NEW c \in 3 .. N PROVE d[c] = Piece(payload, c - 2)
  <2>1. c \in Clusters /\ c # 0 /\ c # 1 /\ c # 2 /\ c # N + 1
    BY <1>1, ClusterFacts
  <2> QED
    BY <1>5, <2>1
<1>8. d[N + 1] = Table(t)
  <2>1. N + 1 # 0 /\ N + 1 # 1 /\ N + 1 # 2 /\ N + 1 \notin 3 .. N
    BY <1>1
  <2>2. d[N + 1] = Table(child(N + 1))
    BY <1>1, <1>5, <2>1
  <2> QED
    BY <2>2 DEF child
<1>9. ASSUME NEW c \in Clusters, c \notin 0 .. N + 1 PROVE d[c] = Zero
  <2>1. c # 0 /\ c # 1 /\ c # 2 /\ c # N + 1 /\ c \notin 3 .. N
    BY <1>1, <1>9
  <2> QED
    BY <1>5, <2>1
<1> HIDE DEF a, t
<1>10. d \in Disks
  <2>1. ASSUME NEW c \in Clusters PROVE d[c] \in Content
    <3>1. CASE c \in {0, 1, 2}
      BY <1>4, <1>6, <3>1, ContentFacts, ImageMap
    <3>2. CASE c \in 3 .. N
      <4>1. c - 2 \in 1 .. CLUSTER_MAP_SIZE
        BY <1>1, <3>2, ClusterFacts
      <4> QED
        BY <1>7, <3>2, <4>1, ContentFacts
    <3>3. CASE c = N + 1
      BY <1>3, <1>8, <3>3, ContentFacts
    <3>4. CASE c \notin 0 .. N + 1
      BY <1>9, <3>4, ContentFacts
    <3> QED
      BY <1>1, <3>1, <3>2, <3>3, <3>4, ClusterFacts
  <2>2. d = [c \in Clusters |-> d[c]]
    BY DEF Image
  <2> QED
    BY <2>1, <2>2 DEF Disks
<1>11. FatOf(d) = ImageFat /\ TableAt(d, 2) = ImageRoot /\ d[2].kind = "table"
  BY <1>6 DEF FatOf, FAT_CLUSTER_NUMBER, TableAt, FatBlock, Table
<1>12. d[N + 1].kind = "table" /\ TableAt(d, N + 1) = t
  BY <1>8 DEF TableAt, Table
<1>13. ASSUME NEW c \in 3 .. N PROVE d[c].kind = "data"
  <2>1. d[c] = Piece(payload, c - 2)
    BY <1>7
  <2>2. \A i : Piece(payload, i).kind = "data"
    BY DEF Piece
  <2> QED
    BY <2>1, <2>2
<1> QED
  BY <1>3, <1>6, <1>10, <1>11, <1>12, <1>13 DEF N, a, b, BOOT_SECTOR, ROOT_CLUSTER_NUMBER

\* The root's table.
LEMMA ImageRootFacts ==
    /\ \A i \in {0, 1} : ImageRoot[i] = FolderEntry(RootName, ROOT_CLUSTER_NUMBER)
    /\ ImageRoot[2] = [used |-> TRUE, name |-> ImageFile, folder |-> FALSE, cluster |-> 3, filesize |-> ImageSize]
    /\ ImageRoot[3] = FolderEntry(ImageFolder, ImageClusters + 1)
    /\ \A i \in Indices \ {0, 1, 2, 3} : ImageRoot[i] = EmptyEntry
    /\ {0, 1, 2, 3} \subseteq Indices
<1> DEFINE file == [used |-> TRUE, name |-> ImageFile, folder |-> FALSE, cluster |-> 3, filesize |-> ImageSize]
           a == FolderEntry(ImageFolder, ImageClusters + 1)
           b == FolderEntry(RootName, ROOT_CLUSTER_NUMBER)
<1>1. {0, 1, 2, 3} \subseteq Indices
  BY ImageAssumption, ClusterFacts DEF Indices
<1>2. ImageRoot = [EmptyTable EXCEPT ![0] = b, ![1] = b, ![2] = file, ![3] = a]
  BY DEF ImageRoot
<1> HIDE DEF a, b, file
<1>3. /\ ImageRoot[0] = b /\ ImageRoot[1] = b /\ ImageRoot[2] = file /\ ImageRoot[3] = a
      /\ \A i \in Indices \ {0, 1, 2, 3} : ImageRoot[i] = EmptyEntry
  BY <1>1, <1>2 DEF EmptyTable
<1> QED
  BY <1>1, <1>3 DEF a, b, file

\* It is sound.
LEMMA ImageSound ==
    ASSUME Ordinary, NEW payload \in Payloads
    PROVE  Sound(Image(payload), ImageFat)
<1> DEFINE N == ImageClusters
           d == Image(payload)
           root == ROOT_CLUSTER_NUMBER
           a == FolderEntry(ImageFolder, N + 1)
           b == FolderEntry(RootName, root)
           file == [used |-> TRUE, name |-> ImageFile, folder |-> FALSE, cluster |-> 3, filesize |-> ImageSize]
           t == TableAt(d, N + 1)
<1>1. /\ d \in Disks /\ d[BOOT_SECTOR] = Signature /\ FatOf(d) = ImageFat
      /\ d[root].kind = "table" /\ TableAt(d, root) = ImageRoot
      /\ \A c \in 3 .. N : d[c].kind = "data"
      /\ d[N + 1].kind = "table" /\ Links(t, a, b)
  BY ImageDisk
<1>2. N \in Nat /\ N >= 3 /\ 3 .. N + 1 \subseteq DataClusters
  BY ImageSpace
<1>3. /\ Good(ImageFat, 3) /\ Len(Chain(ImageFat, 3)) = ClustersOf(ImageSize) /\ ChainSet(ImageFat, 3) = 3 .. N
      /\ Good(ImageFat, N + 1) /\ Len(Chain(ImageFat, N + 1)) = ClustersOf(0)
      /\ ChainSet(ImageFat, N + 1) = {N + 1}
  BY ImageChains
<1> HIDE DEF d, N
<1>4. /\ ImageRoot[0] = b /\ ImageRoot[1] = b /\ ImageRoot[2] = file /\ ImageRoot[3] = a
      /\ \A i \in Indices \ {0, 1, 2, 3} : ImageRoot[i] = EmptyEntry
      /\ {0, 1, 2, 3} \subseteq Indices
  BY ImageRootFacts DEF N
<1>5. /\ a \in Entry /\ a.used /\ a.folder /\ a.cluster = N + 1 /\ a.name = ImageFolder /\ a.filesize = 0
      /\ b \in Entry /\ b.used /\ b.folder /\ b.cluster = root /\ b.name = RootName
      /\ file.used /\ ~ file.folder /\ file.cluster = 3 /\ file.name = ImageFile /\ file.filesize = ImageSize
  <2>1. ImageFolder \in Names /\ N + 1 \in Clusters /\ root \in Clusters
    BY <1>2, ShellAssumption, ClusterFacts DEF ROOT_CLUSTER_NUMBER
  <2>2. a.filesize = 0
    BY DEF FolderEntry
  <2> QED
    BY <2>1, <2>2, LinkFacts
<1>6. ~ EmptyEntry.used /\ EmptyEntry.name = NoName
  BY DEF EmptyEntry
<1> HIDE DEF a, b, file
<1>7. t[0] = a /\ t[1] = b /\ \A i \in Indices \ {0, 1} : t[i] = EmptyEntry
  <2> HIDE DEF t
  <2> QED
    BY <1>1, <1>5, DirectoryTable
<1>8. root # N + 1 /\ N + 1 # 3
  BY <1>2 DEF ROOT_CLUSTER_NUMBER
<1>9. Entries(d, root) = {2, 3} /\ Entries(d, N + 1) = {}
  <2>1. Entries(d, root) = {2, 3}
    BY <1>1, <1>4, <1>5, <1>6 DEF Entries
  <2>2. Entries(d, N + 1) = {}
    BY <1>6, <1>7 DEF Entries
  <2> QED
    BY <2>1, <2>2
<1>10. Folders(d, root) = {N + 1} /\ Folders(d, N + 1) = {}
  BY <1>1, <1>4, <1>5, <1>9 DEF Folders
<1>11. /\ Formatted(d) /\ ImageFat[0] # FAT32_FAT_EMPTY_ENTRY /\ ImageFat[1] # FAT32_FAT_EMPTY_ENTRY
       /\ ImageFat[root] = FAT32_FAT_END_OF_FILE
       /\ \A c \in DataClusters : ImageFat[c] # FAT32_FAT_EMPTY_ENTRY <=> c \in 3 .. N + 1
  BY <1>1, <1>4, <1>5, ImageMap DEF Formatted, N
<1>12. LiveDirs(d) = {root, N + 1}
  <2> DEFINE X == {root, N + 1}
  <2>1. root \in X /\ \A c \in X : Folders(d, c) \subseteq X
    BY <1>10
  <2> HIDE DEF X
  <2>2. root \in LiveDirs(d) /\ LiveDirs(d) \subseteq X
    BY <1>11, <2>1, LiveLeast
  <2>3. N + 1 \in LiveDirs(d)
    BY <1>1, <1>10, <2>2, LiveClosed
  <2> QED
    BY <2>2, <2>3 DEF X
<1> DEFINE p == <<root, 2>>
           q == <<root, 3>>
<1>13. /\ LivePlaces(d) = {p, q} /\ p # q
       /\ EntryAt(d, p) = file /\ EntryAt(d, q) = a
  <2>1. p \in LivePlaces(d) /\ q \in LivePlaces(d)
    BY <1>1, <1>9, <1>12, PlaceFacts
  <2>2. ASSUME NEW r \in LivePlaces(d) PROVE r \in {p, q}
    <3>1. r = <<r[1], r[2]>> /\ r[1] \in LiveDirs(d) /\ r[2] \in Entries(d, r[1])
      BY <1>1, PlaceFacts
    <3> QED
      BY <1>9, <1>12, <3>1
  <2>3. EntryAt(d, p) = file /\ EntryAt(d, q) = a
    BY <1>1, <1>4 DEF EntryAt
  <2> QED
    BY <2>1, <2>2, <2>3
<1> HIDE DEF p, q, t
<1>14. DirOK(d, root) /\ DirOK(d, N + 1)
  <2>1. DirOK(d, root)
    BY <1>1, <1>4, <1>5, <1>6 DEF DirOK
  <2>2. DirOK(d, N + 1)
    BY <1>1, <1>5, <1>6, <1>7 DEF DirOK, t
  <2> QED
    BY <2>1, <2>2
<1>15. PlaceOK(d, p) /\ PlaceOK(d, q)
  <2>1. PlaceOK(d, p)
    <3>1. ImageSize # 0
      BY ShellAssumption
    <3> QED
      BY <1>1, <1>3, <1>5, <1>13, <3>1 DEF PlaceOK
  <2>2. q[1] = root
    BY DEF q
  <2>3. PlaceOK(d, q)
    BY <1>1, <1>3, <1>5, <1>7, <1>13, <2>2 DEF PlaceOK, t
  <2> QED
    BY <2>1, <2>3
<1>16. TreeOK(d)
  <2>1. 3 .. N \cap {N + 1} = {}
    BY <1>2
  <2>2. \A r, s \in LivePlaces(d) :
           r # s => ChainSet(ImageFat, EntryAt(d, r).cluster) \cap ChainSet(ImageFat, EntryAt(d, s).cluster) = {}
    BY <1>3, <1>5, <1>13, <2>1
  <2> QED
    BY <1>1, <1>4, <1>5, <1>11, <1>12, <1>13, <1>14, <1>15, <2>2 DEF TreeOK
<1>17. NamesOK(d)
  <2> SUFFICES ASSUME NEW i \in {2, 3}
               PROVE  /\ ImageRoot[i].name \in Names
                      /\ \A k \in Indices : ImageRoot[k].name = ImageRoot[i].name => k = i
    BY <1>1, <1>9, <1>12 DEF NamesOK
  <2>1. ImageRoot[i].name \in Names /\ ImageRoot[i].name \notin {RootName, NoName}
    BY <1>4, <1>5, ShellAssumption, ImageAssumption DEF Ordinary
  <2>2. ImageRoot[2].name # ImageRoot[3].name
    BY <1>4, <1>5, ImageAssumption
  <2>3. ASSUME NEW k \in Indices, k \notin {2, 3} PROVE ImageRoot[k].name \in {RootName, NoName}
    BY <1>4, <1>5, <1>6, <2>3
  <2> QED
    BY <2>1, <2>2, <2>3
<1>18. DataOK(d)
  BY <1>1, <1>3, <1>5, <1>13 DEF DataOK
<1>19. RootOK(d)
  BY <1>1, <1>4, <1>5 DEF RootOK
<1>20. \A c : InTree(d, c) <=> c \in 3 .. N + 1
  <2>1. \A c : InTree(d, c) <=> c \in 3 .. N \/ c = N + 1
    BY <1>1, <1>3, <1>5, <1>13 DEF InTree
  <2>2. \A c : c \in 3 .. N + 1 <=> c \in 3 .. N \/ c = N + 1
    BY <1>2
  <2> QED
    BY <2>1, <2>2
<1> QED
  BY <1>1, <1>11, <1>16, <1>17, <1>18, <1>19, <1>20 DEF Sound, d

-----------------------------------------------------------------------------
(***************************************************************************)
(* Looking names up.                                                        *)
(***************************************************************************)

\* The links of a live directory lead to live directories.
LEMMA LinksLive ==
    ASSUME NEW d, NEW m, Sound(d, m), NEW c \in LiveDirs(d)
    PROVE  /\ c \in Clusters /\ TableAt(d, c) \in Tables /\ DirOK(d, c)
           /\ TableAt(d, c)[0].cluster = c /\ TableAt(d, c)[1].cluster \in LiveDirs(d)
           /\ \A i \in Indices : TableAt(d, c)[i].used /\ TableAt(d, c)[i].folder
                                    => TableAt(d, c)[i].cluster \in LiveDirs(d)
<1> USE DEF Sound
<1>1. c \in Clusters /\ TableAt(d, c) \in Tables /\ DirOK(d, c)
  <2>1. c \in Clusters
    BY LiveClosed
  <2> QED
    BY <2>1, DiskFacts DEF TreeOK
<1>2. TableAt(d, c)[0].cluster = c /\ TableAt(d, c)[1].cluster \in LiveDirs(d)
  <2>1. CASE c = ROOT_CLUSTER_NUMBER
    BY <2>1 DEF RootOK
  <2>2. CASE c # ROOT_CLUSTER_NUMBER
    <3>1. PICK p \in LivePlaces(d) : EntryAt(d, p).folder /\ EntryAt(d, p).cluster = c
      BY <2>2, TreeFacts, DirsHavePlaces
    <3>2. PlaceOK(d, p) /\ p[1] \in LiveDirs(d)
      BY PlaceFacts DEF TreeOK
    <3> QED
      BY <3>1, <3>2 DEF PlaceOK
  <2> QED
    BY <2>1, <2>2
<1>3. ASSUME NEW i \in Indices, TableAt(d, c)[i].used, TableAt(d, c)[i].folder
      PROVE  TableAt(d, c)[i].cluster \in LiveDirs(d)
  <2>1. CASE i \in {0, 1}
    BY <1>2, <2>1
  <2>2. CASE i \notin {0, 1}
    <3>1. i \in Entries(d, c)
      BY <1>3, <2>2 DEF Entries
    <3>2. TableAt(d, c)[i].cluster \in Folders(d, c)
      BY <1>3, <3>1 DEF Folders
    <3> QED
      BY <3>2, LiveClosed
  <2> QED
    BY <2>1, <2>2
<1> QED
  BY <1>1, <1>2, <1>3

\* A name in a live directory belongs to a used entry, and from entry 2 on to one.
LEMMA NamesUsed ==
    ASSUME Ordinary, NEW d, NEW m, Sound(d, m), NEW c \in LiveDirs(d), NEW i \in Indices,
           TableAt(d, c)[i].name \in Names
    PROVE  /\ TableAt(d, c)[i].used
           /\ i \notin {0, 1} =>
                i \in Entries(d, c) /\ \A k \in Indices : TableAt(d, c)[k].name = TableAt(d, c)[i].name => k = i
<1>1. TableAt(d, c)[i].used
  <2>1. ~ TableAt(d, c)[i].used => TableAt(d, c)[i] = EmptyEntry
    BY DEF Sound, TreeOK, DirOK
  <2>2. EmptyEntry.name = NoName
    BY DEF EmptyEntry
  <2> QED
    BY <2>1, <2>2 DEF Ordinary
<1>2. i \notin {0, 1} => i \in Entries(d, c)
  BY <1>1 DEF Entries
<1> QED
  BY <1>1, <1>2 DEF Sound, NamesOK

\* What a search of a table finds.
LEMMA IndexFound ==
    ASSUME NEW t, NEW name, NEW from \in Nat
    PROVE  LET i == IndexOfName(t, name, from) IN
           /\ i = TABLE_SIZE => \A l \in Indices : l >= from => t[l].name # name
           /\ i # TABLE_SIZE => /\ i \in Indices /\ i >= from /\ t[i].name = name
                                /\ \A l \in Indices : l >= from /\ t[l].name = name => i <= l
<1> DEFINE S == {k \in Indices : k >= from /\ t[k].name = name} \cup {TABLE_SIZE}
           i == IndexOfName(t, name, from)
<1>1. S \in SUBSET Nat /\ S # {}
  BY ClusterFacts
<1>2. i \in S /\ \A y \in S : i <= y
  BY <1>1, MinElement DEF IndexOfName
<1>3. \A l \in Indices : l \in Nat /\ l < TABLE_SIZE
  BY ClusterFacts DEF Indices
<1> HIDE DEF i
<1>4. ASSUME i = TABLE_SIZE, NEW l \in Indices, l >= from PROVE t[l].name # name
  <2>1. ~ (i <= l)
    BY <1>3, <1>4, ClusterFacts
  <2>2. l \notin S
    BY <1>2, <2>1
  <2> QED
    BY <1>4, <2>2
<1>5. i # TABLE_SIZE => i \in Indices /\ i >= from /\ t[i].name = name
  BY <1>2
<1>6. \A l \in Indices : l >= from /\ t[l].name = name => i <= l
  BY <1>2
<1> QED
  BY <1>4, <1>5, <1>6 DEF i

\* What read_directory finds.
LEMMA Lookup ==
    ASSUME NEW c, NEW name
    PROVE  LET r == read_directory(c, name)
               t == TableAt(disk, c) IN
           /\ r.retcode \in {0, 1, 2}
           /\ r.retcode = 2 <=> \A i \in Indices : ~ (t[i].used /\ t[i].name = name)
           /\ r.retcode # 2 => \E i \in Indices :
                /\ t[i].used /\ t[i].name = name
                /\ \A l \in Indices : t[l].used /\ t[l].name = name => i <= l
                /\ r.retcode = 0 <=> t[i].folder
                /\ r.retcode = 0 => r.table = TableAt(disk, t[i].cluster)
<1> DEFINE t == TableAt(disk, c)
           U == UsedNamed(c, name)
           r == read_directory(c, name)
<1>1. U \in SUBSET Nat /\ \A i : i \in U <=> i \in Indices /\ t[i].used /\ t[i].name = name
  BY ClusterFacts DEF UsedNamed
<1> DEFINE i == Min(U)
<1>2. U # {} => i \in U /\ \A y \in U : i <= y
  BY <1>1, MinElement
<1>3. r = IF U = {} THEN [retcode |-> 2]
          ELSE IF t[i].folder THEN [retcode |-> 0, table |-> TableAt(disk, t[i].cluster)]
          ELSE [retcode |-> 1]
  BY DEF read_directory
<1> HIDE DEF r, U, i, t
<1>4. CASE U = {}
  <2>1. r.retcode = 2
    BY <1>3, <1>4
  <2> QED
    BY <1>1, <1>4, <2>1 DEF r, t
<1>5. CASE U # {}
  <2>1. /\ i \in Indices /\ t[i].used /\ t[i].name = name
        /\ \A l \in Indices : t[l].used /\ t[l].name = name => i <= l
    BY <1>1, <1>2, <1>5
  <2>2. CASE t[i].folder
    <3>1. r.retcode = 0 /\ r.table = TableAt(disk, t[i].cluster)
      BY <1>3, <1>5, <2>2
    <3> QED
      BY <2>1, <2>2, <3>1 DEF r, t
  <2>3. CASE ~ t[i].folder
    <3>1. r.retcode = 1
      BY <1>3, <1>5, <2>3
    <3> QED
      BY <2>1, <2>3, <3>1 DEF r, t
  <2> QED
    BY <2>2, <2>3
<1> QED
  BY <1>4, <1>5

-----------------------------------------------------------------------------
(***************************************************************************)
(* The invariant of the shell.                                              *)
(***************************************************************************)

\* The theorems' hypotheses: no file's number of clusters wraps, no name is eight zero bytes, the
\* user moves with care and one shell runs.  Without any of them the properties fail.
ShellOrdinary == Ordinary /\ CarefulMoves /\ \A s, t \in Shells : s = t

\* The points of mv at which the tree is not as it should be.
Mid == {"mv_self", "mv_paste", "mv_relink"}
ShellPCs == {"main", "prompt", "refresh", "cp_write", "cp_done", "mv_dest", "mv_rename", "mv_cut",
             "find", "overflow"} \cup Mid

\* What cp carries to its write.
CopyOK(cmd) ==
    /\ cmd = [pc |-> "cp_write", src |-> cmd.src, dest |-> cmd.dest, data |-> cmd.data, size |-> cmd.size]
    /\ cmd.src \in Names /\ cmd.dest \in Names /\ cmd.size \in Sizes /\ PayloadOf(cmd.data) \in Payloads

\* The moved entry as mv remembers it: whether it is a folder, and the folder's table.
Remembers(d, cmd, e) == cmd.folder = e.folder /\ (e.folder => cmd.src_table = TableAt(d, e.cluster))

\* What the user has checked: of a destination that is a folder, and of one that is not there.
IntoFolder(d, t, src, dest) ==
    \A i \in Indices :
        (/\ t[i].used /\ t[i].name = dest /\ t[i].folder
         /\ \A l \in Indices : t[l].used /\ t[l].name = dest => i <= l) =>
            /\ i # 0 /\ src # dest
            /\ \E k \in Indices \ {0, 1} : t[k].name = src
            /\ \E j \in Indices \ {0} : ~ TableAt(d, t[i].cluster)[j].used
            /\ \A l \in Indices : TableAt(d, t[i].cluster)[l].name # src
FreeName(d, t, src, dest) ==
    (\A i \in Indices : t[i].name # dest) =>
        \A k \in Indices \ {0, 1} : (t[k].name = src /\ t[k].folder) =>
            \A l \in Indices : TableAt(d, t[k].cluster)[l].name # dest

DestOK(d, w) ==
    LET cmd == w.cmd
        t   == TableAt(d, w.cluster) IN
    /\ cmd = [pc |-> "mv_dest", src |-> cmd.src, dest |-> cmd.dest, folder |-> cmd.folder,
              src_table |-> cmd.src_table]
    /\ cmd.src \in Names /\ cmd.dest \in Names
    /\ \E k \in Indices : t[k].used /\ t[k].name = cmd.src /\ Remembers(d, cmd, t[k])
    /\ IntoFolder(d, t, cmd.src, cmd.dest) /\ FreeName(d, t, cmd.src, cmd.dest)

Renamed(t, k, n) == [t EXCEPT ![k].name = n]

RenameRec(cmd) == cmd = [pc |-> cmd.pc, src |-> cmd.src, dest |-> cmd.dest, folder |-> cmd.folder,
                         src_table |-> cmd.src_table]
RenameOK(d, w) ==
    LET t == TableAt(d, w.cluster) IN
    /\ RenameRec(w.cmd)
    /\ \E k : /\ RenamePlan(d, w.cluster, k, w.cmd.dest)
              /\ w.cwd = Renamed(t, k, w.cmd.dest) /\ Remembers(d, w.cmd, t[k])

CutRec(cmd) == cmd = [pc |-> cmd.pc, src |-> cmd.src, dest |-> cmd.dest, folder |-> cmd.folder,
                      src_table |-> cmd.src_table, dest_table |-> cmd.dest_table]
Pastes(d, w, k, there, j) ==
    LET t == TableAt(d, w.cluster) IN
    /\ MovePlan(d, w.cluster, k, there, j)
    /\ w.cmd.dest_table = WithEntry(TableAt(d, there), j, t[k]) /\ Remembers(d, w.cmd, t[k])
CutOK(d, w) ==
    /\ CutRec(w.cmd)
    /\ \E k, there, j : /\ Pastes(d, w, k, there, j)
                        /\ w.cwd = WithEntry(TableAt(d, w.cluster), k, EmptyEntry)

\* After a write of mv: the disk as it was, and what has been written.
SelfOK(d, m, w) ==
    /\ RenameRec(w.cmd)
    /\ \E old, k : LET t == TableAt(old, w.cluster) IN
         /\ Sound(old, m) /\ RenamePlan(old, w.cluster, k, w.cmd.dest) /\ Remembers(old, w.cmd, t[k])
         /\ t[k].folder /\ Written(old, d, w.cluster, Table(Renamed(t, k, w.cmd.dest)))
CutWritten(old, d, w, k) == Written(old, d, w.cluster, Table(WithEntry(TableAt(old, w.cluster), k, EmptyEntry)))
PasteOK(d, m, w) ==
    /\ CutRec(w.cmd)
    /\ \E old, k, there, j : Sound(old, m) /\ Pastes(old, w, k, there, j) /\ CutWritten(old, d, w, k)
RelinkOK(d, m, w) ==
    /\ CutRec(w.cmd)
    /\ \E old, cut, k, there, j :
         /\ Sound(old, m) /\ Pastes(old, w, k, there, j) /\ CutWritten(old, cut, w, k)
         /\ TableAt(old, w.cluster)[k].folder /\ Written(cut, d, there, Table(w.cmd.dest_table))

FindOK(d, w) ==
    LET cmd == w.cmd IN
    /\ cmd = [pc |-> "find", name |-> cmd.name, level |-> cmd.level, old |-> cmd.old]
    /\ cmd.level \in Seq(Nat) /\ Len(cmd.level) \in 1 .. MaxDepth
    /\ w.cwd[0].cluster \in LiveDirs(d) /\ w.cwd[1].cluster \in LiveDirs(d)
    /\ cmd.old.cluster \in LiveDirs(d) /\ cmd.old.cwd = TableAt(d, cmd.old.cluster)

\* A shell's state, whatever its command does.
Form(w) ==
    /\ w = [cwd |-> w.cwd, cluster |-> w.cluster, rootDir |-> w.rootDir, cmd |-> w.cmd]
    /\ w.cwd \in Tables /\ w.rootDir \in Tables /\ w.cluster \in Clusters
    /\ w.cmd.pc \in ShellPCs
    /\ w.cmd.pc # "main" => \A i \in {0, 1} : w.rootDir[i].cluster = ROOT_CLUSTER_NUMBER

\* Where it stands, and what it knows of it.
Stands(d, o, w) ==
    /\ w.cmd.pc \notin {"main"} \cup Mid => w.cluster \in LiveDirs(d)
    /\ w.cmd.pc \in {"prompt", "cp_write", "mv_dest"} => w.cwd = TableAt(d, w.cluster)
    /\ o # Idle => w.cmd.pc \in {"refresh", "cp_done"}
    /\ o.pc = "d_parent" => o.parent = w.cluster

Commanded(d, m, w) ==
    LET pc == w.cmd.pc IN
    /\ pc = "cp_write" => CopyOK(w.cmd)
    /\ pc = "mv_dest" => DestOK(d, w)
    /\ pc = "mv_rename" => RenameOK(d, w)
    /\ pc = "mv_cut" => CutOK(d, w)
    /\ pc = "mv_self" => SelfOK(d, m, w)
    /\ pc = "mv_paste" => PasteOK(d, m, w)
    /\ pc = "mv_relink" => RelinkOK(d, m, w)
    /\ pc = "find" => FindOK(d, w)

WorkerOK(d, m, o, w) == Form(w) /\ Stands(d, o, w) /\ Commanded(d, m, w)

ShellInv ==
    /\ shell = [s \in Shells |-> shell[s]] /\ crashes = 0
    /\ \A s \in Shells : WorkerOK(disk, fat, op, shell[s])
    /\ (\A s \in Shells : shell[s].cmd.pc \notin Mid) => Steady

\* The state of every shell, that is of the only one.
All(f, w) == f = [t \in Shells |-> w]

\* A step of the only shell.
LEMMA Stepped ==
    ASSUME ShellOrdinary, NEW s \in Shells, NEW w, All(shell', w), crashes' = 0,
           WorkerOK(disk', fat', op', w), w.cmd.pc \notin Mid => Steady'
    PROVE  ShellInv'
<1>1. \A t \in Shells : shell'[t] = w
  BY DEF All
<1>2. shell' = [t \in Shells |-> shell'[t]]
  BY <1>1 DEF All
<1>3. (\A t \in Shells : shell'[t].cmd.pc \notin Mid) => w.cmd.pc \notin Mid
  BY <1>1
<1> QED
  BY <1>1, <1>2, <1>3 DEF ShellInv

\* The shell's state after the ways in which an action writes it.
Worker(cwd, cluster, rootDir, cmd) == [cwd |-> cwd, cluster |-> cluster, rootDir |-> rootDir, cmd |-> cmd]

\* The only shell becomes w.
LEMMA Becomes ==
    ASSUME ShellOrdinary, NEW s \in Shells, shell = [t \in Shells |-> shell[t]], NEW w,
           shell' = [shell EXCEPT ![s] = w]
    PROVE  All(shell', w)
BY DEF ShellOrdinary, All

\* A shell that makes a system call while the tree is as it should be.
LEMMA Ready ==
    ASSUME ShellOrdinary, ShellInv, NEW s \in Shells, NEW pc, At(s, pc), pc \notin Mid
    PROVE  /\ op = Idle /\ shell[s].cmd.pc = pc /\ crashes = 0 /\ shell = [t \in Shells |-> shell[t]]
           /\ Form(shell[s]) /\ Stands(disk, op, shell[s]) /\ Commanded(disk, fat, shell[s])
           /\ Steady /\ Sound(disk, fat)
<1>1. op = Idle /\ shell[s].cmd.pc = pc
  BY DEF At
<1>2. \A t \in Shells : t = s
  BY DEF ShellOrdinary
<1>3. Steady
  BY <1>1, <1>2 DEF ShellInv
<1> QED
  BY <1>1, <1>3, SteadySound DEF ShellInv, WorkerOK

\* A step that leaves the driver alone.
LEMMA Quiet ==
    ASSUME DriverQuiet PROVE disk' = disk /\ fat' = fat /\ op' = op /\ crashes' = crashes /\ (Steady => Steady')
BY DEF DriverQuiet, Steady, DriverInv, ContentInv

\* A step that sets the command of the only shell.
LEMMA SetsCommand ==
    ASSUME ShellOrdinary, NEW s \in Shells, shell = [t \in Shells |-> shell[t]], Form(shell[s]), NEW c,
           shell' = [shell EXCEPT ![s].cmd = c]
    PROVE  All(shell', Worker(shell[s].cwd, shell[s].cluster, shell[s].rootDir, c))
<1> DEFINE w == [shell[s] EXCEPT !.cmd = c]
<1>1. w = Worker(shell[s].cwd, shell[s].cluster, shell[s].rootDir, c)
  BY DEF Form, Worker
<1>2. shell'[s] = w /\ shell' = [t \in Shells |-> shell'[t]]
  OBVIOUS
<1> HIDE DEF w
<1>3. All(shell', w)
  BY <1>2 DEF All, ShellOrdinary
<1> QED
  BY <1>1, <1>3

\* A step that sets its copy of the directory, and the command.
LEMMA SetsTable ==
    ASSUME ShellOrdinary, NEW s \in Shells, shell = [t \in Shells |-> shell[t]], Form(shell[s]), NEW a, NEW c,
           shell' = [shell EXCEPT ![s].cwd = a, ![s].cmd = c]
    PROVE  All(shell', Worker(a, shell[s].cluster, shell[s].rootDir, c))
<1> DEFINE v == [shell[s] EXCEPT !.cwd = a]
           w == [v EXCEPT !.cmd = c]
<1>1. w = Worker(a, shell[s].cluster, shell[s].rootDir, c)
  <2>1. v = Worker(a, shell[s].cluster, shell[s].rootDir, shell[s].cmd)
    BY DEF Form, Worker
  <2> HIDE DEF v
  <2> QED
    BY <2>1 DEF Worker
<1>2. shell'[s] = w /\ shell' = [t \in Shells |-> shell'[t]]
  OBVIOUS
<1> HIDE DEF w
<1>3. All(shell', w)
  BY <1>2 DEF All, ShellOrdinary
<1> QED
  BY <1>1, <1>3

\* The fields of a shell.
LEMMA WorkerFields ==
    ASSUME NEW a, NEW b, NEW r, NEW c
    PROVE  LET w == Worker(a, b, r, c) IN
           /\ w.cwd = a /\ w.cluster = b /\ w.rootDir = r /\ w.cmd = c
           /\ w = [cwd |-> w.cwd, cluster |-> w.cluster, rootDir |-> w.rootDir, cmd |-> w.cmd]
BY DEF Worker

\* A table of the root's: what main keeps for find.
RootTable(t) == t \in Tables /\ \A i \in {0, 1} : t[i].cluster = ROOT_CLUSTER_NUMBER

\* At its prompt, in a directory it has just read.
LEMMA AtPrompt ==
    ASSUME NEW d, NEW m, Sound(d, m), NEW c \in LiveDirs(d), NEW r, RootTable(r)
    PROVE  WorkerOK(d, m, Idle, Worker(TableAt(d, c), c, r, Prompt))
<1> DEFINE w == Worker(TableAt(d, c), c, r, Prompt)
<1>1. w.cwd = TableAt(d, c) /\ w.cluster = c /\ w.rootDir = r /\ w.cmd = Prompt
  BY WorkerFields
<1>2. w.cmd.pc = "prompt"
  BY <1>1 DEF Prompt
<1>3. w = [cwd |-> w.cwd, cluster |-> w.cluster, rootDir |-> w.rootDir, cmd |-> w.cmd]
  BY WorkerFields
<1> HIDE DEF w
<1>4. c \in Clusters /\ TableAt(d, c) \in Tables
  BY LinksLive
<1>5. Form(w)
  BY <1>1, <1>2, <1>3, <1>4 DEF Form, ShellPCs, RootTable
<1>6. Stands(d, Idle, w)
  BY <1>1, <1>2, IdleFacts DEF Stands
<1>7. Commanded(d, m, w)
  BY <1>2 DEF Commanded
<1> QED
  BY <1>5, <1>6, <1>7 DEF WorkerOK, w

\* Waiting for the end of a system call, after which it reads the directory again.
LEMMA AtRefresh ==
    ASSUME NEW d, NEW m, NEW o, NEW a \in Tables, NEW c \in LiveDirs(d), c \in Clusters, NEW r, RootTable(r), NEW cmd,
           cmd.pc \in {"refresh", "cp_done"}, o.pc = "d_parent" => o.parent = c
    PROVE  WorkerOK(d, m, o, Worker(a, c, r, cmd)) /\ cmd.pc \notin Mid
<1> DEFINE w == Worker(a, c, r, cmd)
<1>1. w.cwd = a /\ w.cluster = c /\ w.rootDir = r /\ w.cmd = cmd
  BY WorkerFields
<1>2. w = [cwd |-> w.cwd, cluster |-> w.cluster, rootDir |-> w.rootDir, cmd |-> w.cmd]
  BY WorkerFields
<1> HIDE DEF w
<1>3. w.cmd.pc \in {"refresh", "cp_done"}
  BY <1>1
<1>4. Form(w)
  BY <1>1, <1>2, <1>3 DEF Form, ShellPCs, RootTable
<1>5. Stands(d, o, w)
  BY <1>1, <1>3 DEF Stands
<1>6. Commanded(d, m, w)
  BY <1>3 DEF Commanded
<1>7. cmd.pc \notin Mid
  BY DEF Mid
<1> QED
  BY <1>4, <1>5, <1>6, <1>7 DEF WorkerOK, w

\* A command of one system call that ends at the prompt with a fresh copy.
LEMMA Prompted ==
    ASSUME ShellOrdinary, ShellInv, NEW s \in Shells, NEW pc, At(s, pc), pc \notin Mid, DriverQuiet,
           NEW c \in LiveDirs(disk), NEW r, RootTable(r),
           All(shell', Worker(TableAt(disk, c), c, r, Prompt))
    PROVE  ShellInv'
<1> DEFINE w == Worker(TableAt(disk, c), c, r, Prompt)
<1>1. op = Idle /\ crashes = 0 /\ Steady /\ Sound(disk, fat)
  BY Ready
<1>2. disk' = disk /\ fat' = fat /\ op' = op /\ crashes' = crashes /\ Steady'
  BY <1>1, Quiet
<1>3. WorkerOK(disk, fat, Idle, w)
  BY <1>1, AtPrompt
<1>4. WorkerOK(disk', fat', op', w)
  BY <1>1, <1>2, <1>3
<1> HIDE DEF w
<1> QED
  BY <1>1, <1>2, <1>4, Stepped DEF w

\* main: the root's table is the one that holds its own name.
LEMMA MainStep ==
    ASSUME ShellOrdinary, ShellInv, NEW s \in Shells, main(s) PROVE ShellInv'
<1> DEFINE root == ROOT_CLUSTER_NUMBER
           t == TableAt(disk, root)
           r == read_directory(root, RootName)
<1>1. At(s, "main") /\ DriverQuiet /\ "main" \notin Mid
  BY DEF main, Mid
<1>2. shell = [u \in Shells |-> shell[u]] /\ Sound(disk, fat)
  BY <1>1, Ready
<1>3. /\ root \in LiveDirs(disk) /\ RootOK(disk) /\ t \in Tables
      /\ DirOK(disk, root)
  <2>1. disk \in Disks /\ TreeOK(disk) /\ RootOK(disk)
    BY <1>2 DEF Sound
  <2>2. root \in LiveDirs(disk)
    BY <2>1, TreeFacts, LiveLeast
  <2> QED
    BY <1>2, <2>1, <2>2, LinksLive
<1>4. t[0].used /\ t[0].folder /\ t[0].name = RootName /\ t[0].cluster = root /\ t[1].cluster = root
  BY <1>3 DEF DirOK, RootOK
<1>5. r.retcode = 0 /\ r.table = t
  <2>1. /\ r.retcode \in {0, 1, 2}
        /\ r.retcode = 2 <=> \A i \in Indices : ~ (t[i].used /\ t[i].name = RootName)
        /\ r.retcode # 2 => \E i \in Indices :
             /\ t[i].used /\ t[i].name = RootName
             /\ \A l \in Indices : t[l].used /\ t[l].name = RootName => i <= l
             /\ r.retcode = 0 <=> t[i].folder
             /\ r.retcode = 0 => r.table = TableAt(disk, t[i].cluster)
    BY Lookup
  <2> HIDE DEF r, t
  <2>2. r.retcode # 2
    BY <1>4, <2>1, ClusterFacts
  <2>3. PICK i \in Indices :
             /\ \A l \in Indices : t[l].used /\ t[l].name = RootName => i <= l
             /\ r.retcode = 0 <=> t[i].folder
             /\ r.retcode = 0 => r.table = TableAt(disk, t[i].cluster)
    BY <2>1, <2>2
  <2>4. i = 0
    <3>1. i <= 0 /\ i \in Nat
      BY <1>4, <2>3, ClusterFacts
    <3> QED
      BY <3>1
  <2>5. r.retcode = 0 /\ r.table = TableAt(disk, root)
    BY <1>4, <2>3, <2>4
  <2> QED
    BY <2>5 DEF t
<1>6. shell' = [shell EXCEPT ![s] = [cwd |-> t, cluster |-> t[0].cluster, rootDir |-> t, cmd |-> Prompt]]
  BY <1>5 DEF main
<1> HIDE DEF t, r
<1>7. All(shell', Worker(t, root, t, Prompt))
  BY <1>2, <1>4, <1>6, Becomes DEF Worker
<1>8. RootTable(t)
  BY <1>3, <1>4 DEF RootTable
<1> QED
  BY <1>1, <1>3, <1>7, <1>8, Prompted DEF t

\* Reading the current directory again, at the end of most commands.
LEMMA RefreshStep ==
    ASSUME ShellOrdinary, ShellInv, NEW s \in Shells, Refresh(s) \/ cp_done(s) PROVE ShellInv'
<1> DEFINE c == shell[s].cluster
<1>1. PICK pc \in {"refresh", "cp_done"} : At(s, pc)
  BY DEF Refresh, cp_done
<1>2. pc \notin Mid /\ pc \notin {"main"} \cup Mid
  BY DEF Mid
<1>3. /\ DriverQuiet
      /\ shell' = [shell EXCEPT ![s].cwd = TableAt(disk, c), ![s].cmd = Prompt]
  BY DEF Refresh, cp_done
<1>4. /\ shell[s].cmd.pc = pc /\ shell = [t \in Shells |-> shell[t]] /\ Form(shell[s]) /\ Stands(disk, op, shell[s])
  BY <1>1, <1>2, Ready
<1>5. c \in LiveDirs(disk) /\ RootTable(shell[s].rootDir)
  BY <1>2, <1>4 DEF Stands, Form, RootTable
<1>6. All(shell', Worker(TableAt(disk, c), c, shell[s].rootDir, Prompt))
  BY <1>3, <1>4, SetsTable
<1> QED
  BY <1>1, <1>2, <1>3, <1>5, <1>6, Prompted

\* cd ..: the parent's table, and the cluster it says it is.
LEMMA CdParent ==
    ASSUME NEW w, Form(w), Sound(disk, fat), w.cwd[1].cluster \in LiveDirs(disk)
    PROVE  cd_parent(w) = Worker(TableAt(disk, w.cwd[1].cluster), w.cwd[1].cluster, w.rootDir, w.cmd)
<1> DEFINE c == w.cwd[1].cluster
           t == TableAt(disk, c)
           v == [w EXCEPT !.cwd = t]
<1>1. t[0].cluster = c
  BY LinksLive
<1>2. cd_parent(w) = [v EXCEPT !.cluster = c]
  BY <1>1 DEF cd_parent
<1> HIDE DEF c, t
<1>3. v = Worker(t, w.cluster, w.rootDir, w.cmd)
  BY DEF Form, Worker
<1> HIDE DEF v
<1>4. cd_parent(w) = Worker(t, c, w.rootDir, w.cmd)
  BY <1>2, <1>3 DEF Worker
<1> QED
  BY <1>4 DEF c, t

\* cd into a folder: it stays, or stands in a live directory.
LEMMA CdInto ==
    ASSUME NEW w, Form(w), Sound(disk, fat), w.cluster \in LiveDirs(disk), NEW name
    PROVE  \/ cd_into(w, name) = w
           \/ cd_into(w, name) = Worker(w.cwd, w.cwd[0].cluster, w.rootDir, w.cmd)
           \/ \E c \in LiveDirs(disk) : cd_into(w, name) = Worker(TableAt(disk, c), c, w.rootDir, w.cmd)
<1> DEFINE r == read_directory(w.cluster, name)
           t == IF r.retcode = 0 THEN r.table ELSE w.cwd
           v == [w EXCEPT !.cwd = t]
           u == [v EXCEPT !.cluster = t[0].cluster]
<1>1. cd_into(w, name) = w \/ cd_into(w, name) = u
  BY DEF cd_into
<1>2. u = Worker(t, t[0].cluster, w.rootDir, w.cmd)
  <2> HIDE DEF t
  <2>1. v = Worker(t, w.cluster, w.rootDir, w.cmd)
    BY DEF Form, Worker
  <2> HIDE DEF v
  <2> QED
    BY <2>1 DEF Worker
<1>3. r.retcode = 0 => \E c \in LiveDirs(disk) : r.table = TableAt(disk, c)
  <2> SUFFICES ASSUME r.retcode = 0 PROVE \E c \in LiveDirs(disk) : r.table = TableAt(disk, c)
    OBVIOUS
  <2>1. PICK i \in Indices : /\ TableAt(disk, w.cluster)[i].used /\ TableAt(disk, w.cluster)[i].folder
                             /\ r.table = TableAt(disk, TableAt(disk, w.cluster)[i].cluster)
    BY Lookup
  <2> QED
    BY <2>1, LinksLive
<1> HIDE DEF u, r
<1>4. CASE r.retcode = 0
  <2>1. PICK c \in LiveDirs(disk) : r.table = TableAt(disk, c)
    BY <1>3, <1>4
  <2>2. t = TableAt(disk, c) /\ t[0].cluster = c
    BY <1>4, <2>1, LinksLive
  <2> QED
    BY <1>1, <1>2, <2>2
<1>5. CASE r.retcode # 0
  BY <1>1, <1>2, <1>5
<1> QED
  BY <1>4, <1>5

\* A shell with another command.
LEMMA WorkerCommand ==
    ASSUME NEW a, NEW b, NEW r, NEW c, NEW e
    PROVE  [Worker(a, b, r, c) EXCEPT !.cmd = e] = Worker(a, b, r, e)
BY DEF Worker

\* A shell at its prompt.
LEMMA Prompting ==
    ASSUME ShellOrdinary, ShellInv, NEW s \in Shells, At(s, "prompt")
    PROVE  LET w == shell[s] IN
           /\ op = Idle /\ crashes = 0 /\ Steady /\ Sound(disk, fat) /\ Ordinary
           /\ shell = [t \in Shells |-> shell[t]] /\ Form(w) /\ RootTable(w.rootDir)
           /\ w.cluster \in LiveDirs(disk) /\ w.cluster \in Clusters /\ w.cwd = TableAt(disk, w.cluster)
           /\ w.cwd \in Tables /\ w.cwd[0].cluster = w.cluster /\ w.cwd[1].cluster \in LiveDirs(disk)
           /\ "prompt" \notin Mid
<1>1. "prompt" \notin Mid /\ "prompt" \notin {"main"} \cup Mid /\ "prompt" # "main"
  BY DEF Mid
<1>2. /\ op = Idle /\ crashes = 0 /\ Steady /\ Sound(disk, fat) /\ shell[s].cmd.pc = "prompt"
      /\ shell = [t \in Shells |-> shell[t]] /\ Form(shell[s]) /\ Stands(disk, op, shell[s])
  BY <1>1, Ready
<1>3. shell[s].cluster \in LiveDirs(disk) /\ shell[s].cwd = TableAt(disk, shell[s].cluster)
  BY <1>1, <1>2 DEF Stands
<1>4. RootTable(shell[s].rootDir) /\ shell[s].cluster \in Clusters /\ shell[s].cwd \in Tables
  BY <1>1, <1>2 DEF Form, RootTable
<1>5. shell[s].cwd[0].cluster = shell[s].cluster /\ shell[s].cwd[1].cluster \in LiveDirs(disk)
  BY <1>2, <1>3, LinksLive
<1> QED
  BY <1>1, <1>2, <1>3, <1>4, <1>5 DEF ShellOrdinary

\* cd keeps the invariant.
LEMMA CdStep ==
    ASSUME ShellOrdinary, ShellInv, NEW s \in Shells, cd(s) PROVE ShellInv'
<1> DEFINE w == shell[s]
           root == w.rootDir
<1>1. At(s, "prompt") /\ DriverQuiet
  BY DEF cd, Typed
<1>2. /\ Sound(disk, fat) /\ shell = [t \in Shells |-> shell[t]] /\ Form(w) /\ RootTable(root)
      /\ w.cluster \in LiveDirs(disk) /\ w.cwd = TableAt(disk, w.cluster)
      /\ w.cwd[0].cluster = w.cluster /\ w.cwd[1].cluster \in LiveDirs(disk)
      /\ "prompt" \notin Mid
  BY <1>1, Prompting
<1>3. PICK v \in {cd_parent(w)} \cup {cd_into(w, n) : n \in Names} :
        shell' = [shell EXCEPT ![s] = [v EXCEPT !.cmd = Prompt]]
  BY DEF cd
<1>4. \E c \in LiveDirs(disk) : v = Worker(TableAt(disk, c), c, root, w.cmd)
  <2>1. CASE v = cd_parent(w)
    BY <1>2, <2>1, CdParent
  <2>2. CASE v \in {cd_into(w, n) : n \in Names}
    <3>1. PICK n \in Names : v = cd_into(w, n)
      BY <2>2
    <3>2. w = Worker(w.cwd, w.cluster, root, w.cmd)
      BY <1>2 DEF Form, Worker
    <3>3. \/ v = w \/ v = Worker(w.cwd, w.cwd[0].cluster, root, w.cmd)
          \/ \E c \in LiveDirs(disk) : v = Worker(TableAt(disk, c), c, root, w.cmd)
      BY <1>2, <3>1, CdInto
    <3> QED
      BY <1>2, <3>2, <3>3
  <2> QED
    BY <2>1, <2>2
<1>5. PICK c \in LiveDirs(disk) : v = Worker(TableAt(disk, c), c, root, w.cmd)
  BY <1>4
<1>6. [v EXCEPT !.cmd = Prompt] = Worker(TableAt(disk, c), c, root, Prompt)
  BY <1>5, WorkerCommand
<1>7. All(shell', Worker(TableAt(disk, c), c, root, Prompt))
  BY <1>2, <1>3, <1>6, Becomes
<1> QED
  BY <1>1, <1>2, <1>7, Prompted

-----------------------------------------------------------------------------
(***************************************************************************)
(* Commands that call the driver.                                           *)
(***************************************************************************)

\* The checks of write change no disk, and leave the driver's invariant.
LEMMA StartsWrite ==
    ASSUME Ordinary, Steady, NEW parent \in LiveDirs(disk), NEW name \in Names, NEW size \in Sizes,
           NEW payload \in Payloads, WriteStart(parent, name, size, payload)
    PROVE  Steady' /\ disk' = disk /\ fat' = fat /\ crashes' = 0 /\ op'.pc # "d_parent"
<1>1. DriverInv' /\ disk' = disk /\ op'.pc \in {"w_child", "w_fat"}
  BY WriteStartStep DEF Steady
<1>2. fat' = fat /\ crashes' = crashes /\ crashes = 0
  BY DEF WriteStart, Steady
<1>3. ContentInv'
  <2>1. Next
    BY DEF Next, Start
  <2> QED
    BY <2>1, ContentStep DEF Steady
<1> QED
  BY <1>1, <1>2, <1>3 DEF Steady, RootOK, WritePCs

\* So do those of delete.
LEMMA StartsDelete ==
    ASSUME Ordinary, Steady, NEW parent \in LiveDirs(disk), NEW name \in Names, DeleteStart(parent, name)
    PROVE  Steady' /\ disk' = disk /\ fat' = fat /\ crashes' = 0 /\ op'.parent = parent
<1>1. DriverInv'
  BY DeleteStartStep DEF Steady
<1>2. /\ disk' = disk /\ fat' = fat /\ crashes' = crashes /\ crashes = 0
      /\ op'.pc = "d_parent" /\ op'.parent = parent
  BY DEF DeleteStart, Steady
<1>3. ContentInv'
  <2>1. Next
    BY DEF Next, Start
  <2> QED
    BY <2>1, ContentStep DEF Steady
<1> QED
  BY <1>1, <1>2, <1>3 DEF Steady, RootOK, DeletePCs

\* A shell that stands in a directory of the tree and holds a fresh copy of it.
LEMMA Standing ==
    ASSUME ShellOrdinary, ShellInv, NEW s \in Shells, NEW pc \in {"prompt", "cp_write", "mv_dest"}, At(s, pc)
    PROVE  LET w == shell[s] IN
           /\ op = Idle /\ crashes = 0 /\ Steady /\ Sound(disk, fat) /\ Ordinary
           /\ shell = [t \in Shells |-> shell[t]] /\ Form(w) /\ RootTable(w.rootDir)
           /\ w.cluster \in LiveDirs(disk) /\ w.cluster \in Clusters /\ w.cwd = TableAt(disk, w.cluster)
           /\ w.cwd \in Tables /\ pc \notin Mid /\ w.cmd.pc = pc /\ Commanded(disk, fat, w)
<1>1. pc \notin Mid /\ pc \notin {"main"} \cup Mid /\ pc # "main"
  BY DEF Mid
<1>2. /\ op = Idle /\ crashes = 0 /\ Steady /\ Sound(disk, fat) /\ shell[s].cmd.pc = pc
      /\ shell = [t \in Shells |-> shell[t]] /\ Form(shell[s]) /\ Stands(disk, op, shell[s])
      /\ Commanded(disk, fat, shell[s])
  BY <1>1, Ready
<1>3. shell[s].cluster \in LiveDirs(disk) /\ shell[s].cwd = TableAt(disk, shell[s].cluster)
  BY <1>1, <1>2 DEF Stands
<1>4. RootTable(shell[s].rootDir) /\ shell[s].cluster \in Clusters /\ shell[s].cwd \in Tables
  BY <1>1, <1>2 DEF Form, RootTable
<1> QED
  BY <1>1, <1>2, <1>3, <1>4 DEF ShellOrdinary

\* A command that is over: the copy it stands on is as fresh as it was.
LEMMA Finished ==
    ASSUME ShellOrdinary, ShellInv, NEW s \in Shells, NEW pc \in {"prompt", "cp_write", "mv_dest"}, At(s, pc),
           Finish(s), DriverQuiet
    PROVE  ShellInv'
<1> DEFINE w == shell[s]
<1>1. /\ shell = [t \in Shells |-> shell[t]] /\ Form(w) /\ RootTable(w.rootDir)
      /\ w.cluster \in LiveDirs(disk) /\ w.cwd = TableAt(disk, w.cluster) /\ pc \notin Mid
  BY Standing
<1>2. All(shell', Worker(w.cwd, w.cluster, w.rootDir, Prompt))
  BY <1>1, SetsCommand DEF Finish, Goto
<1>3. All(shell', Worker(TableAt(disk, w.cluster), w.cluster, w.rootDir, Prompt))
  BY <1>1, <1>2
<1> QED
  BY <1>1, <1>3, Prompted

\* A command that has called the driver, or was refused by it.
LEMMA Called ==
    ASSUME ShellOrdinary, ShellInv, NEW s \in Shells, NEW pc \in {"prompt", "cp_write", "mv_dest"}, At(s, pc),
           NEW cmd, cmd.pc \in {"refresh", "cp_done"}, Goto(s, cmd), Steady', disk' = disk, crashes' = 0,
           op'.pc = "d_parent" => op'.parent = shell[s].cluster
    PROVE  ShellInv'
<1> DEFINE w == shell[s]
           v == Worker(w.cwd, w.cluster, w.rootDir, cmd)
<1>1. /\ shell = [t \in Shells |-> shell[t]] /\ Form(w) /\ RootTable(w.rootDir)
      /\ w.cluster \in LiveDirs(disk) /\ w.cluster \in Clusters /\ w.cwd \in Tables
  BY Standing
<1>2. All(shell', v)
  BY <1>1, SetsCommand DEF Goto
<1>3. w.cluster \in LiveDirs(disk')
  BY <1>1
<1>4. WorkerOK(disk', fat', op', v)
  BY <1>1, <1>3, AtRefresh
<1> HIDE DEF v
<1> QED
  BY <1>2, <1>4, Stepped

\* mkdir and rm: the driver starts, or refuses.
LEMMA MkdirStep ==
    ASSUME ShellOrdinary, ShellInv, NEW s \in Shells, NEW name \in Names, mkdir(s, name) PROVE ShellInv'
<1> DEFINE c == shell[s].cluster
           cmd == [pc |-> "refresh"]
<1>1. At(s, "prompt") /\ Goto(s, cmd)
  BY DEF mkdir, Typed
<1>2. /\ c \in LiveDirs(disk) /\ Steady /\ Ordinary /\ op = Idle /\ crashes = 0
  BY <1>1, Prompting
<1>3. Steady' /\ disk' = disk /\ crashes' = 0 /\ op'.pc # "d_parent"
  <2>1. CASE \E payload \in Payloads : WriteStart(c, name, 0, payload)
    <3>1. 0 \in Sizes
      BY SizesAssumption
    <3> QED
      BY <1>2, <2>1, <3>1, StartsWrite
  <2>2. CASE DriverQuiet
    BY <1>2, <2>2, Quiet, IdleFacts
  <2> QED
    BY <2>1, <2>2 DEF mkdir
<1> QED
  BY <1>1, <1>3, Called

\* rm keeps the invariant.
LEMMA RmStep ==
    ASSUME ShellOrdinary, ShellInv, NEW s \in Shells, NEW name \in Names, rm(s, name) PROVE ShellInv'
<1> DEFINE c == shell[s].cluster
           cmd == [pc |-> "refresh"]
<1>1. At(s, "prompt") /\ Goto(s, cmd)
  BY DEF rm, Typed
<1>2. /\ c \in LiveDirs(disk) /\ Steady /\ Ordinary /\ op = Idle /\ crashes = 0
  BY <1>1, Prompting
<1>3. Steady' /\ disk' = disk /\ crashes' = 0 /\ (op'.pc = "d_parent" => op'.parent = c)
  <2>1. CASE DeleteStart(c, name)
    BY <1>2, <2>1, StartsDelete
  <2>2. CASE DriverQuiet
    BY <1>2, <2>2, Quiet, IdleFacts
  <2> QED
    BY <2>1, <2>2 DEF rm
<1> QED
  BY <1>1, <1>3, Called

\* cp's write: a file of whole clusters, with what the first cluster held.
LEMMA CpWriteStep ==
    ASSUME ShellOrdinary, ShellInv, NEW s \in Shells, cp_write(s) PROVE ShellInv'
<1> DEFINE c == shell[s].cluster
           cmd == shell[s].cmd
           name == Overlay[<<cmd.src, cmd.dest>>]
           next == [cmd EXCEPT !.pc = "cp_done"]
<1>1. At(s, "cp_write")
  BY DEF cp_write
<1>2. /\ c \in LiveDirs(disk) /\ Steady /\ Ordinary /\ op = Idle /\ crashes = 0 /\ CopyOK(cmd)
  BY <1>1, Standing DEF Commanded
<1>3. name \in Names /\ next.pc = "cp_done"
  BY <1>2, ShellAssumption DEF CopyOK
<1>7. \/ WriteStart(c, name, cmd.size, PayloadOf(cmd.data)) /\ Goto(s, next)
      \/ Finish(s) /\ DriverQuiet
      \/ Goto(s, next) /\ DriverQuiet
  BY DEF cp_write
<1> HIDE DEF next, name
<1>4. CASE WriteStart(c, name, cmd.size, PayloadOf(cmd.data)) /\ Goto(s, next)
  <2>1. Steady' /\ disk' = disk /\ crashes' = 0 /\ op'.pc # "d_parent"
    BY <1>2, <1>3, <1>4, StartsWrite DEF CopyOK
  <2> QED
    BY <1>1, <1>3, <1>4, <2>1, Called
<1>5. CASE Finish(s) /\ DriverQuiet
  BY <1>1, <1>5, Finished
<1>6. CASE Goto(s, next) /\ DriverQuiet
  <2>1. Steady' /\ disk' = disk /\ crashes' = 0 /\ op'.pc # "d_parent"
    BY <1>2, <1>6, Quiet, IdleFacts
  <2> QED
    BY <1>1, <1>3, <1>6, <2>1, Called
<1> QED
  BY <1>4, <1>5, <1>6, <1>7

\* What cp reads: a file of the tree that fits its buffer, and whose first piece has a payload.
LEMMA CopyRead ==
    ASSUME Ordinary, Sound(disk, fat), Steady, op = Idle, NEW c \in LiveDirs(disk), NEW src \in Names,
           read_retcode(c, src, CopyClusters * CLUSTER_SIZE) = 0, NEW data,
           data = read_data(disk, fat, TableAt(disk, c)[IndexOfName(TableAt(disk, c), src, 0)].cluster)
    PROVE  Len(data) \in 1 .. CopyClusters /\ PayloadOf(data) \in Payloads
<1> DEFINE size == CopyClusters * CLUSTER_SIZE
           table == TableAt(disk, c)
           i == IndexOfName(table, src, 0)
           e == table[i]
           chain == Chain(fat, e.cluster)
<1>1. size \in Sizes
  BY SizesAssumption, ShellAssumption
<1>2. Len(chain) * CLUSTER_SIZE <= size
  BY <1>1, ReadFits DEF ReadFitsBuffer, Steady
<1>3. i # TABLE_SIZE /\ ~ e.folder
  BY DEF read_retcode
<1>4. disk \in Disks /\ TreeOK(disk) /\ DataOK(disk) /\ fat = FatOf(disk)
  BY DEF Sound
<1>5. i \in Indices /\ e.used
  BY <1>3, <1>4, SearchFinds
<1>6. i \notin {0, 1}
  BY <1>3, <1>4 DEF TreeOK, DirOK
<1>7. <<c, i>> \in LivePlaces(disk) /\ EntryAt(disk, <<c, i>>) = e
  BY <1>4, <1>5, <1>6, PlaceFacts DEF Entries
<1>8. Good(fat, e.cluster)
  BY <1>4, <1>7 DEF TreeOK, PlaceOK
<1>9. /\ Len(chain) \in Nat /\ Len(chain) >= 1 /\ chain[1] = e.cluster
      /\ e.cluster \in ChainSet(fat, e.cluster) /\ e.cluster \in Clusters
  <2> HIDE DEF e
  <2>1. /\ e.cluster \in ChainSet(fat, e.cluster) /\ e.cluster \in DataClusters
        /\ Len(chain) \in 1 .. CLUSTER_MAP_SIZE
    BY <1>8, GoodFacts
  <2>2. chain[1] = e.cluster
    BY <1>8 DEF Good
  <2>3. e.cluster \in Clusters /\ CLUSTER_MAP_SIZE \in Nat
    BY <2>1, ClusterFacts
  <2> HIDE DEF chain
  <2> QED
    BY <2>1, <2>2, <2>3
<1>10. disk[e.cluster].kind = "data"
  BY <1>3, <1>4, <1>7, <1>9 DEF DataOK
<1>11. data = [k \in 1 .. Len(chain) |-> PieceAt(disk, chain[k])]
  BY DEF read_data
<1> HIDE DEF e, i, table, chain, size
<1>12. Len(data) = Len(chain) /\ data[1] = disk[e.cluster].piece
  BY <1>9, <1>10, <1>11 DEF PieceAt
<1>13. Len(chain) <= CopyClusters
  BY <1>2, <1>9, ShellAssumption, FAT32Assumption DEF size
<1>14. PICK p \in Payloads, k \in 1 .. CLUSTER_MAP_SIZE : disk[e.cluster].piece = <<p, k>>
  <2>1. disk[e.cluster] \in Content
    BY <1>4, <1>9 DEF Disks
  <2>2. disk[e.cluster] \in [kind : {"data"}, piece : Payloads \X (1 .. CLUSTER_MAP_SIZE)]
    <3> DEFINE x == disk[e.cluster]
    <3>1. \A t : Table(t).kind = "table" /\ FatBlock(t).kind = "fat"
      BY DEF Table, FatBlock
    <3>2. Zero.kind = "zero" /\ Signature.kind = "signature"
      BY DEF Zero, Signature
    <3>3. \/ x \in Contents \/ (\E t \in Tables : x = Table(t)) \/ (\E m \in Maps : x = FatBlock(m))
      BY <2>1 DEF Content
    <3> HIDE DEF x
    <3>4. x.kind = "data"
      BY <1>10 DEF x
    <3>5. x \in Contents
      BY <3>1, <3>3, <3>4
    <3>6. x # Zero /\ x # Signature
      BY <3>2, <3>4
    <3> QED
      BY <3>5, <3>6 DEF Contents, x
  <2>3. disk[e.cluster].piece \in Payloads \X (1 .. CLUSTER_MAP_SIZE)
    BY <2>2
  <2> QED
    BY <2>3
<1>15. data[1] # <<>>
  <2>1. Len(<<p, k>>) = 2 /\ Len(<<>>) = 0
    OBVIOUS
  <2> QED
    BY <1>12, <1>14, <2>1
<1>16. PayloadOf(data) = p
  BY <1>12, <1>14, <1>15 DEF PayloadOf
<1> QED
  BY <1>9, <1>12, <1>13, <1>16, ShellAssumption

\* How many clusters cp counts: no more than its buffer has.
LEMMA CopyCounted ==
    ASSUME NEW data, Len(data) \in 1 .. CopyClusters, NEW n \in CopyCounts(data)
    PROVE  n * CLUSTER_SIZE \in Sizes
<1> DEFINE blank == {i \in 1 .. Len(data) : data[i] \in BlankPieces}
<1>1. n \in 0 .. CopyClusters
  <2>1. CASE blank # {}
    <3>1. n = Min(blank) - 1
      BY <2>1 DEF CopyCounts
    <3>2. blank \in SUBSET Nat
      BY ShellAssumption
    <3>3. Min(blank) \in blank
      BY <2>1, <3>2, MinElement
    <3> QED
      BY <3>1, <3>3, ShellAssumption
  <2>2. CASE blank = {}
    <3>1. n \in Len(data) .. CopyClusters
      BY <2>2 DEF CopyCounts
    <3> QED
      BY <3>1, ShellAssumption
  <2> QED
    BY <2>1, <2>2
<1> QED
  BY <1>1, SizesAssumption

\* A command that goes on, with the copy it stands on.
LEMMA GoesOn ==
    ASSUME ShellOrdinary, ShellInv, NEW s \in Shells, At(s, "prompt"), DriverQuiet,
           NEW cmd, cmd.pc \in {"cp_write", "mv_dest"}, Goto(s, cmd),
           cmd.pc = "cp_write" => CopyOK(cmd),
           cmd.pc = "mv_dest" =>
             DestOK(disk, Worker(shell[s].cwd, shell[s].cluster, shell[s].rootDir, cmd))
    PROVE  ShellInv'
<1> DEFINE v == shell[s]
           w == Worker(v.cwd, v.cluster, v.rootDir, cmd)
<1>1. /\ op = Idle /\ crashes = 0 /\ Steady /\ shell = [t \in Shells |-> shell[t]] /\ Form(v) /\ RootTable(v.rootDir)
      /\ v.cluster \in LiveDirs(disk) /\ v.cluster \in Clusters /\ v.cwd \in Tables /\ v.cwd = TableAt(disk, v.cluster)
  BY Prompting
<1>2. disk' = disk /\ fat' = fat /\ op' = op /\ crashes' = crashes /\ Steady'
  BY <1>1, Quiet
<1>3. All(shell', w)
  BY <1>1, SetsCommand DEF Goto
<1>4. w.cwd = v.cwd /\ w.cluster = v.cluster /\ w.rootDir = v.rootDir /\ w.cmd = cmd
  BY WorkerFields
<1>5. w = [cwd |-> w.cwd, cluster |-> w.cluster, rootDir |-> w.rootDir, cmd |-> w.cmd]
  BY WorkerFields
<1>6. cmd.pc = "mv_dest" => DestOK(disk, w)
  OBVIOUS
<1> HIDE DEF w, v
<1>7. w.cmd.pc \in {"cp_write", "mv_dest"}
  BY <1>4
<1>8. Form(w)
  BY <1>1, <1>4, <1>5, <1>7 DEF Form, ShellPCs, RootTable
<1>9. Stands(disk, op, w)
  BY <1>1, <1>4, <1>7, IdleFacts DEF Stands
<1>10. Commanded(disk, fat, w)
  BY <1>4, <1>6, <1>7 DEF Commanded
<1>11. WorkerOK(disk', fat', op', w)
  BY <1>2, <1>8, <1>9, <1>10 DEF WorkerOK
<1> QED
  BY <1>1, <1>2, <1>3, <1>11, Stepped

\* cp's read.
LEMMA CpStep ==
    ASSUME ShellOrdinary, ShellInv, NEW s \in Shells, NEW src \in Names, NEW dest \in Names, cp(s, src, dest)
    PROVE  ShellInv'
<1> DEFINE c == shell[s].cluster
           data == read_data(disk, fat, TableAt(disk, c)[IndexOfName(TableAt(disk, c), src, 0)].cluster)
           ret == read_retcode(c, src, CopyClusters * CLUSTER_SIZE)
           cmd(n) == [pc |-> "cp_write", src |-> src, dest |-> dest, data |-> data, size |-> n * CLUSTER_SIZE]
<1>1. At(s, "prompt") /\ DriverQuiet
  BY DEF cp, Typed
<1>2. c \in LiveDirs(disk) /\ Sound(disk, fat) /\ Steady /\ Ordinary /\ op = Idle
  BY <1>1, Prompting
<1>3. \/ ret # 0 /\ Finish(s)
      \/ ret = 0 /\ \E n \in CopyCounts(data) : Goto(s, cmd(n))
  BY DEF cp
<1>4. CASE ret # 0 /\ Finish(s)
  BY <1>1, <1>4, Finished
<1>5. CASE ret = 0 /\ \E n \in CopyCounts(data) : Goto(s, cmd(n))
  <2>1. PICK n \in CopyCounts(data) : Goto(s, cmd(n))
    BY <1>5
  <2>2. Len(data) \in 1 .. CopyClusters /\ PayloadOf(data) \in Payloads
    BY <1>2, <1>5, CopyRead
  <2>3. n * CLUSTER_SIZE \in Sizes
    BY <2>2, CopyCounted
  <2> HIDE DEF data
  <2>4. CopyOK(cmd(n)) /\ cmd(n).pc = "cp_write"
    BY <2>2, <2>3 DEF CopyOK
  <2> HIDE DEF cmd
  <2> QED
    BY <1>1, <2>1, <2>4, GoesOn
<1> QED
  BY <1>3, <1>4, <1>5

-----------------------------------------------------------------------------
(***************************************************************************)
(* find: it stands in live directories, and remembers where it came from.     *)
(***************************************************************************)
FindCmd(name, level, old) == [pc |-> "find", name |-> name, level |-> level, old |-> old]
FindWorker(a, c, r, name, level, old) == Worker(a, c, r, FindCmd(name, level, old))

\* The state of find's recursion, and of the state in which its stack is exhausted.
FindState(d, a, c, level, old) ==
    /\ a \in Tables /\ c \in LiveDirs(d) /\ level \in Seq(Nat) /\ Len(level) \in 1 .. MaxDepth
    /\ a[0].cluster \in LiveDirs(d) /\ a[1].cluster \in LiveDirs(d)
    /\ old.cluster \in LiveDirs(d) /\ old.cwd = TableAt(d, old.cluster)

\* A shell inside the recursion of find.
LEMMA AtFind ==
    ASSUME NEW d, NEW m, NEW a, NEW c \in Clusters, NEW r, RootTable(r), NEW name, NEW level, NEW old,
           FindState(d, a, c, level, old)
    PROVE  /\ WorkerOK(d, m, Idle, FindWorker(a, c, r, name, level, old))
           /\ FindWorker(a, c, r, name, level, old).cmd.pc \notin Mid
<1> DEFINE w == FindWorker(a, c, r, name, level, old)
<1>1. w.cwd = a /\ w.cluster = c /\ w.rootDir = r /\ w.cmd = FindCmd(name, level, old)
  BY WorkerFields DEF FindWorker
<1>2. w = [cwd |-> w.cwd, cluster |-> w.cluster, rootDir |-> w.rootDir, cmd |-> w.cmd]
  BY WorkerFields DEF FindWorker
<1> HIDE DEF w
<1>3. /\ w.cmd.pc = "find" /\ w.cmd.level = level /\ w.cmd.old = old
      /\ w.cmd = [pc |-> "find", name |-> w.cmd.name, level |-> w.cmd.level, old |-> w.cmd.old]
  BY <1>1 DEF FindCmd
<1>4. Form(w)
  BY <1>1, <1>2, <1>3 DEF Form, ShellPCs, RootTable, FindState
<1>5. Stands(d, Idle, w)
  BY <1>1, <1>3, IdleFacts DEF Stands, FindState
<1>6. FindOK(d, w)
  BY <1>1, <1>3 DEF FindOK, FindState
<1>7. Commanded(d, m, w)
  BY <1>3, <1>6 DEF Commanded
<1>8. w.cmd.pc \notin Mid
  BY <1>3 DEF Mid
<1> QED
  BY <1>4, <1>5, <1>7, <1>8 DEF WorkerOK, w

\* A shell whose find has run out of stack.
LEMMA AtOverflow ==
    ASSUME NEW d, NEW m, NEW a \in Tables, NEW c \in Clusters, c \in LiveDirs(d), NEW r, RootTable(r)
    PROVE  LET w == Worker(a, c, r, [pc |-> "overflow"]) IN WorkerOK(d, m, Idle, w) /\ w.cmd.pc \notin Mid
<1> DEFINE w == Worker(a, c, r, [pc |-> "overflow"])
<1>1. w.cwd = a /\ w.cluster = c /\ w.rootDir = r /\ w.cmd = [pc |-> "overflow"]
  BY WorkerFields
<1>2. w = [cwd |-> w.cwd, cluster |-> w.cluster, rootDir |-> w.rootDir, cmd |-> w.cmd]
  BY WorkerFields
<1>3. w.cmd.pc = "overflow"
  BY <1>1
<1> HIDE DEF w
<1>4. Form(w)
  BY <1>1, <1>2, <1>3 DEF Form, ShellPCs, RootTable
<1>5. Stands(d, Idle, w)
  BY <1>1, <1>3, IdleFacts DEF Stands
<1>6. Commanded(d, m, w)
  BY <1>3 DEF Commanded
<1>7. w.cmd.pc \notin Mid
  BY <1>3 DEF Mid
<1> QED
  BY <1>4, <1>5, <1>6, <1>7 DEF WorkerOK, w

\* A worker all of whose fields but the root's copy are set, by a record or by shell's own update.
Redone(w, a, b, c) == [w EXCEPT !.cwd = a, !.cluster = b, !.cmd = c]

\* A shell with a directory and a command put in its place.
LEMMA SetsWorker ==
    ASSUME NEW w, Form(w), NEW a, NEW b, NEW c
    PROVE  Redone(w, a, b, c) = Worker(a, b, w.rootDir, c)
<1> DEFINE u == [w EXCEPT !.cwd = a]
           v == [u EXCEPT !.cluster = b]
<1>1. u = Worker(a, w.cluster, w.rootDir, w.cmd)
  BY DEF Form, Worker
<1> HIDE DEF u
<1>2. v = Worker(a, b, w.rootDir, w.cmd)
  BY <1>1 DEF Worker
<1> HIDE DEF v
<1>3. [v EXCEPT !.cmd = c] = Worker(a, b, w.rootDir, c)
  BY <1>2 DEF Worker
<1> QED
  BY <1>3 DEF u, v, Redone

\* A step that sets its copy, where it stands, and the command.
LEMMA SetsShell ==
    ASSUME ShellOrdinary, NEW s \in Shells, shell = [t \in Shells |-> shell[t]], Form(shell[s]), NEW a, NEW b, NEW c,
           shell' = [shell EXCEPT ![s].cwd = a, ![s].cluster = b, ![s].cmd = c]
    PROVE  All(shell', Worker(a, b, shell[s].rootDir, c))
<1> DEFINE w == Redone(shell[s], a, b, c)
<1>1. w = Worker(a, b, shell[s].rootDir, c)
  BY SetsWorker
<1>2. shell'[s] = w /\ shell' = [t \in Shells |-> shell'[t]]
  BY DEF Redone
<1> HIDE DEF w
<1>3. All(shell', w)
  BY <1>2 DEF All, ShellOrdinary
<1> QED
  BY <1>1, <1>3

\* A step of find that reads at most the tree.
LEMMA Finds ==
    ASSUME ShellOrdinary, ShellInv, NEW s \in Shells, NEW pc, At(s, pc), pc \notin Mid, DriverQuiet,
           NEW a, NEW c \in Clusters, NEW r, RootTable(r), NEW name, NEW level, NEW old,
           FindState(disk, a, c, level, old), All(shell', FindWorker(a, c, r, name, level, old))
    PROVE  ShellInv'
<1> DEFINE w == FindWorker(a, c, r, name, level, old)
<1>1. op = Idle /\ crashes = 0 /\ Steady /\ Sound(disk, fat)
  BY Ready
<1>2. disk' = disk /\ fat' = fat /\ op' = op /\ crashes' = crashes /\ Steady'
  BY <1>1, Quiet
<1>3. WorkerOK(disk, fat, Idle, w) /\ w.cmd.pc \notin Mid
  BY AtFind
<1> HIDE DEF w
<1>4. WorkerOK(disk', fat', op', w)
  BY <1>1, <1>2, <1>3
<1> QED
  BY <1>1, <1>2, <1>4, Stepped DEF w

\* find starts at the copy of the root that main made.
LEMMA FindStep ==
    ASSUME ShellOrdinary, ShellInv, NEW s \in Shells, NEW name \in Names, find(s, name) PROVE ShellInv'
<1> DEFINE w == shell[s]
           root == w.rootDir
           old == [cwd |-> w.cwd, cluster |-> w.cluster]
<1>1. At(s, "prompt") /\ DriverQuiet
  BY DEF find, Typed
<1>2. /\ Sound(disk, fat) /\ shell = [t \in Shells |-> shell[t]] /\ Form(w) /\ RootTable(root)
      /\ w.cluster \in LiveDirs(disk) /\ w.cwd = TableAt(disk, w.cluster) /\ "prompt" \notin Mid
  BY <1>1, Prompting
<1>3. ROOT_CLUSTER_NUMBER \in LiveDirs(disk) /\ ROOT_CLUSTER_NUMBER \in Clusters
  BY <1>2, TreeFacts, LiveLeast, LiveClosed DEF Sound
<1>4. root[0].cluster = ROOT_CLUSTER_NUMBER /\ root[1].cluster = ROOT_CLUSTER_NUMBER /\ root \in Tables
  BY <1>2 DEF RootTable
<1>5. <<2>> \in Seq(Nat) /\ Len(<<2>>) = 1 /\ 1 \in 1 .. MaxDepth
  BY ShellAssumption
<1>6. FindState(disk, root, ROOT_CLUSTER_NUMBER, <<2>>, old)
  BY <1>2, <1>3, <1>4, <1>5 DEF FindState
<1>7. shell' = [shell EXCEPT ![s] = FindWorker(root, ROOT_CLUSTER_NUMBER, root, name, <<2>>, old)]
  <2>1. Redone(w, root, root[0].cluster, FindCmd(name, <<2>>, old))
          = FindWorker(root, ROOT_CLUSTER_NUMBER, root, name, <<2>>, old)
    BY <1>2, <1>4, SetsWorker DEF FindWorker
  <2>2. shell' = [shell EXCEPT ![s] = Redone(w, root, root[0].cluster, FindCmd(name, <<2>>, old))]
    BY DEF find, FindCmd, Redone
  <2> QED
    BY <2>1, <2>2
<1>8. All(shell', FindWorker(root, ROOT_CLUSTER_NUMBER, root, name, <<2>>, old))
  BY <1>2, <1>7, Becomes
<1> QED
  BY <1>1, <1>2, <1>3, <1>6, <1>8, Finds

\* The recursion's levels.
LEMMA Levels ==
    ASSUME NEW level \in Seq(Nat), Len(level) \in 1 .. MaxDepth
    PROVE  LET next == [level EXCEPT ![Len(level)] = level[Len(level)] + 1] IN
           /\ next \in Seq(Nat) /\ Len(next) \in 1 .. MaxDepth
           /\ Len(level) # MaxDepth => Append(next, 2) \in Seq(Nat) /\ Len(Append(next, 2)) \in 1 .. MaxDepth
           /\ Len(level) > 1 => /\ SubSeq(level, 1, Len(level) - 1) \in Seq(Nat)
                                /\ Len(SubSeq(level, 1, Len(level) - 1)) \in 1 .. MaxDepth
<1> DEFINE n == Len(level)
           next == [level EXCEPT ![n] = level[n] + 1]
<1>1. n \in Nat /\ n >= 1 /\ n <= MaxDepth /\ MaxDepth \in Nat
  BY ShellAssumption
<1>2. next \in Seq(Nat) /\ Len(next) = n
  <2>1. level[n] \in Nat
    BY <1>1
  <2> QED
    BY <1>1, <2>1, ExceptSeq
<1> HIDE DEF next
<1>3. n # MaxDepth => Append(next, 2) \in Seq(Nat) /\ Len(Append(next, 2)) \in 1 .. MaxDepth
  BY <1>1, <1>2
<1>4. n > 1 => SubSeq(level, 1, n - 1) \in Seq(Nat) /\ Len(SubSeq(level, 1, n - 1)) \in 1 .. MaxDepth
  BY <1>1, SubSeqProperties
<1> QED
  BY <1>1, <1>2, <1>3, <1>4 DEF next

\* Only the recursion of a command is changed.
Levelled(w, level) == [w EXCEPT !.cmd.level = level]

\* find with other calls on its stack.
LEMMA SetsLevel ==
    ASSUME NEW a, NEW b, NEW r, NEW name, NEW level, NEW old, NEW next
    PROVE  Levelled(FindWorker(a, b, r, name, level, old), next) = FindWorker(a, b, r, name, next, old)
<1> DEFINE cmd == FindCmd(name, level, old)
           new == [cmd EXCEPT !.level = next]
<1>1. new = FindCmd(name, next, old)
  BY DEF FindCmd
<1>2. Worker(a, b, r, cmd).cmd = cmd
  BY DEF Worker
<1>3. Levelled(Worker(a, b, r, cmd), next) = [Worker(a, b, r, cmd) EXCEPT !.cmd = new]
  BY <1>2 DEF Levelled
<1> HIDE DEF cmd, new
<1>4. [Worker(a, b, r, cmd) EXCEPT !.cmd = new] = Worker(a, b, r, new)
  BY WorkerCommand
<1> QED
  BY <1>1, <1>3, <1>4 DEF cmd, FindWorker

\* Each turn of find: into a folder, back to the parent, on, or done.
LEMMA FindRecursiveStep ==
    ASSUME ShellOrdinary, ShellInv, NEW s \in Shells, find_recursive(s) PROVE ShellInv'
<1> DEFINE w == shell[s]
           root == w.rootDir
           name == w.cmd.name
           old == w.cmd.old
           level == w.cmd.level
           i == level[Len(level)]
           next == [level EXCEPT ![Len(level)] = i + 1]
           back == SubSeq(level, 1, Len(level) - 1)
<1>1. At(s, "find") /\ DriverQuiet /\ "find" \notin Mid /\ "find" # "main"
  BY DEF find_recursive, Mid
<1>2. /\ Sound(disk, fat) /\ shell = [t \in Shells |-> shell[t]] /\ w.cmd.pc = "find"
      /\ Form(w) /\ Stands(disk, op, w) /\ Commanded(disk, fat, w) /\ op = Idle /\ Steady /\ crashes = 0
  BY <1>1, Ready
<1>3. FindOK(disk, w) /\ RootTable(root) /\ w.cwd \in Tables /\ w.cluster \in Clusters /\ w.cluster \in LiveDirs(disk)
  BY <1>1, <1>2 DEF Commanded, Form, RootTable, Stands
<1>4. FindState(disk, w.cwd, w.cluster, level, old)
  BY <1>3 DEF FindOK, FindState
<1>5. w = FindWorker(w.cwd, w.cluster, root, name, level, old)
  <2>1. w.cmd = FindCmd(name, level, old)
    BY <1>3 DEF FindOK, FindCmd
  <2> QED
    BY <1>2, <2>1 DEF Form, FindWorker, Worker
<1>6. /\ next \in Seq(Nat) /\ Len(next) \in 1 .. MaxDepth
      /\ Len(level) # MaxDepth => Append(next, 2) \in Seq(Nat) /\ Len(Append(next, 2)) \in 1 .. MaxDepth
      /\ Len(level) > 1 => back \in Seq(Nat) /\ Len(back) \in 1 .. MaxDepth
  BY <1>4, Levels DEF FindState
<1>7. /\ w.cwd[0].cluster \in LiveDirs(disk) /\ w.cwd[1].cluster \in LiveDirs(disk)
      /\ old.cluster \in LiveDirs(disk) /\ old.cwd = TableAt(disk, old.cluster)
  BY <1>4 DEF FindState
<1>8. \/ Len(level) > 1 /\ shell' = [shell EXCEPT ![s] = Levelled(cd_parent(w), back)]
      \/ FindReturns(s)
      \/ Len(level) = MaxDepth /\ shell' = [shell EXCEPT ![s] = [w EXCEPT !.cmd = [pc |-> "overflow"]]]
      \/ /\ Len(level) # MaxDepth
         /\ \E n : shell' = [shell EXCEPT ![s] = Levelled(cd_into(w, n), Append(next, 2))]
      \/ shell' = [shell EXCEPT ![s] = Levelled(w, next)]
  BY DEF find_recursive, Levelled
<1>9. ASSUME NEW a, NEW c \in LiveDirs(disk), NEW l, l \in Seq(Nat), Len(l) \in 1 .. MaxDepth,
             a = w.cwd \/ a = TableAt(disk, c),
             shell' = [shell EXCEPT ![s] = FindWorker(a, c, root, name, l, old)]
      PROVE  ShellInv'
  <2>1. c \in Clusters
    BY <1>2, LinksLive
  <2>2. a \in Tables /\ a[0].cluster \in LiveDirs(disk) /\ a[1].cluster \in LiveDirs(disk)
    BY <1>2, <1>3, <1>7, <1>9, LinksLive
  <2>3. FindState(disk, a, c, l, old)
    BY <1>7, <1>9, <2>2 DEF FindState
  <2>4. All(shell', FindWorker(a, c, root, name, l, old))
    BY <1>2, <1>9, Becomes
  <2> QED
    BY <1>1, <1>3, <2>1, <2>3, <2>4, Finds
<1> HIDE DEF next, back
<1>10. CASE Len(level) > 1 /\ shell' = [shell EXCEPT ![s] = Levelled(cd_parent(w), back)]
  <2> DEFINE c == w.cwd[1].cluster
  <2>1. cd_parent(w) = Worker(TableAt(disk, c), c, root, w.cmd)
    BY <1>2, <1>7, CdParent
  <2>2. w.cmd = FindCmd(name, level, old)
    BY <1>3 DEF FindOK, FindCmd
  <2>3. cd_parent(w) = FindWorker(TableAt(disk, c), c, root, name, level, old)
    BY <2>1, <2>2 DEF FindWorker
  <2>4. Levelled(cd_parent(w), back) = FindWorker(TableAt(disk, c), c, root, name, back, old)
    BY <2>3, SetsLevel
  <2> QED
    BY <1>6, <1>7, <1>9, <1>10, <2>4
<1>11. CASE FindReturns(s)
  <2>1. All(shell', Worker(old.cwd, old.cluster, root, Prompt))
    BY <1>2, <1>11, SetsShell DEF FindReturns
  <2>2. All(shell', Worker(TableAt(disk, old.cluster), old.cluster, root, Prompt))
    BY <1>7, <2>1
  <2> QED
    BY <1>1, <1>3, <1>7, <2>2, Prompted
<1>12. CASE shell' = [shell EXCEPT ![s] = [w EXCEPT !.cmd = [pc |-> "overflow"]]]
  <2> DEFINE v == Worker(w.cwd, w.cluster, root, [pc |-> "overflow"])
  <2>1. [w EXCEPT !.cmd = [pc |-> "overflow"]] = v
    BY <1>2 DEF Form, Worker
  <2>2. All(shell', v)
    BY <1>2, <1>12, <2>1, Becomes
  <2>3. WorkerOK(disk, fat, Idle, v) /\ v.cmd.pc \notin Mid
    BY <1>3, AtOverflow
  <2> HIDE DEF v
  <2>4. disk' = disk /\ fat' = fat /\ op' = op /\ crashes' = crashes /\ Steady'
    BY <1>1, <1>2, Quiet
  <2>5. WorkerOK(disk', fat', op', v)
    BY <1>2, <2>3, <2>4
  <2> QED
    BY <1>2, <2>2, <2>4, <2>5, Stepped
<1>13. CASE Len(level) # MaxDepth /\ \E n : shell' = [shell EXCEPT ![s] = Levelled(cd_into(w, n), Append(next, 2))]
  <2>1. PICK n : shell' = [shell EXCEPT ![s] = Levelled(cd_into(w, n), Append(next, 2))]
    BY <1>13
  <2>2. \/ cd_into(w, n) = w
        \/ cd_into(w, n) = Worker(w.cwd, w.cwd[0].cluster, w.rootDir, w.cmd)
        \/ \E c \in LiveDirs(disk) : cd_into(w, n) = Worker(TableAt(disk, c), c, w.rootDir, w.cmd)
    BY <1>2, <1>3, CdInto
  <2>3. w.cmd = FindCmd(name, level, old)
    BY <1>3 DEF FindOK, FindCmd
  <2>4. PICK a, c : /\ c \in LiveDirs(disk) /\ (a = w.cwd \/ a = TableAt(disk, c))
                    /\ cd_into(w, n) = FindWorker(a, c, root, name, level, old)
    <3>1. CASE cd_into(w, n) = w
      BY <1>3, <1>5, <3>1
    <3>2. CASE cd_into(w, n) = Worker(w.cwd, w.cwd[0].cluster, root, w.cmd)
      BY <1>7, <2>3, <3>2 DEF FindWorker
    <3>3. CASE \E c \in LiveDirs(disk) : cd_into(w, n) = Worker(TableAt(disk, c), c, root, w.cmd)
      BY <2>3, <3>3 DEF FindWorker
    <3> QED
      BY <2>2, <3>1, <3>2, <3>3
  <2>5. Levelled(cd_into(w, n), Append(next, 2)) = FindWorker(a, c, root, name, Append(next, 2), old)
    BY <2>4, SetsLevel
  <2> QED
    BY <1>6, <1>9, <1>13, <2>1, <2>4, <2>5
<1>14. CASE shell' = [shell EXCEPT ![s] = Levelled(w, next)]
  <2>1. Levelled(w, next) = FindWorker(w.cwd, w.cluster, root, name, next, old)
    BY <1>5, SetsLevel
  <2> QED
    BY <1>3, <1>6, <1>9, <1>14, <2>1
<1> QED
  BY <1>8, <1>10, <1>11, <1>12, <1>13, <1>14

-----------------------------------------------------------------------------
(***************************************************************************)
(* mv: what a careful user has checked holds when the source is looked up.     *)
(***************************************************************************)
LEMMA CarefulFolder ==
    ASSUME Ordinary, Sound(disk, fat), NEW w, w.cluster \in LiveDirs(disk), w.cwd = TableAt(disk, w.cluster),
           NEW src \in Names, NEW dest \in Names, CarefulMove(w, src, dest)
    PROVE  IntoFolder(disk, TableAt(disk, w.cluster), src, dest)
<1> DEFINE t == TableAt(disk, w.cluster)
           n == IndexOfName(t, dest, 0)
           k == IndexOfName(t, src, 2)
<1> SUFFICES ASSUME NEW i \in Indices, t[i].used, t[i].name = dest, t[i].folder,
                    \A l \in Indices : t[l].used /\ t[l].name = dest => i <= l
             PROVE  /\ i # 0 /\ src # dest
                    /\ \E x \in Indices \ {0, 1} : t[x].name = src
                    /\ \E j \in Indices \ {0} : ~ TableAt(disk, t[i].cluster)[j].used
                    /\ \A l \in Indices : TableAt(disk, t[i].cluster)[l].name # src
  BY DEF IntoFolder
<1> DEFINE target == TableAt(disk, t[i].cluster)
<1>1. /\ (n # TABLE_SIZE /\ t[n].folder) =>
           /\ n # 0 /\ src # dest /\ k # TABLE_SIZE
           /\ EmptyTableSlots(TableAt(disk, t[n].cluster)) # {}
           /\ IndexOfName(TableAt(disk, t[n].cluster), src, 0) = TABLE_SIZE
  BY DEF CarefulMove
<1>2. /\ n = TABLE_SIZE => \A l \in Indices : l >= 0 => t[l].name # dest
      /\ n # TABLE_SIZE => /\ n \in Indices /\ n >= 0 /\ t[n].name = dest
                           /\ \A l \in Indices : l >= 0 /\ t[l].name = dest => n <= l
  BY IndexFound
<1>3. k # TABLE_SIZE => k \in Indices /\ k >= 2 /\ t[k].name = src
  BY IndexFound
<1>4. Indices \subseteq Nat
  BY ClusterFacts
<1> HIDE DEF n, k
<1>5. n # TABLE_SIZE /\ n \in Indices /\ n <= i /\ t[n].name = dest
  BY <1>2, <1>4
<1>6. t[n].used
  BY <1>5, NamesUsed
<1>7. n = i
  BY <1>4, <1>5, <1>6
<1>8. /\ i # 0 /\ src # dest /\ k # TABLE_SIZE
      /\ EmptyTableSlots(target) # {} /\ IndexOfName(target, src, 0) = TABLE_SIZE
  BY <1>1, <1>5, <1>7
<1>9. \E x \in Indices \ {0, 1} : t[x].name = src
  BY <1>3, <1>8, <1>4
<1>10. \E j \in Indices \ {0} : ~ target[j].used
  BY <1>8 DEF EmptyTableSlots
<1>11. \A l \in Indices : target[l].name # src
  BY <1>4, <1>8, IndexFound
<1> QED
  BY <1>8, <1>9, <1>10, <1>11

\* A careful move's new name is free in the directory of the shell.
LEMMA CarefulName ==
    ASSUME Ordinary, Sound(disk, fat), NEW w, w.cluster \in LiveDirs(disk), w.cwd = TableAt(disk, w.cluster),
           NEW src \in Names, NEW dest \in Names, CarefulMove(w, src, dest)
    PROVE  FreeName(disk, TableAt(disk, w.cluster), src, dest)
<1> DEFINE t == TableAt(disk, w.cluster)
           n == IndexOfName(t, dest, 0)
           x == IndexOfName(t, src, 2)
<1> SUFFICES ASSUME \A i \in Indices : t[i].name # dest,
                    NEW k \in Indices \ {0, 1}, t[k].name = src, t[k].folder
             PROVE  \A l \in Indices : TableAt(disk, t[k].cluster)[l].name # dest
  BY DEF FreeName
<1>1. (n = TABLE_SIZE /\ x # TABLE_SIZE) =>
          (t[x].folder => IndexOfName(TableAt(disk, t[x].cluster), dest, 0) = TABLE_SIZE)
  BY DEF CarefulMove
<1>2. n # TABLE_SIZE => n \in Indices /\ t[n].name = dest
  BY IndexFound
<1>3. /\ x = TABLE_SIZE => \A l \in Indices : l >= 2 => t[l].name # src
      /\ x # TABLE_SIZE => x \in Indices /\ t[x].name = src
  BY IndexFound
<1>4. Indices \subseteq Nat /\ k >= 2
  <2>1. Indices \subseteq Nat /\ k \in Indices /\ k # 0 /\ k # 1
    BY ClusterFacts
  <2>2. k \in Nat
    BY <2>1
  <2> QED
    BY <2>1, <2>2
<1> HIDE DEF n, x
<1>5. n = TABLE_SIZE
  BY <1>2
<1>6. x # TABLE_SIZE /\ x \in Indices /\ t[x].name = src
  BY <1>3, <1>4
<1>7. \A l \in Indices : t[l].name = t[k].name => l = k
  BY NamesUsed
<1>8. x = k
  BY <1>6, <1>7
<1>9. IndexOfName(TableAt(disk, t[k].cluster), dest, 0) = TABLE_SIZE
  BY <1>1, <1>5, <1>6, <1>8
<1> DEFINE moved == TableAt(disk, t[k].cluster)
<1>10. IndexOfName(moved, dest, 0) = TABLE_SIZE => \A l \in Indices : l >= 0 => moved[l].name # dest
  BY IndexFound
<1> HIDE DEF moved
<1>11. \A l \in Indices : moved[l].name # dest
  BY <1>4, <1>9, <1>10 DEF moved
<1> QED
  BY <1>11 DEF moved

\* mv's first system call.
LEMMA MvStep ==
    ASSUME ShellOrdinary, ShellInv, NEW s \in Shells, NEW src \in Names, NEW dest \in Names, mv(s, src, dest)
    PROVE  ShellInv'
<1> DEFINE v == shell[s]
           t == TableAt(disk, v.cluster)
           r == read_directory(v.cluster, src)
           cmd == [pc |-> "mv_dest", src |-> src, dest |-> dest, folder |-> r.retcode = 0,
                   src_table |-> IF r.retcode = 0 THEN r.table ELSE EmptyTable]
           w == Worker(v.cwd, v.cluster, v.rootDir, cmd)
<1>1. At(s, "prompt") /\ DriverQuiet /\ CarefulMove(v, src, dest)
  BY DEF mv, Typed, ShellOrdinary
<1>2. /\ v.cluster \in LiveDirs(disk) /\ Sound(disk, fat) /\ Ordinary
      /\ v.cwd = t /\ t \in Tables
  BY <1>1, Prompting
<1>3. CASE r.retcode = 2
  <2>1. Finish(s)
    BY <1>3 DEF mv
  <2> QED
    BY <1>1, <2>1, Finished
<1>4. CASE r.retcode # 2
  <2>1. Goto(s, cmd)
    BY <1>4 DEF mv
  <2>2. PICK k \in Indices : /\ t[k].used /\ t[k].name = src
                             /\ r.retcode = 0 <=> t[k].folder
                             /\ r.retcode = 0 => r.table = TableAt(disk, t[k].cluster)
    BY <1>4, Lookup
  <2>3. t[k].folder \in BOOLEAN
    BY <1>2 DEF Tables, Entry
  <2>4. IntoFolder(disk, t, src, dest) /\ FreeName(disk, t, src, dest)
    BY <1>1, <1>2, CarefulFolder, CarefulName
  <2>5. w.cmd = cmd /\ w.cluster = v.cluster
    BY WorkerFields
  <2> HIDE DEF w, r, t
  <2>6. /\ cmd.pc = "mv_dest" /\ cmd.src = src /\ cmd.dest = dest /\ cmd.folder = (r.retcode = 0)
        /\ r.retcode = 0 => cmd.src_table = r.table
        /\ cmd = [pc |-> "mv_dest", src |-> cmd.src, dest |-> cmd.dest, folder |-> cmd.folder,
                  src_table |-> cmd.src_table]
    OBVIOUS
  <2> HIDE DEF cmd
  <2>7. Remembers(disk, cmd, t[k])
    BY <2>2, <2>3, <2>6 DEF Remembers
  <2>8. DestOK(disk, w)
    BY <2>2, <2>4, <2>5, <2>6, <2>7 DEF DestOK, t
  <2> QED
    BY <1>1, <2>1, <2>6, <2>8, GoesOn DEF w
<1> QED
  BY <1>3, <1>4

-----------------------------------------------------------------------------
(***************************************************************************)
(* The steps of mv, each of which moves the program counter on.               *)
(***************************************************************************)
Turned(cmd, pc) == [cmd EXCEPT !.pc = pc]

\* A step of mv that only goes on to its next call.
LEMMA SetsPC ==
    ASSUME ShellOrdinary, NEW s \in Shells, shell = [t \in Shells |-> shell[t]], Form(shell[s]), NEW pc,
           shell' = [shell EXCEPT ![s].cmd.pc = pc]
    PROVE  All(shell', Worker(shell[s].cwd, shell[s].cluster, shell[s].rootDir, Turned(shell[s].cmd, pc)))
<1> DEFINE c == Turned(shell[s].cmd, pc)
<1>1. shell' = [shell EXCEPT ![s].cmd = c]
  BY DEF Turned
<1> HIDE DEF c
<1>2. All(shell', Worker(shell[s].cwd, shell[s].cluster, shell[s].rootDir, c))
  BY <1>1, SetsCommand
<1> QED
  BY <1>2 DEF c

\* A step of mv that renames an entry of the shell's copy and goes on.
LEMMA SetsName ==
    ASSUME ShellOrdinary, NEW s \in Shells, shell = [t \in Shells |-> shell[t]], Form(shell[s]), NEW i, NEW n, NEW pc,
           shell' = [shell EXCEPT ![s].cwd[i].name = n, ![s].cmd.pc = pc]
    PROVE  All(shell', Worker(Renamed(shell[s].cwd, i, n), shell[s].cluster, shell[s].rootDir,
                              Turned(shell[s].cmd, pc)))
<1> DEFINE a == Renamed(shell[s].cwd, i, n)
           c == Turned(shell[s].cmd, pc)
           v == [shell[s] EXCEPT !.cwd = a]
           w == [v EXCEPT !.cmd = c]
<1>1. v = Worker(a, shell[s].cluster, shell[s].rootDir, shell[s].cmd)
  <2> HIDE DEF a
  <2> QED
    BY DEF Form, Worker
<1>2. w = Worker(a, shell[s].cluster, shell[s].rootDir, c)
  <2> HIDE DEF v, a, c
  <2> QED
    BY <1>1 DEF Worker
<1>3. v.cmd = shell[s].cmd
  <2> HIDE DEF v, a
  <2> QED
    BY <1>1 DEF Worker
<1>4. shell'[s] = w
  <2>1. shell'[s] = [[shell[s] EXCEPT !.cwd[i].name = n] EXCEPT !.cmd.pc = pc]
    OBVIOUS
  <2>2. [shell[s] EXCEPT !.cwd[i].name = n] = v
    BY DEF Renamed
  <2>3. shell'[s] = [v EXCEPT !.cmd.pc = pc]
    BY <2>1, <2>2
  <2> HIDE DEF v
  <2>4. [v EXCEPT !.cmd.pc = pc] = [v EXCEPT !.cmd = Turned(v.cmd, pc)]
    BY DEF Turned
  <2> QED
    BY <1>3, <2>3, <2>4
<1>5. shell' = [t \in Shells |-> shell'[t]]
  OBVIOUS
<1> HIDE DEF w
<1>6. All(shell', w)
  BY <1>4, <1>5 DEF All, ShellOrdinary
<1> QED
  BY <1>2, <1>6

\* What a turn keeps of the command.
LEMMA RenameTurned ==
    ASSUME NEW cmd, RenameRec(cmd), NEW pc
    PROVE  LET r == Turned(cmd, pc) IN
           /\ RenameRec(r) /\ r.pc = pc /\ r.dest = cmd.dest /\ r.folder = cmd.folder /\ r.src_table = cmd.src_table
BY DEF RenameRec, Turned

\* Going on keeps what mv remembers.
LEMMA CutTurned ==
    ASSUME NEW cmd, CutRec(cmd), NEW pc
    PROVE  LET r == Turned(cmd, pc) IN
           /\ CutRec(r) /\ r.pc = pc /\ r.folder = cmd.folder
           /\ r.src_table = cmd.src_table /\ r.dest_table = cmd.dest_table
BY DEF CutRec, Turned

\* The tables that mv_dest makes.
LEMMA RenamedTable ==
    ASSUME NEW t \in Tables, NEW k \in Indices, NEW n \in Names PROVE Renamed(t, k, n) \in Tables
<1> DEFINE e == [t[k] EXCEPT !.name = n]
<1>1. t[k] \in Entry
  BY DEF Tables
<1>2. e \in Entry
  BY <1>1 DEF Entry
<1>3. Renamed(t, k, n) = [t EXCEPT ![k] = e]
  BY DEF Renamed
<1> HIDE DEF e
<1> QED
  BY <1>2, <1>3 DEF Tables

\* Half way through mv, before anything is written.
LEMMA AtMove ==
    ASSUME NEW d, NEW m, NEW a \in Tables, NEW c \in LiveDirs(d), c \in Clusters, NEW r, RootTable(r), NEW cmd,
           \/ cmd.pc = "mv_rename" /\ RenameOK(d, Worker(a, c, r, cmd))
           \/ cmd.pc = "mv_cut" /\ CutOK(d, Worker(a, c, r, cmd))
    PROVE  WorkerOK(d, m, Idle, Worker(a, c, r, cmd)) /\ Worker(a, c, r, cmd).cmd.pc \notin Mid
<1> DEFINE w == Worker(a, c, r, cmd)
<1>1. w.cwd = a /\ w.cluster = c /\ w.rootDir = r /\ w.cmd = cmd
  BY WorkerFields
<1>2. w = [cwd |-> w.cwd, cluster |-> w.cluster, rootDir |-> w.rootDir, cmd |-> w.cmd]
  BY WorkerFields
<1>3. (w.cmd.pc = "mv_rename" /\ RenameOK(d, w)) \/ (w.cmd.pc = "mv_cut" /\ CutOK(d, w))
  BY <1>1
<1> HIDE DEF w
<1>4. Form(w)
  BY <1>1, <1>2, <1>3 DEF Form, ShellPCs, RootTable
<1>5. Stands(d, Idle, w)
  BY <1>1, <1>3, IdleFacts DEF Stands
<1>6. Commanded(d, m, w)
  BY <1>3 DEF Commanded
<1>7. w.cmd.pc \notin Mid
  BY <1>3 DEF Mid
<1> QED
  BY <1>4, <1>5, <1>6, <1>7 DEF WorkerOK, w

\* mv_dest keeps the invariant once its tables are right for the next call.
LEMMA MovesOn ==
    ASSUME ShellOrdinary, ShellInv, NEW s \in Shells, At(s, "mv_dest"), DriverQuiet,
           NEW a \in Tables, NEW cmd, All(shell', Worker(a, shell[s].cluster, shell[s].rootDir, cmd)),
           LET w == Worker(a, shell[s].cluster, shell[s].rootDir, cmd) IN
              \/ cmd.pc = "mv_rename" /\ RenameOK(disk, w)
              \/ cmd.pc = "mv_cut" /\ CutOK(disk, w)
    PROVE  ShellInv'
<1> DEFINE v == shell[s]
           w == Worker(a, v.cluster, v.rootDir, cmd)
<1>1. /\ op = Idle /\ crashes = 0 /\ Steady /\ RootTable(v.rootDir)
      /\ v.cluster \in LiveDirs(disk) /\ v.cluster \in Clusters
  BY Standing
<1>2. disk' = disk /\ fat' = fat /\ op' = op /\ crashes' = crashes /\ Steady'
  BY <1>1, Quiet
<1>3. WorkerOK(disk, fat, Idle, w) /\ w.cmd.pc \notin Mid
  BY <1>1, AtMove
<1>4. All(shell', w)
  OBVIOUS
<1> HIDE DEF w
<1>5. WorkerOK(disk', fat', op', w)
  BY <1>1, <1>2, <1>3
<1> QED
  BY <1>1, <1>2, <1>4, <1>5, Stepped

\* The source: the only entry of its name, and the one mv read.
LEMMA MovedEntry ==
    ASSUME Ordinary, Sound(disk, fat), NEW w, w.cluster \in LiveDirs(disk), DestOK(disk, w),
           NEW i \in Indices \ {0, 1}, TableAt(disk, w.cluster)[i].name = w.cmd.src
    PROVE  /\ i \in Entries(disk, w.cluster) /\ Remembers(disk, w.cmd, TableAt(disk, w.cluster)[i])
           /\ \A l \in Indices : TableAt(disk, w.cluster)[l].name = w.cmd.src => l = i
<1> DEFINE t == TableAt(disk, w.cluster)
<1>1. PICK k \in Indices : t[k].name = w.cmd.src /\ Remembers(disk, w.cmd, t[k])
  BY DEF DestOK
<1>2. w.cmd.src \in Names
  BY DEF DestOK
<1>3. i \in Entries(disk, w.cluster) /\ \A l \in Indices : t[l].name = t[i].name => l = i
  BY <1>2, NamesUsed
<1>4. k = i
  BY <1>1, <1>3
<1> QED
  BY <1>1, <1>3, <1>4

\* No such destination: a rename that the directory and the folder itself allow.
LEMMA RenamePlanned ==
    ASSUME Ordinary, Sound(disk, fat), NEW w, w.cluster \in LiveDirs(disk), DestOK(disk, w),
           NEW i \in Indices \ {0, 1}, TableAt(disk, w.cluster)[i].name = w.cmd.src,
           read_directory(w.cluster, w.cmd.dest).retcode = 2
    PROVE  RenamePlan(disk, w.cluster, i, w.cmd.dest)
<1> DEFINE t == TableAt(disk, w.cluster)
<1>1. i \in Entries(disk, w.cluster)
  BY MovedEntry
<1>2. w.cmd.dest \in Names /\ FreeName(disk, t, w.cmd.src, w.cmd.dest)
  BY DEF DestOK
<1>3. \A l \in Indices : ~ (t[l].used /\ t[l].name = w.cmd.dest)
  BY Lookup
<1>4. \A l \in Indices : t[l].name # w.cmd.dest
  BY <1>2, <1>3, NamesUsed
<1>5. t[i].folder => \A l \in Indices : TableAt(disk, t[i].cluster)[l].name # w.cmd.dest
  BY <1>2, <1>4 DEF FreeName
<1> QED
  BY <1>1, <1>2, <1>4, <1>5 DEF RenamePlan

\* A folder: a move to a free slot of another directory.
LEMMA MovePlanned ==
    ASSUME Ordinary, Sound(disk, fat), NEW w, w.cluster \in LiveDirs(disk), DestOK(disk, w),
           NEW r, r = read_directory(w.cluster, w.cmd.dest), r.retcode = 0
    PROVE  LET t == TableAt(disk, w.cluster)
               slots == EmptyTableSlots(r.table) \ {1} IN
           \E there : /\ r.table = TableAt(disk, there) /\ slots # {} /\ r.table \in Tables
                      /\ \E k \in Indices \ {0, 1} : t[k].name = w.cmd.src
                      /\ \A i \in Indices \ {0, 1} : t[i].name = w.cmd.src =>
                            MovePlan(disk, w.cluster, i, there, Min(slots))
<1> DEFINE c == w.cluster
           t == TableAt(disk, c)
           src == w.cmd.src
           dest == w.cmd.dest
           slots == EmptyTableSlots(r.table) \ {1}
<1>1. PICK D \in Indices : /\ t[D].used /\ t[D].name = dest /\ t[D].folder
                           /\ \A l \in Indices : t[l].used /\ t[l].name = dest => D <= l
                           /\ r.table = TableAt(disk, t[D].cluster)
  BY Lookup
<1> DEFINE there == t[D].cluster
           target == TableAt(disk, there)
<1>2. /\ D # 0 /\ src # dest
      /\ \E k \in Indices \ {0, 1} : t[k].name = src
      /\ \E j \in Indices \ {0} : ~ target[j].used
      /\ \A l \in Indices : target[l].name # src
  <2>1. IntoFolder(disk, t, src, dest)
    BY DEF DestOK
  <2> QED
    BY <1>1, <2>1 DEF IntoFolder
<1>3. there \in LiveDirs(disk) /\ DirOK(disk, c)
  BY <1>1, LinksLive
<1>4. target \in Tables /\ target[1].used
  BY <1>3, LinksLive DEF DirOK
<1>5. slots \in SUBSET Nat /\ slots # {} /\ slots \subseteq Indices /\ \A j \in slots : ~ target[j].used
  <2>1. Indices \subseteq Nat
    BY ClusterFacts
  <2> QED
    BY <1>1, <1>2, <1>4, <2>1 DEF EmptyTableSlots
<1>6. Min(slots) \in Indices /\ ~ target[Min(slots)].used
  BY <1>5, MinElement
<1>7. D = 1 => c # ROOT_CLUSTER_NUMBER
  <2> SUFFICES ASSUME D = 1, c = ROOT_CLUSTER_NUMBER PROVE FALSE
    OBVIOUS
  <2>1. t[0].name = t[1].name /\ t[0].used
    BY <1>3 DEF Sound, RootOK, DirOK
  <2>2. 0 \in Indices
    BY ClusterFacts
  <2>3. D <= 0
    BY <1>1, <2>1, <2>2
  <2> QED
    BY <2>3
<1>8. ASSUME NEW i \in Indices \ {0, 1}, t[i].name = src
      PROVE  MovePlan(disk, c, i, there, Min(slots))
  <2>1. i \in Entries(disk, c)
    BY <1>8, MovedEntry
  <2>2. D # i
    BY <1>1, <1>2, <1>8
  <2>3. \/ \E x \in Entries(disk, c) : x # i /\ t[x].folder /\ t[x].cluster = there
        \/ c # ROOT_CLUSTER_NUMBER /\ t[1].cluster = there
    <3>1. CASE D = 1
      BY <1>7, <3>1
    <3>2. CASE D # 1
      <4>1. D \in Entries(disk, c)
        BY <1>1, <1>2, <3>2 DEF Entries
      <4> QED
        BY <1>1, <2>2, <4>1
    <3> QED
      BY <3>1, <3>2
  <2> HIDE DEF slots
  <2> QED
    BY <1>2, <1>6, <1>8, <2>1, <2>3 DEF MovePlan
<1> HIDE DEF slots, there
<1> QED
  BY <1>1, <1>2, <1>4, <1>5, <1>8 DEF there, slots

\* mv's second system call.
LEMMA MvDestStep ==
    ASSUME ShellOrdinary, ShellInv, NEW s \in Shells, mv_dest(s) PROVE ShellInv'
<1> DEFINE w == shell[s]
           c == w.cluster
           cmd == w.cmd
           t == TableAt(disk, c)
           i == IndexOfName(t, cmd.src, 2)
           r == read_directory(c, cmd.dest)
           slots == EmptyTableSlots(r.table) \ {1}
           last == IF i = TABLE_SIZE THEN TABLE_SIZE - 1 ELSE i
           table == IF slots = {} THEN r.table ELSE [r.table EXCEPT ![Min(slots)] = t[last]]
           left == IF i = TABLE_SIZE THEN t ELSE [t EXCEPT ![i] = EmptyEntry]
           new == [pc |-> "mv_cut", src |-> cmd.src, dest |-> cmd.dest, folder |-> cmd.folder,
                   src_table |-> cmd.src_table, dest_table |-> table]
<1>1. At(s, "mv_dest") /\ DriverQuiet
  BY DEF mv_dest
<1>2. /\ c \in LiveDirs(disk) /\ Sound(disk, fat) /\ Ordinary /\ shell = [u \in Shells |-> shell[u]] /\ Form(w)
      /\ RootTable(w.rootDir) /\ w.cwd = t /\ t \in Tables /\ DestOK(disk, w)
  BY <1>1, Standing DEF Commanded
<1>3. \/ Finish(s)
      \/ /\ r.retcode = 2 /\ i # TABLE_SIZE
         /\ shell' = [shell EXCEPT ![s].cwd[i].name = cmd.dest, ![s].cmd.pc = "mv_rename"]
      \/ r.retcode = 0 /\ shell' = [shell EXCEPT ![s].cwd = left, ![s].cmd = new]
  BY <1>2 DEF mv_dest
<1>4. RenameRec(cmd)
  BY <1>2 DEF DestOK, RenameRec
<1>5. i # TABLE_SIZE => i \in Indices \ {0, 1} /\ t[i].name = cmd.src
  <2>1. i # TABLE_SIZE => i \in Indices /\ i >= 2 /\ t[i].name = cmd.src
    BY IndexFound
  <2> HIDE DEF i
  <2> QED
    BY <2>1, ClusterFacts
<1>6. CASE Finish(s)
  BY <1>1, <1>6, Finished
<1>7. CASE /\ r.retcode = 2 /\ i # TABLE_SIZE
           /\ shell' = [shell EXCEPT ![s].cwd[i].name = cmd.dest, ![s].cmd.pc = "mv_rename"]
  <2> DEFINE a == Renamed(t, i, cmd.dest)
             x == Turned(cmd, "mv_rename")
             v == Worker(a, c, w.rootDir, x)
  <2>1. All(shell', v)
    BY <1>2, <1>7, SetsName
  <2>2. RenamePlan(disk, c, i, cmd.dest) /\ Remembers(disk, cmd, t[i])
    BY <1>2, <1>5, <1>7, RenamePlanned, MovedEntry
  <2>3. a \in Tables
    <3>1. i \in Indices /\ cmd.dest \in Names
      BY <1>2, <1>5, <1>7 DEF DestOK
    <3> QED
      BY <1>2, <3>1, RenamedTable
  <2>4. /\ RenameRec(x) /\ x.pc = "mv_rename" /\ x.dest = cmd.dest
        /\ x.folder = cmd.folder /\ x.src_table = cmd.src_table
    BY <1>4, RenameTurned
  <2>5. v.cwd = a /\ v.cluster = c /\ v.cmd = x
    BY WorkerFields
  <2>6. RenameOK(disk, v)
    <3> HIDE DEF v, x, i, t, cmd
    <3>1. Remembers(disk, x, t[i])
      BY <2>2, <2>4 DEF Remembers
    <3> QED
      BY <2>2, <2>4, <2>5, <3>1 DEF RenameOK, t
  <2> HIDE DEF a, x
  <2> QED
    BY <1>1, <2>1, <2>3, <2>4, <2>6, MovesOn
<1>8. CASE r.retcode = 0 /\ shell' = [shell EXCEPT ![s].cwd = left, ![s].cmd = new]
  <2> DEFINE v == Worker(left, c, w.rootDir, new)
  <2>1. All(shell', v)
    BY <1>2, <1>8, SetsTable
  <2>2. PICK there : /\ r.table = TableAt(disk, there) /\ slots # {}
                     /\ \E k \in Indices \ {0, 1} : t[k].name = cmd.src
                     /\ \A k \in Indices \ {0, 1} : t[k].name = cmd.src =>
                            MovePlan(disk, c, k, there, Min(slots))
    BY <1>2, <1>8, MovePlanned
  <2>3. i # TABLE_SIZE
    <3>1. i = TABLE_SIZE => \A l \in Indices : l >= 2 => t[l].name # cmd.src
      BY IndexFound
    <3>2. PICK k \in Indices \ {0, 1} : t[k].name = cmd.src
      BY <2>2
    <3>3. k \in Nat /\ k # 0 /\ k # 1
      BY ClusterFacts
    <3>4. k >= 2
      BY <3>3
    <3> HIDE DEF i
    <3> QED
      BY <3>1, <3>2, <3>4
  <2>4. MovePlan(disk, c, i, there, Min(slots)) /\ Remembers(disk, cmd, t[i])
    BY <1>2, <1>5, <2>2, <2>3, MovedEntry
  <2>5. left = WithEntry(t, i, EmptyEntry) /\ table = WithEntry(TableAt(disk, there), Min(slots), t[i])
    BY <2>2, <2>3 DEF WithEntry
  <2>6. left \in Tables
    <3>1. EmptyEntry \in Entry
      BY <1>2, DiskFacts DEF Sound
    <3> QED
      BY <1>2, <1>5, <2>3, <2>5, <3>1, EntryReplaced
  <2>7. v.cwd = left /\ v.cluster = c /\ v.cmd = new
    BY WorkerFields
  <2> HIDE DEF left, table, v, i, slots
  <2>8. /\ CutRec(new) /\ new.pc = "mv_cut" /\ new.folder = cmd.folder
        /\ new.src_table = cmd.src_table /\ new.dest_table = table
    BY DEF CutRec
  <2> HIDE DEF new, t, cmd
  <2>9. Remembers(disk, new, t[i])
    BY <2>4, <2>8 DEF Remembers
  <2>10. Pastes(disk, v, i, there, Min(slots))
    BY <2>4, <2>5, <2>7, <2>8, <2>9 DEF Pastes, t
  <2>11. CutOK(disk, v)
    BY <2>5, <2>7, <2>8, <2>10 DEF CutOK, t
  <2> QED
    BY <1>1, <2>1, <2>6, <2>8, <2>11, MovesOn DEF v
<1> HIDE DEF i, r, left, new
<1> QED
  BY <1>3, <1>6, <1>7, <1>8

\* Half way through mv, between two of its writes.
LEMMA AtMiddle ==
    ASSUME NEW d, NEW m, NEW a \in Tables, NEW c \in Clusters, NEW r, RootTable(r), NEW cmd,
           LET w == Worker(a, c, r, cmd) IN
              \/ cmd.pc = "mv_self" /\ SelfOK(d, m, w)
              \/ cmd.pc = "mv_paste" /\ PasteOK(d, m, w)
              \/ cmd.pc = "mv_relink" /\ RelinkOK(d, m, w)
    PROVE  WorkerOK(d, m, Idle, Worker(a, c, r, cmd)) /\ Worker(a, c, r, cmd).cmd.pc \in Mid
<1> DEFINE w == Worker(a, c, r, cmd)
<1>1. w.cwd = a /\ w.cluster = c /\ w.rootDir = r /\ w.cmd = cmd
  BY WorkerFields
<1>2. w = [cwd |-> w.cwd, cluster |-> w.cluster, rootDir |-> w.rootDir, cmd |-> w.cmd]
  BY WorkerFields
<1>3. \/ w.cmd.pc = "mv_self" /\ SelfOK(d, m, w)
      \/ w.cmd.pc = "mv_paste" /\ PasteOK(d, m, w)
      \/ w.cmd.pc = "mv_relink" /\ RelinkOK(d, m, w)
  BY <1>1
<1> HIDE DEF w
<1>4. w.cmd.pc \in Mid /\ w.cmd.pc \in ShellPCs /\ w.cmd.pc # "main"
  BY <1>3 DEF Mid, ShellPCs
<1>5. Form(w)
  BY <1>1, <1>2, <1>4 DEF Form, RootTable
<1>6. Stands(d, Idle, w)
  BY <1>3, <1>4, IdleFacts DEF Stands
<1>7. Commanded(d, m, w)
  BY <1>3 DEF Commanded
<1> QED
  BY <1>4, <1>5, <1>6, <1>7 DEF WorkerOK, w

\* A step of mv after which another write is due, and the last one.
LEMMA Halfway ==
    ASSUME ShellOrdinary, NEW s \in Shells, op = Idle, crashes = 0, op' = op, crashes' = crashes,
           NEW a \in Tables, NEW c \in Clusters, NEW r, RootTable(r), NEW cmd,
           All(shell', Worker(a, c, r, cmd)),
           LET w == Worker(a, c, r, cmd) IN
              \/ cmd.pc = "mv_self" /\ SelfOK(disk', fat', w)
              \/ cmd.pc = "mv_paste" /\ PasteOK(disk', fat', w)
              \/ cmd.pc = "mv_relink" /\ RelinkOK(disk', fat', w)
    PROVE  ShellInv'
<1> DEFINE w == Worker(a, c, r, cmd)
<1>1. WorkerOK(disk', fat', Idle, w) /\ w.cmd.pc \in Mid
  BY AtMiddle
<1>2. All(shell', w)
  OBVIOUS
<1> HIDE DEF w
<1>3. WorkerOK(disk', fat', op', w) /\ crashes' = 0
  BY <1>1
<1> QED
  BY <1>1, <1>2, <1>3, Stepped

\* A command that ends on a sound disk keeps the invariant.
LEMMA Closes ==
    ASSUME ShellOrdinary, NEW s \in Shells, op = Idle, crashes = 0, op' = op, crashes' = crashes,
           Sound(disk', fat'), NEW a \in Tables, NEW c \in LiveDirs(disk'), c \in Clusters,
           NEW r, RootTable(r), NEW cmd, cmd.pc = "refresh", All(shell', Worker(a, c, r, cmd))
    PROVE  ShellInv'
<1> DEFINE w == Worker(a, c, r, cmd)
<1>1. Steady' /\ op' = Idle /\ crashes' = 0
  BY SoundSteadyNext
<1>2. WorkerOK(disk', fat', op', w)
  BY <1>1, IdleFacts, AtRefresh
<1>3. All(shell', w)
  OBVIOUS
<1> HIDE DEF w
<1> QED
  BY <1>1, <1>2, <1>3, Stepped

\* What is known when a step of mv writes a cluster.
LEMMA Writing ==
    ASSUME ShellOrdinary, ShellInv, NEW s \in Shells, NEW pc \in {"mv_rename", "mv_cut"} \cup Mid, At(s, pc),
           NEW t, NEW b, WriteCluster(t, b), NEW x, shell' = [shell EXCEPT ![s].cmd.pc = x]
    PROVE  LET w == shell[s] IN
           /\ op = Idle /\ crashes = 0 /\ op' = op /\ crashes' = crashes /\ fat' = fat
           /\ Written(disk, disk', b, Table(t))
           /\ w.cmd.pc = pc /\ RootTable(w.rootDir) /\ w.cwd \in Tables /\ w.cluster \in Clusters
           /\ Commanded(disk, fat, w) /\ Ordinary
           /\ pc \notin Mid => Sound(disk, fat) /\ w.cluster \in LiveDirs(disk)
           /\ All(shell', Worker(w.cwd, w.cluster, w.rootDir, Turned(w.cmd, x)))
<1> DEFINE w == shell[s]
<1>1. op = Idle /\ w.cmd.pc = pc /\ pc # "main"
  BY DEF At, Mid
<1>2. WorkerOK(disk, fat, op, w) /\ crashes = 0 /\ shell = [u \in Shells |-> shell[u]]
  BY DEF ShellInv
<1>3. op' = op /\ crashes' = crashes /\ fat' = fat /\ Written(disk, disk', b, Table(t))
  BY DEF WriteCluster, write_clusters, Written
<1>4. RootTable(w.rootDir) /\ w.cwd \in Tables /\ w.cluster \in Clusters /\ Form(w)
  BY <1>1, <1>2 DEF WorkerOK, Form, RootTable
<1>5. All(shell', Worker(w.cwd, w.cluster, w.rootDir, Turned(w.cmd, x)))
  BY <1>2, <1>4, SetsPC
<1>6. pc \notin Mid => Sound(disk, fat) /\ w.cluster \in LiveDirs(disk)
  <2> SUFFICES ASSUME pc \notin Mid PROVE Sound(disk, fat) /\ w.cluster \in LiveDirs(disk)
    OBVIOUS
  <2>1. Sound(disk, fat) /\ Stands(disk, op, w)
    BY Ready
  <2> QED
    BY <1>1, <2>1 DEF Stands
<1>7. Commanded(disk, fat, w) /\ Ordinary
  BY <1>2 DEF WorkerOK, ShellOrdinary
<1> QED
  BY <1>1, <1>2, <1>3, <1>4, <1>5, <1>6, <1>7

\* The last write of a rename, and of a move.
LEMMA RenameEnds ==
    ASSUME NEW d, NEW m, Sound(d, m), NEW d2 \in Disks, NEW here, NEW k, NEW n,
           RenamePlan(d, here, k, n), Renames(d, d2, here, k, n, {})
    PROVE  Sound(d2, m) /\ LiveDirs(d2) = LiveDirs(d) /\ here \in LiveDirs(d2)
<1>1. d \in Disks /\ TreeOK(d) /\ NamesOK(d)
  BY DEF Sound
<1>2. Carried(d, d2, <<here, k>>, <<here, k>>, {}) /\ NamesOK(d2)
  BY <1>1, TreeRenamed
<1>3. Sound(d2, m)
  BY <1>2, SoundCarried
<1>4. LiveDirs(d2) = LiveDirs(d) /\ here \in LiveDirs(d)
  BY <1>2 DEF Carried, RenamePlan
<1> QED
  BY <1>3, <1>4

\* With no link left wrong, the move is done: the disk is sound, no directory is lost.
LEMMA MoveEnds ==
    ASSUME Ordinary, NEW d, NEW m, Sound(d, m), NEW d2 \in Disks, NEW here, NEW k, NEW there, NEW j,
           MovePlan(d, here, k, there, j), Moves(d, d2, here, k, there, j, {})
    PROVE  Sound(d2, m) /\ LiveDirs(d2) = LiveDirs(d) /\ here \in LiveDirs(d2)
<1>1. d \in Disks /\ TreeOK(d) /\ NamesOK(d)
  BY DEF Sound
<1>2. Carried(d, d2, <<here, k>>, <<there, j>>, {}) /\ NamesOK(d2)
  BY <1>1, TreeMoved
<1>3. Sound(d2, m)
  BY <1>2, SoundCarried
<1>4. LiveDirs(d2) = LiveDirs(d) /\ here \in LiveDirs(d)
  BY <1>2 DEF Carried, MovePlan
<1> QED
  BY <1>3, <1>4

\* A rename: the directory's table first, which ends it for a file.
LEMMA MvRenameStep ==
    ASSUME ShellOrdinary, ShellInv, NEW s \in Shells, mv_rename(s) PROVE ShellInv'
<1> DEFINE w == shell[s]
           c == w.cluster
           cmd == w.cmd
           t == TableAt(disk, c)
           x == IF cmd.folder THEN "mv_self" ELSE "refresh"
           new == Turned(cmd, x)
           v == Worker(w.cwd, c, w.rootDir, new)
<1>0. "mv_rename" \notin Mid
  BY DEF Mid
<1>1. /\ op = Idle /\ crashes = 0 /\ op' = op /\ crashes' = crashes /\ fat' = fat
      /\ Written(disk, disk', c, Table(w.cwd))
      /\ RootTable(w.rootDir) /\ w.cwd \in Tables /\ c \in Clusters
      /\ RenameOK(disk, w) /\ Sound(disk, fat) /\ c \in LiveDirs(disk) /\ All(shell', v)
  <2>1. At(s, "mv_rename") /\ WriteCluster(w.cwd, c) /\ shell' = [shell EXCEPT ![s].cmd.pc = x]
    BY DEF mv_rename
  <2> HIDE DEF x
  <2> QED
    BY <1>0, <2>1, Writing DEF Commanded
<1>2. PICK k : /\ RenamePlan(disk, c, k, cmd.dest) /\ w.cwd = Renamed(t, k, cmd.dest)
               /\ Remembers(disk, cmd, t[k])
  BY <1>1 DEF RenameOK
<1>3. disk \in Disks /\ TreeOK(disk) /\ k \in Indices /\ t \in Tables
  <2>1. disk \in Disks /\ TreeOK(disk) /\ t \in Tables
    BY <1>1, LinksLive DEF Sound
  <2>2. k \in Indices
    BY <1>2 DEF RenamePlan, Entries
  <2> QED
    BY <2>1, <2>2
<1>4. cmd.folder = t[k].folder /\ t[k].folder \in BOOLEAN
  BY <1>2, <1>3 DEF Remembers, Tables, Entry
<1>5. /\ RenameRec(new) /\ new.pc = x /\ new.dest = cmd.dest /\ new.folder = cmd.folder
      /\ new.src_table = cmd.src_table
  BY <1>1, RenameTurned DEF RenameOK
<1>6. v.cluster = c /\ v.cmd = new
  BY WorkerFields
<1>7. CASE cmd.folder
  <2>1. x = "mv_self"
    BY <1>7
  <2> HIDE DEF x, new, t
  <2>2. Remembers(disk, new, t[k])
    BY <1>2, <1>5 DEF Remembers
  <2> HIDE DEF v
  <2>3. SelfOK(disk', fat', v)
    BY <1>1, <1>2, <1>4, <1>5, <1>6, <1>7, <2>2 DEF SelfOK, t
  <2> QED
    BY <1>1, <1>5, <2>1, <2>3, Halfway DEF v
<1>8. CASE ~ cmd.folder
  <2>1. x = "refresh" /\ ~ t[k].folder
    BY <1>4, <1>8
  <2>2. Written(disk, disk', c, Table([TableAt(disk, c) EXCEPT ![k].name = cmd.dest]))
    BY <1>1, <1>2 DEF Renamed
  <2>3. disk' \in Disks /\ Renames(disk, disk', c, k, cmd.dest, {})
    BY <1>2, <1>3, <2>1, <2>2, RenameEntry
  <2>4. Sound(disk', fat) /\ c \in LiveDirs(disk')
    BY <1>1, <1>2, <2>3, RenameEnds
  <2> HIDE DEF new, x
  <2>5. Sound(disk', fat') /\ new.pc = "refresh"
    BY <1>1, <1>5, <2>1, <2>4
  <2> QED
    BY <1>1, <2>4, <2>5, Closes
<1> QED
  BY <1>4, <1>7, <1>8

\* Then, for a folder, its own table.
LEMMA MvSelfStep ==
    ASSUME ShellOrdinary, ShellInv, NEW s \in Shells, mv_self(s) PROVE ShellInv'
<1> DEFINE w == shell[s]
           c == w.cluster
           cmd == w.cmd
           table == [cmd.src_table EXCEPT ![0].name = cmd.dest]
           new == Turned(cmd, "refresh")
           v == Worker(w.cwd, c, w.rootDir, new)
<1>1. /\ op = Idle /\ crashes = 0 /\ op' = op /\ crashes' = crashes /\ fat' = fat
      /\ Written(disk, disk', cmd.src_table[0].cluster, Table(table))
      /\ RootTable(w.rootDir) /\ w.cwd \in Tables /\ c \in Clusters
      /\ SelfOK(disk, fat, w) /\ All(shell', v)
  <2>1. /\ At(s, "mv_self") /\ WriteCluster(table, cmd.src_table[0].cluster)
        /\ shell' = [shell EXCEPT ![s].cmd.pc = "refresh"]
    BY DEF mv_self
  <2>2. "mv_self" \in Mid
    BY DEF Mid
  <2> HIDE DEF table
  <2> QED
    BY <2>1, <2>2, Writing DEF Commanded
<1>2. PICK old, k : LET t == TableAt(old, c) IN
         /\ Sound(old, fat) /\ RenamePlan(old, c, k, cmd.dest) /\ Remembers(old, cmd, t[k])
         /\ t[k].folder /\ Written(old, disk, c, Table(Renamed(t, k, cmd.dest)))
  BY <1>1 DEF SelfOK
<1> DEFINE t == TableAt(old, c)
           f == t[k].cluster
<1>3. old \in Disks /\ TreeOK(old) /\ c \in LiveDirs(old) /\ k \in Entries(old, c)
  BY <1>2 DEF Sound, RenamePlan
<1>4. cmd.src_table = TableAt(old, f) /\ TableAt(old, f)[0].cluster = f
  <2>1. <<c, k>> \in LivePlaces(old) /\ EntryAt(old, <<c, k>>) = t[k]
    BY <1>3, PlaceFacts
  <2>2. PlaceOK(old, <<c, k>>)
    BY <1>3, <2>1 DEF TreeOK
  <2> QED
    BY <1>2, <2>1, <2>2 DEF PlaceOK, Remembers
<1>5. /\ disk \in Disks /\ Renames(old, disk, c, k, cmd.dest, {f})
      /\ TableAt(disk, f) = TableAt(old, f)
  <2>1. Written(old, disk, c, Table([TableAt(old, c) EXCEPT ![k].name = cmd.dest]))
    BY <1>2 DEF Renamed
  <2> QED
    BY <1>2, <1>3, <2>1, RenameEntry
<1>6. disk' \in Disks /\ Renames(old, disk', c, k, cmd.dest, {})
  <2>1. Written(disk, disk', f, Table([TableAt(old, f) EXCEPT ![0].name = cmd.dest]))
    BY <1>1, <1>4
  <2> QED
    BY <1>2, <1>3, <1>5, <2>1, RenameSelf
<1>7. Sound(disk', fat) /\ c \in LiveDirs(disk')
  BY <1>2, <1>6, RenameEnds
<1>8. new.pc = "refresh"
  BY <1>1, RenameTurned DEF SelfOK
<1>9. Sound(disk', fat')
  BY <1>1, <1>7
<1> HIDE DEF new
<1> QED
  BY <1>1, <1>7, <1>8, <1>9, Closes

\* A move: the entry is first taken out of the directory it was in.
LEMMA MvCutStep ==
    ASSUME ShellOrdinary, ShellInv, NEW s \in Shells, mv_cut(s) PROVE ShellInv'
<1> DEFINE w == shell[s]
           c == w.cluster
           cmd == w.cmd
           t == TableAt(disk, c)
           new == Turned(cmd, "mv_paste")
           v == Worker(w.cwd, c, w.rootDir, new)
<1>0. "mv_cut" \notin Mid
  BY DEF Mid
<1>1. /\ op = Idle /\ crashes = 0 /\ op' = op /\ crashes' = crashes /\ fat' = fat
      /\ Written(disk, disk', c, Table(w.cwd))
      /\ RootTable(w.rootDir) /\ w.cwd \in Tables /\ c \in Clusters
      /\ CutOK(disk, w) /\ Sound(disk, fat) /\ All(shell', v)
  <2>1. At(s, "mv_cut") /\ WriteCluster(w.cwd, c) /\ shell' = [shell EXCEPT ![s].cmd.pc = "mv_paste"]
    BY DEF mv_cut
  <2> QED
    BY <1>0, <2>1, Writing DEF Commanded
<1>2. PICK k, there, j : Pastes(disk, w, k, there, j) /\ w.cwd = WithEntry(t, k, EmptyEntry)
  BY <1>1 DEF CutOK
<1>3. /\ CutRec(new) /\ new.pc = "mv_paste" /\ new.folder = cmd.folder
      /\ new.src_table = cmd.src_table /\ new.dest_table = cmd.dest_table
  BY <1>1, CutTurned DEF CutOK
<1>4. v.cluster = c /\ v.cmd = new
  BY WorkerFields
<1> HIDE DEF new, v
<1>5. Pastes(disk, v, k, there, j)
  BY <1>2, <1>3, <1>4 DEF Pastes, Remembers
<1>6. CutWritten(disk, disk', v, k)
  BY <1>1, <1>2, <1>4 DEF CutWritten
<1>7. PasteOK(disk', fat', v)
  BY <1>1, <1>3, <1>4, <1>5, <1>6 DEF PasteOK
<1> QED
  BY <1>1, <1>3, <1>7, Halfway DEF v

\* What the shell holds of the destination and of the folder it moves.
LEMMA PasteFacts ==
    ASSUME NEW old, NEW m, Sound(old, m), NEW w, NEW k, NEW there, NEW j, Pastes(old, w, k, there, j)
    PROVE  LET e == TableAt(old, w.cluster)[k] IN
           /\ old \in Disks /\ TreeOK(old) /\ DataOK(old) /\ MovePlan(old, w.cluster, k, there, j)
           /\ w.cmd.dest_table = WithEntry(TableAt(old, there), j, e)
           /\ w.cmd.dest_table[0].cluster = there
           /\ w.cmd.folder = e.folder /\ e.folder \in BOOLEAN
           /\ e.folder => /\ w.cmd.src_table = TableAt(old, e.cluster)
                          /\ w.cmd.src_table[0].cluster = e.cluster
<1> DEFINE t == TableAt(old, w.cluster)
           e == t[k]
           target == TableAt(old, there)
<1>1. /\ old \in Disks /\ TreeOK(old) /\ DataOK(old) /\ MovePlan(old, w.cluster, k, there, j)
      /\ w.cmd.dest_table = WithEntry(target, j, e) /\ Remembers(old, w.cmd, e)
  BY DEF Sound, Pastes
<1>2. /\ <<w.cluster, k>> \in LivePlaces(old) /\ EntryAt(old, <<w.cluster, k>>) = e /\ e \in Entry
      /\ j \in Indices \ {0, 1} /\ there \in LiveDirs(old)
      /\ e.folder => PlaceOK(old, <<w.cluster, k>>)
  BY <1>1, MoveFacts
<1>3. target \in Tables /\ target[0].cluster = there
  BY <1>2, LinksLive
<1>4. WithEntry(target, j, e)[0] = target[0]
  <2>1. 0 \in Indices /\ 0 # j
    BY <1>2, ClusterFacts
  <2> QED
    BY <1>2, <1>3, <2>1, EntryReplaced
<1>5. w.cmd.dest_table[0].cluster = there
  BY <1>1, <1>3, <1>4
<1>6. e.folder \in BOOLEAN
  BY <1>2 DEF Entry
<1>7. e.folder => TableAt(old, e.cluster)[0].cluster = e.cluster
  BY <1>2 DEF PlaceOK
<1> QED
  BY <1>1, <1>5, <1>6, <1>7 DEF Remembers

\* Then it is put into its new directory, which ends the move of a file.
LEMMA MvPasteStep ==
    ASSUME ShellOrdinary, ShellInv, NEW s \in Shells, mv_paste(s) PROVE ShellInv'
<1> DEFINE w == shell[s]
           c == w.cluster
           cmd == w.cmd
           x == IF cmd.folder THEN "mv_relink" ELSE "refresh"
           new == Turned(cmd, x)
           v == Worker(w.cwd, c, w.rootDir, new)
<1>1. /\ op = Idle /\ crashes = 0 /\ op' = op /\ crashes' = crashes /\ fat' = fat
      /\ Written(disk, disk', cmd.dest_table[0].cluster, Table(cmd.dest_table))
      /\ RootTable(w.rootDir) /\ w.cwd \in Tables /\ c \in Clusters
      /\ PasteOK(disk, fat, w) /\ Ordinary /\ All(shell', v)
  <2>1. /\ At(s, "mv_paste") /\ WriteCluster(cmd.dest_table, cmd.dest_table[0].cluster)
        /\ shell' = [shell EXCEPT ![s].cmd.pc = x]
    BY DEF mv_paste
  <2>2. "mv_paste" \in Mid
    BY DEF Mid
  <2> HIDE DEF x
  <2> QED
    BY <2>1, <2>2, Writing DEF Commanded
<1>2. PICK old, k, there, j : Sound(old, fat) /\ Pastes(old, w, k, there, j) /\ CutWritten(old, disk, w, k)
  BY <1>1 DEF PasteOK
<1> DEFINE e == TableAt(old, c)[k]
<1>3. /\ old \in Disks /\ TreeOK(old) /\ DataOK(old) /\ MovePlan(old, c, k, there, j)
      /\ cmd.dest_table = WithEntry(TableAt(old, there), j, e)
      /\ cmd.dest_table[0].cluster = there
      /\ cmd.folder = e.folder /\ e.folder \in BOOLEAN
  BY <1>2, PasteFacts
<1>4. /\ CutRec(new) /\ new.pc = x /\ new.folder = cmd.folder
      /\ new.src_table = cmd.src_table /\ new.dest_table = cmd.dest_table
  BY <1>1, CutTurned DEF PasteOK
<1>5. v.cluster = c /\ v.cmd = new
  BY WorkerFields
<1>6. Written(disk, disk', there, Table(cmd.dest_table))
  BY <1>1, <1>3
<1>7. CASE cmd.folder
  <2>1. x = "mv_relink"
    BY <1>7
  <2> HIDE DEF x, new, v
  <2>2. Pastes(old, v, k, there, j)
    BY <1>2, <1>4, <1>5 DEF Pastes, Remembers
  <2>3. CutWritten(old, disk, v, k)
    BY <1>2, <1>5 DEF CutWritten
  <2>4. TableAt(old, v.cluster)[k].folder /\ Written(disk, disk', there, Table(v.cmd.dest_table))
    BY <1>3, <1>4, <1>5, <1>6, <1>7
  <2>5. RelinkOK(disk', fat', v)
    BY <1>1, <1>2, <1>4, <1>5, <2>2, <2>3, <2>4 DEF RelinkOK
  <2> QED
    BY <1>1, <1>4, <2>1, <2>5, Halfway DEF v
<1>8. CASE ~ cmd.folder
  <2>1. x = "refresh" /\ ~ e.folder
    BY <1>3, <1>8
  <2>2. Written(old, disk, c, Table(WithEntry(TableAt(old, c), k, EmptyEntry)))
    BY <1>2 DEF CutWritten
  <2>3. Written(disk, disk', there, Table(WithEntry(TableAt(old, there), j, TableAt(old, c)[k])))
    BY <1>3, <1>6
  <2>4. disk' \in Disks /\ Moves(old, disk', c, k, there, j, {})
    BY <1>3, <2>1, <2>2, <2>3, TreePasted
  <2>5. Sound(disk', fat) /\ c \in LiveDirs(disk')
    BY <1>1, <1>2, <1>3, <2>4, MoveEnds
  <2> HIDE DEF new, x
  <2>6. Sound(disk', fat') /\ new.pc = "refresh"
    BY <1>1, <1>4, <2>1, <2>5
  <2> QED
    BY <1>1, <2>5, <2>6, Closes
<1> QED
  BY <1>3, <1>7, <1>8

\* The move of a folder ends with its link to its parent.
LEMMA MvRelinkStep ==
    ASSUME ShellOrdinary, ShellInv, NEW s \in Shells, mv_relink(s) PROVE ShellInv'
<1> DEFINE w == shell[s]
           c == w.cluster
           cmd == w.cmd
           table == [cmd.src_table EXCEPT ![1].cluster = cmd.dest_table[0].cluster]
           new == Turned(cmd, "refresh")
           v == Worker(w.cwd, c, w.rootDir, new)
<1>1. /\ op = Idle /\ crashes = 0 /\ op' = op /\ crashes' = crashes /\ fat' = fat
      /\ Written(disk, disk', cmd.src_table[0].cluster, Table(table))
      /\ RootTable(w.rootDir) /\ w.cwd \in Tables /\ c \in Clusters
      /\ RelinkOK(disk, fat, w) /\ Ordinary /\ All(shell', v)
  <2>1. /\ At(s, "mv_relink") /\ WriteCluster(table, cmd.src_table[0].cluster)
        /\ shell' = [shell EXCEPT ![s].cmd.pc = "refresh"]
    BY DEF mv_relink
  <2>2. "mv_relink" \in Mid
    BY DEF Mid
  <2> HIDE DEF table
  <2> QED
    BY <2>1, <2>2, Writing DEF Commanded
<1>2. PICK old, cut, k, there, j :
         /\ Sound(old, fat) /\ Pastes(old, w, k, there, j) /\ CutWritten(old, cut, w, k)
         /\ TableAt(old, c)[k].folder /\ Written(cut, disk, there, Table(cmd.dest_table))
  BY <1>1 DEF RelinkOK
<1> DEFINE e == TableAt(old, c)[k]
           f == e.cluster
<1>3. /\ old \in Disks /\ TreeOK(old) /\ DataOK(old) /\ MovePlan(old, c, k, there, j)
      /\ cmd.dest_table = WithEntry(TableAt(old, there), j, e)
      /\ cmd.dest_table[0].cluster = there /\ e.folder
      /\ cmd.src_table = TableAt(old, f) /\ cmd.src_table[0].cluster = f
  BY <1>2, PasteFacts
<1>4. /\ disk \in Disks /\ Moves(old, disk, c, k, there, j, {f})
      /\ TableAt(disk, f) = TableAt(old, f)
  <2>1. Written(old, cut, c, Table(WithEntry(TableAt(old, c), k, EmptyEntry)))
    BY <1>2 DEF CutWritten
  <2>2. Written(cut, disk, there, Table(WithEntry(TableAt(old, there), j, TableAt(old, c)[k])))
    BY <1>2, <1>3
  <2> QED
    BY <1>3, <2>1, <2>2, TreePasted
<1>5. disk' \in Disks /\ Moves(old, disk', c, k, there, j, {})
  <2>1. Written(disk, disk', f, Table([TableAt(old, f) EXCEPT ![1].cluster = there]))
    BY <1>1, <1>3
  <2> QED
    BY <1>3, <1>4, <2>1, TreeRelinked
<1>6. Sound(disk', fat) /\ c \in LiveDirs(disk')
  BY <1>1, <1>2, <1>3, <1>5, MoveEnds
<1>7. new.pc = "refresh"
  BY <1>1, CutTurned DEF RelinkOK
<1>8. Sound(disk', fat')
  BY <1>1, <1>6
<1> HIDE DEF new
<1> QED
  BY <1>1, <1>6, <1>7, <1>8, Closes

-----------------------------------------------------------------------------
(***************************************************************************)
(* The driver's own steps: whoever waits for them still stands in the tree.    *)
(***************************************************************************)
DriverStepDone ==
    /\ Steady' /\ crashes' = 0 /\ op'.pc # "d_parent"
    /\ \A c \in LiveDirs(disk) : (op.pc = "d_parent" => op.parent = c) => c \in LiveDirs(disk')

\* The links of a table are kept by a write that changes another entry.
LEMMA RootKept ==
    ASSUME NEW d \in Disks, TreeOK(d), NEW d2, RootOK(d), NEW parent,
           \A c \in LiveDirs(d) : c # parent => TableAt(d2, c) = TableAt(d, c),
           \A i \in {0, 1} : TableAt(d2, parent)[i] = TableAt(d, parent)[i]
    PROVE  RootOK(d2)
<1>1. ROOT_CLUSTER_NUMBER \in LiveDirs(d)
  BY TreeFacts, LiveLeast
<1>2. \A i \in {0, 1} : TableAt(d2, ROOT_CLUSTER_NUMBER)[i] = TableAt(d, ROOT_CLUSTER_NUMBER)[i]
  BY <1>1
<1> QED
  BY <1>2 DEF RootOK

\* Writes outside the tree.
LEMMA DriverSpares ==
    ASSUME Ordinary, Steady, DriverInv', ContentInv', TreeOK(disk), Spares(disk, disk'),
           crashes' = crashes, op' = Idle \/ op'.pc \in {"w_fat", "w_data", "w_parent", "d_free", "d_fat"}
    PROVE  DriverStepDone
<1>1. disk \in Disks /\ disk' \in Disks
  BY DEF Steady, DriverInv, DriverOK
<1>2. /\ LiveDirs(disk') = LiveDirs(disk)
      /\ \A c \in LiveDirs(disk) : TableAt(disk', c) = TableAt(disk, c)
  BY <1>1, TreeKept
<1>3. RootOK(disk')
  <2>1. ROOT_CLUSTER_NUMBER \in LiveDirs(disk)
    BY <1>1, TreeFacts, LiveLeast
  <2>2. TableAt(disk', ROOT_CLUSTER_NUMBER) = TableAt(disk, ROOT_CLUSTER_NUMBER)
    BY <1>2, <2>1
  <2> QED
    BY <2>2 DEF Steady, RootOK
<1>4. op'.pc # "d_parent" /\ (op' = Idle \/ op'.pc \in WritePCs \cup DeletePCs)
  BY IdleFacts DEF WritePCs, DeletePCs
<1>5. Steady'
  BY <1>3, <1>4 DEF Steady
<1> QED
  BY <1>2, <1>4, <1>5 DEF DriverStepDone, Steady

\* A disk write of the driver keeps its invariant, and all that a waiting shell needs.
LEMMA DriverMoves ==
    ASSUME Ordinary, Steady, Driver PROVE DriverStepDone /\ op # Idle
<1>1. DriverInv /\ ContentInv /\ disk \in Disks /\ RootOK(disk) /\ crashes = 0
  BY DEF Steady, DriverInv, DriverOK
<1>2. Next /\ crashes' = crashes
  BY DEF Driver, Next, Step, WriteChild, WriteFat, WriteData, WriteParent, DeleteParent, DeleteFree, DeleteFat
<1>3. DriverInv' /\ ContentInv'
  BY <1>1, <1>2, DriverStep, ContentStep
<1>4. op'.pc \in PCs /\ disk' \in Disks
  BY <1>3 DEF DriverInv, DriverOK
<1>5. CASE WriteChild
  <2>1. op.pc = "w_child" /\ op' = [op EXCEPT !.pc = "w_fat"]
    BY <1>5 DEF WriteChild
  <2>2. WriteRec(op)
    BY <1>1, <2>1, WriteBefore DEF WritePCs
  <2>3. op'.pc = "w_fat"
    BY <2>1, <2>2, WriteForm
  <2> QED
    BY <1>1, <1>2, <1>3, <1>5, <2>1, <2>3, WriteChildStep, DriverSpares, IdleFacts
<1>6. CASE WriteFat
  <2> DEFINE x == IF op.payload = "folder" THEN "w_parent" ELSE "w_data"
  <2>1. op.pc = "w_fat" /\ op' = [op EXCEPT !.pc = x]
    BY <1>6 DEF WriteFat
  <2>2. WriteRec(op)
    BY <1>1, <2>1, WriteBefore DEF WritePCs
  <2>3. op'.pc = x
    BY <2>1, <2>2, WriteForm
  <2> QED
    BY <1>1, <1>2, <1>3, <1>6, <2>1, <2>3, WriteFatStep, DriverSpares, IdleFacts
<1>7. CASE WriteData
  <2>1. /\ op.pc = "w_data"
        /\ \/ Advanced(op, op', "w_fat", op.j + 1)
           \/ op' = [op EXCEPT !.pc = "w_parent"]
    BY <1>7 DEF WriteData, Advanced
  <2>2. WriteRec(op)
    BY <1>1, <2>1, WriteBefore DEF WritePCs
  <2>3. op'.pc \in {"w_fat", "w_parent"}
    BY <2>1, <2>2, WriteForm, WriteFormNext
  <2> QED
    BY <1>1, <1>2, <1>3, <1>7, <2>1, <2>3, WriteDataStep, DriverSpares, IdleFacts
<1>8. CASE WriteParent
  <2>1. op.pc = "w_parent" /\ op' = Idle
    BY <1>8 DEF WriteParent
  <2>2. TreeOK(disk)
    BY <1>1, <1>8, WriteParentStep
  <2>3. PICK i, e : Adds(disk, disk', op.parent, i, e)
    BY <1>1, <1>8, WriteParentStep
  <2>4. /\ i \in Indices \ {0, 1} /\ LiveDirs(disk) \subseteq LiveDirs(disk')
        /\ \A c \in LiveDirs(disk) : c # op.parent => TableAt(disk', c) = TableAt(disk, c)
        /\ \A k \in Indices : k # i => TableAt(disk', op.parent)[k] = TableAt(disk, op.parent)[k]
    BY <1>1, <2>2, <2>3, DirsAdded
  <2>5. RootOK(disk')
    BY <1>1, <2>2, <2>4, RootKept, ClusterFacts
  <2> QED
    BY <1>1, <1>2, <1>3, <2>1, <2>4, <2>5, IdleFacts DEF DriverStepDone, Steady
<1>9. CASE DeleteParent
  <2>1. op.pc = "d_parent" /\ FreesNext(op, op', "d_free", op.cluster)
    BY <1>9 DEF DeleteParent, FreesNext
  <2>2. DeleteRec(op)
    BY <1>1, <2>1 DEF DriverInv, DriverOK, UnlinkOK
  <2>3. op'.pc = "d_free"
    BY <2>1, <2>2, DeleteForm
  <2>4. TreeOK(disk)
    BY <1>1, <1>9, DeleteParentStep
  <2>5. PICK i \in Entries(disk, op.parent) : Drops(disk, disk', op.parent, i, TableAt(disk, op.parent)[i])
    BY <1>1, <1>9, DeleteParentStep
  <2>6. /\ op.parent \in LiveDirs(disk')
        /\ \A c \in LiveDirs(disk) : c # op.parent => TableAt(disk', c) = TableAt(disk, c)
        /\ \A k \in Indices : k # i => TableAt(disk', op.parent)[k] = TableAt(disk, op.parent)[k]
    BY <1>1, <2>4, <2>5, DirsDropped
  <2>7. i \in Indices \ {0, 1}
    BY DEF Entries
  <2>8. RootOK(disk')
    BY <1>1, <2>4, <2>6, <2>7, RootKept, ClusterFacts
  <2>9. Steady'
    BY <1>1, <1>2, <1>3, <2>3, <2>8 DEF Steady, DeletePCs
  <2>10. \A c \in LiveDirs(disk) : (op.pc = "d_parent" => op.parent = c) => c \in LiveDirs(disk')
    BY <2>1, <2>6
  <2> QED
    BY <1>1, <1>2, <2>1, <2>3, <2>9, <2>10, IdleFacts DEF DriverStepDone
<1>10. CASE DeleteFree
  <2> DEFINE next == fat[op.cluster]
             x == IF next = FAT32_FAT_END_OF_FILE THEN "d_fat"
                  ELSE IF next \in Clusters THEN "d_free" ELSE "stuck"
  <2>1. op.pc = "d_free" /\ FreesNext(op, op', x, next)
    BY <1>10 DEF DeleteFree, FreesNext
  <2>2. DeleteRec(op)
    BY <1>1, <2>1 DEF DriverInv, DriverOK, FreeingOK
  <2>3. op'.pc = x
    BY <2>1, <2>2, DeleteForm
  <2>4. op'.pc \in {"d_free", "d_fat"}
    BY <1>4, <2>3 DEF PCs
  <2> QED
    BY <1>1, <1>2, <1>3, <1>10, <2>1, <2>4, DeleteFreeStep, DriverSpares, IdleFacts
<1>11. CASE DeleteFat
  <2>1. op.pc = "d_fat" /\ op' = Idle
    BY <1>11 DEF DeleteFat
  <2> QED
    BY <1>1, <1>2, <1>3, <1>11, <2>1, DeleteFatStep, DriverSpares, IdleFacts
<1> QED
  BY <1>5, <1>6, <1>7, <1>8, <1>9, <1>10, <1>11 DEF Driver

\* A driver step keeps the invariant of the shells.
LEMMA DriverKeeps ==
    ASSUME ShellOrdinary, ShellInv, Driver PROVE ShellInv'
<1>1. op.pc \in WritePCs \cup DeletePCs
  BY DEF Driver, WriteChild, WriteFat, WriteData, WriteParent, DeleteParent, DeleteFree, DeleteFat,
         WritePCs, DeletePCs
<1>2. op # Idle
  BY <1>1, IdleFacts DEF WritePCs, DeletePCs
<1>3. \A s \in Shells : shell[s].cmd.pc \in {"refresh", "cp_done"}
  BY <1>2 DEF ShellInv, WorkerOK, Stands
<1>4. Steady
  BY <1>3 DEF ShellInv, Mid
<1>5. DriverStepDone /\ shell' = shell
  BY <1>4, DriverMoves DEF ShellOrdinary, Driver
<1>6. ASSUME NEW s \in Shells PROVE WorkerOK(disk', fat', op', shell'[s])
  <2> DEFINE w == shell[s]
  <2>1. Form(w) /\ Stands(disk, op, w) /\ w.cmd.pc \in {"refresh", "cp_done"}
    BY <1>3 DEF ShellInv, WorkerOK
  <2>2. w.cluster \in LiveDirs(disk) /\ (op.pc = "d_parent" => op.parent = w.cluster)
    BY <2>1 DEF Stands, Mid
  <2>3. w.cluster \in LiveDirs(disk') /\ op'.pc # "d_parent"
    BY <1>5, <2>2 DEF DriverStepDone
  <2>4. Stands(disk', op', w)
    BY <2>1, <2>3 DEF Stands
  <2>5. Commanded(disk', fat', w)
    BY <2>1 DEF Commanded
  <2> QED
    BY <1>5, <2>1, <2>4, <2>5 DEF WorkerOK
<1> QED
  BY <1>5, <1>6 DEF ShellInv, DriverStepDone

-----------------------------------------------------------------------------
(***************************************************************************)
(* The invariant holds at boot, on the image the makefile runs with, and every  *)
(* step keeps it.                                                           *)
(***************************************************************************)
LEMMA ShellInitOK ==
    ASSUME ShellOrdinary, ShellInit PROVE ShellInv
<1>1. PICK payload \in Payloads : disk = Image(payload)
  BY DEF ShellInit
<1>2. fat = ImageFat /\ op = Idle /\ crashes = 0 /\ shell = [s \in Shells |-> Booting]
  BY DEF ShellInit
<1>3. Sound(disk, fat)
  BY <1>1, <1>2, ImageSound DEF ShellOrdinary
<1>4. Steady
  BY <1>2, <1>3, SoundSteady
<1>5. WorkerOK(disk, fat, op, Booting)
  <2> DEFINE w == Booting
  <2>1. /\ w.cwd = EmptyTable /\ w.cluster = 0 /\ w.rootDir = EmptyTable /\ w.cmd.pc = "main"
        /\ w = [cwd |-> w.cwd, cluster |-> w.cluster, rootDir |-> w.rootDir, cmd |-> w.cmd]
    BY DEF Booting
  <2>2. EmptyTable \in Tables /\ 0 \in Clusters
    BY ContentFacts, ClusterFacts
  <2> HIDE DEF w
  <2>3. Form(w)
    BY <2>1, <2>2 DEF Form, ShellPCs
  <2>4. Stands(disk, op, w)
    BY <1>2, <2>1, IdleFacts DEF Stands
  <2>5. Commanded(disk, fat, w)
    BY <2>1 DEF Commanded
  <2> QED
    BY <2>3, <2>4, <2>5 DEF WorkerOK, w
<1> QED
  BY <1>2, <1>4, <1>5 DEF ShellInv

\* Every command typed keeps the invariant.
LEMMA CommandKeeps ==
    ASSUME ShellOrdinary, ShellInv, NEW s \in Shells, Command(s) PROVE ShellInv'
<1>1. CASE main(s) \/ Refresh(s) \/ cd(s) \/ cp_done(s)
  BY <1>1, MainStep, RefreshStep, CdStep
<1>2. CASE \E name \in Names : mkdir(s, name) \/ rm(s, name) \/ find(s, name)
  BY <1>2, MkdirStep, RmStep, FindStep
<1>3. CASE \E src, dest \in Names : cp(s, src, dest) \/ mv(s, src, dest)
  BY <1>3, CpStep, MvStep
<1>4. CASE cp_write(s) \/ mv_dest(s) \/ find_recursive(s)
  BY <1>4, CpWriteStep, MvDestStep, FindRecursiveStep
<1>5. CASE mv_rename(s) \/ mv_self(s) \/ mv_cut(s) \/ mv_paste(s) \/ mv_relink(s)
  BY <1>5, MvRenameStep, MvSelfStep, MvCutStep, MvPasteStep, MvRelinkStep
<1> QED
  BY <1>1, <1>2, <1>3, <1>4, <1>5 DEF Command

\* Every step of the system keeps the invariant.
LEMMA ShellKeeps ==
    ASSUME ShellOrdinary, ShellInv, [ShellNext]_shellvars PROVE ShellInv'
<1>1. CASE Driver
  BY <1>1, DriverKeeps
<1>2. CASE \E s \in Shells : Command(s)
  BY <1>2, CommandKeeps
<1>3. CASE UNCHANGED shellvars
  <2>1. disk' = disk /\ fat' = fat /\ op' = op /\ crashes' = crashes /\ shell' = shell
    BY <1>3 DEF shellvars
  <2>2. Steady => Steady'
    BY <2>1 DEF Steady, DriverInv, ContentInv
  <2> QED
    BY <2>1, <2>2 DEF ShellInv
<1> QED
  BY <1>1, <1>2, <1>3 DEF ShellNext

(***************************************************************************)
(* ShellInv is an invariant of the shell's file commands, for every size of      *)
(* disk, table and buffer: every value of the constants for which no number of    *)
(* clusters wraps and no name is the empty one (Ordinary), the users keep to       *)
(* careful moves, and there is one shell.                                     *)
(***************************************************************************)
THEOREM ShellInvariant == ShellSpec => [](ShellOrdinary => ShellInv)
<1>1. ShellInit => (ShellOrdinary => ShellInv)
  BY ShellInitOK
<1>2. (ShellOrdinary => ShellInv) /\ [ShellNext]_shellvars => (ShellOrdinary => ShellInv)'
  <2>1. ShellOrdinary' => ShellOrdinary
    BY DEF ShellOrdinary, Ordinary
  <2> QED
    BY <2>1, ShellKeeps
<1> QED
  BY <1>1, <1>2, PTL DEF ShellSpec

-----------------------------------------------------------------------------
(***************************************************************************)
(* What follows from the invariant.                                          *)
(***************************************************************************)

\* While a call of the driver is in progress too, its invariant says there is a tree.
LEMMA SteadyTree ==
    ASSUME Steady PROVE disk \in Disks /\ TreeOK(disk) /\ DataOK(disk)
<1>1. disk \in Disks /\ DataOK(disk) /\ crashes = 0
  BY DEF Steady, DriverInv, DriverOK, ContentInv
<1>2. Formatted(disk) => TreeOK(disk)
  BY DEF Steady, DriverInv, DriverOK
<1>3. Formatted(disk)
  <2>1. CASE op = Idle
    BY <1>1, <2>1, IdleFacts DEF Steady, DriverInv, LeakFree
  <2>2. CASE op.pc \in WritePCs \cup DeletePCs
    BY <2>2 DEF Steady, DriverInv, DriverOK
  <2> QED
    BY <2>1, <2>2 DEF Steady
<1> QED
  BY <1>1, <1>2, <1>3

\* Between the writes of mv_rename and mv_self.
LEMMA SelfTree ==
    ASSUME Ordinary, NEW w, SelfOK(disk, fat, w)
    PROVE  LET f == w.cmd.src_table[0].cluster IN
           disk \in Disks /\ TreeBut(disk, {f}) /\ DataOK(disk) /\ f \in LiveDirs(disk)
<1> DEFINE c == w.cluster
           cmd == w.cmd
<1>1. PICK old, k : LET t == TableAt(old, c) IN
         /\ Sound(old, fat) /\ RenamePlan(old, c, k, cmd.dest) /\ Remembers(old, cmd, t[k])
         /\ t[k].folder /\ Written(old, disk, c, Table(Renamed(t, k, cmd.dest)))
  BY DEF SelfOK
<1> DEFINE t == TableAt(old, c)
           f == t[k].cluster
<1>2. /\ old \in Disks /\ TreeOK(old) /\ DataOK(old) /\ NamesOK(old)
      /\ c \in LiveDirs(old) /\ k \in Entries(old, c)
  BY <1>1 DEF Sound, RenamePlan
<1>3. cmd.src_table[0].cluster = f /\ f \in LiveDirs(old)
  <2>1. <<c, k>> \in LivePlaces(old) /\ EntryAt(old, <<c, k>>) = t[k]
    BY <1>2, PlaceFacts
  <2>2. PlaceOK(old, <<c, k>>) /\ f \in LiveDirs(old)
    BY <1>1, <1>2, <2>1, PlaceFacts DEF TreeOK
  <2> QED
    BY <1>1, <2>1, <2>2 DEF PlaceOK, Remembers
<1>4. disk \in Disks /\ Renames(old, disk, c, k, cmd.dest, {f})
  <2>1. Written(old, disk, c, Table([TableAt(old, c) EXCEPT ![k].name = cmd.dest]))
    BY <1>1 DEF Renamed
  <2> QED
    BY <1>1, <1>2, <2>1, RenameEntry
<1>5. Carried(old, disk, <<c, k>>, <<c, k>>, {f})
  BY <1>1, <1>2, <1>4, TreeRenamed
<1>6. TreeBut(disk, {f}) /\ DataOK(disk)
  BY <1>2, <1>4, <1>5, TreeCarried
<1>7. f \in LiveDirs(disk)
  BY <1>3, <1>5 DEF Carried
<1> QED
  BY <1>3, <1>4, <1>6, <1>7

\* Between the writes of mv_cut and mv_paste.
LEMMA PasteTree ==
    ASSUME NEW w, PasteOK(disk, fat, w)
    PROVE  LET b == w.cmd.dest_table[0].cluster IN
           /\ disk \in Disks /\ TreeOK(disk) /\ DataOK(disk)
           /\ b \in Clusters /\ disk[b].kind = "table"
<1>1. PICK old, k, there, j : Sound(old, fat) /\ Pastes(old, w, k, there, j) /\ CutWritten(old, disk, w, k)
  BY DEF PasteOK
<1>2. /\ old \in Disks /\ TreeOK(old) /\ DataOK(old) /\ MovePlan(old, w.cluster, k, there, j)
      /\ w.cmd.dest_table[0].cluster = there
  BY <1>1, PasteFacts
<1>3. Written(old, disk, w.cluster, Table(WithEntry(TableAt(old, w.cluster), k, EmptyEntry)))
  BY <1>1 DEF CutWritten
<1>4. /\ disk \in Disks /\ TreeOK(disk) /\ DataOK(disk)
      /\ \A b \in Clusters : b # w.cluster => disk[b] = old[b]
  BY <1>2, <1>3, TreeCut
<1>5. there \in LiveDirs(old) /\ there # w.cluster
  BY <1>2, MoveFacts
<1>6. there \in Clusters /\ old[there].kind = "table"
  BY <1>1, <1>5, LinksLive DEF DirOK
<1> QED
  BY <1>2, <1>4, <1>5, <1>6

\* Between the writes of mv_paste and mv_relink.
LEMMA RelinkTree ==
    ASSUME Ordinary, NEW w, RelinkOK(disk, fat, w)
    PROVE  LET f == w.cmd.src_table[0].cluster IN
           disk \in Disks /\ TreeBut(disk, {f}) /\ DataOK(disk) /\ f \in LiveDirs(disk)
<1> DEFINE c == w.cluster
           cmd == w.cmd
<1>1. PICK old, cut, k, there, j :
         /\ Sound(old, fat) /\ Pastes(old, w, k, there, j) /\ CutWritten(old, cut, w, k)
         /\ TableAt(old, c)[k].folder /\ Written(cut, disk, there, Table(cmd.dest_table))
  BY DEF RelinkOK
<1> DEFINE e == TableAt(old, c)[k]
           f == e.cluster
<1>2. /\ old \in Disks /\ TreeOK(old) /\ DataOK(old) /\ MovePlan(old, c, k, there, j)
      /\ cmd.dest_table = WithEntry(TableAt(old, there), j, e)
      /\ cmd.src_table[0].cluster = f
  BY <1>1, PasteFacts
<1>3. disk \in Disks /\ Moves(old, disk, c, k, there, j, {f})
  <2>1. Written(old, cut, c, Table(WithEntry(TableAt(old, c), k, EmptyEntry)))
    BY <1>1 DEF CutWritten
  <2>2. Written(cut, disk, there, Table(WithEntry(TableAt(old, there), j, TableAt(old, c)[k])))
    BY <1>1, <1>2
  <2> QED
    BY <1>2, <2>1, <2>2, TreePasted
<1>4. NamesOK(old)
  BY <1>1 DEF Sound
<1>5. Carried(old, disk, <<c, k>>, <<there, j>>, {f})
  BY <1>2, <1>3, <1>4, TreeMoved
<1>6. TreeBut(disk, {f}) /\ DataOK(disk)
  BY <1>2, <1>3, <1>5, TreeCarried
<1>7. f \in LiveDirs(old)
  BY <1>1, <1>2, MoveFacts
<1>8. f \in LiveDirs(disk)
  BY <1>5, <1>7 DEF Carried
<1> QED
  BY <1>2, <1>3, <1>6, <1>8

\* In every state there is a tree on disk, with wrong links in the folder being moved at most.
LEMMA AlwaysTree ==
    ASSUME ShellOrdinary, ShellInv PROVE disk \in Disks /\ TreeBut(disk, Moving) /\ DataOK(disk)
<1>1. CASE \A s \in Shells : shell[s].cmd.pc \notin Mid
  <2>1. disk \in Disks /\ TreeOK(disk) /\ DataOK(disk)
    BY <1>1, SteadyTree DEF ShellInv
  <2>2. Moving = {}
    BY <1>1 DEF Moving, Mid
  <2> QED
    BY <2>1, <2>2, TreeButNone
<1>2. CASE \E s \in Shells : shell[s].cmd.pc \in Mid
  <2>1. PICK s \in Shells : shell[s].cmd.pc \in Mid
    BY <1>2
  <2>2. \A u \in Shells : u = s
    BY DEF ShellOrdinary
  <2>3. Commanded(disk, fat, shell[s]) /\ Ordinary
    BY DEF ShellInv, WorkerOK, ShellOrdinary
  <2> DEFINE f == shell[s].cmd.src_table[0].cluster
  <2>4. CASE shell[s].cmd.pc = "mv_self"
    <3>1. Moving = {f}
      BY <2>2, <2>4 DEF Moving
    <3>2. disk \in Disks /\ TreeBut(disk, {f}) /\ DataOK(disk)
      BY <2>3, <2>4, SelfTree DEF Commanded
    <3> QED
      BY <3>1, <3>2
  <2>5. CASE shell[s].cmd.pc = "mv_relink"
    <3>1. Moving = {f}
      BY <2>2, <2>5 DEF Moving
    <3>2. disk \in Disks /\ TreeBut(disk, {f}) /\ DataOK(disk)
      BY <2>3, <2>5, RelinkTree DEF Commanded
    <3> QED
      BY <3>1, <3>2
  <2>6. CASE shell[s].cmd.pc = "mv_paste"
    <3>1. Moving = {}
      BY <2>2, <2>6 DEF Moving
    <3>2. disk \in Disks /\ TreeOK(disk) /\ DataOK(disk)
      BY <2>3, <2>6, PasteTree DEF Commanded
    <3> QED
      BY <3>1, <3>2, TreeButNone
  <2> QED
    BY <2>1, <2>4, <2>5, <2>6 DEF Mid
<1> QED
  BY <1>1, <1>2

\* ShellTypeOK: the shells' state keeps its shape, and find's recursion its bound.
THEOREM ShellTypes == ShellSpec => [](ShellOrdinary => ShellTypeOK)
<1>1. ShellInv => ShellTypeOK
  <2> SUFFICES ASSUME ShellInv, NEW s \in Shells
               PROVE  /\ DOMAIN shell[s].cwd = Indices /\ DOMAIN shell[s].rootDir = Indices
                      /\ shell[s].cluster \in Clusters
                      /\ shell[s].cmd.pc \in {"main", "prompt", "refresh", "cp_write", "cp_done", "mv_dest",
                            "mv_rename", "mv_self", "mv_cut", "mv_paste", "mv_relink", "find", "overflow"}
                      /\ shell[s].cmd.pc = "find" => Len(shell[s].cmd.level) \in 1 .. MaxDepth
    BY DEF ShellTypeOK
  <2>1. Form(shell[s]) /\ Commanded(disk, fat, shell[s])
    BY DEF ShellInv, WorkerOK
  <2>2. DOMAIN shell[s].cwd = Indices /\ DOMAIN shell[s].rootDir = Indices /\ shell[s].cluster \in Clusters
    BY <2>1 DEF Form, Tables
  <2>3. shell[s].cmd.pc \in ShellPCs
    BY <2>1 DEF Form
  <2>4. shell[s].cmd.pc = "find" => Len(shell[s].cmd.level) \in 1 .. MaxDepth
    BY <2>1 DEF Commanded, FindOK
  <2> QED
    BY <2>2, <2>3, <2>4 DEF ShellPCs, Mid
<1> QED
  BY <1>1, ShellInvariant, PTL

\* Between commands the driver is idle and the tree is as it should be.
LEMMA PromptSound ==
    ASSUME ShellInv, AllAtPrompt PROVE Steady /\ op = Idle /\ Sound(disk, fat)
<1>1. Steady /\ op = Idle
  BY DEF ShellInv, AllAtPrompt, Mid
<1> QED
  BY <1>1, SteadySound

\* TreeSound: whatever commands were typed, the tree is sound and its names are unique between commands.
THEOREM TreeStaysSound == ShellSpec => [](ShellOrdinary => TreeSound)
<1>1. ShellInv => TreeSound
  <2> SUFFICES ASSUME ShellInv, AllAtPrompt
               PROVE  /\ ChainsSound /\ LinksSound
                      /\ \A c \in LiveDirs(disk) : \A i, k \in Entries(disk, c) :
                           TableAt(disk, c)[i].name = TableAt(disk, c)[k].name => i = k
    BY DEF TreeSound
  <2>1. disk \in Disks /\ TreeOK(disk) /\ NamesOK(disk)
    BY PromptSound DEF Sound
  <2>2. ChainsSound /\ LinksSoundBut({})
    BY <2>1, TreeButNone, TreeButSound
  <2>3. \A c \in LiveDirs(disk) : \A i, k \in Entries(disk, c) :
           TableAt(disk, c)[i].name = TableAt(disk, c)[k].name => i = k
    BY <2>1 DEF NamesOK, Entries
  <2> QED
    BY <2>2, <2>3 DEF LinksSound
<1> QED
  BY <1>1, ShellInvariant, PTL

\* MoveCrashSound: wherever the power fails, no cluster has two owners and only the moved folder's links are off.
THEOREM MovesCrashSound == ShellSpec => [](ShellOrdinary => MoveCrashSound)
<1>1. ShellOrdinary /\ ShellInv => MoveCrashSound
  <2> SUFFICES ASSUME ShellOrdinary, ShellInv PROVE MoveCrashSound
    OBVIOUS
  <2>1. disk \in Disks /\ TreeBut(disk, Moving)
    BY AlwaysTree
  <2> QED
    BY <2>1, TreeButSound DEF MoveCrashSound
<1> QED
  BY <1>1, ShellInvariant, PTL

\* NothingLost: between commands every allocated cluster belongs to an entry of the tree.
THEOREM MovesLoseNothing == ShellSpec => [](ShellOrdinary => NothingLost)
<1>1. ShellInv => NothingLost
  <2> SUFFICES ASSUME ShellInv, AllAtPrompt PROVE NoClusterLeak
    BY DEF NothingLost
  <2> QED
    BY PromptSound, NothingLeaks DEF Steady
<1> QED
  BY <1>1, ShellInvariant, PTL

\* CwdFresh: between commands a shell stands in the tree and its copy is what the disk holds.
THEOREM CopiesFresh == ShellSpec => [](ShellOrdinary => CwdFresh)
<1>1. ShellInv => CwdFresh
  <2> SUFFICES ASSUME ShellInv, AllAtPrompt, NEW s \in Shells
               PROVE  shell[s].cluster \in LiveDirs(disk) /\ shell[s].cwd = TableAt(disk, shell[s].cluster)
    BY DEF CwdFresh
  <2>1. Stands(disk, op, shell[s]) /\ shell[s].cmd.pc = "prompt"
    BY DEF ShellInv, WorkerOK, AllAtPrompt
  <2> QED
    BY <2>1 DEF Stands, Mid
<1> QED
  BY <1>1, ShellInvariant, PTL

-----------------------------------------------------------------------------
(***************************************************************************)
(* Files: every write of the shell and of the driver hits a directory's table,  *)
(* the allocation table, or a cluster outside the tree.                       *)
(***************************************************************************)
Intact(d, d2) ==
    \A e \in LiveEntries(d) : ~ e.folder => \A c \in ChainSet(FatOf(d), e.cluster) : d2[c] = d[c]

\* A cluster written over a directory table is no cluster of a file.
LEMMA TableWriteSpares ==
    ASSUME NEW d \in Disks, NEW M, TreeBut(d, M), DataOK(d), NEW b, NEW x, NEW d2,
           d[b].kind = "table", Written(d, d2, b, x)
    PROVE  Intact(d, d2)
<1> SUFFICES ASSUME NEW p \in LivePlaces(d), ~ EntryAt(d, p).folder,
                    NEW c \in ChainSet(FatOf(d), EntryAt(d, p).cluster)
             PROVE  d2[c] = d[c]
  BY DEF Intact, LiveEntries
<1>1. d[c].kind = "data"
  BY DEF DataOK
<1>2. Good(FatOf(d), EntryAt(d, p).cluster)
  BY DEF TreeBut, PlaceBut
<1>3. c \in Clusters
  BY <1>2, GoodFacts, ClusterFacts
<1>4. c # b
  BY <1>1
<1> QED
  BY <1>3, <1>4 DEF Written, Disks

\* Nor is a write of the driver that spares the tree.
LEMMA SparesIntact ==
    ASSUME NEW d \in Disks, TreeOK(d), NEW d2, Spares(d, d2) PROVE Intact(d, d2)
<1> SUFFICES ASSUME NEW p \in LivePlaces(d), NEW c \in ChainSet(FatOf(d), EntryAt(d, p).cluster)
             PROVE  d2[c] = d[c]
  BY DEF Intact, LiveEntries
<1>1. InTree(d, c) /\ c \in DataClusters
  BY TreeFacts
<1> QED
  BY <1>1 DEF Spares

\* The driver's steps.
LEMMA DriverIntact ==
    ASSUME Ordinary, Steady, Driver PROVE Intact(disk, disk')
<1>1. DriverInv /\ disk \in Disks /\ TreeOK(disk) /\ DataOK(disk) /\ TreeBut(disk, {})
  BY SteadyTree, TreeButNone DEF Steady
<1>2. CASE WriteChild \/ WriteFat \/ WriteData \/ DeleteFree \/ DeleteFat
  <2>1. Spares(disk, disk')
    BY <1>1, <1>2, WriteChildStep, WriteFatStep, WriteDataStep, DeleteFreeStep, DeleteFatStep
  <2> QED
    BY <1>1, <2>1, SparesIntact
<1>3. CASE WriteParent \/ DeleteParent
  <2>1. op.parent \in LiveDirs(disk)
    <3>1. CASE WriteParent
      BY <1>1, <3>1, WriteParentStep DEF Adds
    <3>2. CASE DeleteParent
      BY <1>1, <3>2, DeleteParentStep DEF Drops
    <3> QED
      BY <1>3, <3>1, <3>2
  <2>2. disk[op.parent].kind = "table"
    BY <1>1, <2>1 DEF TreeOK, DirOK
  <2>3. Written(disk, disk', op.parent, Table(op.table))
    BY <1>3 DEF WriteParent, DeleteParent, write_clusters, Written
  <2> QED
    BY <1>1, <2>2, <2>3, TableWriteSpares
<1> QED
  BY <1>2, <1>3 DEF Driver

\* The shells' steps that write clusters themselves: mv's.
LEMMA MoveIntact ==
    ASSUME ShellOrdinary, ShellInv, NEW s \in Shells,
           mv_rename(s) \/ mv_self(s) \/ mv_cut(s) \/ mv_paste(s) \/ mv_relink(s)
    PROVE  Intact(disk, disk')
<1> DEFINE w == shell[s]
           cmd == w.cmd
<1>1. disk \in Disks /\ TreeBut(disk, Moving) /\ DataOK(disk)
  BY AlwaysTree
<1>2. Commanded(disk, fat, w) /\ Stands(disk, op, w) /\ Ordinary
  BY DEF ShellInv, WorkerOK, ShellOrdinary
<1>3. \A c \in LiveDirs(disk) : disk[c].kind = "table"
  BY <1>1 DEF TreeBut, DirOK
<1>4. CASE mv_rename(s) \/ mv_cut(s)
  <2>1. w.cmd.pc \notin {"main"} \cup Mid /\ WriteCluster(w.cwd, w.cluster)
    BY <1>4 DEF mv_rename, mv_cut, At, Mid
  <2>2. disk[w.cluster].kind = "table"
    BY <1>2, <1>3, <2>1 DEF Stands
  <2>3. Written(disk, disk', w.cluster, Table(w.cwd))
    BY <2>1 DEF WriteCluster, write_clusters, Written
  <2> QED
    BY <1>1, <2>2, <2>3, TableWriteSpares
<1>5. CASE mv_self(s)
  <2> DEFINE b == cmd.src_table[0].cluster
             x == Table([cmd.src_table EXCEPT ![0].name = cmd.dest])
  <2>1. SelfOK(disk, fat, w)
    BY <1>2, <1>5 DEF mv_self, At, Commanded
  <2>2. disk[b].kind = "table"
    BY <1>2, <1>3, <2>1, SelfTree
  <2>3. Written(disk, disk', b, x)
    BY <1>5 DEF mv_self, WriteCluster, write_clusters, Written
  <2> HIDE DEF b, x
  <2> QED
    BY <1>1, <2>2, <2>3, TableWriteSpares
<1>6. CASE mv_paste(s)
  <2> DEFINE b == cmd.dest_table[0].cluster
             x == Table(cmd.dest_table)
  <2>1. PasteOK(disk, fat, w)
    BY <1>2, <1>6 DEF mv_paste, At, Commanded
  <2>2. disk[b].kind = "table"
    BY <2>1, PasteTree
  <2>3. Written(disk, disk', b, x)
    BY <1>6 DEF mv_paste, WriteCluster, write_clusters, Written
  <2> HIDE DEF b, x
  <2> QED
    BY <1>1, <2>2, <2>3, TableWriteSpares
<1>7. CASE mv_relink(s)
  <2> DEFINE b == cmd.src_table[0].cluster
             x == Table([cmd.src_table EXCEPT ![1].cluster = cmd.dest_table[0].cluster])
  <2>1. RelinkOK(disk, fat, w)
    BY <1>2, <1>7 DEF mv_relink, At, Commanded
  <2>2. disk[b].kind = "table"
    BY <1>2, <1>3, <2>1, RelinkTree
  <2>3. Written(disk, disk', b, x)
    BY <1>7 DEF mv_relink, WriteCluster, write_clusters, Written
  <2> HIDE DEF b, x
  <2> QED
    BY <1>1, <2>2, <2>3, TableWriteSpares
<1> QED
  BY <1>4, <1>5, <1>6, <1>7

\* The others leave the disk to the driver.
LEMMA CommandIntact ==
    ASSUME ShellOrdinary, ShellInv, NEW s \in Shells, Command(s) PROVE Intact(disk, disk')
<1>1. CASE mv_rename(s) \/ mv_self(s) \/ mv_cut(s) \/ mv_paste(s) \/ mv_relink(s)
  BY <1>1, MoveIntact
<1>2. CASE main(s) \/ Refresh(s) \/ cd(s) \/ cp_done(s) \/ mv_dest(s) \/ find_recursive(s)
  <2>1. disk' = disk
    BY <1>2 DEF main, Refresh, cd, cp_done, mv_dest, find_recursive, DriverQuiet
  <2> QED
    BY <2>1 DEF Intact
<1>3. CASE \E name \in Names : mkdir(s, name) \/ rm(s, name) \/ find(s, name)
  <2>1. PICK name \in Names : mkdir(s, name) \/ rm(s, name) \/ find(s, name)
    BY <1>3
  <2>2. disk' = disk
    <3>1. CASE mkdir(s, name)
      BY <3>1 DEF mkdir, WriteStart, DriverQuiet
    <3>2. CASE rm(s, name)
      BY <3>2 DEF rm, DeleteStart, DriverQuiet
    <3>3. CASE find(s, name)
      BY <3>3 DEF find, DriverQuiet
    <3> QED
      BY <2>1, <3>1, <3>2, <3>3
  <2> QED
    BY <2>2 DEF Intact
<1>4. CASE \E src, dest \in Names : cp(s, src, dest) \/ mv(s, src, dest)
  <2>1. disk' = disk
    BY <1>4 DEF cp, mv, DriverQuiet
  <2> QED
    BY <2>1 DEF Intact
<1>5. CASE cp_write(s)
  <2>1. disk' = disk
    BY <1>5 DEF cp_write, WriteStart, DriverQuiet
  <2> QED
    BY <2>1 DEF Intact
<1> QED
  BY <1>1, <1>2, <1>3, <1>4, <1>5 DEF Command

\* FilesIntact: no step overwrites a cluster of a file that is in the tree.
THEOREM FilesStayIntact == ASSUME ShellOrdinary PROVE ShellSpec => FilesIntact
<1>1. ShellInv /\ [ShellNext]_shellvars => [Intact(disk, disk')]_shellvars
  <2> SUFFICES ASSUME ShellInv, ShellNext PROVE Intact(disk, disk')
    OBVIOUS
  <2>1. CASE Driver
    <3>1. op # Idle
      BY <2>1, IdleFacts DEF Driver, WriteChild, WriteFat, WriteData, WriteParent, DeleteParent, DeleteFree, DeleteFat
    <3>2. \A s \in Shells : shell[s].cmd.pc \in {"refresh", "cp_done"}
      BY <3>1 DEF ShellInv, WorkerOK, Stands
    <3>3. Steady
      BY <3>2 DEF ShellInv, Mid
    <3> QED
      BY <2>1, <3>3, DriverIntact DEF ShellOrdinary
  <2>2. CASE \E s \in Shells : Command(s)
    BY <2>2, CommandIntact
  <2> QED
    BY <2>1, <2>2 DEF ShellNext
<1>2. ShellInit => ShellInv
  BY ShellInitOK
<1>3. ShellInv /\ [ShellNext]_shellvars => ShellInv'
  BY ShellKeeps
<1> QED
  BY <1>1, <1>2, <1>3, PTL DEF ShellSpec, FilesIntact, Intact
=============================================================================
