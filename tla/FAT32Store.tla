----------------------------- MODULE FAT32Store -----------------------------
(***************************************************************************)
(* The driver of FAT32.tla implements the tree of FileStore.tla.             *)
(*                                                                         *)
(* The tree is a function of the disk alone.  It is kept in a history         *)
(* variable, which every step sets to the tree of the new disk, so that it is  *)
(* computed once per step.                                                  *)
(***************************************************************************)
EXTENDS FAT32

VARIABLE view           \* the tree that a reader of the disk finds

(***************************************************************************)
(* The refinement mapping: the directories reachable from the root, and for   *)
(* each the files (with the pieces along their chain) and folders by name.     *)
(***************************************************************************)
Tree(d) ==
    [c \in LiveDirs(d) |->
        [n \in {TableAt(d, c)[i].name : i \in Entries(d, c)} |->
            LET e == TableAt(d, c)[CHOOSE i \in Entries(d, c) : TableAt(d, c)[i].name = n]
            IN  IF e.folder
                THEN [kind |-> "folder", id |-> e.cluster]
                ELSE [kind |-> "file", size |-> e.filesize,
                      data |-> read_data(d, FatOf(d), e.cluster)]]]

ViewInit == Init /\ view = Tree(disk)
ViewNext == Next /\ view' = Tree(disk')
ViewSpec == ViewInit /\ [][ViewNext]_<<vars, view>>

Store == INSTANCE FileStore WITH
            FileNames <- Names, FileSizes <- Sizes \ {0}, PieceSize <- CLUSTER_SIZE,
            DirIds <- Clusters \ {BOOT_SECTOR, FAT_CLUSTER_NUMBER}, RootId <- ROOT_CLUSTER_NUMBER,
            store <- view

(***************************************************************************)
(* The driver implements FileStore, losses of power included: the tree changes  *)
(* by one whole operation at a time, at the write of the parent's directory     *)
(* table (the last disk write of write, the first of delete); no other disk     *)
(* write and no crash changes it, and a file reads back as it was written.     *)
(***************************************************************************)
ImplementsStore == Store!Spec
=============================================================================
