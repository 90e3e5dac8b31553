----------------------------- MODULE FileStore ------------------------------
(***************************************************************************)
(* What the file system driver promises its callers (the comments on read,   *)
(* write and delete in header/filesystem/fat32.h), with no clusters chains,   *)
(* no cached table and no crash: a tree of directories, changed one entry at  *)
(* a time.  FAT32.tla is shown to implement it.                             *)
(***************************************************************************)
EXTENDS Integers, Sequences

CONSTANTS
    FileNames,      \* names of files and folders
    Payloads,       \* what a caller puts in a buffer
    FileSizes,      \* sizes of the files written, in bytes, not 0
    PieceSize,      \* bytes stored per piece of a file
    DirIds,         \* handles of directories
    RootId

VARIABLE store      \* directory handle -> (name -> node)

Pieces(size) == (size + PieceSize - 1) \div PieceSize

FolderNode(id) == [kind |-> "folder", id |-> id]
FileNode(size, payload) ==
    [kind |-> "file", size |-> size,
     data |-> [i \in 1 .. Pieces(size) |-> <<payload, i>>]]

EmptyDir == [n \in {} |-> n]

\* A function with one more argument, and with one less.
With(f, x, v) == [y \in DOMAIN f \cup {x} |-> IF y = x THEN v ELSE f[y]]
Without(f, x) == [y \in DOMAIN f \ {x} |-> f[y]]

Init == store = [d \in {} |-> EmptyDir]

Format == store = [d \in {} |-> EmptyDir] /\ store' = [d \in {RootId} |-> EmptyDir]

CreateFile(d, n, size, payload) ==
    /\ d \in DOMAIN store /\ n \notin DOMAIN store[d]
    /\ store' = [store EXCEPT ![d] = With(@, n, FileNode(size, payload))]

CreateFolder(d, n, id) ==
    /\ d \in DOMAIN store /\ n \notin DOMAIN store[d]
    /\ id \notin DOMAIN store
    /\ store' = With([store EXCEPT ![d] = With(@, n, FolderNode(id))], id, EmptyDir)

RemoveFile(d, n) ==
    /\ d \in DOMAIN store /\ n \in DOMAIN store[d]
    /\ store[d][n].kind = "file"
    /\ store' = [store EXCEPT ![d] = Without(@, n)]

RemoveFolder(d, n) ==
    /\ d \in DOMAIN store /\ n \in DOMAIN store[d]
    /\ store[d][n].kind = "folder"
    /\ store[store[d][n].id] = EmptyDir
    /\ store' = Without([store EXCEPT ![d] = Without(@, n)], store[d][n].id)

Next ==
    \/ Format
    \/ \E d \in DirIds, n \in FileNames :
         \/ \E size \in FileSizes, payload \in Payloads : CreateFile(d, n, size, payload)
         \/ \E id \in DirIds : CreateFolder(d, n, id)
         \/ RemoveFile(d, n)
         \/ RemoveFolder(d, n)

Spec == Init /\ [][Next]_store
=============================================================================
