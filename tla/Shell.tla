------------------------------- MODULE Shell --------------------------------
(***************************************************************************)
(* The shell's file commands (user-shell.c) on top of the driver of          *)
(* FAT32.tla.                                                               *)
(*                                                                         *)
(* A shell keeps a private copy of its current directory's table and of the   *)
(* root's.  A command is a sequence of system calls; the timer may switch to   *)
(* another shell between two of them, never inside one, so a shell acts only    *)
(* while the driver is idle.  ls and cat change nothing and are left out; a     *)
(* property about a message is about the step that prints it.                 *)
(***************************************************************************)
EXTENDS FAT32

CONSTANTS
    Shells,             \* shell processes (exec shell starts another)
    Commands,           \* commands the users type
    CarefulMoves,       \* whether the users keep to moves that CarefulMove allows
    Overlay,            \* the name that is left when one name is copied over another
    BlankPieces,        \* pieces <<payload, i>> whose byte cp looks at is zero
    CopyClusters,       \* clusters in cp's buffer, 15
    MaxDepth,           \* bound: depth of find's recursion when the stack is exhausted
    ImageFile, ImageFolder, ImageSize   \* the file and the folder in the image's root

ASSUME ShellAssumption ==
    /\ ImageFile \in Names /\ ImageFolder \in Names /\ ImageSize \in Nat \ {0}
    /\ CarefulMoves \in BOOLEAN
    /\ CopyClusters \in Nat /\ MaxDepth \in Nat \ {0}
    /\ Overlay \in [Names \X Names -> Names]

VARIABLE shell          \* per shell: currentDir, its cluster, rootDir, and the command's locals

shellvars == <<disk, fat, op, crashes, shell>>

Prompt  == [pc |-> "prompt"]
Booting == [cwd |-> EmptyTable, cluster |-> 0, rootDir |-> EmptyTable, cmd |-> [pc |-> "main"]]

(***************************************************************************)
(* The disk image the makefile runs with is not one create_fat32 made: its     *)
(* root table knows its own cluster.  It holds a file and an empty folder.      *)
(***************************************************************************)
ImageClusters == ROOT_CLUSTER_NUMBER + (ImageSize + CLUSTER_SIZE - 1) \div CLUSTER_SIZE

\* It fits the disk and its root's table, and its names differ.
ASSUME ImageAssumption ==
    /\ ImageClusters + 1 < CLUSTER_MAP_SIZE /\ TABLE_SIZE > 3
    /\ ImageFile # ImageFolder /\ RootName \notin {ImageFile, ImageFolder}

\* The sizes of the image's file and of what the commands write.
ASSUME SizesAssumption ==
    {0, ImageSize} \cup {n * CLUSTER_SIZE : n \in 0 .. CopyClusters} \subseteq Sizes

ImageRoot ==
    [EmptyTable EXCEPT
        ![0] = FolderEntry(RootName, ROOT_CLUSTER_NUMBER),
        ![1] = FolderEntry(RootName, ROOT_CLUSTER_NUMBER),
        ![2] = [used |-> TRUE, name |-> ImageFile, folder |-> FALSE, cluster |-> 3, filesize |-> ImageSize],
        ![3] = FolderEntry(ImageFolder, ImageClusters + 1)]
ImageFat ==
    [c \in Clusters |->
        CASE c = 0 -> CLUSTER_0_VALUE
          [] c \in 3 .. ImageClusters - 1 -> c + 1
          [] c \in {1, 2, ImageClusters, ImageClusters + 1} -> FAT32_FAT_END_OF_FILE
          [] OTHER -> FAT32_FAT_EMPTY_ENTRY]
Image(payload) ==
    [c \in Clusters |->
        CASE c = BOOT_SECTOR -> Signature
          [] c = FAT_CLUSTER_NUMBER -> FatBlock(ImageFat)
          [] c = ROOT_CLUSTER_NUMBER -> Table(ImageRoot)
          [] c \in 3 .. ImageClusters -> Piece(payload, c - 2)
          [] c = ImageClusters + 1 ->
                Table([EmptyTable EXCEPT ![0] = FolderEntry(ImageFolder, c),
                                         ![1] = FolderEntry(RootName, ROOT_CLUSTER_NUMBER)])
          [] OTHER -> Zero]

ShellInit ==
    /\ \E payload \in Payloads : disk = Image(payload)
    /\ fat = ImageFat
    /\ op = Idle
    /\ crashes = 0
    /\ shell = [s \in Shells |-> Booting]

-----------------------------------------------------------------------------
\* read_directory looks only at used entries, and not at the allocation table.
UsedNamed(parent, name) ==
    {i \in Indices : TableAt(disk, parent)[i].used /\ TableAt(disk, parent)[i].name = name}
read_directory(parent, name) ==
    IF UsedNamed(parent, name) = {} THEN [retcode |-> 2]
    ELSE LET e == TableAt(disk, parent)[Min(UsedNamed(parent, name))] IN
         IF e.folder THEN [retcode |-> 0, table |-> TableAt(disk, e.cluster)]
         ELSE [retcode |-> 1]

\* A shell's next system call is made from this point of its command.
At(s, pc) == op = Idle /\ shell[s].cmd.pc = pc
Typed(s, command) == At(s, "prompt") /\ command \in Commands
Goto(s, cmd) == shell' = [shell EXCEPT ![s].cmd = cmd]
Finish(s) == Goto(s, Prompt)
DriverQuiet == UNCHANGED <<disk, fat, op, crashes>>

\* main up to the prompt loop.
main(s) ==
    /\ At(s, "main")
    /\ LET r == read_directory(ROOT_CLUSTER_NUMBER, RootName)
           t == IF r.retcode = 0 THEN r.table ELSE EmptyTable
       IN  shell' = [shell EXCEPT ![s] = [cwd |-> t, cluster |-> t[0].cluster, rootDir |-> t,
                                          cmd |-> Prompt]]
    /\ DriverQuiet

\* The last system call of most commands: read the current directory again.
Refresh(s) ==
    /\ At(s, "refresh")
    /\ shell' = [shell EXCEPT ![s].cwd = TableAt(disk, shell[s].cluster),
                              ![s].cmd = Prompt]
    /\ DriverQuiet

\* Mutant: the halves of the cluster number are swapped.
cd_parent_swapped(w) ==
    LET t == TableAt(disk, w.cwd[1].cluster)
    IN  [w EXCEPT !.cwd = t, !.cluster = t[0].cluster * 65536]

(***************************************************************************)
(* cd: the folder is looked up in the private copy, then read from disk.  A    *)
(* failed read leaves the copy; its entry 0 tells the current cluster.        *)
(***************************************************************************)
cd_parent(w) ==
    LET t == TableAt(disk, w.cwd[1].cluster)
    IN  [w EXCEPT !.cwd = t, !.cluster = t[0].cluster]
cd_into(w, name) ==
    LET i == IndexOfName(w.cwd, name, 2)
        r == read_directory(w.cluster, name)
        t == IF r.retcode = 0 THEN r.table ELSE w.cwd
    IN  IF i = TABLE_SIZE THEN w
        ELSE IF ~ w.cwd[i].folder THEN w
        ELSE [w EXCEPT !.cwd = t, !.cluster = t[0].cluster]

cd(s) ==
    /\ Typed(s, "cd")
    /\ \E w \in {cd_parent(shell[s])} \cup {cd_into(shell[s], n) : n \in Names} :
         shell' = [shell EXCEPT ![s] = [w EXCEPT !.cmd = Prompt]]
    /\ DriverQuiet

\* A write or delete that the driver refuses changes nothing.
mkdir(s, name) ==
    /\ Typed(s, "mkdir")
    /\ Goto(s, [pc |-> "refresh"])
    /\ \/ \E payload \in Payloads : WriteStart(shell[s].cluster, name, 0, payload)
       \/ write_retcode(shell[s].cluster, name, 0) # 0 /\ DriverQuiet

rm(s, name) ==
    /\ Typed(s, "rm")
    /\ Goto(s, [pc |-> "refresh"])
    /\ \/ DeleteStart(shell[s].cluster, name)
       \/ delete_retcode(shell[s].cluster, name) # 0 /\ DriverQuiet

-----------------------------------------------------------------------------
(***************************************************************************)
(* cp reads the source into a buffer on its stack and measures it: the number  *)
(* of clusters before the first whose byte is zero.  What lies in the buffer    *)
(* behind the file was never written and may be the data of an earlier cp, so    *)
(* any number more may be counted, up to the end of the buffer; what a count       *)
(* that runs on past the buffer would find is left out.                         *)
(***************************************************************************)
CopyCounts(data) ==
    LET blank == {i \in 1 .. Len(data) : data[i] \in BlankPieces}
    IN  IF blank # {} THEN {Min(blank) - 1}
        ELSE Len(data) .. CopyClusters

\* What the buffer is taken to hold; a cluster that is no file's holds nothing known.
PayloadOf(data) == IF data[1] = <<>> THEN "unknown" ELSE data[1][1]

cp(s, src, dest) ==
    LET here  == shell[s].cluster
        entry == TableAt(disk, here)[IndexOfName(TableAt(disk, here), src, 0)]
        data  == read_data(disk, fat, entry.cluster)
    IN
    /\ Typed(s, "cp")
    /\ IF read_retcode(here, src, CopyClusters * CLUSTER_SIZE) # 0
       THEN Finish(s)
       ELSE \E n \in CopyCounts(data) :
              Goto(s, [pc |-> "cp_write", src |-> src, dest |-> dest,
                       data |-> data, size |-> n * CLUSTER_SIZE])
    /\ DriverQuiet

\* The destination's name is copied over the source's in the same request.
cp_write(s) ==
    LET cmd  == shell[s].cmd
        name == Overlay[<<cmd.src, cmd.dest>>]
        here == shell[s].cluster
    IN
    /\ At(s, "cp_write")
    /\ \/ /\ WriteStart(here, name, cmd.size, PayloadOf(cmd.data))
          /\ Goto(s, [cmd EXCEPT !.pc = "cp_done"])
       \/ write_retcode(here, name, cmd.size) = 1 /\ Finish(s) /\ DriverQuiet
       \/ /\ write_retcode(here, name, cmd.size) \notin {0, 1}
          /\ Goto(s, [cmd EXCEPT !.pc = "cp_done"])
          /\ DriverQuiet

\* Mutant: the current directory is not read again.
cp_done_stale(s) ==
    /\ At(s, "cp_done")
    /\ Finish(s)
    /\ DriverQuiet

cp_done(s) ==
    /\ At(s, "cp_done")
    /\ shell' = [shell EXCEPT ![s].cwd = TableAt(disk, shell[s].cluster),
                              ![s].cmd = Prompt]
    /\ DriverQuiet

-----------------------------------------------------------------------------
(***************************************************************************)
(* What a careful user checks first.  A move: the source is listed, and the    *)
(* destination is another folder, with room and no entry of that name.  The     *)
(* rename of a folder: it holds no entry of the new name.                    *)
(***************************************************************************)
CarefulMove(w, src, dest) ==
    LET i == IndexOfName(w.cwd, dest, 0)
        k == IndexOfName(w.cwd, src, 2)
        target == TableAt(disk, w.cwd[i].cluster)
        moved  == TableAt(disk, w.cwd[k].cluster)
    IN  /\ (i # TABLE_SIZE /\ w.cwd[i].folder) =>
             /\ i # 0 /\ src # dest /\ k # TABLE_SIZE
             /\ EmptyTableSlots(target) # {} /\ IndexOfName(target, src, 0) = TABLE_SIZE
        /\ (i = TABLE_SIZE /\ k # TABLE_SIZE) =>
             (w.cwd[k].folder => IndexOfName(moved, dest, 0) = TABLE_SIZE)

mv(s, src, dest) ==
    LET r == read_directory(shell[s].cluster, src) IN
    /\ Typed(s, "mv")
    /\ CarefulMoves => CarefulMove(shell[s], src, dest)
    /\ IF r.retcode = 2
       THEN Finish(s)
       ELSE Goto(s, [pc |-> "mv_dest", src |-> src, dest |-> dest,
                     folder |-> r.retcode = 0,
                     src_table |-> IF r.retcode = 0 THEN r.table ELSE EmptyTable])
    /\ DriverQuiet

(***************************************************************************)
(* The destination decides: none by that name is a rename, a folder is a move, *)
(* a file is an error.  Both edit the private copy of the current directory.   *)
(***************************************************************************)
mv_dest(s) ==
    LET cmd == shell[s].cmd
        cwd == shell[s].cwd
        i   == IndexOfName(cwd, cmd.src, 2)
        r   == read_directory(shell[s].cluster, cmd.dest)
    IN
    /\ At(s, "mv_dest")
    /\ \/ r.retcode = 1 /\ Finish(s)
       \/ r.retcode = 2 /\ i = TABLE_SIZE /\ Finish(s)
       \/ /\ r.retcode = 2 /\ i # TABLE_SIZE
          /\ shell' = [shell EXCEPT ![s].cwd[i].name = cmd.dest, ![s].cmd.pc = "mv_rename"]
       \/ /\ r.retcode = 0
          /\ LET last  == IF i = TABLE_SIZE THEN TABLE_SIZE - 1 ELSE i
                 slots == EmptyTableSlots(r.table) \ {1}
                 t     == IF slots = {} THEN r.table
                          ELSE [r.table EXCEPT ![Min(slots)] = cwd[last]]
             IN  shell' = [shell EXCEPT
                    ![s].cwd = IF i = TABLE_SIZE THEN cwd ELSE [cwd EXCEPT ![i] = EmptyEntry],
                    ![s].cmd = [pc |-> "mv_cut", src |-> cmd.src, dest |-> cmd.dest, folder |-> cmd.folder,
                                src_table |-> cmd.src_table, dest_table |-> t]]
    /\ DriverQuiet

\* SYSCALL_WRITE_CLUSTER: any cluster, whatever it holds.
WriteCluster(table, c) == write_clusters(Table(table), c) /\ UNCHANGED <<fat, op, crashes>>

mv_rename(s) ==
    /\ At(s, "mv_rename")
    /\ WriteCluster(shell[s].cwd, shell[s].cluster)
    /\ shell' = [shell EXCEPT ![s].cmd.pc = IF shell[s].cmd.folder THEN "mv_self" ELSE "refresh"]

mv_self(s) ==
    LET cmd == shell[s].cmd IN
    /\ At(s, "mv_self")
    /\ WriteCluster([cmd.src_table EXCEPT ![0].name = cmd.dest], cmd.src_table[0].cluster)
    /\ shell' = [shell EXCEPT ![s].cmd.pc = "refresh"]

\* Mutant: the source's table is not written.
mv_cut_unwritten(s) ==
    /\ At(s, "mv_cut")
    /\ shell' = [shell EXCEPT ![s].cmd.pc = "mv_paste"]
    /\ DriverQuiet

mv_cut(s) ==
    /\ At(s, "mv_cut")
    /\ WriteCluster(shell[s].cwd, shell[s].cluster)
    /\ shell' = [shell EXCEPT ![s].cmd.pc = "mv_paste"]

\* Mutant: the destination's table is not written.
mv_paste_unwritten(s) ==
    /\ At(s, "mv_paste")
    /\ shell' = [shell EXCEPT ![s].cmd.pc = IF shell[s].cmd.folder THEN "mv_relink" ELSE "refresh"]
    /\ DriverQuiet

mv_paste(s) ==
    LET cmd == shell[s].cmd IN
    /\ At(s, "mv_paste")
    /\ WriteCluster(cmd.dest_table, cmd.dest_table[0].cluster)
    /\ shell' = [shell EXCEPT ![s].cmd.pc = IF cmd.folder THEN "mv_relink" ELSE "refresh"]

\* Mutant: the moved folder keeps its old parent.
mv_relink_old(s) ==
    /\ At(s, "mv_relink")
    /\ WriteCluster(shell[s].cmd.src_table, shell[s].cmd.src_table[0].cluster)
    /\ shell' = [shell EXCEPT ![s].cmd.pc = "refresh"]

mv_relink(s) ==
    LET cmd == shell[s].cmd IN
    /\ At(s, "mv_relink")
    /\ WriteCluster([cmd.src_table EXCEPT ![1].cluster = cmd.dest_table[0].cluster],
                    cmd.src_table[0].cluster)
    /\ shell' = [shell EXCEPT ![s].cmd.pc = "refresh"]

-----------------------------------------------------------------------------
(***************************************************************************)
(* find walks from the copy of the root made when the shell started, by cd     *)
(* into every folder and cd .. at the end of each level.  "level" is the       *)
(* recursion: the entry each activation has come to.                         *)
(***************************************************************************)
find(s, name) ==
    LET w == shell[s] IN
    /\ Typed(s, "find")
    /\ shell' = [shell EXCEPT ![s] = [w EXCEPT
                    !.cwd = w.rootDir, !.cluster = w.rootDir[0].cluster,
                    !.cmd = [pc |-> "find", name |-> name, level |-> <<2>>,
                             old |-> [cwd |-> w.cwd, cluster |-> w.cluster]]]]
    /\ DriverQuiet

FindReturns(s) ==
    LET cmd == shell[s].cmd IN
    shell' = [shell EXCEPT ![s].cwd = cmd.old.cwd, ![s].cluster = cmd.old.cluster, ![s].cmd = Prompt]

find_recursive(s) ==
    LET w     == shell[s]
        level == w.cmd.level
        i     == level[Len(level)]
        next  == [level EXCEPT ![Len(level)] = i + 1]
    IN
    /\ At(s, "find")
    /\ \/ /\ i = TABLE_SIZE /\ Len(level) > 1
          /\ shell' = [shell EXCEPT ![s] = [cd_parent(w) EXCEPT
                                        !.cmd.level = SubSeq(level, 1, Len(level) - 1)]]
       \/ i = TABLE_SIZE /\ Len(level) = 1 /\ FindReturns(s)
       \/ /\ i # TABLE_SIZE /\ w.cwd[i].used /\ w.cwd[i].name = w.cmd.name
          /\ FindReturns(s)
       \/ /\ i # TABLE_SIZE /\ w.cwd[i].used /\ w.cwd[i].name # w.cmd.name /\ w.cwd[i].folder
          /\ shell' = [shell EXCEPT ![s] = IF Len(level) = MaxDepth
                            THEN [w EXCEPT !.cmd = [pc |-> "overflow"]]
                            ELSE [cd_into(w, w.cwd[i].name) EXCEPT !.cmd.level = Append(next, 2)]]
       \/ /\ i # TABLE_SIZE
          /\ \/ ~ w.cwd[i].used
             \/ w.cwd[i].name # w.cmd.name /\ ~ w.cwd[i].folder
          /\ shell' = [shell EXCEPT ![s].cmd.level = next]
    /\ DriverQuiet

-----------------------------------------------------------------------------
Command(s) ==
    \/ main(s) \/ Refresh(s) \/ cd(s)
    \/ \E name \in Names : mkdir(s, name) \/ rm(s, name) \/ find(s, name)
    \/ \E src, dest \in Names : cp(s, src, dest) \/ mv(s, src, dest)
    \/ cp_write(s) \/ cp_done(s)
    \/ mv_dest(s) \/ mv_rename(s) \/ mv_self(s) \/ mv_cut(s) \/ mv_paste(s) \/ mv_relink(s)
    \/ find_recursive(s)

\* The driver finishes the system call it is in.
Driver ==
    /\ \/ WriteChild \/ WriteFat \/ WriteData \/ WriteParent
       \/ DeleteParent \/ DeleteFree \/ DeleteFat
    /\ UNCHANGED shell

ShellNext == Driver \/ \E s \in Shells : Command(s)
ShellSpec == ShellInit /\ [][ShellNext]_shellvars

-----------------------------------------------------------------------------
\* Every shell waits at its prompt and no system call is in progress.
AllAtPrompt == op = Idle /\ \A s \in Shells : shell[s].cmd.pc = "prompt"

\* The type invariant of the shells' state.
ShellTypeOK ==
    \A s \in Shells :
        /\ DOMAIN shell[s].cwd = Indices /\ DOMAIN shell[s].rootDir = Indices
        /\ shell[s].cluster \in Clusters
        /\ shell[s].cmd.pc \in {"main", "prompt", "refresh", "cp_write", "cp_done", "mv_dest",
              "mv_rename", "mv_self", "mv_cut", "mv_paste", "mv_relink", "find", "overflow"}
        /\ shell[s].cmd.pc = "find" => Len(shell[s].cmd.level) \in 1 .. MaxDepth

(***************************************************************************)
(* Whatever commands are typed, between commands the tree on disk is sound:    *)
(* chains and links are right, and no directory lists a name twice.          *)
(***************************************************************************)
TreeSound ==
    AllAtPrompt =>
        /\ ChainsSound /\ LinksSound
        /\ \A c \in LiveDirs(disk) : \A i, k \in Entries(disk, c) :
             TableAt(disk, c)[i].name = TableAt(disk, c)[k].name => i = k

(***************************************************************************)
(* The power may fail between any two writes of mv: in every state, half way      *)
(* through a command and inside the driver, no cluster belongs to two entries, and  *)
(* the links are right but for the folder whose own table mv writes last.        *)
(***************************************************************************)
Moving == {shell[s].cmd.src_table[0].cluster :
              s \in {s \in Shells : shell[s].cmd.pc \in {"mv_self", "mv_relink"}}}
MoveCrashSound == ChainsSound /\ LinksSoundBut(Moving)

(***************************************************************************)
(* "to folder --> move": between commands every allocated cluster still         *)
(* belongs to a file or folder of the tree, so nothing that was not removed     *)
(* is lost.                                                                 *)
(***************************************************************************)
NothingLost == AllAtPrompt => NoClusterLeak

(***************************************************************************)
(* Between commands a shell stands in a directory of the tree, and its private  *)
(* copy of that directory is what the disk holds.                            *)
(***************************************************************************)
CwdFresh ==
    AllAtPrompt => \A s \in Shells :
        /\ shell[s].cluster \in LiveDirs(disk)
        /\ shell[s].cwd = TableAt(disk, shell[s].cluster)

(***************************************************************************)
(* A data cluster of a file in the tree is overwritten only after its entry     *)
(* was removed: write with a parent that is not a directory must be refused.    *)
(***************************************************************************)
FilesIntact ==
    [][\A e \in LiveEntries(disk) :
          ~ e.folder => \A c \in ChainSet(FatOf(disk), e.cluster) : disk'[c] = disk[c]]_shellvars
=============================================================================
