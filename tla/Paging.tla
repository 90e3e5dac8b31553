------------------------------- MODULE Paging -------------------------------
(***************************************************************************)
(* Physical frames and page directories (paging.c, header/memory/paging.h). *)
(* The module has no variables: the two static structures of paging.c, the  *)
(* frame map and the pool of page directories, are one record "pm", and     *)
(* every function of paging.c is an operator from pm to pm.  Kernel.tla     *)
(* keeps the record as its variable "paging".                               *)
(*                                                                         *)
(* A page is an index in a page directory (bits 22..31 of an address).  A   *)
(* frame is 4 MiB of physical memory.                                       *)
(***************************************************************************)
EXTENDS Integers, FiniteSets, FiniteSetsExt

CONSTANTS
    PAGE_FRAME_MAX_COUNT,               \* 32 in paging.h
    PAGING_DIRECTORY_TABLE_MAX_COUNT,   \* 32 in paging.h
    LoadPages                           \* pages of request.buf in the requests made

CodePage   == 0      \* request.buf = 0 in kernel_setup and in the shell's exec
StackPage  == 767    \* page of KERNEL_VIRTUAL_ADDRESS_BASE - 4
KernelPage == 768    \* 0x300, page of KERNEL_VIRTUAL_ADDRESS_BASE
PAGE_FRAME_SIZE == 4194304

(***************************************************************************)
(* No request names the stack's own page: the shell always passes buf = 0.  *)
(***************************************************************************)
ASSUME PagingAssumption ==
    /\ PAGE_FRAME_MAX_COUNT \in Nat /\ PAGE_FRAME_MAX_COUNT > 1
    /\ PAGING_DIRECTORY_TABLE_MAX_COUNT \in Nat \ {0}
    /\ LoadPages \subseteq (0 .. 1023) \ {StackPage}

Pages  == LoadPages \cup {CodePage, StackPage, KernelPage}
Frames == 0 .. PAGE_FRAME_MAX_COUNT - 1

\* page_directory_list[], the static kernel directory behind it, and NULL
Directories == 0 .. PAGING_DIRECTORY_TABLE_MAX_COUNT - 1
KERNEL_DIR  == PAGING_DIRECTORY_TABLE_MAX_COUNT
NULL_DIR    == PAGING_DIRECTORY_TABLE_MAX_COUNT + 1
AllDirs     == 0 .. PAGING_DIRECTORY_TABLE_MAX_COUNT

(***************************************************************************)
(* A directory entry: not present, supervisor only, or open to user code.   *)
(***************************************************************************)
Flags       == {"none", "kernel", "user"}
Entry       == [flag : Flags, frame : Frames]
EmptyEntry  == [flag |-> "none", frame |-> 0]
KernelEntry == [flag |-> "kernel", frame |-> 0]
UserEntry(f) == [flag |-> "user", frame |-> f]

EmptyTable == [pg \in Pages |-> EmptyEntry]
FreshTable == [pg \in Pages |-> IF pg = KernelPage THEN KernelEntry ELSE EmptyEntry]

PagingState == [page_frame_map : [Frames -> BOOLEAN],
                free_page_frame_count : 0 .. PAGE_FRAME_MAX_COUNT,
                page_directory_used : [Directories -> BOOLEAN],
                table : [AllDirs -> [Pages -> Entry]]]

(***************************************************************************)
(* The static initialisers, after the entry point has dropped the identity  *)
(* mapping of the kernel directory.  Frame 0 holds the kernel: it is counted *)
(* as free although no allocation ever takes it.                            *)
(***************************************************************************)
PagingInit ==
    [page_frame_map |-> [f \in Frames |-> FALSE],
     free_page_frame_count |-> PAGE_FRAME_MAX_COUNT,
     page_directory_used |-> [d \in Directories |-> FALSE],
     table |-> [d \in AllDirs |-> IF d = KERNEL_DIR THEN FreshTable ELSE EmptyTable]]

\* ceil32(a / (float) b): exact for the sizes used here
ceil_div(a, b) == (a + b - 1) \div b

\* "amount" is in bytes
paging_allocate_check(pm, amount) ==
    pm.free_page_frame_count >= ceil_div(amount, PAGE_FRAME_SIZE)

AllocatableFrames(pm) == {f \in Frames \ {0} : ~ pm.page_frame_map[f]}

\* Written d, pg -> entry; the invlpg that follows it in the code has no
\* effect on the tables.
update_page_directory_entry(pm, d, pg, entry) ==
    [pm EXCEPT !.table[d][pg] = entry]

\* Mutant: the frame is mapped and counted but not marked.
AllocateUnmarked(pm, d, pg) ==
    IF pm.free_page_frame_count = 0 \/ AllocatableFrames(pm) = {}
    THEN pm
    ELSE [update_page_directory_entry(pm, d, pg, UserEntry(Min(AllocatableFrames(pm)))) EXCEPT
            !.free_page_frame_count = @ - 1]

(***************************************************************************)
(* First fit.  With no allocatable frame nothing is mapped, whatever the    *)
(* counter says; the result, which the callers ignore, is left out.         *)
(***************************************************************************)
paging_allocate_user_page_frame(pm, d, pg) ==
    IF pm.free_page_frame_count = 0 \/ AllocatableFrames(pm) = {}
    THEN pm
    ELSE LET f == Min(AllocatableFrames(pm))
         IN  [update_page_directory_entry(pm, d, pg, UserEntry(f)) EXCEPT
                !.page_frame_map[f] = TRUE,
                !.free_page_frame_count = @ - 1]

\* Mutant: frames are given back without a look at their bit.
FreeUnchecked(pm, d, pgs, garbage) ==
    LET freed == {pm.table[d][pg].frame : pg \in pgs} IN
    [pm EXCEPT !.page_frame_map = [f \in Frames |-> pm.page_frame_map[f] /\ f \notin freed],
               !.free_page_frame_count = @ + Cardinality(pgs)]

(***************************************************************************)
(* paging_free_user_page_frame called for every page of "pgs" in turn.  A   *)
(* frame is given back once, and only if its bit is set: the entry of a page *)
(* that was never mapped names frame 0.  The flags stored in a freed entry   *)
(* are an uninitialised local, any value "garbage".                         *)
(***************************************************************************)
FreedFrames(pm, d, pgs) ==
    {f \in Frames : pm.page_frame_map[f] /\ \E pg \in pgs : pm.table[d][pg].frame = f}

paging_free_user_page_frames(pm, d, pgs, garbage) ==
    LET freed == FreedFrames(pm, d, pgs) IN
    [pm EXCEPT
        !.page_frame_map = [f \in Frames |-> pm.page_frame_map[f] /\ f \notin freed],
        !.free_page_frame_count = @ + Cardinality(freed),
        !.table = [e \in AllDirs |-> [pg \in Pages |->
            IF e = d /\ pg \in pgs /\ pm.table[e][pg].frame \in freed
            THEN [flag |-> garbage, frame |-> 0]
            ELSE pm.table[e][pg]]]]

UnusedDirectories(pm) == {d \in Directories : ~ pm.page_directory_used[d]}

\* Mutant: page_directory_used is not consulted.
FirstDirectory(pm) == IF UnusedDirectories(pm) = {} THEN NULL_DIR ELSE 0

\* The directory paging_create_new_page_directory returns.
NewDirectory(pm) ==
    IF UnusedDirectories(pm) = {} THEN NULL_DIR ELSE Min(UnusedDirectories(pm))

paging_create_new_page_directory(pm) ==
    IF UnusedDirectories(pm) = {}
    THEN pm
    ELSE [pm EXCEPT !.page_directory_used[NewDirectory(pm)] = TRUE,
                    !.table[NewDirectory(pm)] = FreshTable]

\* Clears the kernel mapping too; NULL matches no directory of the list.
paging_free_page_directory(pm, d) ==
    IF d \in Directories
    THEN [pm EXCEPT !.page_directory_used[d] = FALSE, !.table[d] = EmptyTable]
    ELSE pm

\* Mutants: only the directory, or only the frames, are given back.
ReleaseDirectoryOnly(pm, d, pgs, garbage) == paging_free_page_directory(pm, d)
ReleaseFramesOnly(pm, d, pgs, garbage) == paging_free_user_page_frames(pm, d, pgs, garbage)

\* The calls process_destroy makes: the recorded pages, then the directory.
ReleaseAddressSpace(pm, d, pgs, garbage) ==
    paging_free_page_directory(paging_free_user_page_frames(pm, d, pgs, garbage), d)

-----------------------------------------------------------------------------
UserMapped(pm, d, pg) == pm.table[d][pg].flag = "user"

\* No physical frame is reachable by user code through two entries.
FramesExclusive(pm) ==
    \A d, e \in AllDirs, p, q \in Pages :
        (/\ UserMapped(pm, d, p)
         /\ UserMapped(pm, e, q)
         /\ pm.table[d][p].frame = pm.table[e][q].frame) => (d = e /\ p = q)

\* A frame in use by user code is marked, and is never the kernel's frame 0.
MappedFramesMarked(pm) ==
    \A d \in AllDirs, pg \in Pages : UserMapped(pm, d, pg) =>
        (pm.table[d][pg].frame # 0 /\ pm.page_frame_map[pm.table[d][pg].frame])

\* A marked frame is still mapped somewhere, so that it can be given back.
MarkedFramesMapped(pm) ==
    \A f \in Frames : pm.page_frame_map[f] =>
        \E d \in AllDirs, pg \in Pages : UserMapped(pm, d, pg) /\ pm.table[d][pg].frame = f

\* The counter is the number of frames that are not marked.
FreeCountExact(pm) ==
    pm.free_page_frame_count = Cardinality({f \in Frames : ~ pm.page_frame_map[f]})

\* A directory in use maps the kernel, one that is not maps nothing, and an
\* entry that is not open to user code names frame 0.
DirectoriesWellFormed(pm) ==
    \A d \in AllDirs, pg \in Pages :
        LET live == d = KERNEL_DIR \/ pm.page_directory_used[d] IN
        /\ pm.table[d][pg].flag # "user" => pm.table[d][pg].frame = 0
        /\ (pm.table[d][pg].flag = "kernel") <=> (live /\ pg = KernelPage)
        /\ pm.table[d][pg].flag = "user" => (live /\ pg # KernelPage)

\* The consistency of the frame map, the counter and the directories.
PagingOK(pm) ==
    /\ pm \in PagingState
    /\ FramesExclusive(pm)
    /\ MappedFramesMarked(pm)
    /\ MarkedFramesMapped(pm)
    /\ FreeCountExact(pm)
    /\ DirectoriesWellFormed(pm)
=============================================================================
