---------------------------- MODULE KernelProofs ----------------------------
(***************************************************************************)
(* The kernel, for every number of slots, frames and directories and every *)
(* set of requests.  First the operations of Paging, then KernelInv, an    *)
(* invariant of Kernel from which its safety properties follow, then the   *)
(* processes that ps lists.                                                *)
(***************************************************************************)
EXTENDS ProcessStatus, SetLemmas, FiniteSetTheorems, TLAPS

(***************************************************************************)
(* Paging: its operations preserve the consistency of the frame map, the   *)
(* counter and the directories.                                            *)
(***************************************************************************)

\* The frames are finitely many, so cardinalities of sets of them are numbers.
LEMMA FramesFinite ==
    /\ IsFiniteSet(Frames)
    /\ Cardinality(Frames) = PAGE_FRAME_MAX_COUNT
    /\ Frames \subseteq Nat
<1>1. 0 \in Int /\ PAGE_FRAME_MAX_COUNT - 1 \in Int /\ ~ (0 > PAGE_FRAME_MAX_COUNT - 1)
  BY PagingAssumption
<1>2. IsFiniteSet(Frames) /\ Cardinality(Frames) = (PAGE_FRAME_MAX_COUNT - 1) - 0 + 1
  BY <1>1, FS_Interval DEF Frames
<1> QED
  BY <1>2, PagingAssumption DEF Frames

(***************************************************************************)
(* A state of the allocator just after the image is loaded is consistent.    *)
(***************************************************************************)
LEMMA PagingInitOK == PagingOK(PagingInit)
<1>1. KERNEL_DIR \in AllDirs /\ KERNEL_DIR \notin Directories /\ 0 \in Frames
  BY PagingAssumption DEF KERNEL_DIR, AllDirs, Directories, Frames
<1>2. PagingInit \in PagingState
  BY <1>1, PagingAssumption DEF PagingInit, PagingState, FreshTable, EmptyTable,
     Entry, Flags, KernelEntry, EmptyEntry
<1>3. \A d \in AllDirs, pg \in Pages : PagingInit.table[d][pg] =
         IF d = KERNEL_DIR /\ pg = KernelPage THEN KernelEntry ELSE EmptyEntry
  BY DEF PagingInit, FreshTable, EmptyTable
<1>4. \A d \in AllDirs, pg \in Pages : ~ UserMapped(PagingInit, d, pg)
  BY <1>3 DEF UserMapped, KernelEntry, EmptyEntry
<1>5. \A f \in Frames : ~ PagingInit.page_frame_map[f]
  BY DEF PagingInit
<1>6. FreeCountExact(PagingInit)
  <2>1. {f \in Frames : ~ PagingInit.page_frame_map[f]} = Frames
    BY <1>5
  <2> QED
    BY <2>1, FramesFinite DEF FreeCountExact, PagingInit
<1>7. DirectoriesWellFormed(PagingInit)
  <2>1. \A d \in AllDirs : d # KERNEL_DIR => d \in Directories
    BY PagingAssumption DEF AllDirs, Directories, KERNEL_DIR
  <2>2. \A d \in Directories : ~ PagingInit.page_directory_used[d]
    BY DEF PagingInit
  <2> QED
    BY <1>3, <2>1, <2>2 DEF DirectoriesWellFormed, KernelEntry, EmptyEntry
<1> QED
  BY <1>2, <1>4, <1>5, <1>6, <1>7
  DEF PagingOK, FramesExclusive, MappedFramesMarked, MarkedFramesMapped

(***************************************************************************)
(* paging_allocate_user_page_frame, for a page of a live directory that is   *)
(* not mapped yet, keeps the allocator consistent and changes no other entry. *)
(***************************************************************************)
LEMMA AllocateOK ==
    ASSUME NEW pm, PagingOK(pm),
           NEW d \in AllDirs, d = KERNEL_DIR \/ pm.page_directory_used[d],
           NEW pg \in Pages, pg # KernelPage, ~ UserMapped(pm, d, pg)
    PROVE  LET pm2 == paging_allocate_user_page_frame(pm, d, pg) IN
           /\ PagingOK(pm2)
           /\ pm2.page_directory_used = pm.page_directory_used
           /\ \A e \in AllDirs : e # d => pm2.table[e] = pm.table[e]
           /\ \A q \in Pages : q # pg => pm2.table[d][q] = pm.table[d][q]
<1> DEFINE pm2 == paging_allocate_user_page_frame(pm, d, pg)
           f   == Min(AllocatableFrames(pm))
<1> USE DEF PagingOK
<1>1. CASE pm.free_page_frame_count = 0 \/ AllocatableFrames(pm) = {}
  BY <1>1 DEF paging_allocate_user_page_frame
<1>2. CASE ~ (pm.free_page_frame_count = 0 \/ AllocatableFrames(pm) = {})
  <2>1. f \in Frames /\ f # 0 /\ ~ pm.page_frame_map[f]
    <3>1. AllocatableFrames(pm) \in SUBSET Nat
      BY FramesFinite DEF AllocatableFrames
    <3>2. f \in AllocatableFrames(pm)
      BY <1>2, <3>1, MinElement
    <3> QED
      BY <3>2 DEF AllocatableFrames
  <2> HIDE DEF f
  <2>2. /\ pm2.page_frame_map = [pm.page_frame_map EXCEPT ![f] = TRUE]
        /\ pm2.free_page_frame_count = pm.free_page_frame_count - 1
        /\ pm2.page_directory_used = pm.page_directory_used
        /\ pm2.table = [pm.table EXCEPT ![d][pg] = UserEntry(f)]
        /\ pm2 = [page_frame_map |-> pm2.page_frame_map,
                  free_page_frame_count |-> pm2.free_page_frame_count,
                  page_directory_used |-> pm2.page_directory_used,
                  table |-> pm2.table]
    BY <1>2 DEF paging_allocate_user_page_frame, update_page_directory_entry,
       PagingState, f
  <2> HIDE DEF pm2
  <2>3. pm2 \in PagingState
    <3>1. UserEntry(f) \in Entry
      BY <2>1 DEF Entry, Flags, UserEntry
    <3>2. pm2.table \in [AllDirs -> [Pages -> Entry]]
      BY <3>1, <2>2 DEF PagingState
    <3>3. pm2.page_frame_map \in [Frames -> BOOLEAN]
      BY <2>2 DEF PagingState
    <3>4. pm2.free_page_frame_count \in 0 .. PAGE_FRAME_MAX_COUNT
      <4>1. pm.free_page_frame_count \in 0 .. PAGE_FRAME_MAX_COUNT
        BY DEF PagingState
      <4>2. pm.free_page_frame_count # 0
        BY <1>2
      <4>3. pm2.free_page_frame_count = pm.free_page_frame_count - 1
        BY <2>2
      <4> QED
        BY <4>1, <4>2, <4>3, PagingAssumption
    <3> QED
      BY <2>2, <3>2, <3>3, <3>4 DEF PagingState
  <2>4. /\ \A e \in AllDirs : e # d => pm2.table[e] = pm.table[e]
        /\ \A q \in Pages : q # pg => pm2.table[d][q] = pm.table[d][q]
        /\ pm2.table[d][pg] = UserEntry(f)
    BY <2>2 DEF PagingState
  <2>5. /\ UserMapped(pm2, d, pg) /\ pm2.table[d][pg].frame = f
        /\ \A e \in AllDirs, q \in Pages : <<e, q>> # <<d, pg>> =>
             /\ UserMapped(pm2, e, q) <=> UserMapped(pm, e, q)
             /\ pm2.table[e][q] = pm.table[e][q]
    BY <2>4 DEF UserMapped, UserEntry
  <2>6. /\ pm2.page_frame_map[f]
        /\ \A g \in Frames : g # f => pm2.page_frame_map[g] = pm.page_frame_map[g]
    BY <2>1, <2>2 DEF PagingState
  <2>7. \A e \in AllDirs, q \in Pages : UserMapped(pm, e, q) => pm.table[e][q].frame # f
    BY <2>1 DEF MappedFramesMarked
  <2>8. \A e \in AllDirs, q \in Pages : pm.table[e][q].frame \in Frames
    BY DEF PagingState, Entry
  <2>9. FramesExclusive(pm2)
    BY <2>5, <2>7 DEF FramesExclusive
  <2>10. MappedFramesMarked(pm2)
    BY <2>1, <2>5, <2>6, <2>8 DEF MappedFramesMarked
  <2>11. MarkedFramesMapped(pm2)
    <3> SUFFICES ASSUME NEW g \in Frames, pm2.page_frame_map[g]
                 PROVE  \E e \in AllDirs, q \in Pages :
                          UserMapped(pm2, e, q) /\ pm2.table[e][q].frame = g
      BY DEF MarkedFramesMapped
    <3>1. CASE g = f
      BY <3>1, <2>5
    <3>2. CASE g # f
      <4>1. PICK e \in AllDirs, q \in Pages : UserMapped(pm, e, q) /\ pm.table[e][q].frame = g
        BY <3>2, <2>6 DEF MarkedFramesMapped
      <4> QED
        BY <4>1, <2>5
    <3> QED
      BY <3>1, <3>2
  <2>12. FreeCountExact(pm2)
    <3> DEFINE S == {g \in Frames : ~ pm.page_frame_map[g]}
    <3>1. {g \in Frames : ~ pm2.page_frame_map[g]} = S \ {f}
      BY <2>6
    <3>2. IsFiniteSet(S)
      BY FramesFinite, FS_Subset
    <3>3. Cardinality(S \ {f}) = Cardinality(S) - 1
      BY <3>2, <2>1, FS_RemoveElement
    <3> QED
      BY <3>1, <3>3, <2>2 DEF FreeCountExact
  <2>13. DirectoriesWellFormed(pm2)
    BY <2>2, <2>4, <2>5 DEF DirectoriesWellFormed, UserEntry
  <2> QED
    BY <2>2, <2>3, <2>4, <2>9, <2>10, <2>11, <2>12, <2>13 DEF pm2
<1> QED
  BY <1>1, <1>2

(***************************************************************************)
(* paging_create_new_page_directory takes an unused directory, the kernel    *)
(* page its only entry.                                                     *)
(***************************************************************************)
LEMMA NewDirectoryOK ==
    ASSUME NEW pm, PagingOK(pm), UnusedDirectories(pm) # {}
    PROVE  LET pm2 == paging_create_new_page_directory(pm)
               d   == NewDirectory(pm) IN
           /\ PagingOK(pm2)
           /\ d \in UnusedDirectories(pm)
           /\ \A x \in UnusedDirectories(pm) : d <= x
           /\ pm2.page_directory_used = [pm.page_directory_used EXCEPT ![d] = TRUE]
           /\ \A e \in AllDirs : e # d => pm2.table[e] = pm.table[e]
           /\ \A pg \in Pages : ~ UserMapped(pm2, d, pg)
<1> DEFINE pm2 == paging_create_new_page_directory(pm)
           d   == NewDirectory(pm)
<1> USE DEF PagingOK
<1>1. d \in UnusedDirectories(pm) /\ \A x \in UnusedDirectories(pm) : d <= x
  <2>1. UnusedDirectories(pm) \in SUBSET Nat
    BY PagingAssumption DEF UnusedDirectories, Directories
  <2> QED
    BY <2>1, MinElement DEF NewDirectory
<1>2. /\ pm2.page_frame_map = pm.page_frame_map
      /\ pm2.free_page_frame_count = pm.free_page_frame_count
      /\ pm2.page_directory_used = [pm.page_directory_used EXCEPT ![d] = TRUE]
      /\ pm2.table = [pm.table EXCEPT ![d] = FreshTable]
      /\ pm2 = [page_frame_map |-> pm2.page_frame_map,
                free_page_frame_count |-> pm2.free_page_frame_count,
                page_directory_used |-> pm2.page_directory_used,
                table |-> pm2.table]
  BY DEF paging_create_new_page_directory, PagingState
<1> HIDE DEF pm2, d
<1>3. /\ d \in Directories /\ ~ pm.page_directory_used[d]
      /\ d \in AllDirs /\ d # KERNEL_DIR
  BY <1>1, PagingAssumption DEF UnusedDirectories, Directories, AllDirs, KERNEL_DIR
<1>4. FreshTable \in [Pages -> Entry]
  <2>1. 0 \in Frames
    BY PagingAssumption DEF Frames
  <2> QED
    BY <2>1 DEF FreshTable, Entry, KernelEntry, EmptyEntry, Flags
<1>5. pm2 \in PagingState
  BY <1>2, <1>3, <1>4 DEF PagingState
<1>6. /\ \A e \in AllDirs : e # d => pm2.table[e] = pm.table[e]
      /\ \A pg \in Pages : pm2.table[d][pg] =
           IF pg = KernelPage THEN KernelEntry ELSE EmptyEntry
  BY <1>2, <1>3 DEF PagingState, FreshTable
<1>7. /\ \A pg \in Pages : ~ UserMapped(pm2, d, pg) /\ ~ UserMapped(pm, d, pg)
      /\ \A e \in AllDirs, pg \in Pages : UserMapped(pm2, e, pg) =>
           e # d /\ UserMapped(pm, e, pg) /\ pm2.table[e][pg] = pm.table[e][pg]
      /\ \A e \in AllDirs, pg \in Pages : UserMapped(pm, e, pg) =>
           e # d /\ UserMapped(pm2, e, pg) /\ pm2.table[e][pg] = pm.table[e][pg]
  BY <1>6, <1>3 DEF UserMapped, KernelEntry, EmptyEntry, DirectoriesWellFormed
<1>8. FramesExclusive(pm2)
  BY <1>7 DEF FramesExclusive
<1>9. MappedFramesMarked(pm2)
  BY <1>7, <1>2 DEF MappedFramesMarked
<1>10. MarkedFramesMapped(pm2)
  BY <1>7, <1>2 DEF MarkedFramesMapped
<1>11. FreeCountExact(pm2)
  BY <1>2 DEF FreeCountExact
<1>12. DirectoriesWellFormed(pm2)
  <2> SUFFICES ASSUME NEW e \in AllDirs, NEW pg \in Pages
               PROVE  LET live == e = KERNEL_DIR \/ pm2.page_directory_used[e] IN
                 /\ pm2.table[e][pg].flag # "user" => pm2.table[e][pg].frame = 0
                 /\ (pm2.table[e][pg].flag = "kernel") <=> (live /\ pg = KernelPage)
                 /\ pm2.table[e][pg].flag = "user" => (live /\ pg # KernelPage)
    BY DEF DirectoriesWellFormed
  <2>1. CASE e = d
    <3>1. pm2.page_directory_used[e]
      BY <2>1, <1>2, <1>3 DEF PagingState
    <3> QED
      BY <2>1, <3>1, <1>6 DEF KernelEntry, EmptyEntry
  <2>2. CASE e # d
    <3>1. (e = KERNEL_DIR \/ pm2.page_directory_used[e]) <=>
          (e = KERNEL_DIR \/ pm.page_directory_used[e])
      <4>1. e # KERNEL_DIR => e \in Directories
        BY PagingAssumption DEF AllDirs, Directories, KERNEL_DIR
      <4> QED
        BY <2>2, <4>1, <1>2 DEF PagingState
    <3> QED
      BY <2>2, <3>1, <1>6 DEF DirectoriesWellFormed
  <2> QED
    BY <2>1, <2>2
<1> QED
  BY <1>1, <1>2, <1>5, <1>6, <1>7, <1>8, <1>9, <1>10, <1>11, <1>12 DEF pm2, d

(***************************************************************************)
(* What process_destroy does to the allocator: once the frames of all mapped *)
(* pages of a directory are given back, clearing the directory leaves the     *)
(* allocator consistent, the directory unused and the other ones as they were.*)
(***************************************************************************)
LEMMA ReleaseOK ==
    ASSUME NEW pm, PagingOK(pm),
           NEW d \in Directories,
           NEW pgs \in SUBSET Pages, \A pg \in Pages : UserMapped(pm, d, pg) => pg \in pgs,
           NEW garbage \in Flags
    PROVE  LET pm2 == ReleaseAddressSpace(pm, d, pgs, garbage) IN
           /\ PagingOK(pm2)
           /\ pm2.page_directory_used = [pm.page_directory_used EXCEPT ![d] = FALSE]
           /\ \A e \in AllDirs : e # d => pm2.table[e] = pm.table[e]
           /\ \A pg \in Pages : ~ UserMapped(pm2, d, pg)
<1> DEFINE pm1   == paging_free_user_page_frames(pm, d, pgs, garbage)
           pm2   == paging_free_page_directory(pm1, d)
           freed == FreedFrames(pm, d, pgs)
<1> USE DEF PagingOK
<1>1. d \in AllDirs /\ d # KERNEL_DIR /\ \A e \in AllDirs : e # KERNEL_DIR => e \in Directories
  BY PagingAssumption DEF Directories, AllDirs, KERNEL_DIR
<1>2. \A f \in Frames : f \in freed <=>
         \E pg \in Pages : UserMapped(pm, d, pg) /\ pm.table[d][pg].frame = f
  <2> SUFFICES ASSUME NEW f \in Frames
               PROVE  f \in freed <=>
                        \E pg \in Pages : UserMapped(pm, d, pg) /\ pm.table[d][pg].frame = f
    OBVIOUS
  <2>1. ASSUME f \in freed
        PROVE  \E pg \in Pages : UserMapped(pm, d, pg) /\ pm.table[d][pg].frame = f
    <3>1. PICK pg \in pgs : pm.page_frame_map[f] /\ pm.table[d][pg].frame = f
      BY <2>1 DEF FreedFrames
    <3>2. f # 0
      BY <3>1 DEF MarkedFramesMapped, MappedFramesMarked
    <3> QED
      BY <3>1, <3>2, <1>1 DEF DirectoriesWellFormed, UserMapped
  <2>2. ASSUME NEW pg \in Pages, UserMapped(pm, d, pg), pm.table[d][pg].frame = f
        PROVE  f \in freed
    BY <2>2, <1>1 DEF FreedFrames, MappedFramesMarked
  <2> QED
    BY <2>1, <2>2
<1>3. /\ pm2.page_frame_map = [f \in Frames |-> pm.page_frame_map[f] /\ f \notin freed]
      /\ pm2.free_page_frame_count = pm.free_page_frame_count + Cardinality(freed)
      /\ pm2.page_directory_used = [pm.page_directory_used EXCEPT ![d] = FALSE]
      /\ pm2 = [page_frame_map |-> pm2.page_frame_map,
                free_page_frame_count |-> pm2.free_page_frame_count,
                page_directory_used |-> pm2.page_directory_used,
                table |-> pm2.table]
  BY DEF paging_free_page_directory, paging_free_user_page_frames, PagingState
<1>4. /\ DOMAIN pm2.table = AllDirs
      /\ pm2.table[d] = EmptyTable
      /\ \A e \in AllDirs : e # d => pm2.table[e] = pm.table[e]
  <2>1. pm1.table = [e \in AllDirs |-> [pg \in Pages |->
            IF e = d /\ pg \in pgs /\ pm.table[e][pg].frame \in freed
            THEN [flag |-> garbage, frame |-> 0]
            ELSE pm.table[e][pg]]]
    BY DEF paging_free_user_page_frames, PagingState
  <2>2. pm2.table = [pm1.table EXCEPT ![d] = EmptyTable]
    BY DEF paging_free_page_directory, paging_free_user_page_frames, PagingState
  <2> HIDE DEF pm1, pm2, freed
  <2>3. \A e \in AllDirs : e # d => pm1.table[e] = pm.table[e]
    <3> SUFFICES ASSUME NEW e \in AllDirs, e # d
                 PROVE  pm1.table[e] = pm.table[e]
      OBVIOUS
    <3>1. pm1.table[e] = [pg \in Pages |-> pm.table[e][pg]]
      BY <2>1
    <3>2. pm.table[e] \in [Pages -> Entry]
      BY DEF PagingState
    <3> QED
      BY <3>1, <3>2
  <2> QED
    BY <2>1, <2>2, <2>3, <1>1
<1>5. freed \subseteq Frames
  BY DEF FreedFrames
<1>f. \A f \in freed : pm.page_frame_map[f]
  BY DEF FreedFrames
<1> HIDE DEF pm1, pm2, freed
<1>6. FreeCountExact(pm2) /\ pm2.free_page_frame_count \in 0 .. PAGE_FRAME_MAX_COUNT
  <2> DEFINE S == {f \in Frames : ~ pm.page_frame_map[f]}
             T == {f \in Frames : ~ pm2.page_frame_map[f]}
  <2>1. T = S \cup freed /\ S \cap freed = {}
    BY <1>3, <1>5, <1>f
  <2>2. IsFiniteSet(S) /\ IsFiniteSet(freed) /\ IsFiniteSet(T)
    BY <1>5, FramesFinite, FS_Subset
  <2>3. Cardinality(T) = Cardinality(S) + Cardinality(freed) - Cardinality({})
    BY <2>1, <2>2, FS_Union
  <2>4. Cardinality({}) = 0 /\ Cardinality(S) \in Nat /\ Cardinality(freed) \in Nat
    BY <2>2, FS_EmptySet, FS_CardinalityType
  <2>5. Cardinality(T) <= PAGE_FRAME_MAX_COUNT
    BY FramesFinite, FS_Subset
  <2>6. pm2.free_page_frame_count = Cardinality(T)
    BY <2>3, <2>4, <1>3 DEF FreeCountExact
  <2>7. Cardinality(T) \in Nat
    BY <2>2, FS_CardinalityType
  <2> QED
    BY <2>5, <2>6, <2>7, PagingAssumption DEF FreeCountExact
<1>7. pm2 \in PagingState
  <2>1. 0 \in Frames
    BY PagingAssumption DEF Frames
  <2>2. EmptyTable \in [Pages -> Entry]
    BY <2>1 DEF EmptyTable, EmptyEntry, Entry, Flags
  <2>3. pm2.table \in [AllDirs -> [Pages -> Entry]]
    <3>1. \A e \in AllDirs : pm2.table[e] \in [Pages -> Entry]
      BY <2>2, <1>4 DEF PagingState
    <3>2. pm2.table = [e \in AllDirs |-> pm2.table[e]]
      BY <1>3, <1>4 DEF pm2, pm1, paging_free_page_directory, paging_free_user_page_frames,
         PagingState
    <3> QED
      BY <3>1, <3>2
  <2> QED
    BY <2>3, <1>3, <1>6 DEF PagingState
<1>8. /\ \A pg \in Pages : ~ UserMapped(pm2, d, pg) /\ pm2.table[d][pg] = EmptyEntry
      /\ \A e \in AllDirs, pg \in Pages : UserMapped(pm2, e, pg) =>
           e # d /\ UserMapped(pm, e, pg) /\ pm2.table[e][pg] = pm.table[e][pg]
      /\ \A e \in AllDirs, pg \in Pages : (e # d /\ UserMapped(pm, e, pg)) =>
           UserMapped(pm2, e, pg) /\ pm2.table[e][pg] = pm.table[e][pg]
  BY <1>4 DEF UserMapped, EmptyTable, EmptyEntry
<1>9. FramesExclusive(pm2)
  BY <1>8 DEF FramesExclusive
<1>10. \A e \in AllDirs, pg \in Pages : pm.table[e][pg].frame \in Frames
  BY DEF PagingState, Entry
<1>11. MappedFramesMarked(pm2)
  <2> SUFFICES ASSUME NEW e \in AllDirs, NEW pg \in Pages, UserMapped(pm2, e, pg)
               PROVE  pm2.table[e][pg].frame # 0 /\ pm2.page_frame_map[pm2.table[e][pg].frame]
    BY DEF MappedFramesMarked
  <2> DEFINE f == pm.table[e][pg].frame
  <2>1. e # d /\ UserMapped(pm, e, pg) /\ pm2.table[e][pg].frame = f
    BY <1>8
  <2>2. f \in Frames /\ f # 0 /\ pm.page_frame_map[f]
    BY <2>1, <1>10 DEF MappedFramesMarked
  <2>3. f \notin freed
    BY <2>1, <2>2, <1>1, <1>2 DEF FramesExclusive
  <2> QED
    BY <2>1, <2>2, <2>3, <1>3
<1>12. MarkedFramesMapped(pm2)
  <2> SUFFICES ASSUME NEW f \in Frames, pm2.page_frame_map[f]
               PROVE  \E e \in AllDirs, pg \in Pages :
                        UserMapped(pm2, e, pg) /\ pm2.table[e][pg].frame = f
    BY DEF MarkedFramesMapped
  <2>1. pm.page_frame_map[f] /\ f \notin freed
    BY <1>3
  <2>2. PICK e \in AllDirs, pg \in Pages : UserMapped(pm, e, pg) /\ pm.table[e][pg].frame = f
    BY <2>1 DEF MarkedFramesMapped
  <2>3. e # d
    BY <2>1, <2>2, <1>2
  <2> QED
    BY <2>2, <2>3, <1>8
<1>13. DirectoriesWellFormed(pm2)
  <2> SUFFICES ASSUME NEW e \in AllDirs, NEW pg \in Pages
               PROVE  LET live == e = KERNEL_DIR \/ pm2.page_directory_used[e] IN
                 /\ pm2.table[e][pg].flag # "user" => pm2.table[e][pg].frame = 0
                 /\ (pm2.table[e][pg].flag = "kernel") <=> (live /\ pg = KernelPage)
                 /\ pm2.table[e][pg].flag = "user" => (live /\ pg # KernelPage)
    BY DEF DirectoriesWellFormed
  <2>1. CASE e = d
    <3>1. ~ pm2.page_directory_used[e]
      BY <2>1, <1>3 DEF PagingState
    <3> QED
      BY <2>1, <3>1, <1>1, <1>8 DEF EmptyEntry
  <2>2. CASE e # d
    <3>1. (e = KERNEL_DIR \/ pm2.page_directory_used[e]) <=>
          (e = KERNEL_DIR \/ pm.page_directory_used[e])
      BY <2>2, <1>1, <1>3 DEF PagingState
    <3> QED
      BY <2>2, <3>1, <1>4 DEF DirectoriesWellFormed
  <2> QED
    BY <2>1, <2>2
<1> QED
  BY <1>3, <1>4, <1>6, <1>7, <1>8, <1>9, <1>11, <1>12, <1>13 DEF pm1, pm2, ReleaseAddressSpace

-----------------------------------------------------------------------------
(***************************************************************************)
(* Kernel: KernelInv holds from the end of kernel_setup on, one lemma per  *)
(* handler.                                                                *)
(***************************************************************************)

\* Every slot number is the number of a directory, and none is the kernel's or NULL.
LEMMA DirFacts ==
    /\ Pids \subseteq Directories
    /\ Directories \subseteq AllDirs
    /\ KERNEL_DIR \in AllDirs /\ KERNEL_DIR \notin Directories
    /\ NULL_DIR \notin AllDirs
    /\ \A d \in AllDirs : d \in Directories \/ d = KERNEL_DIR
    /\ Pids \subseteq Nat /\ Directories \subseteq Nat
BY PagingAssumption, KernelAssumption
   DEF Pids, Directories, AllDirs, KERNEL_DIR, NULL_DIR

\* The three pages the kernel names are pages, and they differ.
LEMMA PageFacts ==
    /\ CodePage \in Pages /\ StackPage \in Pages /\ KernelPage \in Pages
    /\ CodePage # KernelPage /\ StackPage # KernelPage
    /\ \A pg \in LoadPages : pg \in Pages /\ pg # StackPage /\ pg \in Nat
BY PagingAssumption DEF Pages, CodePage, StackPage, KernelPage

(***************************************************************************)
(* The initial state, after kernel_setup has mapped one frame for itself.    *)
(***************************************************************************)
LEMMA InitInv == Init => KernelInv
<1> SUFFICES ASSUME Init PROVE KernelInv
  OBVIOUS
<1> DEFINE pm == PagingInit
<1>1. PagingOK(pm) /\ ~ UserMapped(pm, KERNEL_DIR, CodePage)
  <2>1. ~ UserMapped(pm, KERNEL_DIR, CodePage)
    BY DirFacts, PageFacts DEF PagingInit, UserMapped, FreshTable, EmptyEntry
  <2> QED
    BY <2>1, PagingInitOK
<1>2. /\ PagingOK(paging)
      /\ paging.page_directory_used = pm.page_directory_used
      /\ \A q \in Pages : q # CodePage => paging.table[KERNEL_DIR][q] = pm.table[KERNEL_DIR][q]
  BY <1>1, AllocateOK, DirFacts, PageFacts DEF Init
<1>3. TypeOK
  <2>1. paging \in PagingState
    BY <1>2 DEF PagingOK
  <2>2. ZeroPCB \in PCB
    BY DEF ZeroPCB, PCB, States, Contexts
  <2> QED
    BY <2>1, <2>2, KernelAssumption, DirFacts
    DEF Init, TypeOK, CpuModes, PROCESS_CREATE_SUCCESS
<1>4. SlotsPaired
  BY <1>2 DEF Init, SlotsPaired, ZeroPCB, PagingInit
<1>5. MappedPagesRecorded
  <2>1. \A q \in Pages : ~ UserMapped(pm, KERNEL_DIR, q)
    BY DirFacts DEF PagingInit, UserMapped, FreshTable, EmptyEntry, KernelEntry
  <2> QED
    BY <1>2, <2>1 DEF Init, MappedPagesRecorded, UserMapped
<1>6. UserRunsInOwnSpace
  BY DEF Init, UserRunsInOwnSpace
<1> QED
  BY <1>2, <1>3, <1>4, <1>5, <1>6 DEF KernelInv

(***************************************************************************)
(* The address space a creation builds: the directory taken is the one of    *)
(* the slot taken, and only the load page and the stack page are mapped.     *)
(***************************************************************************)
LEMMA BuildOK ==
    ASSUME KernelInv, NEW r \in Requests,
           CreateCheck(r) = PROCESS_CREATE_SUCCESS,
           NEW slot \in Pids, slot = process_list_get_inactive_index
    PROVE  LET pm == BuildAddressSpace(r) IN
           /\ ~ process_list_used[slot]
           /\ NewDirectory(paging) = slot
           /\ r.page \in Pages
           /\ PagingOK(pm)
           /\ pm.page_directory_used = [paging.page_directory_used EXCEPT ![slot] = TRUE]
           /\ \A e \in AllDirs : e # slot => pm.table[e] = paging.table[e]
           /\ \A pg \in Pages : UserMapped(pm, slot, pg) => pg \in {r.page, StackPage}
<1> DEFINE d   == NewDirectory(paging)
           pm1 == paging_create_new_page_directory(paging)
           pm2 == paging_allocate_user_page_frame(pm1, d, r.page)
           pm3 == paging_allocate_user_page_frame(pm2, d, StackPage)
<1>1. slot \in FreePids /\ \A p \in FreePids : slot <= p
  <2>1. FreePids # {} /\ slot = Min(FreePids)
    BY DirFacts DEF process_list_get_inactive_index
  <2>2. FreePids \in SUBSET Nat
    BY DirFacts DEF FreePids
  <2> QED
    BY <2>1, <2>2, MinElement
<1>2. ~ process_list_used[slot]
  BY <1>1 DEF FreePids, UsedPids
<1>3. slot \in UnusedDirectories(paging)
  BY <1>2, DirFacts DEF UnusedDirectories, KernelInv, SlotsPaired
<1>4. /\ PagingOK(pm1)
      /\ d \in UnusedDirectories(paging) /\ d <= slot
      /\ pm1.page_directory_used = [paging.page_directory_used EXCEPT ![d] = TRUE]
      /\ \A e \in AllDirs : e # d => pm1.table[e] = paging.table[e]
      /\ \A pg \in Pages : ~ UserMapped(pm1, d, pg)
  BY <1>3, NewDirectoryOK DEF KernelInv
<1>5. d = slot
  <2>1. d \in Directories /\ ~ paging.page_directory_used[d]
    BY <1>4 DEF UnusedDirectories
  <2>2. d \in Pids
    <3>1. d \in Nat
      BY <2>1, DirFacts, Zenon
    <3>2. slot \in 0 .. PROCESS_COUNT_MAX - 1
      BY DEF Pids
    <3>3. d <= slot
      BY <1>4
    <3> HIDE DEF d
    <3> QED
      BY <3>1, <3>2, <3>3, KernelAssumption DEF Pids
  <2>3. d \in FreePids
    BY <2>1, <2>2 DEF FreePids, UsedPids, KernelInv, SlotsPaired
  <2>4. d <= slot /\ slot <= d
    BY <1>1, <1>4, <2>3
  <2>5. d \in Nat /\ slot \in Nat
    BY <1>1, <2>2, DirFacts, Zenon
  <2> HIDE DEF d
  <2> QED
    BY <2>4, <2>5
<1> HIDE DEF d, pm1
<1>6. r.page \in Pages /\ r.page # StackPage /\ r.page # KernelPage
  <2>1. r.page \in LoadPages
    BY DEF Requests
  <2>2. ~ (r.page >= KernelPage)
    BY DEF CreateCheck, PROCESS_CREATE_SUCCESS, PROCESS_CREATE_FAIL_INVALID_ENTRYPOINT,
       PROCESS_CREATE_FAIL_MAX_PROCESS_EXCEEDED
  <2> QED
    BY <2>1, <2>2, PageFacts DEF KernelPage
<1>7. d \in AllDirs /\ pm1.page_directory_used[d]
  <2>1. paging.page_directory_used \in [Directories -> BOOLEAN]
    BY DEF KernelInv, TypeOK, PagingState
  <2>2. d \in Directories /\ d \in AllDirs
    BY <1>5, DirFacts
  <2> QED
    BY <1>4, <2>1, <2>2
<1>8. /\ PagingOK(pm2)
      /\ pm2.page_directory_used = pm1.page_directory_used
      /\ \A e \in AllDirs : e # d => pm2.table[e] = pm1.table[e]
      /\ \A q \in Pages : q # r.page => pm2.table[d][q] = pm1.table[d][q]
  <2> DEFINE lp == r.page
  <2>1. ~ UserMapped(pm1, d, lp) /\ lp \in Pages /\ lp # KernelPage
    BY <1>4, <1>6
  <2>2. PagingOK(pm1) /\ (d = KERNEL_DIR \/ pm1.page_directory_used[d]) /\ d \in AllDirs
    BY <1>4, <1>7
  <2> HIDE DEF lp
  <2>3. LET pmx == paging_allocate_user_page_frame(pm1, d, lp) IN
          /\ PagingOK(pmx)
          /\ pmx.page_directory_used = pm1.page_directory_used
          /\ \A e \in AllDirs : e # d => pmx.table[e] = pm1.table[e]
          /\ \A q \in Pages : q # lp => pmx.table[d][q] = pm1.table[d][q]
    BY <2>1, <2>2, AllocateOK
  <2> QED
    BY <2>3 DEF lp
<1> HIDE DEF pm2
<1>9. ~ UserMapped(pm2, d, StackPage)
  BY <1>4, <1>6, <1>8, PageFacts DEF UserMapped
<1>10. /\ PagingOK(pm3)
       /\ pm3.page_directory_used = pm2.page_directory_used
       /\ \A e \in AllDirs : e # d => pm3.table[e] = pm2.table[e]
       /\ \A q \in Pages : q # StackPage => pm3.table[d][q] = pm2.table[d][q]
  BY <1>7, <1>8, <1>9, PageFacts, AllocateOK
<1>11. pm3 = BuildAddressSpace(r)
  BY DEF BuildAddressSpace, pm2, pm1, d
<1> HIDE DEF pm3
<1>12. \A pg \in Pages : UserMapped(pm3, slot, pg) => pg \in {r.page, StackPage}
  BY <1>4, <1>5, <1>8, <1>10 DEF UserMapped
<1> QED
  BY <1>2, <1>4, <1>5, <1>6, <1>8, <1>10, <1>11, <1>12 DEF d

(***************************************************************************)
(* What a creation that claims a slot leaves true, whatever read returns.     *)
(***************************************************************************)
LEMMA ClaimOK ==
    ASSUME KernelInv, NEW r \in Requests,
           CreateCheck(r) = PROCESS_CREATE_SUCCESS,
           NEW slot \in Pids, slot = process_list_get_inactive_index,
           NEW st \in States, NEW ctx \in Contexts,
           ClaimSlot(r, slot, st, ctx)
    PROVE  /\ PagingOK(paging')
           /\ process_list_used' \in [Pids -> BOOLEAN]
           /\ pcb' \in [Pids -> PCB]
           /\ active_process_count' \in 0 .. U32 - 1
           /\ SlotsPaired'
           /\ MappedPagesRecorded'
           /\ NewDirectory(paging) = slot
           /\ \A p \in UsedPids : /\ p # slot
                                  /\ process_list_used'[p]
                                  /\ pcb'[p] = pcb[p]
                                  /\ paging'.table[p] = paging.table[p]
<1>1. /\ ~ process_list_used[slot]
      /\ NewDirectory(paging) = slot
      /\ r.page \in Pages
      /\ PagingOK(paging')
      /\ paging'.page_directory_used = [paging.page_directory_used EXCEPT ![slot] = TRUE]
      /\ \A e \in AllDirs : e # slot => paging'.table[e] = paging.table[e]
      /\ \A pg \in Pages : UserMapped(paging', slot, pg) => pg \in {r.page, StackPage}
  BY BuildOK DEF ClaimSlot
<1> DEFINE block == [dir |-> slot, mem |-> {r.page, StackPage}, state |-> st, ctx |-> ctx]
<1>2. /\ pcb' = [pcb EXCEPT ![slot] = block]
      /\ process_list_used' = [process_list_used EXCEPT ![slot] = TRUE]
      /\ active_process_count' = (active_process_count + 1) % U32
  BY <1>1 DEF ClaimSlot
<1>3. block \in PCB /\ block.dir = slot /\ block.mem = {r.page, StackPage}
  BY <1>1, DirFacts, PageFacts DEF PCB
<1> HIDE DEF block
<1>4. /\ pcb \in [Pids -> PCB] /\ process_list_used \in [Pids -> BOOLEAN]
      /\ paging.page_directory_used \in [Directories -> BOOLEAN]
      /\ active_process_count \in 0 .. U32 - 1
  BY DEF KernelInv, TypeOK, PagingState
<1>5. active_process_count' \in 0 .. U32 - 1
  BY <1>2, <1>4, KernelAssumption
<1>6. /\ pcb' \in [Pids -> PCB] /\ process_list_used' \in [Pids -> BOOLEAN]
      /\ pcb'[slot] = block /\ process_list_used'[slot]
      /\ \A p \in Pids : p # slot =>
           pcb'[p] = pcb[p] /\ process_list_used'[p] = process_list_used[p]
  BY <1>2, <1>3, <1>4
<1>7. \A p \in UsedPids : /\ p # slot
                          /\ process_list_used'[p]
                          /\ pcb'[p] = pcb[p]
                          /\ paging'.table[p] = paging.table[p]
  BY <1>1, <1>6, DirFacts DEF UsedPids
<1>8. SlotsPaired'
  <2>1. \A d \in Directories :
          paging'.page_directory_used[d] <=> (d \in Pids /\ process_list_used'[d])
    BY <1>1, <1>4, <1>6 DEF KernelInv, SlotsPaired
  <2>2. \A p \in Pids : process_list_used'[p] => pcb'[p].dir = p
    BY <1>3, <1>6 DEF KernelInv, SlotsPaired
  <2>3. \A p \in Pids : ~ process_list_used'[p] => pcb'[p].dir = NULL_DIR /\ pcb'[p].mem = {}
    BY <1>6 DEF KernelInv, SlotsPaired
  <2> QED
    BY <2>1, <2>2, <2>3 DEF SlotsPaired
<1>9. MappedPagesRecorded'
  <2>1. \A p \in Pids : process_list_used'[p] =>
          \A pg \in Pages : UserMapped(paging', p, pg) => pg \in pcb'[p].mem
    <3> SUFFICES ASSUME NEW p \in Pids, process_list_used'[p],
                        NEW pg \in Pages, UserMapped(paging', p, pg)
                 PROVE  pg \in pcb'[p].mem
      OBVIOUS
    <3>1. CASE p = slot
      BY <3>1, <1>1, <1>3, <1>6
    <3>2. CASE p # slot
      <4>1. process_list_used[p] /\ pcb'[p] = pcb[p]
        BY <3>2, <1>6
      <4>2. UserMapped(paging, p, pg)
        BY <3>2, <1>1, DirFacts DEF UserMapped
      <4> QED
        BY <4>1, <4>2 DEF KernelInv, MappedPagesRecorded
    <3> QED
      BY <3>1, <3>2
  <2>2. \A pg \in Pages : UserMapped(paging', KERNEL_DIR, pg) => pg = CodePage
    BY <1>1, DirFacts DEF KernelInv, MappedPagesRecorded, UserMapped
  <2> QED
    BY <2>1, <2>2 DEF MappedPagesRecorded
<1> QED
  BY <1>1, <1>5, <1>6, <1>7, <1>8, <1>9

(***************************************************************************)
(* A creation preserves the invariant whether it is rejected, fails to read,  *)
(* faults or succeeds.                                                      *)
(***************************************************************************)
LEMMA CreateInv ==
    ASSUME KernelInv, NEW r \in Requests, Create(r)
    PROVE  KernelInv'
<1> DEFINE slot == process_list_get_inactive_index
<1>1. CASE CreateRejected(r)
  <2>1. CreateCheck(r) \in 0 .. 4
    BY DEF CreateCheck, PROCESS_CREATE_SUCCESS, PROCESS_CREATE_FAIL_MAX_PROCESS_EXCEEDED,
       PROCESS_CREATE_FAIL_INVALID_ENTRYPOINT, PROCESS_CREATE_FAIL_NOT_ENOUGH_MEMORY
  <2>2. cpu' \in CpuModes /\ (cpu' = "user" => cpu = "user")
    BY <1>1 DEF CreateRejected, AfterCreate, CpuModes, KernelInv, TypeOK
  <2>3. UNCHANGED <<paging, process_list_used, active_process_count, current_running_pid, pcb, cr3>>
        /\ retcode' \in 0 .. 4
    BY <1>1, <2>1 DEF CreateRejected
  <2>4. TypeOK'
    BY <2>2, <2>3 DEF KernelInv, TypeOK
  <2>5. SlotsPaired' /\ MappedPagesRecorded' /\ UserRunsInOwnSpace'
    BY <2>2, <2>3 DEF KernelInv, SlotsPaired, MappedPagesRecorded, UserRunsInOwnSpace, UsedPids
  <2> QED
    BY <2>3, <2>4, <2>5 DEF KernelInv
<1>2. CASE CreateOverrun(r)
  <2>1. /\ UNCHANGED <<paging, process_list_used, current_running_pid, pcb, cr3, retcode>>
        /\ cpu' = "corrupt" /\ active_process_count' = (active_process_count + 1) % U32
    BY <1>2 DEF CreateOverrun
  <2>2. active_process_count' \in 0 .. U32 - 1
    BY <2>1, KernelAssumption DEF KernelInv, TypeOK
  <2>3. TypeOK'
    BY <2>1, <2>2 DEF KernelInv, TypeOK, CpuModes, Halted
  <2>4. SlotsPaired' /\ MappedPagesRecorded' /\ UserRunsInOwnSpace'
    BY <2>1 DEF KernelInv, SlotsPaired, MappedPagesRecorded, UserRunsInOwnSpace
  <2> QED
    BY <2>1, <2>3, <2>4 DEF KernelInv
<1>3. CASE CreateReadFails(r) \/ CreatePageFaults(r) \/ CreateSucceeds(r)
  <2>1. /\ slot \in Pids
        /\ CreateCheck(r) = PROCESS_CREATE_SUCCESS
        /\ current_running_pid' = current_running_pid
        /\ retcode' \in 0 .. 4
    BY <1>3 DEF CreateReadFails, CreatePageFaults, CreateSucceeds, ClaimSlot, KernelInv, TypeOK,
       PROCESS_CREATE_SUCCESS, PROCESS_CREATE_FAIL_FS_READ_FAILURE
  <2>2. \E st \in States, ctx \in Contexts : ClaimSlot(r, slot, st, ctx)
    <3>1. pcb[slot].state \in States /\ pcb[slot].ctx \in Contexts
      BY <2>1 DEF KernelInv, TypeOK, PCB
    <3>2. "READY" \in States /\ "entry" \in Contexts
      BY DEF States, Contexts
    <3> QED
      BY <1>3, <3>1, <3>2, Zenon DEF CreateReadFails, CreatePageFaults, CreateSucceeds
  <2>3. PICK st \in States, ctx \in Contexts : ClaimSlot(r, slot, st, ctx)
    BY <2>2
  <2> HIDE DEF slot
  <2>s. slot = process_list_get_inactive_index
    BY DEF slot
  <2>4. /\ PagingOK(paging')
        /\ process_list_used' \in [Pids -> BOOLEAN]
        /\ pcb' \in [Pids -> PCB]
        /\ active_process_count' \in 0 .. U32 - 1
        /\ SlotsPaired'
        /\ MappedPagesRecorded'
        /\ NewDirectory(paging) = slot
        /\ \A p \in UsedPids : /\ p # slot
                               /\ process_list_used'[p]
                               /\ pcb'[p] = pcb[p]
                               /\ paging'.table[p] = paging.table[p]
    BY <2>1, <2>3, <2>s, ClaimOK
  <2>5. /\ cpu' \in CpuModes
        /\ cpu' = "user" => (cpu = "user" /\ cr3' = cr3)
        /\ cr3' \in AllDirs
    <3>1. CASE CreatePageFaults(r)
      BY <3>1, <2>1, <2>4, DirFacts DEF CreatePageFaults, CpuModes, Halted
    <3>2. CASE CreateReadFails(r) \/ CreateSucceeds(r)
      BY <3>2 DEF CreateReadFails, CreateSucceeds, AfterCreate, CpuModes, KernelInv, TypeOK
    <3> QED
      BY <1>3, <3>1, <3>2
  <2>6. TypeOK'
    BY <2>1, <2>4, <2>5 DEF KernelInv, TypeOK, PagingOK
  <2>7. UserRunsInOwnSpace'
    <3> SUFFICES ASSUME cpu' = "user"
                 PROVE  /\ current_running_pid' \in UsedPids'
                        /\ cr3' = pcb'[current_running_pid'].dir
                        /\ paging'.table[cr3'][KernelPage] = KernelEntry
                        /\ \A pg \in pcb'[current_running_pid'].mem : UserMapped(paging', cr3', pg)
      BY DEF UserRunsInOwnSpace
    <3> DEFINE c == current_running_pid
    <3>1. /\ c \in UsedPids /\ cr3 = pcb[c].dir /\ cr3' = cr3 /\ c' = c
          /\ paging.table[cr3][KernelPage] = KernelEntry
          /\ \A pg \in pcb[c].mem : UserMapped(paging, cr3, pg)
      BY <2>1, <2>5 DEF KernelInv, UserRunsInOwnSpace
    <3>2. c \in Pids /\ process_list_used[c] /\ cr3 = c
      BY <3>1 DEF UsedPids, KernelInv, SlotsPaired
    <3>3. process_list_used'[c] /\ pcb'[c] = pcb[c] /\ paging'.table[c] = paging.table[c]
      BY <3>1, <2>4
    <3>4. c \in UsedPids'
      BY <3>2, <3>3 DEF UsedPids
    <3> QED
      BY <3>1, <3>2, <3>3, <3>4 DEF UserMapped
  <2> QED
    BY <2>4, <2>6, <2>7 DEF KernelInv
<1> QED
  BY <1>1, <1>2, <1>3 DEF Create

(***************************************************************************)
(* Destroying a slot that is not used finds no directory and no page: the     *)
(* allocator is left as it is.                                              *)
(***************************************************************************)
LEMMA ReleaseNothing ==
    ASSUME NEW pm, PagingOK(pm), NEW garbage \in Flags
    PROVE  ReleaseAddressSpace(pm, NULL_DIR, {}, garbage) = pm
<1> DEFINE pm1 == paging_free_user_page_frames(pm, NULL_DIR, {}, garbage)
<1>1. FreedFrames(pm, NULL_DIR, {}) = {}
  BY DEF FreedFrames
<1>2. pm \in PagingState
  BY DEF PagingOK
<1>3. pm1.page_frame_map = pm.page_frame_map
  <2>1. pm1.page_frame_map = [f \in Frames |-> pm.page_frame_map[f] /\ f \notin {}]
    BY <1>1, <1>2 DEF paging_free_user_page_frames, PagingState
  <2>2. pm.page_frame_map \in [Frames -> BOOLEAN]
    BY <1>2 DEF PagingState
  <2> QED
    BY <2>1, <2>2
<1>4. pm1.table = pm.table
  <2>1. pm1.table = [e \in AllDirs |-> [pg \in Pages |-> pm.table[e][pg]]]
    BY <1>1, <1>2 DEF paging_free_user_page_frames, PagingState
  <2>2. pm.table \in [AllDirs -> [Pages -> Entry]]
    BY <1>2 DEF PagingState
  <2> QED
    BY <2>1, <2>2
<1>5. pm1.free_page_frame_count = pm.free_page_frame_count
  <2>1. Cardinality({}) = 0
    BY FS_EmptySet
  <2>2. pm1.free_page_frame_count = pm.free_page_frame_count + Cardinality({})
    BY <1>1, <1>2 DEF paging_free_user_page_frames, PagingState
  <2> QED
    BY <2>1, <2>2, <1>2, PagingAssumption DEF PagingState
<1>6. /\ pm1.page_directory_used = pm.page_directory_used
      /\ DOMAIN pm1 = DOMAIN pm
      /\ DOMAIN pm = {"page_frame_map", "free_page_frame_count", "page_directory_used", "table"}
      /\ pm1 = [x \in DOMAIN pm1 |-> pm1[x]]
      /\ pm = [x \in DOMAIN pm |-> pm[x]]
  BY <1>2, Zenon DEF paging_free_user_page_frames, PagingState
<1> HIDE DEF pm1
<1>7. pm1 = pm
  BY <1>3, <1>4, <1>5, <1>6
<1> QED
  BY <1>7, DirFacts DEF ReleaseAddressSpace, paging_free_page_directory, pm1

(***************************************************************************)
(* What process_destroy leaves true, for a slot in use or not.              *)
(***************************************************************************)
LEMMA DestroyOK ==
    ASSUME KernelInv, NEW pid \in Pids, process_destroy(pid)
    PROVE  /\ PagingOK(paging')
           /\ process_list_used' \in [Pids -> BOOLEAN]
           /\ pcb' \in [Pids -> PCB]
           /\ active_process_count' \in 0 .. U32 - 1
           /\ SlotsPaired'
           /\ MappedPagesRecorded'
           /\ ~ process_list_used'[pid]
           /\ \A p \in UsedPids : p # pid => /\ process_list_used'[p]
                                             /\ pcb'[p] = pcb[p]
                                             /\ paging'.table[p] = paging.table[p]
<1>1. PICK garbage \in Flags :
        paging' = ReleaseAddressSpace(paging, pcb[pid].dir, pcb[pid].mem, garbage)
  BY DEF process_destroy
<1>2. /\ PagingOK(paging')
      /\ \A e \in AllDirs : e # pid => paging'.table[e] = paging.table[e]
      /\ \A d \in Directories : paging'.page_directory_used[d] =
           (paging.page_directory_used[d] /\ d # pid)
  <2>1. CASE process_list_used[pid]
    <3>1. pcb[pid].dir = pid /\ pcb[pid].mem \in SUBSET Pages /\ pid \in Directories
      BY <2>1, DirFacts DEF KernelInv, SlotsPaired, TypeOK, PCB
    <3>2. \A pg \in Pages : UserMapped(paging, pid, pg) => pg \in pcb[pid].mem
      BY <2>1 DEF KernelInv, MappedPagesRecorded
    <3>3. /\ PagingOK(paging')
          /\ paging'.page_directory_used = [paging.page_directory_used EXCEPT ![pid] = FALSE]
          /\ \A e \in AllDirs : e # pid => paging'.table[e] = paging.table[e]
      <4> DEFINE pgs == pcb[pid].mem
                 pm2 == ReleaseAddressSpace(paging, pid, pgs, garbage)
      <4>1. /\ PagingOK(paging) /\ pid \in Directories /\ pgs \in SUBSET Pages
            /\ \A pg \in Pages : UserMapped(paging, pid, pg) => pg \in pgs
        BY <3>1, <3>2 DEF KernelInv
      <4> HIDE DEF pgs
      <4>2. /\ PagingOK(pm2)
            /\ pm2.page_directory_used = [paging.page_directory_used EXCEPT ![pid] = FALSE]
            /\ \A e \in AllDirs : e # pid => pm2.table[e] = paging.table[e]
            /\ \A pg \in Pages : ~ UserMapped(pm2, pid, pg)
        BY <4>1, ReleaseOK
      <4>3. paging' = pm2
        BY <1>1, <3>1 DEF pgs
      <4> QED
        BY <4>2, <4>3
    <3>4. paging.page_directory_used \in [Directories -> BOOLEAN]
      BY DEF KernelInv, TypeOK, PagingState
    <3> QED
      BY <3>1, <3>3, <3>4
  <2>2. CASE ~ process_list_used[pid]
    <3>1. pcb[pid].dir = NULL_DIR /\ pcb[pid].mem = {}
      BY <2>2 DEF KernelInv, SlotsPaired
    <3>2. paging' = paging
      BY <1>1, <3>1, ReleaseNothing DEF KernelInv
    <3>3. /\ paging.page_directory_used \in [Directories -> BOOLEAN]
          /\ \A d \in Directories : paging.page_directory_used[d] => d # pid
      BY <2>2 DEF KernelInv, SlotsPaired, TypeOK, PagingState
    <3> QED
      BY <3>2, <3>3 DEF KernelInv
  <2> QED
    BY <2>1, <2>2
<1>3. /\ pcb' = [pcb EXCEPT ![pid] = ZeroPCB]
      /\ process_list_used' = [process_list_used EXCEPT ![pid] = FALSE]
      /\ active_process_count' = (active_process_count - 1) % U32
  BY DEF process_destroy
<1>4. /\ pcb \in [Pids -> PCB] /\ process_list_used \in [Pids -> BOOLEAN]
      /\ active_process_count \in 0 .. U32 - 1
  BY DEF KernelInv, TypeOK
<1>5. ZeroPCB \in PCB /\ ZeroPCB.dir = NULL_DIR /\ ZeroPCB.mem = {}
  BY DEF ZeroPCB, PCB, States, Contexts
<1>6. active_process_count' \in 0 .. U32 - 1
  BY <1>3, <1>4, KernelAssumption
<1>7. /\ pcb' \in [Pids -> PCB] /\ process_list_used' \in [Pids -> BOOLEAN]
      /\ pcb'[pid] = ZeroPCB /\ ~ process_list_used'[pid]
      /\ \A p \in Pids : p # pid =>
           pcb'[p] = pcb[p] /\ process_list_used'[p] = process_list_used[p]
  BY <1>3, <1>4, <1>5
<1>8. \A p \in UsedPids : p # pid => /\ process_list_used'[p]
                                     /\ pcb'[p] = pcb[p]
                                     /\ paging'.table[p] = paging.table[p]
  BY <1>2, <1>7, DirFacts DEF UsedPids
<1>9. SlotsPaired'
  <2>1. \A d \in Directories :
          paging'.page_directory_used[d] <=> (d \in Pids /\ process_list_used'[d])
    BY <1>2, <1>7 DEF KernelInv, SlotsPaired
  <2>2. \A p \in Pids : process_list_used'[p] => pcb'[p].dir = p
    BY <1>7 DEF KernelInv, SlotsPaired
  <2>3. \A p \in Pids : ~ process_list_used'[p] => pcb'[p].dir = NULL_DIR /\ pcb'[p].mem = {}
    BY <1>5, <1>7 DEF KernelInv, SlotsPaired
  <2> QED
    BY <2>1, <2>2, <2>3 DEF SlotsPaired
<1>10. MappedPagesRecorded'
  <2>1. \A p \in Pids : process_list_used'[p] =>
          \A pg \in Pages : UserMapped(paging', p, pg) => pg \in pcb'[p].mem
    BY <1>2, <1>7, DirFacts DEF KernelInv, MappedPagesRecorded, UserMapped
  <2>2. \A pg \in Pages : UserMapped(paging', KERNEL_DIR, pg) => pg = CodePage
    BY <1>2, DirFacts DEF KernelInv, MappedPagesRecorded, UserMapped
  <2> QED
    BY <2>1, <2>2 DEF MappedPagesRecorded
<1> QED
  BY <1>2, <1>6, <1>7, <1>8, <1>9, <1>10

(***************************************************************************)
(* kill and terminate preserve the invariant, also for the caller's own slot. *)
(***************************************************************************)
LEMMA DestroyInv ==
    ASSUME KernelInv, NEW pid \in Pids, cpu = "user", process_destroy(pid)
    PROVE  KernelInv'
<1>1. /\ PagingOK(paging')
      /\ process_list_used' \in [Pids -> BOOLEAN]
      /\ pcb' \in [Pids -> PCB]
      /\ active_process_count' \in 0 .. U32 - 1
      /\ SlotsPaired'
      /\ MappedPagesRecorded'
      /\ \A p \in UsedPids : p # pid => /\ process_list_used'[p]
                                        /\ pcb'[p] = pcb[p]
                                        /\ paging'.table[p] = paging.table[p]
  BY DestroyOK
<1>2. /\ UNCHANGED <<current_running_pid, cr3, retcode>>
      /\ cpu' = IF pid = current_running_pid THEN "faulting" ELSE cpu
  BY DEF process_destroy
<1>3. TypeOK'
  BY <1>1, <1>2 DEF KernelInv, TypeOK, PagingOK, CpuModes, Interruptible
<1>4. UserRunsInOwnSpace'
  <2> SUFFICES ASSUME cpu' = "user"
               PROVE  /\ current_running_pid' \in UsedPids'
                      /\ cr3' = pcb'[current_running_pid'].dir
                      /\ paging'.table[cr3'][KernelPage] = KernelEntry
                      /\ \A pg \in pcb'[current_running_pid'].mem : UserMapped(paging', cr3', pg)
    BY DEF UserRunsInOwnSpace
  <2> DEFINE c == current_running_pid
  <2>1. /\ c \in UsedPids /\ cr3 = pcb[c].dir /\ cr3' = cr3 /\ c' = c /\ c # pid
        /\ paging.table[cr3][KernelPage] = KernelEntry
        /\ \A pg \in pcb[c].mem : UserMapped(paging, cr3, pg)
    BY <1>2 DEF KernelInv, UserRunsInOwnSpace
  <2>2. c \in Pids /\ process_list_used[c] /\ cr3 = c
    BY <2>1 DEF UsedPids, KernelInv, SlotsPaired
  <2>3. process_list_used'[c] /\ pcb'[c] = pcb[c] /\ paging'.table[c] = paging.table[c]
    BY <2>1, <1>1
  <2>4. c \in UsedPids'
    BY <2>2, <2>3 DEF UsedPids
  <2> QED
    BY <2>1, <2>2, <2>3, <2>4 DEF UserMapped
<1> QED
  BY <1>1, <1>3, <1>4 DEF KernelInv

(***************************************************************************)
(* The round robin's search ends on a used slot if there is one.            *)
(***************************************************************************)
LEMMA NextPidUsed ==
    ASSUME TypeOK, UsedPids # {}, NEW index \in Pids
    PROVE  NextPid(index) \in UsedPids
<1> DEFINE N == PROCESS_COUNT_MAX
           K == {k \in 1 .. N : process_list_used[(index + k) % N]}
<1>1. N \in Nat \ {0} /\ index \in 0 .. N - 1
  BY KernelAssumption DEF Pids
<1>2. PICK p \in UsedPids : TRUE
  OBVIOUS
<1>3. p \in 0 .. N - 1 /\ process_list_used[p]
  BY <1>2 DEF UsedPids, Pids
<1> HIDE DEF N
<1>4. \E k \in 1 .. N : (index + k) % N = p
  <2>1. CASE p > index
    <3>1. (p - index) \in 1 .. N /\ (index + (p - index)) % N = p
      BY <2>1, <1>1, <1>3
    <3> QED
      BY <3>1
  <2>2. CASE p <= index
    <3>1. (p - index + N) \in 1 .. N /\ index + (p - index + N) = p + N
      BY <2>2, <1>1, <1>3
    <3>2. (p + N) % N = p
      BY <1>1, <1>3
    <3> QED
      BY <3>1, <3>2
  <2> QED
    BY <2>1, <2>2, <1>1, <1>3
<1>5. K # {} /\ K \in SUBSET Nat
  <2>1. PICK k \in 1 .. N : (index + k) % N = p
    BY <1>4
  <2>2. k \in K
    BY <2>1, <1>3
  <2>3. K \subseteq 1 .. N /\ 1 .. N \subseteq Nat
    BY <1>1
  <2> QED
    BY <2>2, <2>3
<1>6. Min(K) \in K
  BY <1>5, MinElement
<1>7. NextPid(index) = (index + Min(K)) % N
  BY DEF NextPid, N
<1> DEFINE m == Min(K)
<1>8. m \in 1 .. N /\ process_list_used[(index + m) % N]
  BY <1>6
<1> HIDE DEF m, K
<1>9. (index + m) % N \in 0 .. N - 1
  BY <1>1, <1>8
<1> QED
  BY <1>7, <1>8, <1>9 DEF UsedPids, Pids, N, m

(***************************************************************************)
(* A context switch preserves the invariant, from whatever list of blocks     *)
(* differs from pcb in states and registers only.                           *)
(***************************************************************************)
LEMMA SwitchInv ==
    ASSUME KernelInv,
           NEW list \in [Pids -> PCB],
           \A p \in Pids : list[p].dir = pcb[p].dir /\ list[p].mem = pcb[p].mem,
           scheduler_switch_to_next_process(list),
           UNCHANGED <<paging, process_list_used, active_process_count, retcode>>
    PROVE  KernelInv'
<1>1. CASE UsedPids = {}
  <2>1. /\ pcb' = list /\ cpu' = "spin" /\ UNCHANGED <<current_running_pid, cr3>>
    BY <1>1 DEF scheduler_switch_to_next_process
  <2>2. TypeOK'
    BY <2>1 DEF KernelInv, TypeOK, CpuModes, Halted
  <2>3. SlotsPaired' /\ MappedPagesRecorded' /\ UserRunsInOwnSpace'
    BY <2>1 DEF KernelInv, SlotsPaired, MappedPagesRecorded, UserRunsInOwnSpace
  <2> QED
    BY <2>2, <2>3 DEF KernelInv
<1>2. CASE UsedPids # {}
  <2> DEFINE index == IF current_running_pid = NO_PROCESS_RUNNING THEN 0 ELSE current_running_pid
             next  == NextPid(index)
  <2>1. index \in Pids
    <3>1. 0 \in Pids
      BY KernelAssumption DEF Pids
    <3> QED
      BY <3>1 DEF KernelInv, TypeOK
  <2>2. next \in UsedPids
    BY <1>2, <2>1, NextPidUsed DEF KernelInv
  <2>3. /\ pcb' = [list EXCEPT ![next].state = "RUNNING"]
        /\ current_running_pid' = next
        /\ cr3' = list[next].dir
        /\ cpu' = Resumed(list[next])
    BY <1>2 DEF scheduler_switch_to_next_process
  <2> HIDE DEF index, next
  <2>4. next \in Pids /\ process_list_used[next] /\ list[next].dir = next /\ pcb[next].dir = next
    BY <2>2 DEF UsedPids, KernelInv, SlotsPaired
  <2>5. /\ pcb' \in [Pids -> PCB]
        /\ \A p \in Pids : pcb'[p].dir = pcb[p].dir /\ pcb'[p].mem = pcb[p].mem
    <3>1. "RUNNING" \in States
      BY DEF States
    <3> QED
      BY <2>3, <2>4, <3>1 DEF PCB
  <2>6. cpu' \in CpuModes
    BY <2>3 DEF Resumed, CpuModes, Halted, Interruptible
  <2>7. TypeOK'
    BY <2>3, <2>4, <2>5, <2>6, DirFacts DEF KernelInv, TypeOK
  <2>8. SlotsPaired'
    BY <2>5 DEF KernelInv, SlotsPaired
  <2>9. MappedPagesRecorded'
    BY <2>5 DEF KernelInv, MappedPagesRecorded
  <2>10. UserRunsInOwnSpace'
    <3> SUFFICES ASSUME cpu' = "user"
                 PROVE  /\ current_running_pid' \in UsedPids'
                        /\ cr3' = pcb'[current_running_pid'].dir
                        /\ paging'.table[cr3'][KernelPage] = KernelEntry
                        /\ \A pg \in pcb'[current_running_pid'].mem : UserMapped(paging', cr3', pg)
      BY DEF UserRunsInOwnSpace
    <3>1. \A pg \in list[next].mem : UserMapped(paging, next, pg)
      BY <2>3, <2>4 DEF Resumed
    <3>2. next \in UsedPids'
      BY <2>2 DEF UsedPids
    <3>3. paging.table[next][KernelPage].flag = "kernel" /\ paging.table[next][KernelPage].frame = 0
      BY <2>4, DirFacts, PageFacts DEF KernelInv, SlotsPaired, PagingOK, DirectoriesWellFormed
    <3>4. paging.table[next][KernelPage] \in Entry
      BY <2>4, DirFacts, PageFacts DEF KernelInv, TypeOK, PagingState
    <3>5. paging.table[next][KernelPage] = KernelEntry
      BY <3>3, <3>4 DEF Entry, KernelEntry
    <3> QED
      BY <2>3, <2>4, <2>5, <3>1, <3>2, <3>5 DEF UserMapped
  <2> QED
    BY <2>7, <2>8, <2>9, <2>10 DEF KernelInv
<1> QED
  BY <1>1, <1>2

\* Saving the preempted process's registers changes no directory and no page of a block.
LEMMA SavedListOK ==
    ASSUME TypeOK
    PROVE  LET list == scheduler_save_context_to_current_running_pcb IN
           /\ list \in [Pids -> PCB]
           /\ \A p \in Pids : /\ list[p].dir = pcb[p].dir /\ list[p].mem = pcb[p].mem
                              /\ p # current_running_pid => list[p] = pcb[p]
<1>1. CASE current_running_pid = NO_PROCESS_RUNNING
  BY <1>1 DEF scheduler_save_context_to_current_running_pcb, TypeOK
<1>2. CASE current_running_pid # NO_PROCESS_RUNNING
  <2> DEFINE c == current_running_pid
             x == IF process_list_used[c] /\ pcb[c].ctx # "stale" THEN "saved" ELSE "stale"
  <2>1. c \in Pids /\ x \in Contexts /\ "READY" \in States /\ pcb \in [Pids -> PCB]
    BY <1>2 DEF TypeOK, Contexts, States
  <2>2. scheduler_save_context_to_current_running_pcb =
          [pcb EXCEPT ![c].state = "READY", ![c].ctx = x]
    BY <1>2 DEF scheduler_save_context_to_current_running_pcb
  <2> HIDE DEF x, c
  <2> QED
    BY <2>1, <2>2 DEF PCB, c
<1> QED
  BY <1>1, <1>2

(***************************************************************************)
(* Every step of the kernel preserves the invariant.                        *)
(***************************************************************************)
LEMMA StepInv == KernelInv /\ [Next]_vars => KernelInv'
<1> SUFFICES ASSUME KernelInv, [Next]_vars PROVE KernelInv'
  OBVIOUS
<1>1. ASSUME NEW r \in Requests, Create(r) PROVE KernelInv'
  BY <1>1, CreateInv
<1>2. ASSUME NEW pid \in KillPids, KillProcess(pid) PROVE KernelInv'
  <2>1. pid \in Pids
    BY KernelAssumption DEF Pids
  <2> QED
    BY <1>2, <2>1, DestroyInv DEF KillProcess
<1>3. CASE TerminateProcess
  <2>1. current_running_pid \in Pids /\ cpu = "user"
    BY <1>3 DEF TerminateProcess, KernelInv, UserRunsInOwnSpace, UsedPids
  <2> QED
    BY <1>3, <2>1, DestroyInv DEF TerminateProcess
<1>4. CASE StartScheduler
  <2>1. pcb \in [Pids -> PCB]
    BY DEF KernelInv, TypeOK
  <2> QED
    BY <1>4, <2>1, SwitchInv DEF StartScheduler
<1>5. CASE Timer
  <2> DEFINE list == scheduler_save_context_to_current_running_pcb
  <2>1. /\ list \in [Pids -> PCB]
        /\ \A p \in Pids : list[p].dir = pcb[p].dir /\ list[p].mem = pcb[p].mem
    BY SavedListOK DEF KernelInv
  <2>2. /\ scheduler_switch_to_next_process(list)
        /\ UNCHANGED <<paging, process_list_used, active_process_count, retcode>>
    BY <1>5 DEF Timer
  <2> HIDE DEF list
  <2> QED
    BY <2>1, <2>2, SwitchInv
<1>6. CASE TlbEvict
  <2>1. /\ UNCHANGED <<paging, process_list_used, active_process_count,
                       current_running_pid, pcb, cr3, retcode>>
        /\ cpu' = "reset"
    BY <1>6 DEF TlbEvict
  <2>2. TypeOK'
    BY <2>1 DEF KernelInv, TypeOK, CpuModes, Halted
  <2>3. SlotsPaired' /\ MappedPagesRecorded' /\ UserRunsInOwnSpace'
    BY <2>1 DEF KernelInv, SlotsPaired, MappedPagesRecorded, UserRunsInOwnSpace
  <2> QED
    BY <2>1, <2>2, <2>3 DEF KernelInv
<1>7. CASE UNCHANGED vars
  BY <1>7 DEF vars, KernelInv, TypeOK, SlotsPaired, MappedPagesRecorded,
     UserRunsInOwnSpace, UsedPids
<1> QED
  BY <1>1, <1>2, <1>3, <1>4, <1>5, <1>6, <1>7 DEF Next

(***************************************************************************)
(* KernelInv holds in every reachable state.                                *)
(***************************************************************************)
THEOREM KernelInvariant == Spec => []KernelInv
<1> QED
  BY InitInv, StepInv, PTL DEF Spec

(***************************************************************************)
(* The kernel's tables and the CPU's mode keep their types: in particular    *)
(* free_page_frame_count never leaves 0 .. PAGE_FRAME_MAX_COUNT.              *)
(***************************************************************************)
THEOREM TypeCorrect == Spec => []TypeOK
<1>1. KernelInv => TypeOK
  BY DEF KernelInv
<1> QED
  BY <1>1, KernelInvariant, PTL

(***************************************************************************)
(* Memory isolation, for every number of processes, frames and directories:  *)
(* create, kill, terminate and the timer never let user code reach a frame    *)
(* through two mappings, nor an unmarked one, nor the kernel's.               *)
(***************************************************************************)
THEOREM Isolation == Spec => []MemoryIsolation
<1>1. KernelInv => MemoryIsolation
  BY DEF KernelInv, PagingOK, MemoryIsolation
<1> QED
  BY <1>1, KernelInvariant, PTL

(***************************************************************************)
(* No frame leaks: a marked frame is mapped at a recorded page of a used      *)
(* slot, where process_destroy finds it, or is the kernel's own; the counter  *)
(* is exact.                                                                *)
(***************************************************************************)
THEOREM Accounting == Spec => []FramesAccounted
<1>1. ASSUME KernelInv PROVE FramesAccounted
  <2>1. FreeCountExact(paging)
    BY <1>1 DEF KernelInv, PagingOK
  <2>2. ASSUME NEW f \in Frames, paging.page_frame_map[f]
        PROVE  \/ UserMapped(paging, KERNEL_DIR, CodePage)
                    /\ paging.table[KERNEL_DIR][CodePage].frame = f
               \/ \E p \in UsedPids : \E pg \in pcb[p].mem :
                    /\ UserMapped(paging, pcb[p].dir, pg)
                    /\ paging.table[pcb[p].dir][pg].frame = f
    <3>1. PICK d \in AllDirs, pg \in Pages :
            UserMapped(paging, d, pg) /\ paging.table[d][pg].frame = f
      BY <1>1, <2>2 DEF KernelInv, PagingOK, MarkedFramesMapped
    <3>2. CASE d = KERNEL_DIR
      BY <1>1, <3>1, <3>2 DEF KernelInv, MappedPagesRecorded
    <3>3. CASE d # KERNEL_DIR
      <4>1. d \in Directories /\ paging.page_directory_used[d]
        BY <1>1, <3>1, <3>3, DirFacts
        DEF KernelInv, PagingOK, DirectoriesWellFormed, UserMapped
      <4>2. d \in UsedPids /\ pcb[d].dir = d /\ pg \in pcb[d].mem
        BY <1>1, <3>1, <4>1 DEF KernelInv, SlotsPaired, MappedPagesRecorded, UsedPids
      <4> QED
        BY <3>1, <4>2
    <3> QED
      BY <3>2, <3>3
  <2> QED
    BY <2>1, <2>2 DEF FramesAccounted
<1> QED
  BY <1>1, KernelInvariant, PTL

(***************************************************************************)
(* Slots and directories stay paired, so that a creation always finds a free  *)
(* directory for a free slot and never one that is in use.                   *)
(***************************************************************************)
THEOREM Ownership == Spec => []DirectoriesOwned
<1>1. KernelInv => DirectoriesOwned
  BY DirFacts DEF KernelInv, SlotsPaired, DirectoriesOwned, UsedPids
<1> QED
  BY <1>1, KernelInvariant, PTL

(***************************************************************************)
(* User code always runs in a live process's own, complete address space.     *)
(***************************************************************************)
THEOREM OwnSpace == Spec => []UserRunsInOwnSpace
<1>1. KernelInv => UserRunsInOwnSpace
  BY DEF KernelInv
<1> QED
  BY <1>1, KernelInvariant, PTL

(***************************************************************************)
(* No step of the kernel touches a process that stays alive, but for the state  *)
(* of its block and the saved registers of the current one.                   *)
(***************************************************************************)
LEMMA StepUndisturbed ==
    ASSUME KernelInv, [Next]_vars, NEW p \in UsedPids, process_list_used'[p]
    PROVE  /\ paging'.table[pcb[p].dir] = paging.table[pcb[p].dir]
           /\ pcb'[p].dir = pcb[p].dir /\ pcb'[p].mem = pcb[p].mem
           /\ p # current_running_pid => pcb'[p].ctx = pcb[p].ctx
<1> DEFINE Same ==
      /\ paging'.table[pcb[p].dir] = paging.table[pcb[p].dir]
      /\ pcb'[p].dir = pcb[p].dir /\ pcb'[p].mem = pcb[p].mem
      /\ p # current_running_pid => pcb'[p].ctx = pcb[p].ctx
<1> SUFFICES Same
  OBVIOUS
<1>1. p \in Pids /\ pcb[p].dir = p
  BY DEF KernelInv, SlotsPaired, UsedPids
<1>2. ASSUME NEW r \in Requests, Create(r) PROVE Same
  <2> DEFINE slot == process_list_get_inactive_index
  <2>1. CASE CreateRejected(r) \/ CreateOverrun(r)
    BY <2>1 DEF CreateRejected, CreateOverrun
  <2>2. CASE CreateReadFails(r) \/ CreatePageFaults(r) \/ CreateSucceeds(r)
    <3>1. slot \in Pids /\ CreateCheck(r) = PROCESS_CREATE_SUCCESS
      BY <2>2 DEF CreateReadFails, CreatePageFaults, CreateSucceeds
    <3>2. pcb[slot].state \in States /\ pcb[slot].ctx \in Contexts
          /\ "READY" \in States /\ "entry" \in Contexts
      BY <3>1 DEF KernelInv, TypeOK, PCB, States, Contexts
    <3>3. PICK st \in States, ctx \in Contexts : ClaimSlot(r, slot, st, ctx)
      BY <2>2, <3>2, Zenon DEF CreateReadFails, CreatePageFaults, CreateSucceeds
    <3>4. pcb'[p] = pcb[p] /\ paging'.table[p] = paging.table[p]
      BY <3>1, <3>3, ClaimOK
    <3> QED
      BY <1>1, <3>4
  <2> QED
    BY <1>2, <2>1, <2>2 DEF Create
<1>3. ASSUME NEW pid \in Pids, process_destroy(pid) PROVE Same
  <2>1. p # pid
    BY <1>3, DestroyOK
  <2>2. pcb'[p] = pcb[p] /\ paging'.table[p] = paging.table[p]
    BY <1>3, <2>1, DestroyOK
  <2> QED
    BY <1>1, <2>2
<1>4. ASSUME NEW list \in [Pids -> PCB],
             \A q \in Pids : /\ list[q].dir = pcb[q].dir /\ list[q].mem = pcb[q].mem
                             /\ q # current_running_pid => list[q] = pcb[q],
             scheduler_switch_to_next_process(list), UNCHANGED paging
      PROVE  Same
  <2>1. \/ pcb' = list
        \/ \E n : pcb' = [list EXCEPT ![n].state = "RUNNING"]
    BY <1>4 DEF scheduler_switch_to_next_process
  <2>2. /\ pcb'[p].dir = list[p].dir /\ pcb'[p].mem = list[p].mem
        /\ pcb'[p].ctx = list[p].ctx
    BY <1>1, <1>4, <2>1 DEF PCB
  <2> QED
    BY <1>1, <1>4, <2>2
<1>5. CASE StartScheduler
  <2>1. pcb \in [Pids -> PCB]
    BY DEF KernelInv, TypeOK
  <2> QED
    BY <1>4, <1>5, <2>1 DEF StartScheduler
<1>6. CASE Timer
  <2> DEFINE list == scheduler_save_context_to_current_running_pcb
  <2>1. /\ list \in [Pids -> PCB]
        /\ \A q \in Pids : /\ list[q].dir = pcb[q].dir /\ list[q].mem = pcb[q].mem
                           /\ q # current_running_pid => list[q] = pcb[q]
    BY SavedListOK DEF KernelInv
  <2>2. scheduler_switch_to_next_process(list) /\ UNCHANGED paging
    BY <1>6 DEF Timer
  <2> HIDE DEF list
  <2> QED
    BY <1>4, <2>1, <2>2
<1>7. CASE TlbEvict \/ UNCHANGED vars
  BY <1>7 DEF TlbEvict, vars
<1>8. ASSUME NEW pid \in KillPids, KillProcess(pid) PROVE Same
  <2>1. pid \in Pids
    BY KernelAssumption DEF Pids
  <2> QED
    BY <1>8, <2>1, <1>3 DEF KillProcess
<1>9. CASE TerminateProcess
  <2>1. current_running_pid \in Pids
    BY <1>9 DEF TerminateProcess, KernelInv, UserRunsInOwnSpace, UsedPids
  <2> QED
    BY <1>9, <2>1, <1>3 DEF TerminateProcess
<1> HIDE DEF Same
<1> QED
  BY <1>2, <1>5, <1>6, <1>7, <1>8, <1>9 DEF Next

(***************************************************************************)
(* No step changes the address space of a process that stays alive, nor the   *)
(* saved registers of one that is not the current process.                   *)
(***************************************************************************)
THEOREM Undisturbed == Spec => OthersUndisturbed
<1> DEFINE Same(p) ==
      /\ paging'.table[pcb[p].dir] = paging.table[pcb[p].dir]
      /\ pcb'[p].dir = pcb[p].dir /\ pcb'[p].mem = pcb[p].mem
      /\ p # current_running_pid => pcb'[p].ctx = pcb[p].ctx
<1>1. KernelInv /\ [Next]_vars =>
        [\A p \in UsedPids : process_list_used'[p] => Same(p)]_vars
  BY StepUndisturbed
<1> QED
  BY <1>1, KernelInvariant, PTL DEF Spec, OthersUndisturbed

-----------------------------------------------------------------------------
(***************************************************************************)
(* Processes and ps, whatever the other processes do meanwhile, whatever pid *)
(* they kill and whether their executables can be read.  KernelInv carries *)
(* over, for a step of PsNext is a step of the kernel.                     *)
(***************************************************************************)

(***************************************************************************)
(* The blocks of the used slots that no failed exec left behind: registers that  *)
(* can be resumed, and READY but for the current process.  An exec that faults in  *)
(* the kernel leaves a block half filled, and the machine does not go on.        *)
(***************************************************************************)
BlocksInv ==
    cpu # "kfault" =>
        /\ \A p \in UsedPids \ leftover : pcb[p].ctx \in {"entry", "saved"}
        /\ \A p \in UsedPids \ leftover : p # current_running_pid => pcb[p].state = "READY"
        /\ cpu = "user" => pcb[current_running_pid].state = "RUNNING"
        /\ cpu \in {"boot", "start"} => current_running_pid = NO_PROCESS_RUNNING

\* The counter and the kills in vain make up the used slots, or wrap once beyond them.
Counted(count, v, used) == count + v = used \/ count + v = used + U32
CountInv ==
    /\ vain \in 0 .. U32 - 1
    /\ cpu # "corrupt" => Counted(active_process_count, vain, Cardinality(UsedPids))
    /\ cpu = "corrupt" => vain \in 1 .. PROCESS_COUNT_MAX

(***************************************************************************)
(* ps half way: its process is alive, what it has listed is RUNNING where it is   *)
(* that process and else only where a failed exec left the slot, and the slots it   *)
(* has asked for are listed if they are still alive.                         *)
(***************************************************************************)
Marked(l) ==
    /\ l.pid = ps.pid => l.state = "RUNNING"
    /\ l.state = "RUNNING" => l.pid = ps.pid \/ l.pid \in ps.dubious
PsInv ==
    PsRuns =>
        /\ ps = [pid |-> ps.pid, next |-> ps.next, listed |-> ps.listed, alive |-> ps.alive, dubious |-> ps.dubious]
        /\ ps.pid \in UsedPids
        /\ ps.next \in 0 .. PROCESS_COUNT_MAX
        /\ ps.alive \subseteq UsedPids
        /\ leftover \subseteq ps.dubious
        /\ \A l \in ps.listed : Marked(l)
        /\ \A p \in ps.alive : p < ps.next =>
             \E l \in ps.listed : l.pid = p /\ l.page_frame_used_count = Cardinality(pcb[p].mem)

-----------------------------------------------------------------------------
\* exec, kill, terminate, the timer and the calls of ps are steps of the kernel or none.
LEMMA PsStepIsKernelStep == [PsNext]_psvars => [Next]_vars
<1> SUFFICES ASSUME [PsNext]_psvars PROVE [Next]_vars
  OBVIOUS
<1>1. CASE PsStart \/ PsInfo \/ PsEnd \/ UNCHANGED psvars
  BY <1>1 DEF PsStart, PsInfo, PsEnd, psvars
<1>2. CASE Calls
  BY <1>2 DEF Calls, exec, kill, terminate, Next
<1>3. CASE Interrupts
  BY <1>3 DEF Interrupts, Next
<1> QED
  BY <1>1, <1>2, <1>3 DEF PsNext

\* KernelInv under the specification with ps.
LEMMA PsKernelInv == PsSpec => []KernelInv
<1>1. PsInit => KernelInv
  BY InitInv DEF PsInit
<1>2. KernelInv /\ [PsNext]_psvars => KernelInv'
  BY StepInv, PsStepIsKernelStep
<1> QED
  BY <1>1, <1>2, PTL DEF PsSpec

-----------------------------------------------------------------------------
(***************************************************************************)
(* A creation leaves the blocks of the other slots alone; that of a program it    *)
(* has loaded is READY and at the entry point, and one whose read failed is        *)
(* recorded as left behind.                                                  *)
(***************************************************************************)
LEMMA CreateBlocks ==
    ASSUME KernelInv, BlocksInv, NEW r \in Requests, Create(r), Created(r)
    PROVE  BlocksInv'
<1> SUFFICES ASSUME cpu' # "kfault"
             PROVE  /\ \A p \in UsedPids' \ leftover' : pcb'[p].ctx \in {"entry", "saved"}
                    /\ \A p \in UsedPids' \ leftover' :
                         p # current_running_pid' => pcb'[p].state = "READY"
                    /\ cpu' = "user" => pcb'[current_running_pid'].state = "RUNNING"
                    /\ cpu' \in {"boot", "start"} => current_running_pid' = NO_PROCESS_RUNNING
  BY DEF BlocksInv
<1>1. cpu # "kfault"
  BY DEF Create, Caller, CreateRejected, CreateOverrun, CreateReadFails, CreatePageFaults,
     CreateSucceeds
<1>2. leftover \subseteq leftover'
  BY DEF Created
<1>3. CASE CreateRejected(r) \/ CreateOverrun(r)
  <2>1. /\ UNCHANGED <<process_list_used, pcb, current_running_pid>>
        /\ cpu' = "user" => cpu = "user"
        /\ cpu' \in {"boot", "start"} => cpu \in {"boot", "start"}
    BY <1>3 DEF CreateRejected, CreateOverrun, AfterCreate
  <2> QED
    BY <1>1, <1>2, <2>1 DEF BlocksInv, UsedPids
<1>4. CASE CreateSucceeds(r) \/ CreateReadFails(r)
  <2> DEFINE slot == process_list_get_inactive_index
  <2>1. /\ slot \in Pids /\ CreateCheck(r) = PROCESS_CREATE_SUCCESS
        /\ \/ ClaimSlot(r, slot, "READY", "entry")
           \/ ClaimSlot(r, slot, pcb[slot].state, pcb[slot].ctx) /\ r.outcome = "fail"
        /\ cpu' = "user" => cpu = "user"
        /\ cpu' \in {"boot", "start"} => cpu \in {"boot", "start"}
    BY <1>4 DEF CreateSucceeds, CreateReadFails, AfterCreate
  <2>2. pcb[slot].state \in States /\ pcb[slot].ctx \in Contexts
        /\ "READY" \in States /\ "entry" \in Contexts
    BY <2>1 DEF KernelInv, TypeOK, PCB, States, Contexts
  <2>3. PICK st \in States, ctx \in Contexts :
          /\ ClaimSlot(r, slot, st, ctx)
          /\ (st = "READY" /\ ctx = "entry") \/ r.outcome = "fail"
    BY <2>1, <2>2, Zenon
  <2>4. \A p \in UsedPids : p # slot /\ process_list_used'[p] /\ pcb'[p] = pcb[p]
    BY <2>1, <2>3, ClaimOK
  <2>5. /\ process_list_used' = [process_list_used EXCEPT ![slot] = TRUE]
        /\ pcb'[slot].state = st /\ pcb'[slot].ctx = ctx
        /\ current_running_pid' = current_running_pid
    BY <2>1, <2>3 DEF ClaimSlot, KernelInv, TypeOK
  <2> HIDE DEF slot
  <2>6. \A p \in UsedPids' : p = slot \/ p \in UsedPids
    BY <2>1, <2>5 DEF UsedPids, KernelInv, TypeOK
  <2>7. slot \in UsedPids' \ UsedPids
    BY <2>1, <2>4, <2>5 DEF UsedPids, KernelInv, TypeOK
  <2>8. slot \notin leftover' => st = "READY" /\ ctx = "entry"
    BY <2>3, <2>7 DEF Created
  <2>9. cpu = "user" => current_running_pid \in UsedPids
    BY DEF KernelInv, UserRunsInOwnSpace
  <2> QED
    BY <1>1, <1>2, <2>1, <2>4, <2>5, <2>6, <2>8, <2>9 DEF BlocksInv
<1>5. ~ CreatePageFaults(r)
  BY DEF CreatePageFaults
<1> QED
  BY <1>3, <1>4, <1>5 DEF Create

\* A destroyed slot is no longer used; the other blocks stay.
LEMMA DestroyBlocks ==
    ASSUME KernelInv, BlocksInv, NEW pid \in Pids, cpu = "user", process_destroy(pid), Destroyed(pid)
    PROVE  BlocksInv'
<1>1. /\ ~ process_list_used'[pid]
      /\ \A p \in UsedPids : p # pid => process_list_used'[p] /\ pcb'[p] = pcb[p]
  BY DestroyOK
<1>2. /\ process_list_used' = [process_list_used EXCEPT ![pid] = FALSE]
      /\ current_running_pid' = current_running_pid
      /\ cpu' = IF pid = current_running_pid THEN "faulting" ELSE cpu
      /\ leftover' = leftover \ {pid}
  BY DEF process_destroy, Destroyed
<1>3. \A p \in UsedPids' \ leftover' : p # pid /\ p \in UsedPids \ leftover
  BY <1>1, <1>2 DEF UsedPids, KernelInv, TypeOK
<1>4. current_running_pid \in UsedPids
  BY DEF KernelInv, UserRunsInOwnSpace
<1> QED
  BY <1>1, <1>2, <1>3, <1>4 DEF BlocksInv

(***************************************************************************)
(* A context switch from a list of blocks in which every used slot, those left     *)
(* behind apart, is READY and can be resumed leaves one RUNNING.               *)
(***************************************************************************)
LEMMA SwitchBlocks ==
    ASSUME KernelInv,
           NEW list \in [Pids -> PCB],
           scheduler_switch_to_next_process(list), UNCHANGED <<process_list_used, leftover>>,
           \A p \in UsedPids \ leftover : list[p].ctx \in {"entry", "saved"} /\ list[p].state = "READY"
    PROVE  BlocksInv'
<1> USE DEF BlocksInv
<1>1. UsedPids' = UsedPids /\ leftover' = leftover
  BY DEF UsedPids
<1>2. CASE UsedPids = {}
  BY <1>1, <1>2 DEF scheduler_switch_to_next_process
<1>3. CASE UsedPids # {}
  <2> DEFINE index == IF current_running_pid = NO_PROCESS_RUNNING THEN 0 ELSE current_running_pid
             next  == NextPid(index)
  <2>1. index \in Pids
    <3>1. 0 \in Pids
      BY KernelAssumption DEF Pids
    <3> QED
      BY <3>1 DEF KernelInv, TypeOK
  <2>2. next \in UsedPids
    BY <1>3, <2>1, NextPidUsed DEF KernelInv
  <2>3. /\ pcb' = [list EXCEPT ![next].state = "RUNNING"] /\ current_running_pid' = next
        /\ cpu' \notin {"boot", "start"}
    BY <1>3 DEF scheduler_switch_to_next_process, Resumed
  <2> HIDE DEF index, next
  <2>4. next \in Pids /\ UsedPids \subseteq Pids
    BY <2>2 DEF UsedPids
  <2>5. /\ pcb'[next].state = "RUNNING" /\ pcb'[next].ctx = list[next].ctx
        /\ \A p \in Pids : p # next => pcb'[p] = list[p]
    BY <2>3, <2>4 DEF PCB
  <2> QED
    BY <1>1, <2>2, <2>3, <2>4, <2>5
<1> QED
  BY <1>2, <1>3

\* A tick keeps the blocks of the used slots right.
LEMMA TimerBlocks ==
    ASSUME KernelInv, BlocksInv, Timer, UNCHANGED leftover
    PROVE  BlocksInv'
<1> DEFINE list == scheduler_save_context_to_current_running_pcb
           c    == current_running_pid
<1>1. list \in [Pids -> PCB] /\ \A p \in Pids : p # c => list[p] = pcb[p]
  BY SavedListOK DEF KernelInv
<1>2. scheduler_switch_to_next_process(list) /\ UNCHANGED <<process_list_used, leftover>>
  BY DEF Timer
<1>3. ASSUME NEW p \in UsedPids \ leftover
      PROVE  list[p].ctx \in {"entry", "saved"} /\ list[p].state = "READY"
  <2>1. /\ pcb[p].ctx \in {"entry", "saved"} /\ (p # c => pcb[p].state = "READY")
        /\ p \in Pids /\ process_list_used[p]
    BY DEF Timer, Interruptible, BlocksInv, UsedPids
  <2>2. CASE p # c
    BY <1>1, <2>1, <2>2
  <2>3. CASE p = c
    <3>1. c \in Pids /\ c # NO_PROCESS_RUNNING /\ pcb \in [Pids -> PCB]
      BY <2>1, <2>3, DirFacts DEF KernelInv, TypeOK, NO_PROCESS_RUNNING
    <3>2. list = [pcb EXCEPT ![c].state = "READY", ![c].ctx = "saved"]
      BY <2>1, <2>3, <3>1 DEF scheduler_save_context_to_current_running_pcb
    <3> QED
      BY <2>3, <3>1, <3>2 DEF PCB
  <2> QED
    BY <2>2, <2>3
<1> HIDE DEF list
<1> QED
  BY <1>1, <1>2, <1>3, SwitchBlocks

\* Every step keeps the blocks of the used slots right.
LEMMA StepBlocks == KernelInv /\ BlocksInv /\ [PsNext]_psvars => BlocksInv'
<1> SUFFICES ASSUME KernelInv, BlocksInv, [PsNext]_psvars PROVE BlocksInv'
  OBVIOUS
<1>1. CASE PsStart \/ PsInfo \/ PsEnd \/ UNCHANGED psvars
  BY <1>1 DEF PsStart, PsInfo, PsEnd, psvars, vars, BlocksInv, UsedPids
<1>2. CASE exec
  BY <1>2, CreateBlocks DEF exec
<1>3. CASE kill
  <2>1. PICK pid \in KillPids : KillProcess(pid) /\ Destroyed(pid)
    BY <1>3 DEF kill
  <2>2. pid \in Pids
    BY KernelAssumption DEF Pids
  <2> QED
    BY <2>1, <2>2, DestroyBlocks DEF KillProcess
<1>4. CASE terminate
  <2>1. current_running_pid \in Pids /\ cpu = "user"
    BY <1>4 DEF terminate, TerminateProcess, KernelInv, UserRunsInOwnSpace, UsedPids
  <2> QED
    BY <1>4, <2>1, DestroyBlocks DEF terminate, TerminateProcess
<1>5. CASE TlbEvict /\ UNCHANGED leftover
  BY <1>5 DEF TlbEvict, BlocksInv, UsedPids
<1>6. CASE Timer /\ UNCHANGED leftover
  BY <1>6, TimerBlocks
<1>7. CASE StartScheduler /\ UNCHANGED leftover
  <2>1. /\ pcb \in [Pids -> PCB] /\ cpu = "start"
        /\ scheduler_switch_to_next_process(pcb) /\ UNCHANGED <<process_list_used, leftover>>
    BY <1>7 DEF StartScheduler, KernelInv, TypeOK
  <2>2. \A p \in UsedPids : p # NO_PROCESS_RUNNING
    BY DirFacts DEF UsedPids, NO_PROCESS_RUNNING
  <2>3. \A p \in UsedPids \ leftover : pcb[p].ctx \in {"entry", "saved"} /\ pcb[p].state = "READY"
    BY <2>1, <2>2 DEF BlocksInv
  <2> QED
    BY <2>1, <2>3, SwitchBlocks
<1> QED
  BY <1>1, <1>2, <1>3, <1>4, <1>5, <1>6, <1>7 DEF PsNext, Calls, Interrupts

-----------------------------------------------------------------------------
\* The slots are finitely many, so their number can be counted.
LEMMA PidsFinite ==
    /\ IsFiniteSet(Pids) /\ Cardinality(Pids) = PROCESS_COUNT_MAX
    /\ IsFiniteSet(UsedPids) /\ Cardinality(UsedPids) \in 0 .. PROCESS_COUNT_MAX
    /\ Cardinality(UsedPids) = PROCESS_COUNT_MAX => UsedPids = Pids
<1>1. 0 \in Int /\ PROCESS_COUNT_MAX - 1 \in Int /\ ~ (0 > PROCESS_COUNT_MAX - 1)
  BY KernelAssumption
<1>2. IsFiniteSet(Pids) /\ Cardinality(Pids) = (PROCESS_COUNT_MAX - 1) - 0 + 1
  BY <1>1, FS_Interval DEF Pids
<1>3. Cardinality(Pids) = PROCESS_COUNT_MAX
  BY <1>2, KernelAssumption
<1>4. UsedPids \in SUBSET Pids
  BY DEF UsedPids
<1>5. /\ IsFiniteSet(UsedPids) /\ Cardinality(UsedPids) <= Cardinality(Pids)
      /\ Cardinality(Pids) = Cardinality(UsedPids) => Pids = UsedPids
  BY <1>2, <1>4, FS_Subset
<1>6. Cardinality(UsedPids) \in Nat
  BY <1>5, FS_CardinalityType
<1> QED
  BY <1>2, <1>3, <1>5, <1>6, KernelAssumption

\* The counter's arithmetic: one more and one less, with the wrap.
LEMMA Wraps ==
    ASSUME NEW n \in 0 .. U32 - 1
    PROVE  /\ n % U32 = n /\ (n - U32) % U32 = n
           /\ (n + 1) % U32 = IF n + 1 = U32 THEN 0 ELSE n + 1
           /\ (n - 1) % U32 = IF n = 0 THEN U32 - 1 ELSE n - 1
BY KernelAssumption

(***************************************************************************)
(* A claimed slot is counted once.  If the check lets a creation pass with no      *)
(* slot free, the kills in vain are what the count is short of.               *)
(***************************************************************************)
LEMMA CreateCount ==
    ASSUME KernelInv, CountInv, NEW r \in Requests, Create(r), Created(r)
    PROVE  CountInv'
<1> DEFINE slot == process_list_get_inactive_index
           n    == active_process_count
           u    == Cardinality(UsedPids)
<1>1. /\ n \in 0 .. U32 - 1 /\ vain \in 0 .. U32 - 1 /\ vain' = vain
      /\ u \in 0 .. PROCESS_COUNT_MAX
  BY PidsFinite DEF KernelInv, TypeOK, CountInv, Created
<1>2. cpu # "corrupt" /\ Counted(n, vain, u)
  BY DEF Create, Caller, CreateRejected, CreateOverrun, CreateReadFails, CreatePageFaults,
     CreateSucceeds, CountInv
<1>3. CASE CreateRejected(r)
  BY <1>1, <1>2, <1>3 DEF CreateRejected, CountInv, UsedPids, AfterCreate
<1>4. CASE CreateOverrun(r)
  <2>1. n < PROCESS_COUNT_MAX
    BY <1>1, <1>4, KernelAssumption
       DEF CreateOverrun, CreateCheck, PROCESS_CREATE_SUCCESS, PROCESS_CREATE_FAIL_MAX_PROCESS_EXCEEDED
  <2>2. FreePids = {}
    <3>1. SUFFICES ASSUME FreePids # {} PROVE FALSE
      OBVIOUS
    <3>2. FreePids \in SUBSET Nat
      BY DirFacts DEF FreePids
    <3>3. Min(FreePids) \in Nat
      BY <3>1, <3>2, MinElement
    <3> QED
      BY <1>4, <3>1, <3>3 DEF CreateOverrun, process_list_get_inactive_index
  <2>3. UsedPids = Pids
    BY <2>2 DEF FreePids, UsedPids
  <2>4. u = PROCESS_COUNT_MAX
    BY <2>3, PidsFinite
  <2> HIDE DEF n, u
  <2>5. vain \in 1 .. PROCESS_COUNT_MAX
    BY <1>1, <1>2, <2>1, <2>4, KernelAssumption DEF Counted
  <2>6. cpu' = "corrupt"
    BY <1>4 DEF CreateOverrun
  <2> QED
    BY <1>1, <2>5, <2>6 DEF CountInv
<1>5. CASE CreateReadFails(r) \/ CreatePageFaults(r) \/ CreateSucceeds(r)
  <2>1. /\ slot \in Pids /\ CreateCheck(r) = PROCESS_CREATE_SUCCESS
        /\ cpu' # "corrupt"
    BY <1>2, <1>5 DEF CreateReadFails, CreatePageFaults, CreateSucceeds, AfterCreate
  <2>2. pcb[slot].state \in States /\ pcb[slot].ctx \in Contexts
        /\ "READY" \in States /\ "entry" \in Contexts
    BY <2>1 DEF KernelInv, TypeOK, PCB, States, Contexts
  <2>3. PICK st \in States, ctx \in Contexts : ClaimSlot(r, slot, st, ctx)
    BY <1>5, <2>2, Zenon DEF CreateReadFails, CreatePageFaults, CreateSucceeds
  <2>4. slot \notin UsedPids
    BY <2>1, <2>3, ClaimOK
  <2>5. /\ active_process_count' = (active_process_count + 1) % U32
        /\ process_list_used' = [process_list_used EXCEPT ![slot] = TRUE]
    BY <2>3 DEF ClaimSlot
  <2> HIDE DEF slot
  <2>6. UsedPids' = UsedPids \cup {slot}
    BY <2>1, <2>5 DEF UsedPids, KernelInv, TypeOK
  <2>7. Cardinality(UsedPids') = u + 1
    BY <2>4, <2>6, PidsFinite, FS_AddElement
  <2>8. u # PROCESS_COUNT_MAX
    BY <2>1, <2>4, PidsFinite
  <2>9. active_process_count' = IF n + 1 = U32 THEN 0 ELSE n + 1
    BY <1>1, <2>5, Wraps
  <2> HIDE DEF n, u
  <2>10. Counted(active_process_count', vain, u + 1)
    BY <1>1, <1>2, <2>8, <2>9, KernelAssumption DEF Counted
  <2> QED
    BY <1>1, <2>1, <2>7, <2>10 DEF CountInv
<1> QED
  BY <1>3, <1>4, <1>5 DEF Create

\* A destroyed process is counted off once, and so is one that was not there.
LEMMA DestroyCount ==
    ASSUME KernelInv, CountInv, NEW pid \in Pids, cpu = "user", process_destroy(pid), Destroyed(pid)
    PROVE  CountInv'
<1> DEFINE n == active_process_count
           u == Cardinality(UsedPids)
<1>1. /\ n \in 0 .. U32 - 1 /\ vain \in 0 .. U32 - 1 /\ u \in 0 .. PROCESS_COUNT_MAX
      /\ Counted(n, vain, u)
  BY PidsFinite DEF KernelInv, TypeOK, CountInv
<1>2. /\ process_list_used' = [process_list_used EXCEPT ![pid] = FALSE]
      /\ active_process_count' = (active_process_count - 1) % U32
      /\ cpu' # "corrupt"
  BY DEF process_destroy
<1>3. UsedPids' = UsedPids \ {pid}
  BY <1>2 DEF UsedPids, KernelInv, TypeOK
<1>4. active_process_count' = IF n = 0 THEN U32 - 1 ELSE n - 1
  BY <1>1, <1>2, Wraps
<1>5. CASE pid \in UsedPids
  <2>1. Cardinality(UsedPids') = u - 1 /\ u - 1 \in Nat
    <3>1. IsFiniteSet(UsedPids)
      BY PidsFinite
    <3>2. Cardinality(UsedPids \ {pid}) = u - 1
      BY <1>5, <3>1, FS_RemoveElement
    <3>3. Cardinality(UsedPids \ {pid}) \in Nat
      BY <3>1, FS_Subset, FS_CardinalityType, UsedPids \ {pid} \subseteq UsedPids
    <3> HIDE DEF u
    <3> QED
      BY <1>3, <3>2, <3>3
  <2>2. vain' = vain
    BY <1>5 DEF Destroyed, UsedPids
  <2> HIDE DEF n, u
  <2>3. Counted(active_process_count', vain, u - 1)
    BY <1>1, <1>4, <2>1, KernelAssumption DEF Counted
  <2> QED
    BY <1>1, <1>2, <2>1, <2>2, <2>3 DEF CountInv
<1>6. CASE pid \notin UsedPids
  <2>1. UsedPids' = UsedPids
    BY <1>3, <1>6
  <2>2. vain' = (vain + 1) % U32
    BY <1>6 DEF Destroyed, UsedPids
  <2>3. vain' = IF vain + 1 = U32 THEN 0 ELSE vain + 1
    BY <1>1, <2>2, Wraps
  <2> HIDE DEF n, u
  <2>4. vain' \in 0 .. U32 - 1 /\ Counted(active_process_count', vain', u)
    BY <1>1, <1>4, <2>3, KernelAssumption DEF Counted
  <2>5. Cardinality(UsedPids') = u
    BY <2>1 DEF u
  <2> QED
    BY <1>2, <2>4, <2>5 DEF CountInv
<1> QED
  BY <1>5, <1>6

\* Every step keeps the account.
LEMMA StepCount == KernelInv /\ CountInv /\ [PsNext]_psvars => CountInv'
<1> SUFFICES ASSUME KernelInv, CountInv, [PsNext]_psvars PROVE CountInv'
  OBVIOUS
<1>1. CASE PsStart \/ PsInfo \/ PsEnd \/ UNCHANGED psvars
  BY <1>1 DEF PsStart, PsInfo, PsEnd, psvars, vars, CountInv, UsedPids
<1>2. CASE exec
  BY <1>2, CreateCount DEF exec
<1>3. CASE kill
  <2>1. PICK pid \in KillPids : KillProcess(pid) /\ Destroyed(pid)
    BY <1>3 DEF kill
  <2>2. pid \in Pids
    BY KernelAssumption DEF Pids
  <2> QED
    BY <2>1, <2>2, DestroyCount DEF KillProcess
<1>4. CASE terminate
  <2>1. current_running_pid \in Pids /\ cpu = "user"
    BY <1>4 DEF terminate, TerminateProcess, KernelInv, UserRunsInOwnSpace, UsedPids
  <2> QED
    BY <1>4, <2>1, DestroyCount DEF terminate, TerminateProcess
<1>5. CASE Interrupts
  <2>1. /\ UNCHANGED <<process_list_used, active_process_count, vain>>
        /\ cpu # "corrupt" /\ cpu' # "corrupt"
    BY <1>5 DEF Interrupts, StartScheduler, Timer, TlbEvict, Interruptible,
       scheduler_switch_to_next_process, Resumed
  <2> QED
    BY <2>1 DEF CountInv, UsedPids
<1> QED
  BY <1>1, <1>2, <1>3, <1>4, <1>5 DEF PsNext, Calls

-----------------------------------------------------------------------------
(***************************************************************************)
(* A step of the kernel keeps what ps holds right: a process that stays alive    *)
(* keeps its pages, and a slot that dies is dropped from "alive".             *)
(***************************************************************************)
LEMMA FollowPs ==
    ASSUME KernelInv, PsInv,
           \A p \in UsedPids : process_list_used'[p] => pcb'[p].mem = pcb[p].mem,
           PsFollows
    PROVE  PsInv'
<1> SUFFICES ASSUME ps' # NoPs PROVE PsInv'
  BY DEF PsInv, PsRuns
<1>1. /\ PsRuns /\ process_list_used'[ps.pid]
      /\ ps' = [ps EXCEPT !.alive = {p \in @ : process_list_used'[p]}, !.dubious = @ \cup leftover']
  BY DEF PsFollows
<1>2. /\ ps = [pid |-> ps.pid, next |-> ps.next, listed |-> ps.listed, alive |-> ps.alive, dubious |-> ps.dubious]
      /\ ps.pid \in UsedPids
      /\ ps.next \in 0 .. PROCESS_COUNT_MAX
      /\ ps.alive \subseteq UsedPids
      /\ leftover \subseteq ps.dubious
      /\ \A l \in ps.listed : Marked(l)
      /\ \A p \in ps.alive : p < ps.next =>
           \E l \in ps.listed : l.pid = p /\ l.page_frame_used_count = Cardinality(pcb[p].mem)
  BY <1>1 DEF PsInv
<1>3. ps' = [pid |-> ps.pid, next |-> ps.next, listed |-> ps.listed,
             alive |-> {p \in ps.alive : process_list_used'[p]}, dubious |-> ps.dubious \cup leftover']
  BY <1>1, <1>2
<1>4. \A p \in UsedPids : process_list_used'[p] => p \in UsedPids'
  BY DEF UsedPids
<1>5. ps'.pid \in UsedPids' /\ ps'.alive \subseteq UsedPids'
  BY <1>1, <1>2, <1>3, <1>4
<1>6. \A p \in ps'.alive : p < ps'.next =>
        \E l \in ps'.listed : l.pid = p /\ l.page_frame_used_count = Cardinality(pcb'[p].mem)
  BY <1>2, <1>3
<1>7. /\ ps' = [pid |-> ps'.pid, next |-> ps'.next, listed |-> ps'.listed, alive |-> ps'.alive,
                 dubious |-> ps'.dubious]
      /\ leftover' \subseteq ps'.dubious
  BY <1>3
<1>8. \A l \in ps'.listed : Marked(l)'
  BY <1>2, <1>3 DEF Marked
<1> QED
  BY <1>2, <1>3, <1>5, <1>6, <1>7, <1>8 DEF PsInv

\* The calls of ps itself: while its process runs, only that one is RUNNING.
LEMMA AskPs ==
    ASSUME KernelInv, BlocksInv, PsInv, PsStart \/ PsInfo \/ PsEnd
    PROVE  PsInv'
<1>1. /\ UsedPids' = UsedPids /\ pcb' = pcb /\ leftover' = leftover
      /\ cpu = "user" /\ current_running_pid \in UsedPids
  BY DEF PsStart, PsInfo, PsEnd, vars, UsedPids, KernelInv, UserRunsInOwnSpace
<1>2. UsedPids \subseteq Pids /\ Pids \subseteq Nat
  BY DirFacts DEF UsedPids
<1>3. CASE PsStart
  <2>1. ps' = [pid |-> current_running_pid, next |-> 0, listed |-> {}, alive |-> UsedPids,
               dubious |-> leftover]
    BY <1>3 DEF PsStart
  <2>2. \A p \in UsedPids : ~ (p < 0)
    BY <1>2
  <2>3. 0 \in 0 .. PROCESS_COUNT_MAX
    BY KernelAssumption
  <2> QED
    BY <1>1, <2>1, <2>2, <2>3 DEF PsInv
<1>4. CASE PsEnd
  BY <1>4 DEF PsEnd, PsInv, PsRuns
<1>5. CASE PsInfo
  <2> DEFINE n    == ps.next
             info == get_process_info(n)
  <2>1. /\ PsRuns /\ current_running_pid = ps.pid /\ n < PROCESS_COUNT_MAX
        /\ ps' = [ps EXCEPT !.listed = @ \cup info, !.next = @ + 1]
    BY <1>5 DEF PsInfo
  <2>2. /\ ps = [pid |-> ps.pid, next |-> ps.next, listed |-> ps.listed, alive |-> ps.alive, dubious |-> ps.dubious]
        /\ ps.pid \in UsedPids
        /\ n \in 0 .. PROCESS_COUNT_MAX
        /\ ps.alive \subseteq UsedPids
        /\ leftover \subseteq ps.dubious
        /\ \A l \in ps.listed : Marked(l)
        /\ \A p \in ps.alive : p < n =>
             \E l \in ps.listed : l.pid = p /\ l.page_frame_used_count = Cardinality(pcb[p].mem)
    BY <2>1 DEF PsInv
  <2>3. n \in Pids /\ n + 1 \in 0 .. PROCESS_COUNT_MAX
    BY <2>1, <2>2, KernelAssumption DEF Pids
  <2>4. ps' = [pid |-> ps.pid, next |-> n + 1, listed |-> ps.listed \cup info, alive |-> ps.alive,
               dubious |-> ps.dubious]
    BY <2>1, <2>2
  <2>5. \A l \in info : /\ l.pid = n /\ l.state = pcb[n].state /\ process_list_used[n]
                         /\ l.page_frame_used_count = Cardinality(pcb[n].mem)
    BY DEF get_process_info
  <2>6. \A l \in info : Marked(l)
    BY <1>1, <2>1, <2>2, <2>3, <2>5 DEF BlocksInv, UsedPids, Marked
  <2>7. n \in UsedPids =>
          \E l \in info : l.pid = n /\ l.page_frame_used_count = Cardinality(pcb[n].mem)
    BY DEF get_process_info, UsedPids
  <2> HIDE DEF info, n
  <2>8. ASSUME NEW p \in ps.alive, p < n + 1
        PROVE  \E l \in ps.listed \cup info :
                 l.pid = p /\ l.page_frame_used_count = Cardinality(pcb[p].mem)
    <3>1. p \in UsedPids /\ p \in Nat /\ n \in Nat
      BY <1>2, <2>2, <2>3
    <3>2. p < n \/ p = n
      BY <2>8, <3>1
    <3> QED
      BY <2>2, <2>7, <3>1, <3>2
  <2>9. \A l \in ps'.listed : Marked(l)'
    BY <2>2, <2>4, <2>6 DEF Marked
  <2> QED
    BY <1>1, <2>2, <2>3, <2>4, <2>8, <2>9 DEF PsInv
<1> QED
  BY <1>3, <1>4, <1>5

\* Every step keeps what ps holds right.
LEMMA StepPs == KernelInv /\ BlocksInv /\ PsInv /\ [PsNext]_psvars => PsInv'
<1> SUFFICES ASSUME KernelInv, BlocksInv, PsInv, [PsNext]_psvars PROVE PsInv'
  OBVIOUS
<1>1. \A p \in UsedPids : process_list_used'[p] => pcb'[p].mem = pcb[p].mem
  BY PsStepIsKernelStep, StepUndisturbed
<1>2. CASE PsStart \/ PsInfo \/ PsEnd
  BY <1>2, AskPs
<1>3. CASE Calls
  BY <1>1, <1>3, FollowPs DEF Calls
<1>4. CASE Interrupts \/ UNCHANGED psvars
  <2>1. UNCHANGED <<ps, process_list_used, leftover>>
    BY <1>4 DEF Interrupts, StartScheduler, Timer, TlbEvict, psvars, vars
  <2>2. UsedPids' = UsedPids /\ \A p \in UsedPids : pcb'[p].mem = pcb[p].mem
    BY <1>1, <2>1 DEF UsedPids
  <2>3. PsRuns' = PsRuns
    BY <2>1 DEF PsRuns
  <2>4. PsRuns => \A p \in ps.alive : pcb'[p].mem = pcb[p].mem
    BY <2>2 DEF PsInv
  <2>5. \A l : Marked(l)' = Marked(l)
    BY <2>1 DEF Marked
  <2> QED
    BY <2>1, <2>2, <2>3, <2>4, <2>5 DEF PsInv
<1> QED
  BY <1>2, <1>3, <1>4 DEF PsNext

-----------------------------------------------------------------------------
(***************************************************************************)
(* The three invariants hold together in every reachable state.              *)
(***************************************************************************)
THEOREM ProcessInvariant == PsSpec => [](BlocksInv /\ CountInv /\ PsInv)
<1>1. PsInit => BlocksInv /\ CountInv /\ PsInv
  <2> SUFFICES ASSUME PsInit PROVE BlocksInv /\ CountInv /\ PsInv
    OBVIOUS
  <2>1. UsedPids = {} /\ Init /\ ps = NoPs /\ vain = 0
    BY DEF PsInit, Init, UsedPids
  <2>2. Cardinality(UsedPids) = 0
    BY <2>1, FS_EmptySet
  <2>3. vain \in 0 .. U32 - 1 /\ Counted(0, 0, 0)
    BY <2>1, KernelAssumption DEF Counted
  <2> QED
    BY <2>1, <2>2, <2>3 DEF Init, BlocksInv, CountInv, PsInv, PsRuns
<1>2. KernelInv /\ (BlocksInv /\ CountInv /\ PsInv) /\ [PsNext]_psvars
        => (BlocksInv /\ CountInv /\ PsInv)'
  BY StepBlocks, StepCount, StepPs
<1> QED
  BY <1>1, <1>2, PsKernelInv, PTL DEF PsSpec

(***************************************************************************)
(* While user code runs, every used slot that no failed exec left behind holds a    *)
(* loaded program: the timer never resumes one with stale registers.           *)
(***************************************************************************)
THEOREM Loaded == PsSpec => []UsedSlotsLoaded
<1>1. BlocksInv /\ CountInv /\ PsInv => UsedSlotsLoaded
  BY DEF BlocksInv, UsedSlotsLoaded
<1> QED
  BY <1>1, ProcessInvariant, PTL

(***************************************************************************)
(* While user code runs, the current process is RUNNING, and the other used slots   *)
(* that no failed exec left behind are READY.                                *)
(***************************************************************************)
THEOREM SingleRunning == PsSpec => []OneRunning
<1>1. BlocksInv /\ CountInv /\ PsInv => OneRunning
  BY DEF BlocksInv, OneRunning
<1> QED
  BY <1>1, ProcessInvariant, PTL

(***************************************************************************)
(* Whatever pids are killed and whatever creations fail, active_process_count is      *)
(* the number of used slots less the number of kills that named a pid not in use,   *)
(* modulo 2^32.                                                            *)
(***************************************************************************)
THEOREM CountExact == PsSpec => []CountFollowsKills
<1>1. ASSUME KernelInv, CountInv PROVE CountFollowsKills
  <2> SUFFICES ASSUME cpu # "corrupt"
               PROVE  active_process_count = (Cardinality(UsedPids) - vain) % U32
    BY DEF CountFollowsKills
  <2> DEFINE n == active_process_count
             u == Cardinality(UsedPids)
  <2>1. /\ n \in 0 .. U32 - 1 /\ vain \in 0 .. U32 - 1 /\ u \in 0 .. PROCESS_COUNT_MAX
        /\ Counted(n, vain, u)
    BY <1>1, PidsFinite DEF KernelInv, TypeOK, CountInv
  <2>2. n % U32 = n /\ (n - U32) % U32 = n
    BY <2>1, Wraps
  <2> HIDE DEF n, u
  <2>3. u - vain = n \/ u - vain = n - U32
    BY <2>1, KernelAssumption DEF Counted
  <2>4. n = (u - vain) % U32
    BY <2>2, <2>3
  <2> QED
    BY <2>4 DEF n, u
<1>2. KernelInv /\ (BlocksInv /\ CountInv /\ PsInv) => CountFollowsKills
  BY <1>1
<1> QED
  BY <1>2, PsKernelInv, ProcessInvariant, PTL

(***************************************************************************)
(* process_list_get_inactive_index hands process_create the index -1 only after    *)
(* kills of pids not in use, and not when their number, counted in U32, is more     *)
(* than there are slots.                                                    *)
(***************************************************************************)
THEOREM OverrunCause == PsSpec => []OverrunNeedsKill
<1>1. BlocksInv /\ CountInv /\ PsInv => OverrunNeedsKill
  BY DEF CountInv, OverrunNeedsKill
<1> QED
  BY <1>1, ProcessInvariant, PTL

(***************************************************************************)
(* The list ps prints is right although its lines were read at different times.     *)
(***************************************************************************)
THEOREM Truthful == PsSpec => []PsTruthful
<1>1. ASSUME PsInv PROVE PsTruthful
  <2> SUFFICES ASSUME PsRuns, ps.next = PROCESS_COUNT_MAX
               PROVE  /\ \A l \in ps.listed : Marked(l)
                      /\ \A p \in ps.alive : \E l \in ps.listed :
                           l.pid = p /\ l.page_frame_used_count = Cardinality(pcb[p].mem)
    BY DEF PsTruthful, Marked
  <2>1. /\ \A l \in ps.listed : Marked(l)
        /\ ps.alive \subseteq UsedPids
        /\ \A p \in ps.alive : p < ps.next =>
             \E l \in ps.listed : l.pid = p /\ l.page_frame_used_count = Cardinality(pcb[p].mem)
    BY <1>1 DEF PsInv
  <2>2. \A p \in UsedPids : p < PROCESS_COUNT_MAX
    BY KernelAssumption DEF UsedPids, Pids
  <2> QED
    BY <2>1, <2>2
<1>2. BlocksInv /\ CountInv /\ PsInv => PsTruthful
  BY <1>1
<1> QED
  BY <1>2, ProcessInvariant, PTL
=============================================================================
