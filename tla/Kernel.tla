------------------------------- MODULE Kernel -------------------------------
(***************************************************************************)
(* Processes, the scheduler and the system calls that change them           *)
(* (process.c, scheduler.c, the timer and process cases of interrupt.c, the  *)
(* end of kernel_setup).                                                    *)
(*                                                                         *)
(* The machine has one CPU.  Interrupt gates clear IF, so a system call or a *)
(* timer interrupt runs to its end, and each is one action.  What            *)
(* interleaves is the order of system calls of the running process and of    *)
(* timer interrupts.                                                        *)
(***************************************************************************)
EXTENDS Paging

CONSTANTS
    PROCESS_COUNT_MAX,      \* 16 in process.h
    BufferSizes,            \* values of request.buffer_size, below 2^31
    ReadOutcomes,           \* what read(request) may return: "ok", "fail"
    KillPids,               \* pids below PROCESS_COUNT_MAX named by kill
    U32                     \* modulus of active_process_count, 2^32 in the code

PROCESS_PAGE_FRAME_COUNT_MAX == 8
NO_PROCESS_RUNNING == -1    \* 0xFFFFFFFF

PROCESS_CREATE_SUCCESS                   == 0
PROCESS_CREATE_FAIL_MAX_PROCESS_EXCEEDED == 1
PROCESS_CREATE_FAIL_INVALID_ENTRYPOINT   == 2
PROCESS_CREATE_FAIL_NOT_ENOUGH_MEMORY    == 3
PROCESS_CREATE_FAIL_FS_READ_FAILURE      == 4

ASSUME KernelAssumption ==
    /\ PROCESS_COUNT_MAX \in Nat \ {0}
    /\ PROCESS_COUNT_MAX <= PAGING_DIRECTORY_TABLE_MAX_COUNT
    /\ BufferSizes \subseteq Nat
    /\ ReadOutcomes \subseteq {"ok", "fail"}
    /\ KillPids \subseteq 0 .. PROCESS_COUNT_MAX - 1
    /\ U32 \in Nat /\ U32 > PROCESS_COUNT_MAX

Pids == 0 .. PROCESS_COUNT_MAX - 1
Requests == [page : LoadPages, buffer_size : BufferSizes, outcome : ReadOutcomes]

VARIABLES
    paging,                 \* page_manager_state, page_directory_list and its manager
    process_list_used,      \* process_manager_state.process_list_used
    active_process_count,   \* process_manager_state.active_process_count
    current_running_pid,    \* process_manager_state.current_running_pid
    pcb,                    \* _process_list
    cr3,                    \* directory the CPU translates with
    cpu,                    \* what the CPU is doing
    retcode                 \* last result of process_create_user_process

vars == <<paging, process_list_used, active_process_count, current_running_pid,
          pcb, cr3, cpu, retcode>>

(***************************************************************************)
(* A process control block.  "mem" is the set of pages recorded in           *)
(* memory.virtual_addr_used.  "ctx" tells apart the saved registers: all     *)
(* zero (memset), the entry point of a loaded program, those of the preempted *)
(* process itself, or those of a process that was destroyed before the timer *)
(* saved them into its slot.                                                *)
(***************************************************************************)
States   == {"RUNNING", "READY"}
Contexts == {"zero", "entry", "saved", "stale"}
PCB      == [dir : Directories \cup {NULL_DIR}, mem : SUBSET Pages,
             state : States, ctx : Contexts]
\* memset 0: PROCESS_STATE_RUNNING is the enumerator 0
ZeroPCB  == [dir |-> NULL_DIR, mem |-> {}, state |-> "RUNNING", ctx |-> "zero"]

(***************************************************************************)
(* boot      kernel_setup before the shell is created                       *)
(* start     kernel_setup before the first context switch                   *)
(* user      the current process executes its own code                      *)
(* faulting  the current process faults on an unmapped page, is returned to  *)
(*           the same instruction by the handler, and faults again           *)
(* wedged    a process runs with IF = 0: no timer interrupt is taken        *)
(* spin      the scheduler's loop finds no used slot, with IF = 0           *)
(* kfault    read() faults in the kernel on the unmapped load page, for ever *)
(* corrupt   slot -1 was written                                            *)
(* reset     the cleared directory was walked: triple fault                 *)
(***************************************************************************)
Interruptible == {"user", "faulting"}
Halted        == {"wedged", "spin", "kfault", "corrupt", "reset"}
CpuModes      == {"boot", "start"} \cup Interruptible \cup Halted

Init ==
    /\ paging = paging_allocate_user_page_frame(PagingInit, KERNEL_DIR, CodePage)
    /\ process_list_used = [p \in Pids |-> FALSE]
    /\ active_process_count = 0
    /\ current_running_pid = NO_PROCESS_RUNNING
    /\ pcb = [p \in Pids |-> ZeroPCB]
    /\ cr3 = KERNEL_DIR
    /\ cpu = "boot"
    /\ retcode = PROCESS_CREATE_SUCCESS

-----------------------------------------------------------------------------
UsedPids == {p \in Pids : process_list_used[p]}
FreePids == Pids \ UsedPids

process_list_get_inactive_index == IF FreePids = {} THEN -1 ELSE Min(FreePids)

page_frame_count_needed(size) == ceil_div(size + PAGE_FRAME_SIZE, PAGE_FRAME_SIZE)

\* Mutant: one process too many passes the first check.
CreateCheckLate(r) ==
    IF active_process_count > PROCESS_COUNT_MAX
    THEN PROCESS_CREATE_FAIL_MAX_PROCESS_EXCEEDED
    ELSE IF r.page >= KernelPage
    THEN PROCESS_CREATE_FAIL_INVALID_ENTRYPOINT
    ELSE PROCESS_CREATE_SUCCESS

(***************************************************************************)
(* The checks before anything is changed.  paging_allocate_check is handed a *)
(* number of pages where it expects a number of bytes.                      *)
(***************************************************************************)
CreateCheck(r) ==
    IF active_process_count >= PROCESS_COUNT_MAX
    THEN PROCESS_CREATE_FAIL_MAX_PROCESS_EXCEEDED
    ELSE IF r.page >= KernelPage
    THEN PROCESS_CREATE_FAIL_INVALID_ENTRYPOINT
    ELSE IF \/ ~ paging_allocate_check(paging, page_frame_count_needed(r.buffer_size))
            \/ page_frame_count_needed(r.buffer_size) > PROCESS_PAGE_FRAME_COUNT_MAX
    THEN PROCESS_CREATE_FAIL_NOT_ENOUGH_MEMORY
    ELSE PROCESS_CREATE_SUCCESS

(***************************************************************************)
(* Who may call process_create_user_process: kernel_setup, once, for the     *)
(* shell; then the running process.                                         *)
(***************************************************************************)
ShellRequest == [page |-> CodePage, buffer_size |-> 1048576]
Caller(r) ==
    \/ /\ cpu = "boot"
       /\ r.page = ShellRequest.page /\ r.buffer_size = ShellRequest.buffer_size
    \/ cpu = "user"
AfterCreate == IF cpu = "boot" THEN "start" ELSE cpu

\* The new directory with the load page and the stack page allocated in it.
BuildAddressSpace(r) ==
    LET d   == NewDirectory(paging)
        pm1 == paging_create_new_page_directory(paging)
        pm2 == paging_allocate_user_page_frame(pm1, d, r.page)
    IN  paging_allocate_user_page_frame(pm2, d, StackPage)

\* Mutant: the stack page is allocated but not recorded in the block.
ClaimSlotUnrecorded(r, slot, state, ctx) ==
    /\ active_process_count' = (active_process_count + 1) % U32
    /\ process_list_used' = [process_list_used EXCEPT ![slot] = TRUE]
    /\ paging' = BuildAddressSpace(r)
    /\ pcb' = [pcb EXCEPT ![slot] = [dir |-> NewDirectory(paging), mem |-> {r.page},
                                     state |-> state, ctx |-> ctx]]
    /\ UNCHANGED current_running_pid

\* Everything process_create_user_process does up to read(request).
ClaimSlot(r, slot, state, ctx) ==
    /\ active_process_count' = (active_process_count + 1) % U32
    /\ process_list_used' = [process_list_used EXCEPT ![slot] = TRUE]
    /\ paging' = BuildAddressSpace(r)
    /\ pcb' = [pcb EXCEPT ![slot] = [dir |-> NewDirectory(paging),
                                     mem |-> {r.page, StackPage},
                                     state |-> state, ctx |-> ctx]]
    /\ UNCHANGED current_running_pid

CreateRejected(r) ==
    /\ Caller(r)
    /\ CreateCheck(r) # PROCESS_CREATE_SUCCESS
    /\ retcode' = CreateCheck(r)
    /\ cpu' = AfterCreate
    /\ UNCHANGED <<paging, process_list_used, active_process_count,
                   current_running_pid, pcb, cr3>>

(***************************************************************************)
(* The checks pass with no free slot: index -1 is used.  Memory outside the  *)
(* arrays is overwritten; the model stops there.                            *)
(***************************************************************************)
CreateOverrun(r) ==
    /\ Caller(r)
    /\ CreateCheck(r) = PROCESS_CREATE_SUCCESS
    /\ process_list_get_inactive_index = -1
    /\ active_process_count' = (active_process_count + 1) % U32
    /\ cpu' = "corrupt"
    /\ UNCHANGED <<paging, process_list_used, current_running_pid, pcb, cr3, retcode>>

(***************************************************************************)
(* read(request) fails: the caller's directory is restored and the error     *)
(* returned.  Slot, directory and frames stay taken, and the block keeps the *)
(* state and registers its slot held before.                                *)
(***************************************************************************)
CreateReadFails(r) ==
    LET slot == process_list_get_inactive_index IN
    /\ Caller(r)
    /\ CreateCheck(r) = PROCESS_CREATE_SUCCESS
    /\ slot \in Pids
    /\ r.outcome = "fail"
    /\ ClaimSlot(r, slot, pcb[slot].state, pcb[slot].ctx)
    /\ retcode' = PROCESS_CREATE_FAIL_FS_READ_FAILURE
    /\ cpu' = AfterCreate
    /\ UNCHANGED cr3

\* read(request) stores the file at a page no frame could be found for.
CreatePageFaults(r) ==
    LET slot == process_list_get_inactive_index
        d    == NewDirectory(paging)
    IN
    /\ Caller(r)
    /\ CreateCheck(r) = PROCESS_CREATE_SUCCESS
    /\ slot \in Pids
    /\ r.outcome = "ok"
    /\ ~ UserMapped(BuildAddressSpace(r), d, r.page)
    /\ ClaimSlot(r, slot, pcb[slot].state, pcb[slot].ctx)
    /\ cr3' = d
    /\ cpu' = "kfault"
    /\ UNCHANGED retcode

CreateSucceeds(r) ==
    LET slot == process_list_get_inactive_index IN
    /\ Caller(r)
    /\ CreateCheck(r) = PROCESS_CREATE_SUCCESS
    /\ slot \in Pids
    /\ r.outcome = "ok"
    /\ UserMapped(BuildAddressSpace(r), NewDirectory(paging), r.page)
    /\ ClaimSlot(r, slot, "READY", "entry")
    /\ retcode' = PROCESS_CREATE_SUCCESS
    /\ cpu' = AfterCreate
    /\ UNCHANGED cr3

-----------------------------------------------------------------------------
\* Mutant: the block is cleared but its slot stays marked.
DestroyKeepsSlot(pid) ==
    /\ paging' = ReleaseAddressSpace(paging, pcb[pid].dir, pcb[pid].mem, "none")
    /\ pcb' = [pcb EXCEPT ![pid] = ZeroPCB]
    /\ active_process_count' = (active_process_count - 1) % U32
    /\ cpu' = IF pid = current_running_pid THEN "faulting" ELSE cpu
    /\ UNCHANGED <<process_list_used, current_running_pid, cr3, retcode>>

\* Mutant: the process is no longer there but still counted.
DestroyKeepsCount(pid) ==
    /\ \E garbage \in Flags :
         paging' = ReleaseAddressSpace(paging, pcb[pid].dir, pcb[pid].mem, garbage)
    /\ pcb' = [pcb EXCEPT ![pid] = ZeroPCB]
    /\ process_list_used' = [process_list_used EXCEPT ![pid] = FALSE]
    /\ cpu' = IF pid = current_running_pid THEN "faulting" ELSE cpu
    /\ UNCHANGED <<active_process_count, current_running_pid, cr3, retcode>>

(***************************************************************************)
(* process_destroy, for any slot, used or not.  A process that destroys      *)
(* itself returns to user code that is no longer mapped: it faults until the *)
(* next timer interrupt.  pid >= PROCESS_COUNT_MAX changes nothing.          *)
(***************************************************************************)
process_destroy(pid) ==
    /\ \E garbage \in Flags :
         paging' = ReleaseAddressSpace(paging, pcb[pid].dir, pcb[pid].mem, garbage)
    /\ pcb' = [pcb EXCEPT ![pid] = ZeroPCB]
    /\ process_list_used' = [process_list_used EXCEPT ![pid] = FALSE]
    /\ active_process_count' = (active_process_count - 1) % U32
    /\ cpu' = IF pid = current_running_pid THEN "faulting" ELSE cpu
    /\ UNCHANGED <<current_running_pid, cr3, retcode>>

KillProcess(pid) == cpu = "user" /\ process_destroy(pid)

TerminateProcess == cpu = "user" /\ process_destroy(current_running_pid)

-----------------------------------------------------------------------------
\* Mutant: the search always starts at slot 0.
LowestPid(index) == Min(UsedPids)

\* The slot the round robin reaches first, starting after "index".
NextPid(index) ==
    (index + Min({k \in 1 .. PROCESS_COUNT_MAX :
                     process_list_used[(index + k) % PROCESS_COUNT_MAX]})) % PROCESS_COUNT_MAX

\* What the CPU does once the registers of this block are loaded: zero
\* registers have IF = 0, and a recorded page may have no frame.
Resumed(block) ==
    IF block.ctx = "zero" THEN "wedged"
    ELSE IF \A pg \in block.mem : UserMapped(paging, block.dir, pg) THEN "user"
    ELSE "faulting"

\* Mutant: paging_use_page_directory is not called.
SwitchKeepsDirectory(list) ==
    LET index == IF current_running_pid = NO_PROCESS_RUNNING THEN 0 ELSE current_running_pid
        next  == NextPid(index)
    IN  /\ UsedPids # {}
        /\ pcb' = [list EXCEPT ![next].state = "RUNNING"]
        /\ current_running_pid' = next
        /\ cpu' = Resumed(list[next])
        /\ UNCHANGED cr3

scheduler_switch_to_next_process(list) ==
    LET index == IF current_running_pid = NO_PROCESS_RUNNING THEN 0 ELSE current_running_pid
        next  == NextPid(index)
    IN
    \/ /\ UsedPids # {}
       /\ pcb' = [list EXCEPT ![next].state = "RUNNING"]
       /\ current_running_pid' = next
       /\ cr3' = list[next].dir
       /\ cpu' = Resumed(list[next])
    \/ /\ UsedPids = {}
       /\ pcb' = list
       /\ cpu' = "spin"
       /\ UNCHANGED <<current_running_pid, cr3>>

\* Mutant: the preempted process is not marked READY.
SaveKeepsState ==
    IF current_running_pid = NO_PROCESS_RUNNING THEN pcb
    ELSE [pcb EXCEPT ![current_running_pid].ctx = "saved"]

(***************************************************************************)
(* current_running_pid is not reset when its process is destroyed, so the    *)
(* registers can be saved into a slot that is no longer used.               *)
(***************************************************************************)
scheduler_save_context_to_current_running_pcb ==
    IF current_running_pid = NO_PROCESS_RUNNING
    THEN pcb
    ELSE LET p == current_running_pid IN
         [pcb EXCEPT ![p].state = "READY",
                     ![p].ctx = IF process_list_used[p] /\ pcb[p].ctx # "stale"
                                THEN "saved" ELSE "stale"]

\* The tail of kernel_setup.
StartScheduler ==
    /\ cpu = "start"
    /\ scheduler_switch_to_next_process(pcb)
    /\ UNCHANGED <<paging, process_list_used, active_process_count, retcode>>

\* The timer case of main_interrupt_handler.
Timer ==
    /\ cpu \in Interruptible
    /\ scheduler_switch_to_next_process(scheduler_save_context_to_current_running_pcb)
    /\ UNCHANGED <<paging, process_list_used, active_process_count, retcode>>

(***************************************************************************)
(* After a process destroyed itself, cr3 is a directory of zeroes, and only  *)
(* cached translations reach the kernel.  When the CPU drops one it cannot   *)
(* even deliver the page fault.                                             *)
(***************************************************************************)
TlbEvict ==
    /\ cpu = "faulting"
    /\ paging.table[cr3][KernelPage].flag = "none"
    /\ cpu' = "reset"
    /\ UNCHANGED <<paging, process_list_used, active_process_count,
                   current_running_pid, pcb, cr3, retcode>>

Create(r) ==
    \/ CreateRejected(r)
    \/ CreateOverrun(r)
    \/ CreateReadFails(r)
    \/ CreatePageFaults(r)
    \/ CreateSucceeds(r)

Next ==
    \/ \E r \in Requests : Create(r)
    \/ \E pid \in KillPids : KillProcess(pid)
    \/ TerminateProcess
    \/ StartScheduler
    \/ Timer
    \/ TlbEvict

Spec == Init /\ [][Next]_vars

-----------------------------------------------------------------------------
\* The type invariant of the kernel's tables and of the CPU's mode.
TypeOK ==
    /\ paging \in PagingState
    /\ process_list_used \in [Pids -> BOOLEAN]
    /\ active_process_count \in 0 .. U32 - 1
    /\ current_running_pid \in Pids \cup {NO_PROCESS_RUNNING}
    /\ pcb \in [Pids -> PCB]
    /\ cr3 \in AllDirs
    /\ cpu \in CpuModes
    /\ retcode \in 0 .. 4

(***************************************************************************)
(* Memory isolation: through any sequence of creations (failed ones too),    *)
(* kills and terminations, a physical frame is reachable by user code        *)
(* through one page of one directory only, is marked as taken, and is never  *)
(* frame 0, which holds the kernel.                                         *)
(***************************************************************************)
MemoryIsolation == FramesExclusive(paging) /\ MappedFramesMarked(paging)

(***************************************************************************)
(* No frame is lost: every frame marked in page_frame_map is mapped by the   *)
(* kernel directory, or by the directory of a slot still in use at a page    *)
(* the slot has recorded, so process_destroy would give it back; and         *)
(* free_page_frame_count counts exactly the unmarked frames.                 *)
(***************************************************************************)
FramesAccounted ==
    /\ FreeCountExact(paging)
    /\ \A f \in Frames : paging.page_frame_map[f] =>
         \/ UserMapped(paging, KERNEL_DIR, CodePage)
              /\ paging.table[KERNEL_DIR][CodePage].frame = f
         \/ \E p \in UsedPids : \E pg \in pcb[p].mem :
              /\ UserMapped(paging, pcb[p].dir, pg)
              /\ paging.table[pcb[p].dir][pg].frame = f

(***************************************************************************)
(* Slots and page directories stay paired: the used slots own distinct used  *)
(* directories, and no directory is in use without a slot that frees it, so  *)
(* paging_create_new_page_directory never returns NULL.                     *)
(***************************************************************************)
DirectoriesOwned ==
    /\ \A p \in UsedPids : pcb[p].dir \in Directories /\ paging.page_directory_used[pcb[p].dir]
    /\ \A p, q \in UsedPids : pcb[p].dir = pcb[q].dir => p = q
    /\ \A d \in Directories : paging.page_directory_used[d] => \E p \in UsedPids : pcb[p].dir = d

(***************************************************************************)
(* When user code executes, it is the code of a used slot, translated        *)
(* through that slot's own directory, and the kernel is mapped in it: a      *)
(* kill by another process, or a timer that switched to a destroyed slot,    *)
(* would break this.                                                        *)
(***************************************************************************)
UserRunsInOwnSpace ==
    cpu = "user" =>
        /\ current_running_pid \in UsedPids
        /\ cr3 = pcb[current_running_pid].dir
        /\ paging.table[cr3][KernelPage] = KernelEntry
        /\ \A pg \in pcb[current_running_pid].mem : UserMapped(paging, cr3, pg)

(***************************************************************************)
(* The inductive invariant.  Slots and directories are both handed out first *)
(* fit and given back together, so a used slot p always owns directory p:     *)
(* that is what keeps a new directory from being one in use.  A page mapped   *)
(* in a slot's directory is recorded in the slot, so process_destroy frees     *)
(* the frame before it clears the entry.                                    *)
(***************************************************************************)
SlotsPaired ==
    /\ \A p \in Pids : process_list_used[p] => pcb[p].dir = p
    /\ \A p \in Pids : ~ process_list_used[p] => pcb[p].dir = NULL_DIR /\ pcb[p].mem = {}
    /\ \A d \in Directories :
         paging.page_directory_used[d] <=> (d \in Pids /\ process_list_used[d])

MappedPagesRecorded ==
    /\ \A p \in Pids : process_list_used[p] =>
         \A pg \in Pages : UserMapped(paging, p, pg) => pg \in pcb[p].mem
    /\ \A pg \in Pages : UserMapped(paging, KERNEL_DIR, pg) => pg = CodePage

KernelInv ==
    /\ TypeOK
    /\ PagingOK(paging)
    /\ SlotsPaired
    /\ MappedPagesRecorded
    /\ UserRunsInOwnSpace

(***************************************************************************)
(* No step taken by one process changes the address space of another that    *)
(* stays alive, nor its saved registers: those change only by the timer that *)
(* preempts it.                                                             *)
(***************************************************************************)
OthersUndisturbed ==
    [][\A p \in UsedPids : process_list_used'[p] =>
          /\ paging'.table[pcb[p].dir] = paging.table[pcb[p].dir]
          /\ pcb'[p].dir = pcb[p].dir /\ pcb'[p].mem = pcb[p].mem
          /\ p # current_running_pid => pcb'[p].ctx = pcb[p].ctx]_vars

(***************************************************************************)
(* Once PROCESS_CREATE checks have passed, the executable's page and the      *)
(* stack's page have frames: every page a used slot has recorded is mapped.  *)
(***************************************************************************)
AcceptedHasMemory == \A p \in UsedPids : \A pg \in pcb[p].mem : UserMapped(paging, pcb[p].dir, pg)

(***************************************************************************)
(* Round robin: a process that is alive gets the CPU again, unless it is     *)
(* destroyed or the machine stops, whatever the other processes create and   *)
(* kill in between.                                                         *)
(***************************************************************************)
EveryProcessRuns ==
    \A p \in Pids :
        (process_list_used[p] /\ cpu \in Interruptible)
            ~> (current_running_pid = p \/ ~ process_list_used[p] \/ cpu \in Halted)
=============================================================================
