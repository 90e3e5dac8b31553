--------------------------- MODULE ProcessStatus ----------------------------
(***************************************************************************)
(* The shell's ps (user-shell.c) and SYSCALL_GET_PROCESS_INFO over the         *)
(* kernel of Kernel.tla.                                                    *)
(*                                                                         *)
(* ps asks for one slot per system call.  The timer may run other processes    *)
(* between two of them, and those may exec, kill and terminate, so the list is  *)
(* put together from slots seen at different times.  One ps runs at a time.     *)
(*                                                                         *)
(* Two of the kernel's calls do something they should not: an exec whose read    *)
(* fails keeps its slot, and a kill of a pid that is not in use is counted as the  *)
(* end of a process.  Two history variables record them, so that the properties    *)
(* can say how far the damage goes.                                          *)
(***************************************************************************)
EXTENDS Kernel

VARIABLES
    ps,         \* who runs ps, the next slot it asks for, what it has listed so far
    leftover,   \* history: the slots an exec marked and could not load, not destroyed since
    vain        \* history: how many kills named a pid not in use, as a number of U32

psvars == <<vars, ps, leftover, vain>>

\* Two fields are no state of the code: "alive", the processes that have lived since ps
\* began, and "dubious", the slots that were leftover at some time since.
NoPs == [pid |-> NO_PROCESS_RUNNING, next |-> 0, listed |-> {}, alive |-> {}, dubious |-> {}]
PsRuns == ps # NoPs

\* get_process_info, as the line ps prints for it; none if the slot is not in use.
get_process_info(pid) ==
    IF process_list_used[pid]
    THEN {[pid |-> pid, state |-> pcb[pid].state, page_frame_used_count |-> Cardinality(pcb[pid].mem)]}
    ELSE {}

\* Mutant: the first slot is left out.
PsStartFrom1 ==
    /\ cpu = "user"
    /\ ~ PsRuns
    /\ ps' = [pid |-> current_running_pid, next |-> 1, listed |-> {}, alive |-> UsedPids,
              dubious |-> leftover]
    /\ UNCHANGED <<vars, leftover, vain>>

PsStart ==
    /\ cpu = "user"
    /\ ~ PsRuns
    /\ ps' = [pid |-> current_running_pid, next |-> 0, listed |-> {}, alive |-> UsedPids,
              dubious |-> leftover]
    /\ UNCHANGED <<vars, leftover, vain>>

PsInfo ==
    /\ cpu = "user" /\ PsRuns
    /\ current_running_pid = ps.pid
    /\ ps.next < PROCESS_COUNT_MAX
    /\ ps' = [ps EXCEPT !.listed = @ \cup get_process_info(ps.next), !.next = @ + 1]
    /\ UNCHANGED <<vars, leftover, vain>>

PsEnd ==
    /\ ps.next = PROCESS_COUNT_MAX
    /\ cpu = "user" /\ current_running_pid = ps.pid
    /\ ps' = NoPs
    /\ UNCHANGED <<vars, leftover, vain>>

-----------------------------------------------------------------------------
\* The process inside ps makes no other system call; a kill may end it.
NotInPs == PsRuns => current_running_pid # ps.pid
PsFollows ==
    ps' = IF PsRuns /\ process_list_used'[ps.pid]
          THEN [ps EXCEPT !.alive = {p \in @ : process_list_used'[p]}, !.dubious = @ \cup leftover']
          ELSE NoPs

\* What the history records of a creation and of a process_destroy.
Created(r) ==
    /\ leftover' = IF r.outcome = "fail" THEN leftover \cup (UsedPids' \ UsedPids) ELSE leftover
    /\ UNCHANGED vain
Destroyed(pid) ==
    /\ leftover' = leftover \ {pid}
    /\ vain' = IF process_list_used[pid] THEN vain ELSE (vain + 1) % U32

\* The shell's exec and kill, by the call each makes; what they print is left out.
exec == \E r \in Requests : Create(r) /\ Created(r)
kill == \E pid \in KillPids : KillProcess(pid) /\ Destroyed(pid)
terminate == TerminateProcess /\ Destroyed(current_running_pid)

Calls == NotInPs /\ (exec \/ kill \/ terminate) /\ PsFollows

Interrupts == (StartScheduler \/ Timer \/ TlbEvict) /\ UNCHANGED <<ps, leftover, vain>>

PsInit == Init /\ ps = NoPs /\ leftover = {} /\ vain = 0
PsNext == PsStart \/ PsInfo \/ PsEnd \/ Calls \/ Interrupts
(***************************************************************************)
(* The PIT raises its interrupt periodically (activate_timer_interrupt) and     *)
(* user code runs with IF = 1, so a pending tick is taken in the end.           *)
(***************************************************************************)
PsSpec == PsInit /\ [][PsNext]_psvars /\ WF_vars(Timer)

-----------------------------------------------------------------------------
(***************************************************************************)
(* While user code executes, every used slot holds registers that can be         *)
(* resumed, those apart that a failed exec left behind (process.c keeps the slot   *)
(* when read fails): neither the registers that the timer saves into the slot of a   *)
(* destroyed process, nor those of a leftover slot, get into a slot loaded later.  *)
(***************************************************************************)
UsedSlotsLoaded ==
    cpu = "user" => \A p \in UsedPids \ leftover : pcb[p].ctx \in {"entry", "saved"}

(***************************************************************************)
(* While user code executes, the current process is RUNNING and no other used     *)
(* slot is, those apart that a failed exec left behind, which keep the state their  *)
(* slot had (the zero that process_destroy writes means RUNNING).               *)
(***************************************************************************)
OneRunning ==
    cpu = "user" =>
        /\ pcb[current_running_pid].state = "RUNNING"
        /\ \A p \in UsedPids \ leftover : p # current_running_pid => pcb[p].state = "READY"

(***************************************************************************)
(* process_destroy decrements active_process_count for any pid, used or not, and     *)
(* that is the count's only fault: it is short of the used slots by the number of    *)
(* kills of pids not in use, through failed and refused creations, kills of the      *)
(* caller and the wrap at 0.                                                 *)
(***************************************************************************)
CountFollowsKills ==
    cpu # "corrupt" => active_process_count = (Cardinality(UsedPids) - vain) % U32

(***************************************************************************)
(* A creation writes slot -1 only because of such kills: while their number, counted   *)
(* in U32, is 0 or more than there are slots, the check finds no room before the    *)
(* slots run out.                                                            *)
(***************************************************************************)
OverrunNeedsKill == cpu = "corrupt" => vain \in 1 .. PROCESS_COUNT_MAX

(***************************************************************************)
(* What ps prints is right although it is pieced together: of the slots that no     *)
(* failed exec left behind meanwhile, the one that runs ps is the one shown as      *)
(* RUNNING; and every process that lived from the first call to the last is listed, *)
(* with the page frames it holds.                                            *)
(***************************************************************************)
PsTruthful ==
    (PsRuns /\ ps.next = PROCESS_COUNT_MAX) =>
        /\ \A l \in ps.listed : l.pid = ps.pid => l.state = "RUNNING"
        /\ \A l \in ps.listed : l.state = "RUNNING" => l.pid = ps.pid \/ l.pid \in ps.dubious
        /\ \A p \in ps.alive : \E l \in ps.listed :
             l.pid = p /\ l.page_frame_used_count = Cardinality(pcb[p].mem)
=============================================================================
