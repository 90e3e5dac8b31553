# A verification project for the IF2230 operating system

TLA+ models of the kernel, the file system, the shell, the keyboard and screen, and
the clock of this repository, TLC configurations that check them on small instances,
and TLAPS proofs of the safety of the kernel, the processes, the file system driver, the
shell's file commands, the keyboard and window, and the clock for every value of their
parameters. Paths are relative to the repository's `src/`.

## 1. Inventory

The system is a 32-bit teaching kernel for one CPU: paging, processes with
preemptive round robin, a FAT32-like file system on an ATA disk, a keyboard and
text screen, and two user programs, a shell and a clock.

| Part | State | Operations | Hard to get right |
|---|---|---|---|
| paging (`paging.c`) | frame map and its counter, 32 page directories and a used flag for each | allocate and free a frame in a directory, create and free a directory | frames or directories shared, lost or freed twice; exhaustion |
| processes (`process.c`) | 16 slots, used flags, count, running pid | create (five outcomes), destroy | a step of creation fails; a kill of an unused slot, of oneself |
| scheduler (`scheduler.c`, `context-switch.s`) | none of its own, cr3 | save the registers, pick the next slot, switch | the saved slot was destroyed meanwhile; starvation; no slot left |
| interrupts and system calls (`interrupt.c`, `intsetup.s`, `idt.c`) | `shell_open` | timer, keyboard, 28 calls | order of calls and ticks |
| FAT32 driver (`fat32.c`) | cached allocation table; the disk | mount, format, read, read_directory, write, delete | loss of power between two writes, cached table, 8-bit counts, full disk |
| disk (`disk.c`) | the device | read and write blocks | a sequence of blocks cut short |
| shell commands (`user-program/shell/user-shell.c`) | copies of the current directory and of the root, path | cd ls mkdir cat cp rm mv find exec kill ps | several calls per command, private copies, two shells |
| shell window (same file, `main`) | open or closed, the line typed so far, the column behind the prompt | Ctrl+S, type, Backspace, Ctrl+Backspace, Enter | Ctrl and key asked for in two calls; the line and the screen drift apart |
| keyboard (`keyboard.c`) | modifiers, a one-character buffer | interrupt, get and activate | a key overwritten before it is read |
| screen (`framebuffer.c`, `puts` of `interrupt.c`) | cells, cursor, limits, last column written per row | print, clear, set cursor and limits | wrap, scroll and backspace at the edges |
| real-time clock (`cmos.c`) | the device's registers | read the time | registers that change while they are read |
| clock program (`clock.c`) | a copy of `shell_open` | read the time, draw | tests whether the window is open, then draws |
| inserter (`external-inserter.c`) | the image in memory | write files into the image | the driver's limits |
| GDT, IDT, ports, strings | hardware or constants | single writes | |

How they interact: user programs enter the kernel by interrupt 0x30. The gates
clear IF, so a system call or an interrupt handler runs to its end on the one
CPU. `process_create_user_process` calls the paging functions and the driver's
`read`; the timer handler saves the registers into the running slot, picks a
slot and loads its directory. The shell calls the driver through system calls,
and writes whole clusters itself (`SYSCALL_WRITE_CLUSTER`) to rename and move. The
keyboard interrupt leaves a character in the kernel, which the shell polls. The
shell and the clock draw on one screen; the kernel's flag `shell_open`, set by the
shell and asked for by the clock, is all that keeps them apart.

What makes each part correct:

- paging and processes: a frame serves one page of one process; every frame and
  directory taken can be given back; user code runs only in its own space; no
  step disturbs another process; every live process runs again;
- driver: chains and links on disk are sound at every moment the power may fail;
  the cached table is the one on disk; nothing leaks; every operation is atomic
  for a reader of the disk and ends;
- shell: no sequence of commands damages the tree or loses an entry, the copy of
  the current directory is fresh, and messages tell the truth;
- keyboard and window: keys arrive in order and once, Ctrl+S does what its keys
  say, the line on the screen is the line Enter runs, nothing is drawn outside;
- clock: the time read is that of one moment; the face keeps off an open window and
  comes back when it closes.

`PROJECT.json` lists every hazard at its line, with the properties that cover it.

## 2. Modules

| Module | Models |
|---|---|
| `Paging` | `paging.c`: operators from one record (frame map, counter, directories) to the next; what it means for the record to be consistent (`PagingOK`) |
| `Kernel` | `process.c`, `scheduler.c`, the timer and process cases of `interrupt.c`, the end of `kernel_setup` |
| `ProcessStatus` | the shell's ps, exec and kill over `Kernel` |
| `FAT32` | `fat32.c`, one action per disk write, and losses of power |
| `FileStore` | what the driver promises: a tree changed one entry at a time |
| `FAT32Store` | the refinement mapping from the disk to that tree |
| `Shell` | the shell's file commands over `FAT32`, one action per system call |
| `Screen` | `framebuffer_write` and the screen calls of `interrupt.c`: operators from one screen to the next |
| `Keyboard` | `keyboard.c`: the interrupt by kind of scancode, the buffer |
| `Console` | `main` of the shell over `Keyboard` and `Screen` |
| `RTC` | `read_rtc` of `cmos.c` and the device it reads (external) |
| `Clock` | `clock.c` and the shell's window on one screen, over `RTC` |
| `SetLemmas`, `KernelProofs`, `FAT32TreeProofs`, `FAT32Proofs`, `FAT32StoreProofs`, `ShellProofs`, `ConsoleProofs`, `ClockProofs` | the theorems and their lemmas (section 4) |
| `MCKernel`, `MCProcessStatus`, `MCFAT32`, `MCShell`, `MCConsole`, `MCClock` | values of the constants |

### Kernel

`paging` is the record of `Paging`; `process_list_used`, `active_process_count`,
`current_running_pid` and `pcb` are the variables of the same names in
`process.c`; `cr3` is the directory in use; `cpu` says what the CPU is doing.
Each outcome of `process_create_user_process` is an action: `CreateRejected`,
`CreateOverrun` (the checks pass with no free slot and index -1 is used),
`CreateReadFails`, `CreatePageFaults` (no frame for the page `read` writes to),
`CreateSucceeds`. `KillProcess` and `TerminateProcess` are `process_destroy` for
any pid and for the caller; `Timer` saves, picks and switches. `TlbEvict` is the
CPU's: a process that destroyed itself goes on faulting on a cleared directory
until the timer comes, and if a cached translation is dropped first the machine
resets.

Abstracted: pages are directory indices, of which only those a request can name,
the stack's and the kernel's are kept; the registers of a block are only whose
they are (`zero`, `entry`, `saved`, `stale`). A block that holds zeroes is
switched to with IF = 0, and so keeps the CPU (`wedged`). The flags of a freed
entry are uninitialised in the code, and any value in the model.

### ProcessStatus

`ps` is a process inside the command, with the slot it will ask for next and the
lines listed so far. Each `SYSCALL_GET_PROCESS_INFO` is an action (`PsInfo`);
between two of them the timer runs others, which `exec`, `kill` and terminate. Nothing
is assumed of the users: executables may be missing, and a kill names any pid, as in the
code. Both do damage there (section 3), and two history variables record it, so that the
properties can say how far it goes: `leftover` holds the slots that a failed exec took
and nobody has destroyed since, `vain` counts the kills of pids that were not in use.

### FAT32

A cluster's content is zeroes, the signature, an allocation table, a directory
table or a numbered piece of a file. `op` is the operation in progress: `write`
is `WriteStart` (the checks), `WriteChild` for a folder, `WriteFat` and
`WriteData` for each cluster, `WriteParent`; `delete` is `DeleteStart`,
`DeleteParent`, `DeleteFree` for each cluster, `DeleteFat`; `create_fat32` is the
four `Format` actions. `Crash` loses the cached table and the operation;
`CrashInFatWrite` does so between two blocks of the allocation table, the only
cluster for which a torn write is not one of the two whole ones (a directory
table changes in one entry, hence in one block). `read`, which changes nothing,
is the operators `read_retcode`, `Chain` and `read_data`.

`FAT32Store` maps the disk to a tree: the directories reachable from the root,
their files with the pieces along the chain, their folders. Every disk write but
one leaves the tree alone; the one that does not, the parent's table, performs
the whole operation of `FileStore`.

### Shell

Each shell has its copies `cwd` and `rootDir`, its `cluster`, and the locals of
the command it is in. A command is a sequence of system calls; a shell acts only
when the driver is idle, so shells interleave between calls and never inside
one. The disk starts as an image with a file and a folder, and, unlike a disk
`create_fat32` makes, a root that knows its own cluster: that is what the shell
needs (section 3). `cp` counts clusters by looking at bytes in a buffer
that was never cleared, so any number more than the file has may be counted, up to the
end of the buffer (`CopyCounts`; a count that runs on past the buffer is left out). `ls`, `cat`
and all printing are left out, and with it the path `create_path` builds. `mv` is
`mv_cut`, `mv_paste` and `mv_relink`, a disk write each; `MoveCrashSound` says what a
loss of power before or after any of them leaves on the disk.

### Keyboard, Screen, Console

`keyboard_state` of the code is split in two: what the interrupt writes is the
variable of `Keyboard`, the cursor and the limits are part of `screen`. An interrupt
is `ModifierDown`, `ModifierUp`, `KeyDown` or `OtherCode` (every code whose place in the
maps is 0, the release of any key with a character among them: it empties the
buffer). `sh` holds `main`'s locals. One turn of its loop is `PollCtrl`, `Getchar` and
the branch for the key: `OpenShell`, `CloseShell`, `EnterLine`, `Backspace` with an
`Erase` per turn of its loop, `TypeChar` or `DropKey`. Interrupts come anywhere between
these. A branch is one step, for the keyboard interrupt neither reads nor moves the
cursor and no other program does. What a command prints is one of the texts
`Outputs`; `clear`, whose prompt `main` must not print again, is told from the rest.
`int row` and `int col` of `main` receive one byte each from the kernel: `HighBytes`
are the values their upper bytes may hold.

### RTC, Clock

The device counts seconds when it likes: it raises its flag, changes the registers
one after another, lowers the flag. `read_rtc` waits for the flag (`WaitForUpdate`),
reads a register per step, and ends when two passes agree. The clock's loop is
`GetClockTime`, `PrintTime`, `TestOpen`, then `CheckCell` and `DrawCell` for each cell of
the face and `DrawBorder` for the rest, a step per system call. The shell sets the
flag and clears (`OpenWindow`, `ClearWindow`), or resets it and repaints cell by cell
(`CloseWindow`, `PaintBackground`). The hands, the text of time and date and the bar
of seconds are left out. The model starts where a clock does: it was started from an
open window.

## 3. Runs

Passing runs:

| Run | Shows |
|---|---|
| `kernel` | isolation, accounting of frames and directories, own address space, no disturbance, for every order of exec (accepted, refused or failing), kill, termination and ticks |
| `processes` | every used slot that no failed exec left behind holds registers that can be resumed, also after registers were saved into a freed slot, and the running one alone of them is RUNNING; the count of processes is short of the used slots by the kills of free pids and by nothing else, and slot -1 is reached through such kills only; ps lists every process that lived through it, and itself as the one RUNNING; every live process gets the CPU again, unless the machine has stopped |
| `fat32` | chains and links on disk sound at every crash point, inside the format too, and every operation ends on what a crash leaves; cache coherent between calls; no leak without a crash; `read` fits its buffer; no delete erases the boot sector or the allocation table |
| `fat32_store` | the driver implements `FileStore`, crashes included |
| `shell` | every sequence of commands of one careful user keeps the tree sound, loses nothing, and leaves the shell in a directory of the tree with a fresh copy of it; a loss of power inside `mv` leaves a disk with sound chains and links |
| `console` | wherever the keyboard's interrupts fall: keys are taken in order and once; no modifier sticks; Ctrl+S toggles the window when its keys say so; the line on the screen is the line typed; window and background stay apart through wrapping, scrolling and clearing; Ctrl+Backspace ends |
| `clock` | second, minute, hour, day and month are those of one moment of the call; at most one cell of the face is drawn over an open window; the face comes back once the window stays closed |

"Careful" (`CarefulMove`) is an assumption about the user, not a check in the
code: moves only of listed entries, into another folder that has room and no entry
of that name, and no renaming of a folder to a name it holds itself. `shell_move`
below drops it.

Runs that end in a violation, each a disagreement between the code and what it
says of itself (`findings` in `PROJECT.json` quotes both):

| Run | Disagreement |
|---|---|
| `kernel_memory` | the memory check is handed pages for bytes, and passes with no frame left |
| `fat32_noname` | delete of the empty name matches an unused entry, with cluster 0 |
| `shell_move` | `mv` cuts before it knows that it can paste |
| `console_wrap` | backspace at the start of a wrapped row erases a character of the line and none on the screen |
| `rtc_year` | the year is read once, so 1 January may come with the old year |

Also met while modelling; the models have these behaviours unless a line says
otherwise, and no run is about them:

Processes

- `process_destroy` (`process.c:51`) decrements the count for any pid below 16, used or
  not, so `kill` of a free slot makes it wrong, and 0 wraps. `header/process/process.h:131`
  says "True if process destruction success". `CountFollowsKills` says by how much it is
  wrong. With the slots full and the count below their number an exec passes the check and
  writes the slot of index -1 (`process.c:110`): the run reaches this (`corrupt`), and
  `OverrunNeedsKill` says that there is no other way to it.
- An exec whose file is missing keeps its slot, directory and frames (`process.c:142`),
  and the slot is scheduled; `user-shell.c:1523` reports "Exec error: File not found in
  bin folder!". In a slot never used before, or destroyed, the registers are zero: the next
  tick that picks it switches to them with interrupts off and the machine stops
  (`wedged`, three steps from the start). In one into which the timer saved a dead
  process's registers, these run in a space nothing was loaded into. `UsedSlotsLoaded`,
  `OneRunning` and `PsTruthful` except these slots, and no others.
- `kill` knows the pids 0 to 9 only (`user-shell.c:1637`); there are 16 slots.

File system and shell commands

- `create_fat32` (`fat32.c:80`) writes the signature before the allocation table
  and the root, so a loss of power in between leaves a disk that is mounted as
  formatted, without a root.
- The root that `create_fat32` makes has no cluster number in entry 0
  (`fat32.c:42`), which `header/filesystem/fat32.h:155` calls the entry about
  itself; the shell needs that number.
- `read` returns 2 for "not found" and -1 for a small buffer (`fat32.c:227`, `:211`);
  `header/filesystem/fat32.h:226` says 3 and 2.
- `write` takes a parent for valid when its allocation entry is the end-of-file mark
  (`fat32.c:236`), as that of every one-cluster file is; `header/filesystem/fat32.h:234`
  says "2 invalid parent cluster". With two shells, one in a directory the other has
  removed, `FilesIntact` fails: a directory table is written over a file.
- The number of clusters of a file is a `uint8_t` (`fat32.c:141`, `:262`): `ChainsSound`
  fails with `U8 = 4` and a file of five clusters.
- `cp` to a shorter name keeps the tail of the longer one (`user-shell.c:1083`, the
  constant `Overlay`), and reports every result but 1 as success (`:1092`).
- `find` searches the root as it was when the shell started (`user-shell.c:1439`). If a
  folder of it was removed since, `cd` into it fails and the walk finds the same folder
  again, without end; the model stops at depth `MaxDepth`.
- A loss of power between `mv`'s cut and its paste leaves the moved entry in no
  directory, its clusters still taken.

Keyboard and window

- The break code of a key empties the buffer (`keyboard.c:94`), so a key pressed and
  released between two polls is lost.
- Ctrl is sampled before the key (`user-shell.c:370`, `:373`): an `s` typed just after
  Ctrl was let go may still toggle the window. `ToggleFollowsKeys` says what remains
  true.
- Two Shift or two Ctrl keys share a flag: letting one go counts for both.
- The line typed when the window is closed is kept in `shell_input` and is part of the
  next one, invisibly; `shell_row` is kept too (`user-shell.c:456`).
- Backspaces over a wrapped line may outnumber its characters: `main` then writes the
  byte before its buffer (`user-shell.c:507`). The model drops the write.
- `clear` with an argument prints two prompts (`user-shell.c:471` compares the whole
  line).
- A tab (`interrupt.c:186`) does not look at the limits and may leave the window; the
  texts of the run hold one that does not.
- `stringn_appendchar` (`utils.h:63`) does not look at the 256 bytes of its buffer.
- `int col` and `int row` (`user-shell.c:489`) receive one byte and keep three that were
  never written. If one of these is set, the limit of Backspace is passed at once and the
  prompt is erased: with `HighBytes` = {0, 256} `WindowKept` fails.

Clock

- 12 p.m. and 12 a.m. in the device's twelve-hour mode (`cmos.c:100`) become 0 and 12;
  the settings of the run have other hours.
- The hour shown is that of another zone, (hour + 7) % 24, with the date left as it is
  (`clock.c:318`); `itoa` (`clock.c:17`) has 60 entries and is indexed by the year
  (`:354`). Neither is modelled.
- The border does not ask for the flag again (`clock.c:203`) and may be drawn whole
  over a window just opened; `FaceSpared` leaves it out.
- The bar of seconds starts three columns too long (`clock.c:70` against `:276`), and
  is not cleared if the clock does not run during second 0 (`:267`). Not modelled.
- `shell_open` is one flag for all shells (`interrupt.c:376`); the model has one shell.

### Bounds, and why they are enough

- `kernel`: 4 slots, 5 directories, 8 frames. One frame is the kernel's, one goes
  to the kernel directory, six serve three processes, so the fourth creation
  finds no frame: all slots, all frames and frame exhaustion occur. The counter
  wraps at 8. Requests name the usual load page or one in the kernel's half, and
  a size that fits or not. `kernel_memory` needs only 3 slots and 6 frames.
- `processes`: 3 slots, 4 directories and 8 frames, so that there are frames for every
  slot (in `kernel` they run out first); the counter wraps at 5, so that kills of
  free pids take it below 0 and round to where it was; `read` may fail and a kill names
  any slot; `ps` starts at any time, one at a time. The history variables make this
  smaller than `kernel`: three slots are enough for one that runs ps, one that is killed or
  left behind, and one that is created between two of its calls.
- `fat32`: four data clusters, in two blocks of the allocation table; tables with
  two free entries; files of one and of two clusters, the second not full;
  folders in folders; disk and directory both fill up; one loss of power, at any
  point, after which everything goes on. `fat32_store` has two contents, so that
  a mixed-up file would show.
- `shell`: three names, one file, one folder, three data clusters, so that the
  disk fills up; sizes up to what `cp` may count (`SizesAssumption`); recursion of
  `find` is cut at depth 6, deeper than any tree of three clusters.
- `console`: a screen of 6 rows and 8 columns with a window of 3 by 6, so that a text
  of nine characters wraps, scrolls and fills the last row; the keys `s`, blank, Enter
  and Backspace, `S` with Shift; one Ctrl key and two Shift keys; five presses, enough
  to open, type, erase, run and close. `CarefulTyping` is an assumption about the user,
  who stops before the window's last column; `console_wrap` drops it. `HighBytes` is
  {0}, what the stack of the first shell holds; a frame is not cleared when it is used
  again, so later shells may find other values, of which section 3 says what they do.
- `clock`: two seconds pass, from settings where up to six registers change, in BCD
  and binary, 12 and 24 hours; three cells of the face and one of the border, enough
  for a flag read for one cell and used for another. `MaxTicks` bounds the device
  only: the programs go on for ever.

### Deadlock and fairness

Deadlock is not checked where the machine really stops: in the kernel's runs (spin,
triple fault, endless fault, write outside the arrays), in those of the shell (a
stack overflow in `find`), and in `fat32`, where a loss of power inside the format
may leave a disk with no directory, on which no operation gets past its checks.

`processes` assumes weak fairness of `Timer`: the PIT fires periodically
(`activate_timer_interrupt`) and user code runs with IF = 1, so a tick is taken in
the end. `fat32` assumes weak fairness of the driver's next disk write: the CPU goes
on executing the call it is in. `clock` assumes that the clock program and the shell
go on, which is what `EveryProcessRuns` shows of the scheduler, and that the device
ends an update it began; that the window is opened or closed is never assumed.
`console` states safety only; `ErasingEnds` gives the loop of Ctrl+Backspace a measure
that falls. Nothing is assumed of what users type or programs call.

## 4. Proofs

Every theorem holds for every value of the constants the named assumptions allow:
any number of slots, frames, clusters, table entries, keys, cells, any window, any
times. A hypothesis beyond those is written in the theorem's statement and explained
below.

| Module | Proves |
|---|---|
| `SetLemmas` | the least element of a set of naturals (what a first-fit search returns); induction over the naturals for a set |
| `KernelProofs` | paging, the kernel, processes and `ps` |
| `FAT32TreeProofs`, `FAT32Proofs` | chains and trees on a disk; the driver |
| `FAT32StoreProofs` | the driver implements `FileStore` |
| `ShellProofs` | the shell's file commands |
| `ConsoleProofs` | keyboard, window and line |
| `ClockProofs` | reading the time; the face and the window |

Recursive functions (`Chain`, `Reach`, `puts`, the loops over a text) are reasoned about
by induction: `SetInduction` of `SetLemmas` speaks of a set that contains 0 and is closed
under successor, and each use gives the set of arguments for which the claim holds.

### Kernel

| Theorem | Statement |
|---|---|
| `KernelInvariant` | `Spec => []KernelInv`, the inductive invariant |
| `TypeCorrect` | `Spec => []TypeOK` |
| `Isolation` | `Spec => []MemoryIsolation` |
| `Accounting` | `Spec => []FramesAccounted` |
| `Ownership` | `Spec => []DirectoriesOwned` |
| `OwnSpace` | `Spec => []UserRunsInOwnSpace` |
| `Undisturbed` | `Spec => OthersUndisturbed` |

None of these is inductive alone. `process_destroy` frees the
frames of the pages a slot has recorded and then clears its directory, so a page
mapped but not recorded would lose its frame: hence `MappedPagesRecorded`. It may
be called for a slot that is not in use, and must then find nothing to free:
hence the second conjunct of `SlotsPaired`. A new directory must not be one in
use: slots and directories are handed out first fit and given back together, so
slot p always owns directory p, which is the first conjunct and what gives
distinct owners. `PagingOK` relates the frame map, the counter and the tables, and
includes that an entry not open to user code names frame 0, whose bit is never
set: that makes the uninitialised flags of a freed entry harmless, because the
directory is cleared in the same call.

`KernelProofs` first proves that each operator of `Paging` preserves `PagingOK` and says
what it maps and unmaps; then it has one lemma per handler (`CreateInv`,
`DestroyInv`, `SwitchInv`) and puts them together in `StepInv`. `NextPidUsed` shows
that the round robin picks a used slot if there is one.

### Processes

| Theorem | Statement |
|---|---|
| `ProcessInvariant` | `PsSpec => [](BlocksInv /\ CountInv /\ PsInv)` |
| `CountExact` | `PsSpec => []CountFollowsKills` |
| `OverrunCause` | `PsSpec => []OverrunNeedsKill` |
| `Loaded` | `PsSpec => []UsedSlotsLoaded` |
| `SingleRunning` | `PsSpec => []OneRunning` |
| `Truthful` | `PsSpec => []PsTruthful` |

Every step of `PsNext` is a step of the kernel or leaves it alone, so `KernelInv` holds
and is used throughout. `BlocksInv` says what the registers and the state of each
block may be: the timer saves into the running slot even after it was freed, and this
is harmless because a creation that succeeds writes the whole block again; one whose
read fails does not, and its slot is in `leftover` until it is destroyed. `CountInv` relates
three numbers that each move by one, two of them with a wrap: the count and the kills in
vain make up the used slots, or exceed them by exactly `U32` (`Counted`). A creation
checked with free slots left moves the count and the slots, a kill the count and either of
the others. When index -1 is used the slots are full and the count is below their number,
so the kills in vain are at least one and, the count being no less than 0, at most
the number of slots. `PsInv` says of the slots below
`ps.next` what has been listed of them; it holds through the switches between two
calls because `ps` runs when it asks, so it is the one RUNNING process whenever a line
is read; a slot that was left over at some time since (`dubious`) may show RUNNING too.

### FAT32 driver

| Theorem | Statement (each under `Ordinary`) |
|---|---|
| `DriverInvariant` | `DriverInv` always, the inductive invariant |
| `DriverContent` | `ContentInv` always, inductive with `DriverInv` |
| `DriverTypes` | `TypeOK` |
| `Chains` | `ChainsSound`: chains end, have no loop, share no cluster |
| `TreeLinks` | `LinksSound`: a folder's table names itself and its parent |
| `Cached` | `CacheCoherent` |
| `NoLeak` | `NoClusterLeak` |
| `ReadsFit` | `ReadFitsBuffer` |
| `SystemSpared` | `DeleteSparesSystem` |
| `Implements` | `ViewSpec => ImplementsStore`, the refinement |

`FAT32TreeProofs` is about one disk: a chain that ends is the same in every map that
agrees on its clusters; `TreeOK` says that live directories are tables with
their two links, blank where unused (`DirOK`), that every live place holds an entry with
a good chain of the length its size asks for and, for a folder, links that name it and
its parent (`PlaceOK`), and that chains of different
places are disjoint. Three lemmas carry the driver: a write outside the tree leaves it
alone (`TreeKept`), one that fills a free entry of a live directory adds one place
(`PlaceAdded`), one that empties an entry takes away that place and, because a folder is
deleted only when empty, no other (`PlaceDropped`).

`DriverInv` adds what the operation in progress has put outside the tree. A write has
chosen clusters that no chain of the tree holds (`SlotsApart`), its copy of the parent
is still the parent on disk but for the new entry (`ParentOK`), the part of the chain
written so far is on disk (`LinkOK`), a folder's own table too (`ChildOK`); so the last
write links a complete chain. A delete has unlinked first (`UnlinkOK`), and then frees
clusters outside the tree, none of them a system cluster (`FreeingOK`, `FreedOK`).
`FormatOK` covers the format. `TreeOK` is about the disk alone, so a crash at any point keeps it. `LeakFree`, while there was no crash, says that the allocated
clusters are those of the tree and of the operation.

`Ordinary` says that the number of clusters of each size fits the eight bits the code
keeps it in, and that no request has the empty name (the run `fat32_noname` shows why).

`Implements` needs to know what a reader finds: `ContentInv` says that a directory lists
a name once (`NamesOK`), that the clusters of a file hold pieces of files (`DataOK`),
that the name of a write in progress is in no entry of its parent and the pieces stored
so far are those of the payload, in order (`RequestOK`). `FAT32StoreProofs` then goes
through the steps of the driver. A write outside the tree leaves the view as it is
(`TreeUnseen`, from `TreeKept`), and so does a crash: the view is a function of the disk.
The write of the parent's table adds the one node that `FileStore` adds (`ViewAdded`,
from `PlaceAdded`), with the file's pieces read back along the chain; the first write of a
delete takes one away (`ViewDropped`); the root's table of the format makes the store. The
initial states, which are blank disks, map to the store before its first format.

### Shell: file commands

| Theorem | Statement (each under `ShellOrdinary`) |
|---|---|
| `ShellInvariant` | `ShellSpec => []ShellInv`, the inductive invariant |
| `ShellTypes` | `ShellTypeOK` always |
| `TreeStaysSound` | `TreeSound` always |
| `MovesCrashSound` | `MoveCrashSound` always |
| `MovesLoseNothing` | `NothingLost` always |
| `CopiesFresh` | `CwdFresh` always |
| `FilesStayIntact` | `FilesIntact`, an action property |

Between the writes of `mv` the driver's invariant does not hold: the tree has lost an
entry, or holds a folder whose own links are wrong, while allocated clusters belong to no
entry. So `ShellInv` has two cases. Unless a shell is between two writes of `mv`
(`mv_self`, `mv_paste`, `mv_relink`), the disk is as the driver keeps it (`Steady`:
`DriverInv`, `ContentInv`, a root that knows its cluster, no crash). Between them, there is
a sound disk from which the present one came by the writes made so far; the shell's
locals hold the tables of that disk with their change (`SelfOK`, `PasteOK`, `RelinkOK`), and
the last write leads to a sound disk again. `TreeBut` is the tree with the links of some
folders excepted: for the folder that moves, after the paste and until its own table is
written. A folder's subtree moves with it, because links below name clusters that stay;
`TreeRenamed`, `TreeMoved` and `Carried` say so.

In both cases, for every shell: where it stands is a live directory and its copy is that
directory's table (`Stands`), which at `refresh` and `cp_done` waits for the driver; and a
half-done command remembers the truth (`Commanded`). `find` has this the hardest: it
overwrites the shell's copy and cluster on its way down, and puts them back from its stack
on its way up (`FindOK`). The image the shell starts with is sound by `ImageSound`.

`FilesIntact` follows: every write of a shell goes to a cluster that holds a directory
table, every write of the driver to the allocation table or to a cluster outside the
tree, and a file's clusters hold neither.

`ShellOrdinary` is `Ordinary`, careful moves (`shell_move` drops this) and one shell. Two
shells do break `FilesIntact` (section 3), so it is no mere convenience.

### Keyboard and window

| Theorem | Statement |
|---|---|
| `KeyInvariant` | `ConsoleSpec => []KeyInv` |
| `Unstuck` | `ConsoleSpec => []NoStuckModifier` |
| `InOrder` | `ConsoleSpec => KeysInOrder` |
| `Toggled` | under `OneCtrl`: `ConsoleSpec => ToggleFollowsKeys` |
| `LineInvariant` | under `Plain`: `ConsoleSpec => []LineInv` |
| `ConsoleTypes` | under `Plain`: `ConsoleSpec => []ConsoleTypeOK` |
| `LineShown` | under `Plain`: `ConsoleSpec => []LineShowsInput` |
| `WindowStays` | under `Plain`: `ConsoleSpec => []WindowKept` |
| `ErasingStops` | under `Plain`: `ConsoleSpec => ErasingEnds` |

`KeyInv`: a key that waits in the buffer is younger than the last one taken, and what
the shell knows of Ctrl since its poll (`CtrlKnown`) bounds what the keys did. `LineInv`:
while the window is open, the prompt stands at the left of the cursor's row, the cells
from `LineStart` to the cursor spell the line (`LineOpen`, `RowText`), and there is room
for the key in hand and the key in the buffer, which is why a user who stops before
the last column is never wrapped. What `puts` does to the window for a whole text is
one induction over its characters (`PutsRun`): the limits stay, the cells outside are
untouched, the cursor ends inside.

`OneCtrl`: the two Ctrl keys share a flag, so with two of them the statement is false.
`Plain`: the user of `CarefulTyping` (`console_wrap` drops it); upper bytes zero; no tab
in a text, in the prompt or among the keys (a tab may leave the window; the run has one
that does not, so on that text TLC alone is the witness); no backspace in what a
command prints; a prompt of one line; Shift leaves Enter and Backspace as they are.

### Clock

| Theorem | Statement |
|---|---|
| `ClockTypes` | `ClockSpec => []ClockTypeOK` |
| `Spared` | `ClockSpec => []FaceSpared` |
| `OneMoment` | `ClockSpec => [](BriefCall /\ HourKept => ReadConsistent)` |

`WindowInv`: while the window is open at most one cell of the face is painted over it,
and none while the clock still holds a flag it read before the window opened.
`ReadInv`: a pass whose second is still the one shown, and is not 0, has read the
registers of one time, because the others change only with second 0 (`Pass`); of two
passes that agree on the second the first is therefore right, unless it is second 0,
and then the second is, because the minute that began has not ended (`Agreed`,
`SameMinute`). `BriefCall` (fewer than 59 seconds pass inside a call)
is needed: after a minute the seconds agree again. `HourKept` leaves out 12 a.m. and
12 p.m. of the twelve-hour mode, which `cmos.c:100` converts wrongly (section 3).

### Assumptions

`PagingAssumption`, `KernelAssumption`, `FAT32Assumption`, `ShellAssumption`,
`ImageAssumption`, `SizesAssumption`, `ScreenAssumption`, `KeyboardAssumption`,
`ConsoleAssumption`, `RTCAssumption`, `ClockAssumption`; TLC evaluates them in the runs of
their modules. They give the constants their types, an image that fits the disk, a size for
every number of clusters that `cp` may count, a window that lies on the screen and has room
for prompt and one character, and cluster numbers smaller than the marks of the allocation
table. The inductive invariants of the other components hold on the runs' instances too,
where TLC checked them; `ShellInv`, which speaks of any earlier disk, is beyond TLC. The
instances also satisfy `Ordinary`, `ShellOrdinary`, `OneCtrl`, `BriefCall` and `HourKept`.

### Only model-checked

- Liveness (`EveryProcessRuns`, `OperationsEnd`, `FaceReturns`): fairness is beyond the
  prover. `ErasingStops` proves the measure of the loop of Ctrl+Backspace.
- `AcceptedHasMemory` and `DateConsistent`, which runs show violated, and the
  disagreements of section 3 in general: a counterexample is a matter for TLC.

## 5. Not modelled, and what could follow

Not modelled: the ATA port protocol, GDT and IDT tables, port and string
functions, the hardware cursor: hardware, constants, or single writes. The inserter
runs on the host and calls the driver that `FAT32` models. `ls`, `cat` and the clock's
text only print. `process_deallocate_page_frame`, `framebuffer_clear`,
`keyboard_state_deactivate`, `get_keyboard_buffer_ext` and the kernel's own `find` have
no caller.

What could follow:

1. two shells: the tree is no longer sound (section 3), but what remains true of a shell
   that stays out of the other's directories is worth stating and proving;
2. a loss of power inside the shell's commands, with the shell started again on the disk
   it left: `MoveCrashSound` says that chains and links are sound there, not what the next
   commands make of the clusters that a cut-off `mv` leaves behind.
