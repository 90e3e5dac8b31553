------------------------------- MODULE Clock --------------------------------
(***************************************************************************)
(* The clock program (clock.c) and the shell's window on one screen, with the     *)
(* real-time clock of RTC.tla.                                               *)
(*                                                                         *)
(* The kernel's flag shell_open tells the clock whether the window covers its      *)
(* face.  Programs are switched between system calls: the clock reads the flag in     *)
(* one and draws in the next, and the shell opens, clears and repaints in several.    *)
(* A system call is one step, except read_rtc, inside which the device moves and no    *)
(* program does.                                                             *)
(*                                                                         *)
(* Cells are those of the face and of its border.  What a face cell shows (a hand     *)
(* or the dial) is one colour here.  Time, date and the bar of seconds are printed on  *)
(* rows the window does not cover; their text is left out.                        *)
(***************************************************************************)
EXTENDS RTC, FiniteSets

CONSTANTS
    FaceCells, BorderCells      \* numbers of cells drawn, each drawn in order

ASSUME ClockAssumption == FaceCells \in Nat \ {0} /\ BorderCells \in Nat

VARIABLES
    cells,          \* colour of each cell of the face and then of the border
    shell_open,     \* user_variables.shell_open of the kernel
    clk,            \* the clock program: where it is, the cell, its copy of shell_open
    win             \* the shell: where it is, the cell it paints

vars == <<rtc, ticks, rd, cells, shell_open, clk, win>>

Cells == 1 .. FaceCells + BorderCells
Face  == 1 .. FaceCells

\* The clock is started from the shell's open window.
ClockInit ==
    /\ RTCInit
    /\ cells = [c \in Cells |-> "black"]
    /\ shell_open = TRUE
    /\ clk = [pc |-> "read", cell |-> 1, shell_open |-> FALSE]
    /\ win = [pc |-> "open", cell |-> 1]

ScreenQuiet == UNCHANGED <<cells, shell_open, win>>
DeviceQuiet == UNCHANGED <<rtc, ticks, rd>>

-----------------------------------------------------------------------------
\* main's loop: SYSCALL_GET_CLOCK_TIME, then time, date and bar.
GetClockTime ==
    /\ clk.pc = "read"
    /\ ReadStart \/ ReadStep
    /\ ScreenQuiet /\ UNCHANGED clk

PrintTime ==
    /\ clk.pc = "read" /\ rd.pc = "returned"
    /\ rd' = NoRead
    /\ clk' = [clk EXCEPT !.pc = "test"]
    /\ ScreenQuiet /\ UNCHANGED <<rtc, ticks>>

\* Mutant: the copy of the last call is used.
TestOpenStale ==
    /\ clk.pc = "test"
    /\ clk' = IF clk.shell_open THEN [clk EXCEPT !.pc = "read"]
              ELSE [clk EXCEPT !.pc = "check", !.cell = 1]
    /\ ScreenQuiet /\ DeviceQuiet

\* create_clock up to its loops.
TestOpen ==
    /\ clk.pc = "test"
    /\ clk' = IF shell_open THEN [clk EXCEPT !.pc = "read"]
              ELSE [clk EXCEPT !.pc = "check", !.cell = 1, !.shell_open = FALSE]
    /\ ScreenQuiet /\ DeviceQuiet

\* Mutant: the flag is not asked for again.
CheckCellUnasked ==
    /\ clk.pc = "check"
    /\ clk' = [clk EXCEPT !.pc = "draw"]
    /\ ScreenQuiet /\ DeviceQuiet

\* A cell of the face: the flag, and then the cell.
CheckCell ==
    /\ clk.pc = "check"
    /\ clk' = [clk EXCEPT !.pc = "draw", !.shell_open = shell_open]
    /\ ScreenQuiet /\ DeviceQuiet

DrawCell ==
    /\ clk.pc = "draw"
    /\ cells' = [cells EXCEPT ![clk.cell] = IF clk.shell_open THEN "black" ELSE "clock"]
    /\ clk' = [clk EXCEPT !.cell = @ + 1, !.pc = IF clk.cell = FaceCells THEN "border" ELSE "check"]
    /\ UNCHANGED <<shell_open, win>> /\ DeviceQuiet

\* The border does not ask again: it goes by the last cell of the face.
DrawBorder ==
    /\ clk.pc = "border" /\ clk.cell \in Cells
    /\ cells' = IF clk.shell_open THEN cells ELSE [cells EXCEPT ![clk.cell] = "clock"]
    /\ clk' = [clk EXCEPT !.cell = @ + 1]
    /\ UNCHANGED <<shell_open, win>> /\ DeviceQuiet

create_clock_returns ==
    /\ clk.pc = "border" /\ clk.cell \notin Cells
    /\ clk' = [clk EXCEPT !.pc = "read", !.cell = 1]
    /\ ScreenQuiet /\ DeviceQuiet

ClockStep ==
    \/ GetClockTime \/ PrintTime \/ TestOpen
    \/ CheckCell \/ DrawCell \/ DrawBorder \/ create_clock_returns

-----------------------------------------------------------------------------
\* The shell opens and closes its window, by system calls of which none runs inside read_rtc.
ShellRuns == rd.pc \in {"idle", "returned"}

\* Ctrl+S: the flag, then SYSCALL_CLEAR_SCREEN of the window, which covers every cell.
OpenWindow ==
    /\ ShellRuns /\ win.pc = "closed"
    /\ shell_open' = TRUE
    /\ win' = [win EXCEPT !.pc = "clear"]
    /\ UNCHANGED <<cells, clk>> /\ DeviceQuiet

ClearWindow ==
    /\ ShellRuns /\ win.pc = "clear"
    /\ cells' = [c \in Cells |-> "black"]
    /\ win' = [win EXCEPT !.pc = "open"]
    /\ UNCHANGED <<shell_open, clk>> /\ DeviceQuiet

\* Ctrl+S again: the flag, then shell_create_bg, a system call per cell.
CloseWindow ==
    /\ ShellRuns /\ win.pc = "open"
    /\ shell_open' = FALSE
    /\ win' = [pc |-> "paint", cell |-> 1]
    /\ UNCHANGED <<cells, clk>> /\ DeviceQuiet

\* Mutant: the loop goes one cell too far.
PaintPast ==
    /\ ShellRuns /\ win.pc = "paint"
    /\ cells' = [cells EXCEPT ![win.cell] = "art"]
    /\ win' = IF win.cell \in Cells THEN [win EXCEPT !.cell = @ + 1]
              ELSE [pc |-> "closed", cell |-> 1]
    /\ UNCHANGED <<shell_open, clk>> /\ DeviceQuiet

PaintBackground ==
    /\ ShellRuns /\ win.pc = "paint"
    /\ cells' = [cells EXCEPT ![win.cell] = "art"]
    /\ win' = IF win.cell + 1 \in Cells THEN [win EXCEPT !.cell = @ + 1]
              ELSE [pc |-> "closed", cell |-> 1]
    /\ UNCHANGED <<shell_open, clk>> /\ DeviceQuiet

ShellStep == ClearWindow \/ PaintBackground

Device == (UpdateBegins \/ Update) /\ UNCHANGED <<cells, shell_open, clk, win>>

ClockNext == ClockStep \/ ShellStep \/ OpenWindow \/ CloseWindow \/ Device

(***************************************************************************)
(* The scheduler runs both programs again and again (EveryProcessRuns), and the     *)
(* device ends an update it began.  Nothing makes the user press Ctrl+S.            *)
(***************************************************************************)
ClockSpec ==
    /\ ClockInit /\ [][ClockNext]_vars
    /\ WF_vars(ClockStep) /\ WF_vars(ShellStep)
    /\ WF_vars(Update /\ UNCHANGED <<cells, shell_open, clk, win>>)

-----------------------------------------------------------------------------
ClockTypeOK ==
    /\ cells \in [Cells -> {"black", "art", "clock"}]
    /\ shell_open \in BOOLEAN
    /\ clk.pc \in {"read", "test", "check", "draw", "border"} /\ clk.cell \in 1 .. FaceCells + BorderCells + 1
    /\ win.pc \in {"closed", "clear", "open", "paint"} /\ win.cell \in Cells
    /\ rtc.time[1] \in 0 .. 59 /\ rtc.changed \in 0 .. 6 /\ ticks \in 0 .. MaxTicks

(***************************************************************************)
(* The window hides the face: however the clock's calls fall among the shell's, at   *)
(* most the one cell whose flag was read too early is drawn over an open, cleared      *)
(* window (the border, which does not ask again, is not held to this).             *)
(***************************************************************************)
FaceSpared == win.pc = "open" => Cardinality({c \in Face : cells[c] = "clock"}) <= 1

(***************************************************************************)
(* And comes back: once the window stays closed, the whole face and its border are     *)
(* on the screen and stay there, although shell_create_bg painted over what the clock     *)
(* had drawn meanwhile.                                                       *)
(***************************************************************************)
FaceReturns == <>[](~ shell_open) => <>[](\A c \in Cells : cells[c] = "clock")
=============================================================================
