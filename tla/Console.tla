------------------------------ MODULE Console -------------------------------
(***************************************************************************)
(* The shell's window: main of user-shell.c reads the keyboard of Keyboard.tla   *)
(* and edits a line on the screen of Screen.tla.                             *)
(*                                                                         *)
(* The loop makes a system call for Ctrl and another for the key, and the        *)
(* keyboard interrupt may come before, between and after them.  What a key sets   *)
(* off is one step, for nothing else reads or moves the cursor and an interrupt    *)
(* only touches the keyboard's state; the loop of Ctrl+Backspace is a step per     *)
(* turn.  What the commands do to the disk is in Shell.tla; here a command is      *)
(* the text it prints.                                                       *)
(*                                                                         *)
(* One shell runs; the clock program draws outside this module (Clock.tla).      *)
(***************************************************************************)
EXTENDS Screen, Keyboard

CONSTANTS
    Up, Down, Left, Right,      \* SHELL_WINDOW_UPPER_HEIGHT, ...: the shell's window
    WelcomeRow, WelcomeCol,     \* where shell_create_bg leaves the cursor
    PromptText,                 \* the prompt with the path
    ClearWord,                  \* the word "clear"
    Outputs,                    \* texts that the other commands print
    HighBytes,                  \* what the bytes above the low one hold in the shell's row and col
    CarefulTyping               \* whether the user stops before the last column of the window

ASSUME ConsoleAssumption ==
    /\ Up \in 1 .. Down /\ Down \in Rows /\ Left \in 0 .. Right /\ Right \in Cols
    /\ WelcomeRow \in Rows /\ WelcomeCol \in Cols
    /\ PromptText \in Seq(STRING) /\ Left + Len(PromptText) < Right
    /\ Outputs \subseteq Seq(STRING)
    /\ CarefulTyping \in BOOLEAN /\ HighBytes \subseteq Int /\ HighBytes # {}

VARIABLES
    screen,     \* the screen of Screen.tla
    sh,         \* main's locals and shell_status
    ctrl        \* no state of the code: Ctrl held at some time, all the time, since the last getchar

vars == <<keyboard_state, presses, held, screen, sh, ctrl>>

ConsoleInit ==
    /\ KeyboardInit
    /\ screen = InitialScreen
    /\ \E high \in HighBytes :
         sh = [pc |-> "main", is_open |-> FALSE, del_limit |-> 0, shell_row |-> 0,
               shell_input |-> <<>>, press_ctrl |-> FALSE, buf |-> NUL, high |-> high,
               \* no state of the code: the row of the prompt, the line carried over into this
               \* opening, the last key taken, and "ctrl" when the key in hand, an s, was taken
               prompt_row |-> 0, carried |-> <<>>, taken |-> 0,
               some |-> FALSE, all |-> FALSE]
    /\ ctrl = [some |-> FALSE, all |-> FALSE]

-----------------------------------------------------------------------------
shell_create_bg(k) ==
    set_cursor([k EXCEPT !.fb = [r \in Rows |-> [c \in Cols |-> Cell(SP, "art")]]],
               WelcomeRow, WelcomeCol)

shell_print_prompt(k) == puts(k, PromptText, "black")

\* shell_input_handler: clear, or any other command, whose text is printed.
Arg0(input) ==
    LET space == SelectInSeq(input, LAMBDA ch : ch = SP)
    IN  IF space = 0 THEN input ELSE SubSeq(input, 1, space - 1)

shell_input_handler(k, input, out) ==
    IF Arg0(input) = ClearWord
    THEN shell_print_prompt(set_cursor(clear_screen(k), Up, Left))
    ELSE puts(k, out, "black")

\* main as far as its loop.
Main ==
    /\ sh.pc = "main"
    /\ keyboard_state' = Activated
    /\ screen' = set_keyboard_borders(shell_create_bg(screen), Up, Down, Left, Right)
    /\ sh' = [sh EXCEPT !.pc = "ctrl", !.shell_row = Up]
    /\ UNCHANGED <<presses, held, ctrl>>

\* Mutant: Ctrl once seen is not forgotten.
PollCtrlSticky ==
    /\ sh.pc = "ctrl"
    /\ sh' = [sh EXCEPT !.pc = "getchar", !.press_ctrl = @ \/ keyboard_state.press_ctrl]
    /\ UNCHANGED <<kbdvars, screen, ctrl>>

PollCtrl ==
    /\ sh.pc = "ctrl"
    /\ sh' = [sh EXCEPT !.pc = "getchar", !.press_ctrl = keyboard_state.press_ctrl]
    /\ UNCHANGED <<kbdvars, screen, ctrl>>

Getchar ==
    LET buffer == keyboard_state.keyboard_buffer IN
    /\ sh.pc = "getchar"
    /\ keyboard_state' = BufferTaken
    /\ sh' = [sh EXCEPT !.pc = "handle", !.buf = buffer.ch,
                        !.taken = IF buffer = NoKey THEN @ ELSE buffer.key,
                        !.some = ctrl.some /\ buffer.ch = "s", !.all = ctrl.all /\ buffer.ch = "s"]
    /\ ctrl' = [some |-> CtrlHeld, all |-> CtrlHeld]
    /\ UNCHANGED <<presses, held, screen>>

-----------------------------------------------------------------------------
\* The key in hand; each action below is one branch of the loop's body.
Handle(newscreen, newsh) ==
    /\ sh.pc = "handle"
    /\ screen' = newscreen
    /\ sh' = newsh
    /\ UNCHANGED <<kbdvars, ctrl>>

Toggle == sh.press_ctrl /\ sh.buf = "s"
Loop(s) == [s EXCEPT !.pc = "ctrl", !.buf = NUL, !.some = FALSE, !.all = FALSE]
\* shell_print_prompt's last system call.
Prompted(s, k) == [s EXCEPT !.del_limit = k.col, !.prompt_row = k.row]

OpenShell ==
    LET header == [c \in 1 .. Right + 1 - Left |-> SP]
        k == shell_print_prompt(puts(set_cursor(clear_screen(screen), Up - 1, Left), header, "header"))
    IN
    /\ ~ sh.is_open /\ Toggle
    /\ Handle(k, [Prompted(Loop(sh), k) EXCEPT !.is_open = TRUE, !.carried = sh.shell_input])

CloseShell ==
    /\ sh.is_open /\ Toggle
    /\ Handle(shell_create_bg(screen), [Loop(sh) EXCEPT !.is_open = FALSE])

\* Mutant: the line is not emptied.
EnterKeepsLine(out) ==
    LET printed == shell_input_handler(putchar(screen, NL, "black"), sh.shell_input, out)
        k == IF sh.shell_input = ClearWord THEN printed
             ELSE shell_print_prompt(puts(printed, <<NL, NL>>, "black"))
    IN
    /\ sh.is_open /\ ~ Toggle /\ sh.buf = NL
    /\ Handle(k, [Prompted(Loop(sh), k) EXCEPT !.shell_row = k.row, !.carried = <<>>])

EnterLine(out) ==
    LET printed == shell_input_handler(putchar(screen, NL, "black"), sh.shell_input, out)
        k == IF sh.shell_input = ClearWord THEN printed
             ELSE shell_print_prompt(puts(printed, <<NL, NL>>, "black"))
    IN
    /\ sh.is_open /\ ~ Toggle /\ sh.buf = NL
    /\ Handle(k, [Prompted(Loop(sh), k) EXCEPT !.shell_row = k.row, !.shell_input = <<>>,
                                              !.carried = <<>>])

\* Mutant: the prompt's own row counts as below it.
ErasableAnywhere(k) ==
    k.col + 256 * sh.high > sh.del_limit \/ k.row + 256 * sh.high >= sh.shell_row

\* int col and row receive one byte each; the others are what the stack held.
Erasable(k) ==
    k.col + 256 * sh.high > sh.del_limit \/ k.row + 256 * sh.high > sh.shell_row

Backspace ==
    /\ sh.is_open /\ ~ Toggle /\ sh.buf = BS
    /\ Handle(screen, IF Erasable(screen) THEN [sh EXCEPT !.pc = "erase"] ELSE Loop(sh))

\* One turn of the loop that erases; the byte before an empty line may be anything.
Erase ==
    LET k     == putchar(screen, BS, "black")
        n     == Len(sh.shell_input)
        input == IF n > 0 THEN Front(sh.shell_input) ELSE <<>>
        word  == IF input = <<>> THEN BOOLEAN ELSE {Last(input) # SP}
    IN
    /\ sh.pc = "erase"
    /\ screen' = k
    /\ \E more \in word :
         sh' = IF more /\ Erasable(k) /\ sh.press_ctrl
               THEN [sh EXCEPT !.shell_input = input]
               ELSE [Loop(sh) EXCEPT !.shell_input = input]
    /\ UNCHANGED <<kbdvars, ctrl>>

TypeChar ==
    /\ sh.is_open /\ ~ Toggle /\ sh.buf \notin {NL, BS, NUL}
    /\ Handle(putchar(screen, sh.buf, "black"),
              [Loop(sh) EXCEPT !.shell_input = Append(@, sh.buf)])

DropKey ==
    /\ ~ Toggle /\ (~ sh.is_open \/ sh.buf = NUL)
    /\ Handle(screen, Loop(sh))

ShellStep ==
    \/ Main \/ PollCtrl \/ Getchar
    \/ OpenShell \/ CloseShell \/ Backspace \/ Erase \/ TypeChar \/ DropKey
    \/ \E out \in Outputs : EnterLine(out)

-----------------------------------------------------------------------------
\* The key in hand and this one still fit before the window's last column.
RoomToType ==
    sh.is_open => screen.col + (IF sh.pc = "handle" THEN 1 ELSE 0) + 1 <= screen.right_limit

Interrupt ==
    /\ \/ \E k \in CtrlKeys \cup ShiftKeys : ModifierDown(k) \/ ModifierUp(k)
       \/ \E c \in CharKeys : (CarefulTyping => c \in {NL, BS} \/ RoomToType) /\ KeyDown(c)
       \/ OtherCode
    /\ ctrl' = [some |-> ctrl.some \/ (held' \cap CtrlKeys # {}),
                all  |-> ctrl.all /\ (held' \cap CtrlKeys # {})]
    /\ UNCHANGED <<screen, sh>>

ConsoleNext == Interrupt \/ ShellStep
ConsoleSpec == ConsoleInit /\ [][ConsoleNext]_vars

-----------------------------------------------------------------------------
ConsoleTypeOK ==
    /\ KeyboardTypeOK
    /\ ScreenTypeOK(screen)
    /\ sh.pc \in {"main", "ctrl", "getchar", "handle", "erase"}
    /\ sh.del_limit \in Byte /\ sh.shell_row \in Byte
    /\ Len(sh.shell_input) <= presses

(***************************************************************************)
(* What SYSCALL_GETCHAR hands the shell are key presses in their order, none      *)
(* twice, however the keyboard's interrupts fall between its polls.             *)
(***************************************************************************)
KeysInOrder ==
    [][(sh.pc = "getchar" /\ sh'.pc = "handle" /\ sh'.buf # NUL) => sh'.taken > sh.taken]_vars

(***************************************************************************)
(* "Handler if user presses ctrl + s": the window opens or closes only for an s    *)
(* with Ctrl held at some time since the last key was asked for, and always if      *)
(* Ctrl was held all that time (a keyboard with one Ctrl key).  More cannot be       *)
(* said: Ctrl is asked for before the key.                                    *)
(***************************************************************************)
ToggleFollowsKeys ==
    [][(sh.pc = "handle" /\ sh'.pc # "handle") =>
         /\ sh'.is_open # sh.is_open => sh.some
         /\ sh.all => sh'.is_open # sh.is_open]_vars

\* The text from the end of the prompt to the cursor, over the ends of rows.
Place(row, col) == row * (Right + 1 - Left) + col - Left
LineText ==
    LET from == Place(sh.prompt_row, sh.del_limit)
        row(p) == p \div (Right + 1 - Left)
        col(p) == Left + (p % (Right + 1 - Left))
    IN  [i \in 1 .. Place(screen.row, screen.col) - from |->
            screen.fb[row(from + i - 1)][col(from + i - 1)].ch]

(***************************************************************************)
(* "Remove last character from shell input": the line on the screen is the line    *)
(* that Enter will run, after any typing, Backspace and Ctrl+Backspace, and behind   *)
(* what a closed window left in shell_input, which main does not empty.           *)
(***************************************************************************)
LineShowsInput == sh.is_open => sh.shell_input = sh.carried \o LineText

(***************************************************************************)
(* puts and clear keep to the window: while it is open the cursor is in it, the    *)
(* prompt stands before the line, and what lies around window and header is still    *)
(* the background, whatever was printed and scrolled.  Closed, all is background.   *)
(***************************************************************************)
WindowKept ==
    /\ sh.is_open =>
         /\ InWindow(screen, screen.row, screen.col)
         /\ [i \in 1 .. Len(PromptText) |->
               screen.fb[sh.prompt_row][sh.del_limit - Len(PromptText) + i - 1].ch] = PromptText
    /\ sh.pc # "main" => \A r \in Rows, c \in Cols :
         (screen.fb[r][c].bg # "art") <=> (sh.is_open /\ r \in Up - 1 .. Down /\ c \in Left .. Right)

(***************************************************************************)
(* Ctrl+Backspace comes to an end: every turn that is followed by another takes    *)
(* a character off the line and moves the cursor back on the screen.             *)
(***************************************************************************)
ErasingEnds ==
    [][(Erase /\ sh'.pc = "erase") =>
         /\ Len(sh'.shell_input) < Len(sh.shell_input)
         /\ Place(screen'.row, screen'.col) < Place(screen.row, screen.col)]_vars
=============================================================================
