------------------------------- MODULE Screen -------------------------------
(***************************************************************************)
(* The text screen: framebuffer_write, and the screen system calls of           *)
(* interrupt.c as operators from one screen to the next.  A system call runs     *)
(* with interrupts off, so each is one step of the program that makes it.       *)
(*                                                                         *)
(* A screen is the part of keyboard_state that puts uses (cursor, limits and    *)
(* the last column written in each row) and the framebuffer.  A cell is a        *)
(* character and a background; the foreground colour is left out.              *)
(***************************************************************************)
EXTENDS Integers, Sequences, SequencesExt

CONSTANTS
    FRAMEBUFFER_HEIGHT, FRAMEBUFFER_WIDTH       \* 25 and 80

ASSUME ScreenAssumption ==
    FRAMEBUFFER_HEIGHT \in 1 .. 256 /\ FRAMEBUFFER_WIDTH \in 1 .. 256

Rows == 0 .. FRAMEBUFFER_HEIGHT - 1
Cols == 0 .. FRAMEBUFFER_WIDTH - 1
Byte == 0 .. 255

\* The characters puts treats specially; NUL is what clearing leaves.
NUL == "NUL"
NL  == "\\n"
BS  == "\\b"
TAB == "\\t"
SP  == " "
Cell(ch, bg) == [ch |-> ch, bg |-> bg]

framebuffer_write(k, row, col, cell) ==
    IF row \in Rows /\ col \in Cols THEN [k EXCEPT !.fb[row][col] = cell] ELSE k

\* Columns and rows between the limits.
InWindow(k, row, col) ==
    row \in k.up_limit .. k.down_limit /\ col \in k.left_limit .. k.right_limit

\* Mutant: the scroll takes one column too many.
ScrollUpWide(k) ==
    [k EXCEPT !.fb = [r \in Rows |-> [c \in Cols |->
        IF ~ (InWindow(k, r, c) \/ InWindow(k, r, c - 1)) THEN k.fb[r][c]
        ELSE IF r = k.down_limit THEN Cell(SP, "black")
        ELSE k.fb[r + 1][c]]]]

\* The window's rows move up by one; the last becomes blank.
ScrollUp(k) ==
    [k EXCEPT !.fb = [r \in Rows |-> [c \in Cols |->
        IF ~ InWindow(k, r, c) THEN k.fb[r][c]
        ELSE IF r = k.down_limit THEN Cell(SP, "black")
        ELSE k.fb[r + 1][c]]]]

\* One character of puts.
PutNewline(k) ==
    [(IF k.row = k.down_limit THEN ScrollUp(k) ELSE [k EXCEPT !.row = (@ + 1) % 256])
        EXCEPT !.col = k.left_limit]

PutBackspace(k) ==
    IF k.col > k.left_limit
    THEN framebuffer_write([k EXCEPT !.col = @ - 1], k.row, k.col - 1, Cell(SP, "black"))
    ELSE IF k.row > k.up_limit
    THEN [k EXCEPT !.row = @ - 1, !.col = (k.last_non_space_col[k.row - 1] + 1) % 256]
    ELSE k

PutTab(k) == [k EXCEPT !.col = (((@ + 4) \div 4) * 4) % 256]

PutPrintable(k, ch, bg) ==
    LET written == [framebuffer_write(k, k.row, k.col, Cell(ch, bg))
                        EXCEPT !.last_non_space_col[k.row] = k.col]
    IN  IF k.col # k.right_limit THEN [written EXCEPT !.col = (@ + 1) % 256]
        ELSE IF k.row = k.down_limit THEN written
        ELSE [written EXCEPT !.row = @ + 1, !.col = k.left_limit]

putchar(k, ch, bg) ==
    CASE ch = NL  -> PutNewline(k)
      [] ch = BS  -> PutBackspace(k)
      [] ch = TAB -> PutTab(k)
      [] OTHER    -> PutPrintable(k, ch, bg)

puts(k, str, bg) ==
    LET after[n \in 0 .. Len(str)] == IF n = 0 THEN k ELSE putchar(after[n - 1], str[n], bg)
    IN  after[Len(str)]

\* The other screen system calls.
clear_screen(k) ==
    [k EXCEPT !.fb = [r \in Rows |-> [c \in Cols |->
        IF InWindow(k, r, c) THEN Cell(NUL, "black") ELSE k.fb[r][c]]]]

set_cursor(k, row, col) == [k EXCEPT !.row = row % 256, !.col = col % 256]

set_keyboard_borders(k, up, down, left, right) ==
    [k EXCEPT !.up_limit = up, !.down_limit = down, !.left_limit = left, !.right_limit = right]

\* keyboard_state's initial value.  What boot left on the screen counts as blank: the shell
\* paints every cell before anything else.
InitialScreen ==
    [row |-> 0, col |-> 0, last_non_space_col |-> [r \in Rows |-> 0],
     up_limit |-> 0, down_limit |-> FRAMEBUFFER_HEIGHT - 1,
     left_limit |-> 0, right_limit |-> FRAMEBUFFER_WIDTH - 1,
     fb |-> [r \in Rows |-> [c \in Cols |-> Cell(NUL, "black")]]]

ScreenTypeOK(k) ==
    /\ k.row \in Byte /\ k.col \in Byte
    /\ k.last_non_space_col \in [Rows -> Byte]
    /\ {k.up_limit, k.down_limit} \subseteq Rows /\ {k.left_limit, k.right_limit} \subseteq Cols
    /\ DOMAIN k.fb = Rows /\ \A r \in Rows : DOMAIN k.fb[r] = Cols
=============================================================================
