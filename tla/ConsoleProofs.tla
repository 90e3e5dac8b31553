---------------------------- MODULE ConsoleProofs ----------------------------
(***************************************************************************)
(* The shell's window and its line, for every size of screen and window, every     *)
(* prompt, every set of keys and every number of key presses.                   *)
(*                                                                         *)
(* KeyInv is about the keyboard alone and supposes nothing.  LineInv, about the    *)
(* screen, supposes Plain: what the window does at its last column, with tabs and   *)
(* with bytes left over on the stack is not what the properties say.             *)
(***************************************************************************)
EXTENDS Console, SetLemmas, SequenceTheorems, TLAPS

\* A keyboard with one Ctrl key.
OneCtrl == \A a, b \in CtrlKeys : a = b

PCs == {"main", "ctrl", "getchar", "handle", "erase"}

\* The shell's record has these fields.
Fields == {"pc", "is_open", "del_limit", "shell_row", "shell_input", "press_ctrl", "buf", "high",
           "prompt_row", "carried", "taken", "some", "all"}
ShellRec(s) == s = [f \in Fields |-> s[f]]

\* A key waiting in the buffer is younger than the last one taken.
Waiting(b, taken, n) == b = NoKey \/ (b.key \in taken + 1 .. n)

KeyTypes ==
    /\ KeyboardTypeOK
    /\ ShellRec(sh) /\ sh.pc \in PCs /\ sh.is_open \in BOOLEAN /\ sh.press_ctrl \in BOOLEAN
    /\ sh.some \in BOOLEAN /\ sh.all \in BOOLEAN /\ sh.taken \in 0 .. presses
    /\ ctrl \in [some : BOOLEAN, all : BOOLEAN]

\* Ctrl as the driver sees it, as the keys are, and as the shell saw it.
CtrlKnown ==
    /\ CtrlHeld => ctrl.some
    /\ ctrl.all => CtrlHeld
    /\ OneCtrl => (CtrlHeld => keyboard_state.press_ctrl)
    /\ sh.pc = "getchar" => /\ sh.press_ctrl => ctrl.some
                            /\ OneCtrl => (ctrl.all => sh.press_ctrl)
    /\ sh.pc = "handle" => /\ Toggle => sh.some
                           /\ sh.all => sh.buf = "s" /\ (OneCtrl => sh.press_ctrl)

KeyInv ==
    /\ KeyTypes
    /\ NoStuckModifier
    /\ Waiting(keyboard_state.keyboard_buffer, sh.taken, presses)
    /\ CtrlKnown
    /\ ~ keyboard_state.keyboard_input_on => held = {}

(***************************************************************************)
(* What the theorems on the window suppose: the user stops before its last column,   *)
(* the bytes main's row and col do not receive are zero, no text and no key has a     *)
(* tab, no text a backspace, the prompt is one line and "clear" one word.           *)
(***************************************************************************)
Plain ==
    /\ CarefulTyping /\ HighBytes = {0}
    /\ \A i \in 1 .. Len(PromptText) : PromptText[i] \notin {NL, BS, TAB}
    /\ \A out \in Outputs : \A i \in 1 .. Len(out) : out[i] \notin {BS, TAB}
    /\ \A c \in CharKeys : c # TAB /\ Shifted[c] # TAB /\ (c \in {NL, BS} => Shifted[c] = c)
    /\ Arg0(ClearWord) = ClearWord

\* A screen with the shell's limits.
ScreenFields == {"row", "col", "last_non_space_col", "up_limit", "down_limit",
                 "left_limit", "right_limit", "fb"}
Shaped(fb) == DOMAIN fb = Rows /\ \A r \in Rows : DOMAIN fb[r] = Cols
ScreenRec(k) ==
    /\ k = [f \in ScreenFields |-> k[f]]
    /\ Shaped(k.fb)
    /\ k.last_non_space_col \in [Rows -> Byte]
Limits(k) == /\ k.up_limit = Up /\ k.down_limit = Down
             /\ k.left_limit = Left /\ k.right_limit = Right
Inside(k) == k.row \in Up .. Down /\ k.col \in Left .. Right

\* Window and header are painted, the rest is background.
Painted(k) ==
    \A r \in Rows, c \in Cols :
        (k.fb[r][c].bg # "art") <=> (r \in Up - 1 .. Down /\ c \in Left .. Right)
Background(k) == \A r \in Rows, c \in Cols : k.fb[r][c].bg = "art"

\* The window while it is open, and the prompt just printed on it.
Window(k) == ScreenRec(k) /\ Limits(k) /\ Inside(k) /\ Painted(k)
PromptAt(k, row) == \A i \in 1 .. Len(PromptText) : k.fb[row][Left + i - 1].ch = PromptText[i]
LineStart == Left + Len(PromptText)

\* What the keyboard hands over.
Chars == CharKeys \cup {Shifted[c] : c \in CharKeys} \cup {"NUL"}

\* The line on the prompt's row.
RowText(k, row) == [i \in 1 .. k.col - LineStart |-> k.fb[row][LineStart + i - 1].ch]

\* A character that will take a column.
Wide(ch) == IF ch \in {NL, BS, NUL} THEN 0 ELSE 1
InHand(s) == IF s.pc = "handle" THEN Wide(s.buf) ELSE 0

LineOpen(k, s, kbd) ==
    /\ Window(k)
    /\ s.prompt_row = k.row /\ s.del_limit = LineStart
    /\ PromptAt(k, k.row)
    /\ k.col >= LineStart
    /\ k.col + InHand(s) + Wide(kbd.keyboard_buffer.ch) <= Right
    /\ s.shell_row >= k.row
    /\ RowText(k, k.row) \in Seq(Chars)
    /\ s.shell_input = s.carried \o RowText(k, k.row)
    /\ s.pc = "erase" => k.col > LineStart

LineInv ==
    /\ sh.high = 0
    /\ sh.shell_input \in Seq(Chars) /\ sh.carried \in Seq(Chars)
    /\ Len(sh.shell_input) + (IF sh.pc = "handle" THEN Wide(sh.buf) ELSE 0) <= sh.taken
    /\ sh.pc = "main" => /\ ~ sh.is_open /\ screen = InitialScreen
                         /\ sh.del_limit = 0 /\ sh.shell_row = 0 /\ sh.buf = NUL
                         /\ ~ keyboard_state.keyboard_input_on
                         /\ keyboard_state.keyboard_buffer = NoKey
    /\ sh.pc # "main" =>
         /\ sh.shell_row \in Up .. Down /\ sh.del_limit \in Byte
         /\ sh.buf # TAB /\ keyboard_state.keyboard_buffer.ch # TAB
         /\ sh.buf \in Chars
         /\ ~ sh.is_open => /\ ScreenRec(screen) /\ Limits(screen) /\ Background(screen)
                            /\ screen.row \in Rows /\ screen.col \in Cols
                            /\ sh.pc # "erase"
         /\ sh.is_open => LineOpen(screen, sh, keyboard_state)

-----------------------------------------------------------------------------
(***************************************************************************)
(* The keyboard.                                                           *)
(***************************************************************************)

\* A step of the shell that handles a key leaves the keyboard alone and drops the key.
KeyDropped(t) ==
    /\ ShellRec(t) /\ t.pc \in {"ctrl", "erase"} /\ t.is_open \in BOOLEAN
    /\ t.press_ctrl = sh.press_ctrl /\ t.taken = sh.taken
    /\ t.some \in BOOLEAN /\ t.all \in BOOLEAN

\* Going round the loop of main.
LEMMA LoopFacts ==
    ASSUME NEW s, ShellRec(s)
    PROVE  /\ ShellRec(Loop(s)) /\ Loop(s).pc = "ctrl" /\ Loop(s).buf = NUL
           /\ Loop(s).is_open = s.is_open /\ Loop(s).press_ctrl = s.press_ctrl
           /\ Loop(s).taken = s.taken /\ Loop(s).high = s.high
           /\ Loop(s).del_limit = s.del_limit /\ Loop(s).shell_row = s.shell_row
           /\ Loop(s).shell_input = s.shell_input /\ Loop(s).prompt_row = s.prompt_row
           /\ Loop(s).carried = s.carried
           /\ Loop(s).some \in BOOLEAN /\ Loop(s).all \in BOOLEAN
  BY DEF ShellRec, Fields, Loop

\* The keyboard's record, field by field.
LEMMA KeyboardFacts ==
    ASSUME KeyboardTypeOK
    PROVE  keyboard_state = [keyboard_input_on |-> keyboard_state.keyboard_input_on,
             press_shift |-> keyboard_state.press_shift, press_ctrl |-> keyboard_state.press_ctrl,
             keyboard_buffer |-> keyboard_state.keyboard_buffer]
  BY DEF KeyboardTypeOK

\* The keyboard before main runs.
LEMMA InitKeys == ConsoleInit => KeyInv
<1> SUFFICES ASSUME ConsoleInit PROVE KeyInv
  OBVIOUS
<1>1. /\ keyboard_state = [keyboard_input_on |-> FALSE, press_shift |-> FALSE,
                           press_ctrl |-> FALSE, keyboard_buffer |-> NoKey]
      /\ presses = 0 /\ held = {}
  BY DEF ConsoleInit, KeyboardInit
<1>2. KeyboardTypeOK
  BY <1>1, KeyboardAssumption DEF KeyboardTypeOK, NoKey
<1>3. /\ ShellRec(sh) /\ sh.pc = "main" /\ sh.taken = 0
      /\ sh.is_open \in BOOLEAN /\ sh.press_ctrl \in BOOLEAN
      /\ sh.some \in BOOLEAN /\ sh.all \in BOOLEAN
  BY DEF ConsoleInit, ShellRec, Fields
<1>4. ctrl \in [some : BOOLEAN, all : BOOLEAN] /\ ~ ctrl.some /\ ~ ctrl.all
  BY DEF ConsoleInit
<1>5. KeyTypes
  BY <1>1, <1>2, <1>3, <1>4 DEF KeyTypes, PCs
<1>6. NoStuckModifier /\ CtrlKnown
  BY <1>1, <1>3, <1>4 DEF NoStuckModifier, CtrlKnown, CtrlHeld
<1> QED
  BY <1>1, <1>5, <1>6 DEF KeyInv, Waiting

\* Handling a key, all branches.
LEMMA DroppedKeys ==
    ASSUME KeyInv, KeyDropped(sh'), UNCHANGED <<kbdvars, ctrl>>
    PROVE  KeyInv'
<1>1. UNCHANGED <<keyboard_state, presses, held, ctrl>>
  BY DEF kbdvars
<1>2. KeyTypes'
  BY <1>1 DEF KeyInv, KeyTypes, KeyDropped, PCs, KeyboardTypeOK
<1>3. CtrlKnown'
  BY <1>1 DEF KeyInv, CtrlKnown, KeyDropped, CtrlHeld
<1>4. NoStuckModifier' /\ Waiting(keyboard_state.keyboard_buffer, sh.taken, presses)'
  BY <1>1 DEF KeyInv, NoStuckModifier, CtrlHeld, KeyDropped, Waiting
<1> QED
  BY <1>1, <1>2, <1>3, <1>4 DEF KeyInv

-----------------------------------------------------------------------------
\* The interrupt: what it does to Ctrl and to the shell's view of it.
CtrlNoted ==
    /\ ctrl' = [some |-> ctrl.some \/ (held' \cap CtrlKeys # {}),
                all  |-> ctrl.all /\ (held' \cap CtrlKeys # {})]
    /\ sh' = sh

\* What is noted of Ctrl stays true of the keys.
LEMMA NotedFacts ==
    ASSUME KeyInv, CtrlNoted
    PROVE  /\ ctrl' \in [some : BOOLEAN, all : BOOLEAN]
           /\ ctrl.some => ctrl'.some
           /\ ctrl'.all => ctrl.all
           /\ CtrlHeld' => ctrl'.some
           /\ ctrl'.all => CtrlHeld'
  BY DEF CtrlNoted, CtrlHeld, KeyInv, KeyTypes

\* An interrupt keeps what the shell knows, if the flags still follow the keys.
LEMMA NotedKeys ==
    ASSUME KeyInv, CtrlNoted, KeyboardTypeOK', NoStuckModifier', presses <= presses',
           Waiting(keyboard_state.keyboard_buffer, sh.taken, presses)',
           OneCtrl => (CtrlHeld' => keyboard_state'.press_ctrl),
           keyboard_state'.keyboard_input_on
    PROVE  KeyInv'
<1>1. sh' = sh
  BY DEF CtrlNoted
<1>2. KeyTypes'
  BY <1>1, NotedFacts DEF KeyInv, KeyTypes, KeyboardTypeOK
<1>3. CtrlKnown'
  BY <1>1, NotedFacts DEF KeyInv, CtrlKnown, Toggle
<1> QED
  BY <1>2, <1>3 DEF KeyInv

\* The make code of a modifier.
LEMMA ModifierDownKeys ==
    ASSUME KeyInv, CtrlNoted, NEW k \in CtrlKeys \cup ShiftKeys, ModifierDown(k)
    PROVE  KeyInv'
<1> USE DEF ModifierDown
<1> DEFINE yes == TRUE
<1>1. KeyboardTypeOK /\ NoStuckModifier /\ Waiting(keyboard_state.keyboard_buffer, sh.taken, presses)
  BY DEF KeyInv, KeyTypes
<1>2. /\ keyboard_state'.keyboard_input_on = keyboard_state.keyboard_input_on
      /\ keyboard_state'.keyboard_buffer = keyboard_state.keyboard_buffer
      /\ k \in CtrlKeys => /\ keyboard_state'.press_ctrl = yes
                           /\ keyboard_state'.press_shift = keyboard_state.press_shift
      /\ k \notin CtrlKeys => /\ keyboard_state'.press_ctrl = keyboard_state.press_ctrl
                              /\ keyboard_state'.press_shift = yes
      /\ keyboard_state' = [keyboard_input_on |-> keyboard_state'.keyboard_input_on,
             press_shift |-> keyboard_state'.press_shift, press_ctrl |-> keyboard_state'.press_ctrl,
             keyboard_buffer |-> keyboard_state'.keyboard_buffer]
  <2>1. keyboard_state' = IF k \in CtrlKeys THEN [keyboard_state EXCEPT !.press_ctrl = yes]
                                            ELSE [keyboard_state EXCEPT !.press_shift = yes]
    OBVIOUS
  <2> HIDE DEF yes, ModifierDown
  <2> QED
    BY <1>1, <2>1, KeyboardFacts
<1>3. KeyboardTypeOK'
  BY <1>1, <1>2 DEF KeyboardTypeOK
<1>4. NoStuckModifier' /\ (OneCtrl => (CtrlHeld' => keyboard_state'.press_ctrl))
  BY <1>1, <1>2 DEF KeyInv, NoStuckModifier, CtrlHeld, CtrlKnown
<1>5. presses' = presses /\ sh' = sh /\ presses \in Nat
  BY <1>1 DEF CtrlNoted, KeyboardTypeOK
<1>6. Waiting(keyboard_state.keyboard_buffer, sh.taken, presses)'
  BY <1>1, <1>2, <1>5
<1> HIDE DEF ModifierDown
<1> QED
  BY <1>2, <1>3, <1>4, <1>5, <1>6, NotedKeys DEF ModifierDown

\* The break code of a modifier that is held.
LEMMA ModifierUpKeys ==
    ASSUME KeyInv, CtrlNoted, NEW k \in CtrlKeys \cup ShiftKeys, ModifierUp(k)
    PROVE  KeyInv'
<1> USE DEF ModifierUp
<1> DEFINE no == FALSE
<1>1. KeyboardTypeOK /\ NoStuckModifier /\ Waiting(keyboard_state.keyboard_buffer, sh.taken, presses)
  BY DEF KeyInv, KeyTypes
<1>2. /\ keyboard_state'.keyboard_input_on = keyboard_state.keyboard_input_on
      /\ keyboard_state'.keyboard_buffer = keyboard_state.keyboard_buffer
      /\ k \in CtrlKeys => /\ keyboard_state'.press_ctrl = no
                           /\ keyboard_state'.press_shift = keyboard_state.press_shift
      /\ k \notin CtrlKeys => /\ keyboard_state'.press_ctrl = keyboard_state.press_ctrl
                              /\ keyboard_state'.press_shift = no
      /\ keyboard_state' = [keyboard_input_on |-> keyboard_state'.keyboard_input_on,
             press_shift |-> keyboard_state'.press_shift, press_ctrl |-> keyboard_state'.press_ctrl,
             keyboard_buffer |-> keyboard_state'.keyboard_buffer]
  <2>1. keyboard_state' = IF k \in CtrlKeys THEN [keyboard_state EXCEPT !.press_ctrl = no]
                                            ELSE [keyboard_state EXCEPT !.press_shift = no]
    OBVIOUS
  <2> HIDE DEF no, ModifierUp
  <2> QED
    BY <1>1, <2>1, KeyboardFacts
<1>3. KeyboardTypeOK'
  BY <1>1, <1>2 DEF KeyboardTypeOK
<1>4. NoStuckModifier'
  BY <1>1, <1>2, KeyboardAssumption DEF NoStuckModifier, CtrlHeld
<1>5. OneCtrl => (CtrlHeld' => keyboard_state'.press_ctrl)
  BY <1>2 DEF KeyInv, CtrlHeld, CtrlKnown, OneCtrl
<1>6. /\ presses' = presses /\ sh' = sh /\ presses \in Nat
      /\ keyboard_state'.keyboard_input_on
  BY <1>1, <1>2 DEF CtrlNoted, KeyboardTypeOK, KeyInv
<1>7. Waiting(keyboard_state.keyboard_buffer, sh.taken, presses)'
  BY <1>1, <1>2, <1>6
<1> HIDE DEF ModifierUp
<1> QED
  BY <1>3, <1>4, <1>5, <1>6, <1>7, NotedKeys

\* The buffer alone changes: a key with a character, or a code without one.
LEMMA BufferKeys ==
    ASSUME KeyInv, CtrlNoted, keyboard_state.keyboard_input_on, held' = held,
           NEW b \in [ch : CharKeys \cup {Shifted[c] : c \in CharKeys} \cup {"NUL"}, key : 0 .. MaxKeys],
           keyboard_state' = [keyboard_state EXCEPT !.keyboard_buffer = b],
           presses' \in presses .. MaxKeys, Waiting(b, sh.taken, presses')
    PROVE  KeyInv'
<1>1. KeyboardTypeOK /\ NoStuckModifier
  BY DEF KeyInv, KeyTypes
<1>2. /\ keyboard_state' = [keyboard_input_on |-> keyboard_state.keyboard_input_on,
             press_shift |-> keyboard_state.press_shift, press_ctrl |-> keyboard_state.press_ctrl,
             keyboard_buffer |-> b]
      /\ keyboard_state'.keyboard_input_on = keyboard_state.keyboard_input_on
      /\ keyboard_state'.keyboard_buffer = b
      /\ keyboard_state'.press_ctrl = keyboard_state.press_ctrl
      /\ keyboard_state'.press_shift = keyboard_state.press_shift
  BY <1>1, KeyboardFacts
<1>3. presses \in 0 .. MaxKeys /\ presses' \in 0 .. MaxKeys /\ presses <= presses'
  BY <1>1, KeyboardAssumption DEF KeyboardTypeOK
<1>4. KeyboardTypeOK'
  BY <1>1, <1>2, <1>3 DEF KeyboardTypeOK
<1>5. NoStuckModifier' /\ (OneCtrl => (CtrlHeld' => keyboard_state'.press_ctrl))
  BY <1>1, <1>2 DEF KeyInv, NoStuckModifier, CtrlHeld, CtrlKnown
<1>6. sh' = sh
  BY DEF CtrlNoted
<1>7. Waiting(keyboard_state.keyboard_buffer, sh.taken, presses)'
  BY <1>2, <1>6
<1> QED
  BY <1>2, <1>3, <1>4, <1>5, <1>7, NotedKeys

\* Every interrupt of the keyboard.
LEMMA InterruptKeys ==
    ASSUME KeyInv, Interrupt
    PROVE  KeyInv'
<1>1. CtrlNoted
  BY DEF Interrupt, CtrlNoted
<1>2. CASE \E k \in CtrlKeys \cup ShiftKeys : ModifierDown(k) \/ ModifierUp(k)
  BY <1>1, <1>2, ModifierDownKeys, ModifierUpKeys
<1>3. KeyboardTypeOK /\ sh.taken \in 0 .. presses
  BY DEF KeyInv, KeyTypes
<1>4. CASE \E c \in CharKeys : KeyDown(c)
  <2>1. PICK c \in CharKeys : KeyDown(c)
    BY <1>4
  <2> DEFINE b == [ch |-> AsciiOf(c), key |-> presses + 1]
  <2>2. AsciiOf(c) \in CharKeys \cup {Shifted[d] : d \in CharKeys}
    BY DEF AsciiOf
  <2>3. presses + 1 \in 0 .. MaxKeys /\ presses' = presses + 1 /\ presses' \in presses .. MaxKeys
    BY <1>3, <2>1, KeyboardAssumption DEF KeyDown, KeyboardTypeOK
  <2>4. b \in [ch : CharKeys \cup {Shifted[d] : d \in CharKeys} \cup {"NUL"}, key : 0 .. MaxKeys]
    BY <2>2, <2>3
  <2>5. Waiting(b, sh.taken, presses')
    BY <1>3, <2>3 DEF Waiting, KeyboardTypeOK
  <2>6. /\ keyboard_state.keyboard_input_on /\ held' = held
        /\ keyboard_state' = [keyboard_state EXCEPT !.keyboard_buffer = b]
    BY <2>1 DEF KeyDown
  <2> HIDE DEF b
  <2> QED
    BY <1>1, <2>3, <2>4, <2>5, <2>6, BufferKeys
<1>5. CASE OtherCode
  <2>1. NoKey \in [ch : CharKeys \cup {Shifted[d] : d \in CharKeys} \cup {"NUL"}, key : 0 .. MaxKeys]
    BY KeyboardAssumption DEF NoKey
  <2>2. presses' \in presses .. MaxKeys
    BY <1>3, <1>5, KeyboardAssumption DEF OtherCode, KeyboardTypeOK
  <2>3. Waiting(NoKey, sh.taken, presses')
    BY DEF Waiting
  <2> QED
    BY <1>1, <1>5, <2>1, <2>2, <2>3, BufferKeys DEF OtherCode
<1> QED
  BY <1>2, <1>4, <1>5 DEF Interrupt

-----------------------------------------------------------------------------
(***************************************************************************)
(* What each branch of main's loop does to the shell's record; open is whether it    *)
(* leaves the window open.                                                    *)
(***************************************************************************)
LEMMA OpenFacts ==
    ASSUME KeyInv, OpenShell
    PROVE  KeyDropped(sh') /\ sh'.pc = "ctrl" /\ sh'.is_open # sh.is_open
<1>1. ShellRec(sh) /\ sh.is_open \in BOOLEAN /\ ~ sh.is_open
  BY DEF KeyInv, KeyTypes, OpenShell
<1> DEFINE s == Loop(sh)
<1>2. PICK k : sh' = [Prompted(s, k) EXCEPT !.is_open = TRUE, !.carried = sh.shell_input]
  BY DEF OpenShell, Handle
<1>3. /\ ShellRec(s) /\ s.pc = "ctrl" /\ s.press_ctrl = sh.press_ctrl /\ s.taken = sh.taken
      /\ s.some \in BOOLEAN /\ s.all \in BOOLEAN
  BY <1>1, LoopFacts
<1> HIDE DEF s
<1>4. ShellRec(sh') /\ sh'.is_open
  BY <1>2, <1>3 DEF ShellRec, Fields, Prompted
<1>5. /\ sh'.pc = "ctrl" /\ sh'.press_ctrl = sh.press_ctrl /\ sh'.taken = sh.taken
      /\ sh'.some = s.some /\ sh'.all = s.all /\ sh'.is_open \in BOOLEAN
  BY <1>2, <1>3 DEF ShellRec, Fields, Prompted
<1> QED
  BY <1>1, <1>3, <1>4, <1>5 DEF KeyDropped

\* Ctrl+S on an open window.
LEMMA CloseFacts ==
    ASSUME KeyInv, CloseShell
    PROVE  KeyDropped(sh') /\ sh'.pc = "ctrl" /\ sh'.is_open # sh.is_open
<1>1. ShellRec(sh) /\ sh.is_open \in BOOLEAN /\ sh.is_open
  BY DEF KeyInv, KeyTypes, CloseShell
<1> DEFINE s == Loop(sh)
<1>2. sh' = [s EXCEPT !.is_open = FALSE]
  BY DEF CloseShell, Handle
<1>3. /\ ShellRec(s) /\ s.pc = "ctrl" /\ s.press_ctrl = sh.press_ctrl /\ s.taken = sh.taken
      /\ s.some \in BOOLEAN /\ s.all \in BOOLEAN
  BY <1>1, LoopFacts
<1> HIDE DEF s
<1>4. ShellRec(sh') /\ ~ sh'.is_open
  BY <1>2, <1>3 DEF ShellRec, Fields
<1>5. /\ sh'.pc = "ctrl" /\ sh'.press_ctrl = sh.press_ctrl /\ sh'.taken = sh.taken
      /\ sh'.some = s.some /\ sh'.all = s.all /\ sh'.is_open \in BOOLEAN
  BY <1>2, <1>3 DEF ShellRec, Fields
<1> QED
  BY <1>1, <1>3, <1>4, <1>5 DEF KeyDropped

\* The steps that do not open or close.
LEMMA OtherFacts ==
    ASSUME KeyInv, Backspace \/ Erase \/ TypeChar \/ DropKey \/ \E out \in Outputs : EnterLine(out)
    PROVE  KeyDropped(sh') /\ sh'.is_open = sh.is_open
<1>1. /\ ShellRec(sh) /\ sh.is_open \in BOOLEAN /\ sh.press_ctrl \in BOOLEAN
      /\ sh.some \in BOOLEAN /\ sh.all \in BOOLEAN
  BY DEF KeyInv, KeyTypes
<1> DEFINE s == Loop(sh)
<1>3. /\ ShellRec(s) /\ s.pc = "ctrl" /\ s.press_ctrl = sh.press_ctrl /\ s.taken = sh.taken
      /\ s.some \in BOOLEAN /\ s.all \in BOOLEAN /\ s.is_open = sh.is_open
  BY <1>1, LoopFacts
<1>4. CASE DropKey
  BY <1>1, <1>3, <1>4 DEF DropKey, Handle, KeyDropped
<1>5. CASE TypeChar
  <2>1. sh' = [s EXCEPT !.shell_input = Append(@, sh.buf)]
    BY <1>5 DEF TypeChar, Handle
  <2> HIDE DEF s
  <2> QED
    BY <1>1, <1>3, <2>1 DEF ShellRec, Fields, KeyDropped
<1>6. CASE Backspace
  <2>1. sh' = [sh EXCEPT !.pc = "erase"] \/ sh' = s
    BY <1>6 DEF Backspace, Handle
  <2> HIDE DEF s
  <2> QED
    BY <1>1, <1>3, <2>1 DEF ShellRec, Fields, KeyDropped
<1>7. CASE Erase
  <2>1. PICK input : sh' = [sh EXCEPT !.shell_input = input] \/ sh' = [s EXCEPT !.shell_input = input]
    BY <1>7 DEF Erase
  <2>2. sh.pc = "erase"
    BY <1>7 DEF Erase
  <2> HIDE DEF s
  <2> QED
    BY <1>1, <1>3, <2>1, <2>2 DEF ShellRec, Fields, KeyDropped
<1>8. ASSUME NEW out \in Outputs, EnterLine(out) PROVE KeyDropped(sh') /\ sh'.is_open = sh.is_open
  <2>1. PICK k : sh' = [Prompted(s, k) EXCEPT !.shell_row = k.row, !.shell_input = <<>>, !.carried = <<>>]
    BY <1>8 DEF EnterLine, Handle
  <2> HIDE DEF s
  <2> QED
    BY <1>1, <1>3, <2>1 DEF ShellRec, Fields, KeyDropped, Prompted
<1> QED
  BY <1>4, <1>5, <1>6, <1>7, <1>8

\* main switches the keyboard on: no modifier has been seen yet.
LEMMA MainKeys ==
    ASSUME KeyInv, Main
    PROVE  KeyInv'
<1>1. /\ KeyboardTypeOK /\ NoStuckModifier /\ CtrlKnown /\ ShellRec(sh) /\ sh.is_open \in BOOLEAN
      /\ sh.press_ctrl \in BOOLEAN /\ sh.some \in BOOLEAN /\ sh.all \in BOOLEAN
      /\ Waiting(keyboard_state.keyboard_buffer, sh.taken, presses)
  BY DEF KeyInv, KeyTypes
<1> DEFINE yes == TRUE
<1>2. /\ keyboard_state' = [keyboard_state EXCEPT !.keyboard_input_on = yes]
      /\ sh' = [sh EXCEPT !.pc = "ctrl", !.shell_row = Up]
      /\ UNCHANGED <<presses, held, ctrl>>
  BY DEF Main, Activated
<1>3. /\ keyboard_state' = [keyboard_input_on |-> yes,
             press_shift |-> keyboard_state.press_shift, press_ctrl |-> keyboard_state.press_ctrl,
             keyboard_buffer |-> keyboard_state.keyboard_buffer]
      /\ keyboard_state'.keyboard_input_on = yes
      /\ keyboard_state'.keyboard_buffer = keyboard_state.keyboard_buffer
      /\ keyboard_state'.press_ctrl = keyboard_state.press_ctrl
      /\ keyboard_state'.press_shift = keyboard_state.press_shift
  <2> HIDE DEF yes
  <2> QED
    BY <1>1, <1>2, KeyboardFacts
<1>4. /\ ShellRec(sh') /\ sh'.pc = "ctrl" /\ sh'.is_open = sh.is_open
      /\ sh'.press_ctrl = sh.press_ctrl /\ sh'.some = sh.some /\ sh'.all = sh.all
      /\ sh'.taken = sh.taken
  BY <1>1, <1>2 DEF ShellRec, Fields
<1>5. KeyboardTypeOK'
  BY <1>1, <1>2, <1>3 DEF KeyboardTypeOK
<1>6. KeyTypes'
  BY <1>1, <1>2, <1>4, <1>5 DEF KeyInv, KeyTypes, PCs
<1>7. NoStuckModifier' /\ CtrlKnown'
  BY <1>1, <1>2, <1>3, <1>4 DEF NoStuckModifier, CtrlKnown, CtrlHeld
<1>8. Waiting(keyboard_state.keyboard_buffer, sh.taken, presses)'
  BY <1>1, <1>2, <1>3, <1>4
<1> QED
  BY <1>3, <1>6, <1>7, <1>8 DEF KeyInv

\* The shell asks for Ctrl.
LEMMA PollKeys ==
    ASSUME KeyInv, PollCtrl
    PROVE  KeyInv'
<1>1. /\ KeyTypes /\ NoStuckModifier /\ CtrlKnown /\ keyboard_state.press_ctrl \in BOOLEAN
      /\ Waiting(keyboard_state.keyboard_buffer, sh.taken, presses)
  BY DEF KeyInv, KeyTypes, KeyboardTypeOK
<1>2. /\ sh' = [sh EXCEPT !.pc = "getchar", !.press_ctrl = keyboard_state.press_ctrl]
      /\ UNCHANGED <<keyboard_state, presses, held, ctrl>>
  BY DEF PollCtrl, kbdvars
<1>3. /\ ShellRec(sh') /\ sh'.pc = "getchar" /\ sh'.is_open = sh.is_open
      /\ sh'.press_ctrl = keyboard_state.press_ctrl /\ sh'.some = sh.some /\ sh'.all = sh.all
      /\ sh'.taken = sh.taken
  BY <1>1, <1>2 DEF ShellRec, Fields, KeyTypes
<1>4. KeyTypes'
  BY <1>1, <1>2, <1>3 DEF KeyTypes, PCs, KeyboardTypeOK
<1>5. NoStuckModifier' /\ CtrlKnown'
  BY <1>1, <1>2, <1>3 DEF NoStuckModifier, CtrlKnown, CtrlHeld
<1>6. Waiting(keyboard_state.keyboard_buffer, sh.taken, presses)'
  BY <1>1, <1>2, <1>3
<1> QED
  BY <1>2, <1>4, <1>5, <1>6 DEF KeyInv

\* The shell takes the key.
LEMMA GetcharFacts ==
    ASSUME KeyInv, Getchar
    PROVE  /\ ShellRec(sh') /\ sh'.pc = "handle" /\ sh'.is_open = sh.is_open
           /\ sh'.press_ctrl = sh.press_ctrl
           /\ sh'.buf = keyboard_state.keyboard_buffer.ch
           /\ sh'.taken = IF keyboard_state.keyboard_buffer = NoKey THEN sh.taken
                          ELSE keyboard_state.keyboard_buffer.key
           /\ sh'.some \in BOOLEAN /\ sh'.all \in BOOLEAN
           /\ sh'.some <=> (ctrl.some /\ sh'.buf = "s")
           /\ sh'.all <=> (ctrl.all /\ sh'.buf = "s")
<1>1. ShellRec(sh)
  BY DEF KeyInv, KeyTypes
<1> QED
  BY <1>1 DEF Getchar, ShellRec, Fields

\* SYSCALL_GETCHAR: a key taken is not waiting any more.
LEMMA GetcharKeys ==
    ASSUME KeyInv, Getchar
    PROVE  KeyInv'
<1>1. /\ KeyTypes /\ KeyboardTypeOK /\ NoStuckModifier /\ CtrlKnown
      /\ Waiting(keyboard_state.keyboard_buffer, sh.taken, presses)
  BY DEF KeyInv, KeyTypes
<1>2. /\ keyboard_state' = [keyboard_state EXCEPT !.keyboard_buffer = NoKey]
      /\ ctrl' = [some |-> CtrlHeld, all |-> CtrlHeld]
      /\ UNCHANGED <<presses, held>> /\ sh.pc = "getchar"
  BY DEF Getchar, BufferTaken
<1>3. /\ keyboard_state' = [keyboard_input_on |-> keyboard_state.keyboard_input_on,
             press_shift |-> keyboard_state.press_shift, press_ctrl |-> keyboard_state.press_ctrl,
             keyboard_buffer |-> NoKey]
      /\ keyboard_state'.keyboard_input_on = keyboard_state.keyboard_input_on
      /\ keyboard_state'.keyboard_buffer = NoKey
      /\ keyboard_state'.press_ctrl = keyboard_state.press_ctrl
      /\ keyboard_state'.press_shift = keyboard_state.press_shift
  BY <1>1, <1>2, KeyboardFacts
<1>4. KeyboardTypeOK'
  <2>1. NoKey \in [ch : CharKeys \cup {Shifted[d] : d \in CharKeys} \cup {"NUL"}, key : 0 .. MaxKeys]
    BY KeyboardAssumption DEF NoKey
  <2> QED
    BY <1>1, <1>2, <1>3, <2>1 DEF KeyboardTypeOK
<1>5. sh'.taken \in 0 .. presses'
  BY <1>1, <1>2, GetcharFacts DEF KeyTypes, KeyboardTypeOK, Waiting
<1>6. ctrl' \in [some : BOOLEAN, all : BOOLEAN] /\ (ctrl'.some <=> CtrlHeld) /\ (ctrl'.all <=> CtrlHeld)
  BY <1>2 DEF CtrlHeld
<1>7. KeyTypes'
  BY <1>1, <1>2, <1>4, <1>5, <1>6, GetcharFacts DEF KeyTypes, PCs
<1>8. NoStuckModifier' /\ CtrlHeld' = CtrlHeld
  BY <1>1, <1>2, <1>3 DEF NoStuckModifier, CtrlHeld
<1>9. CtrlKnown'
  BY <1>1, <1>2, <1>3, <1>6, <1>8, GetcharFacts DEF CtrlKnown, Toggle
<1>10. Waiting(keyboard_state.keyboard_buffer, sh.taken, presses)'
  BY <1>3 DEF Waiting
<1> QED
  BY <1>2, <1>3, <1>7, <1>8, <1>9, <1>10 DEF KeyInv

\* Every step of the keyboard and the shell keeps the keyboard's invariant.
LEMMA KeyStep == KeyInv /\ [ConsoleNext]_vars => KeyInv'
<1> SUFFICES ASSUME KeyInv, [ConsoleNext]_vars PROVE KeyInv'
  OBVIOUS
<1>1. CASE UNCHANGED vars
  BY <1>1 DEF vars, KeyInv, KeyTypes, KeyboardTypeOK, NoStuckModifier, CtrlKnown, CtrlHeld, Toggle
<1>2. CASE Interrupt
  BY <1>2, InterruptKeys
<1>3. CASE Main
  BY <1>3, MainKeys
<1>4. CASE PollCtrl
  BY <1>4, PollKeys
<1>5. CASE Getchar
  BY <1>5, GetcharKeys
<1>6. CASE OpenShell
  <2>1. UNCHANGED <<kbdvars, ctrl>>
    BY <1>6 DEF OpenShell, Handle
  <2> QED
    BY <1>6, <2>1, OpenFacts, DroppedKeys
<1>7. CASE CloseShell
  <2>1. UNCHANGED <<kbdvars, ctrl>>
    BY <1>7 DEF CloseShell, Handle
  <2> QED
    BY <1>7, <2>1, CloseFacts, DroppedKeys
<1>8. CASE Backspace \/ Erase \/ TypeChar \/ DropKey \/ \E out \in Outputs : EnterLine(out)
  <2>1. UNCHANGED <<kbdvars, ctrl>>
    BY <1>8 DEF Backspace, Erase, TypeChar, DropKey, EnterLine, Handle
  <2> QED
    BY <1>8, <2>1, OtherFacts, DroppedKeys
<1> QED
  BY <1>1, <1>2, <1>3, <1>4, <1>5, <1>6, <1>7, <1>8 DEF ConsoleNext, ShellStep

(***************************************************************************)
(* The keyboard's invariant, which supposes nothing of the keys.               *)
(***************************************************************************)
THEOREM KeyInvariant == ConsoleSpec => []KeyInv
  BY InitKeys, KeyStep, PTL DEF ConsoleSpec

(***************************************************************************)
(* No flag of keyboard_isr outlasts its keys.                                 *)
(***************************************************************************)
THEOREM Unstuck == ConsoleSpec => []NoStuckModifier
<1>1. KeyInv => NoStuckModifier
  BY DEF KeyInv
<1> QED
  BY <1>1, KeyInvariant, PTL

(***************************************************************************)
(* SYSCALL_GETCHAR hands the shell the key presses in their order, none twice.    *)
(***************************************************************************)
THEOREM InOrder == ConsoleSpec => KeysInOrder
<1>1. KeyInv /\ [ConsoleNext]_vars =>
        [(sh.pc = "getchar" /\ sh'.pc = "handle" /\ sh'.buf # NUL) => sh'.taken > sh.taken]_vars
  <2> SUFFICES ASSUME KeyInv, ConsoleNext, sh.pc = "getchar", sh'.pc = "handle", sh'.buf # NUL
               PROVE  sh'.taken > sh.taken
    OBVIOUS
  <2>1. Getchar
    BY DEF ConsoleNext, Interrupt, ShellStep, Main, PollCtrl, OpenShell, CloseShell, Backspace,
           Erase, TypeChar, DropKey, EnterLine, Handle
  <2>2. keyboard_state.keyboard_buffer # NoKey
    BY <2>1, GetcharFacts DEF NoKey, NUL
  <2> QED
    BY <2>1, <2>2, GetcharFacts DEF KeyInv, KeyTypes, KeyboardTypeOK, Waiting
<1> QED
  BY <1>1, KeyInvariant, PTL DEF ConsoleSpec, KeysInOrder

(***************************************************************************)
(* The window opens and closes as the keys say: for an s with Ctrl held at some     *)
(* time since the last key was asked for, and, on a keyboard with one Ctrl key,       *)
(* always when Ctrl was held all that time.                                    *)
(***************************************************************************)
THEOREM Toggled == ASSUME OneCtrl PROVE ConsoleSpec => ToggleFollowsKeys
<1>1. KeyInv /\ [ConsoleNext]_vars =>
        [(sh.pc = "handle" /\ sh'.pc # "handle") =>
           /\ sh'.is_open # sh.is_open => sh.some
           /\ sh.all => sh'.is_open # sh.is_open]_vars
  <2> SUFFICES ASSUME KeyInv, ConsoleNext, sh.pc = "handle", sh'.pc # "handle"
               PROVE  /\ sh'.is_open # sh.is_open => sh.some
                      /\ sh.all => sh'.is_open # sh.is_open
    OBVIOUS
  <2>1. OpenShell \/ CloseShell \/ Backspace \/ TypeChar \/ DropKey \/ \E out \in Outputs : EnterLine(out)
    BY DEF ConsoleNext, Interrupt, ShellStep, Main, PollCtrl, Getchar, Erase
  <2>2. (Toggle => sh.some) /\ (sh.all => Toggle)
    BY DEF KeyInv, CtrlKnown, Toggle
  <2>3. CASE OpenShell
    BY <2>2, <2>3, OpenFacts DEF OpenShell
  <2>4. CASE CloseShell
    BY <2>2, <2>4, CloseFacts DEF CloseShell
  <2>5. CASE Backspace \/ TypeChar \/ DropKey \/ \E out \in Outputs : EnterLine(out)
    <3>1. ~ Toggle
      BY <2>5 DEF Backspace, TypeChar, DropKey, EnterLine
    <3> QED
      BY <2>2, <2>5, <3>1, OtherFacts
  <2> QED
    BY <2>1, <2>3, <2>4, <2>5
<1> QED
  BY <1>1, KeyInvariant, PTL DEF ConsoleSpec, ToggleFollowsKeys

-----------------------------------------------------------------------------
(***************************************************************************)
(* The screen.  puts is a run of putchar, one turn per character of the text.     *)
(***************************************************************************)
PutsRun(f, k, str, bg, N) ==
    f = [n \in 0 .. N |-> IF n = 0 THEN k ELSE putchar(f[n - 1], str[n], bg)]

\* The run exists: it is built turn by turn.
LEMMA RunExists ==
    ASSUME NEW k, NEW str, NEW bg, NEW N \in Nat
    PROVE  \E f : PutsRun(f, k, str, bg, N)
<1> DEFINE Has(m) == \E f : f = [n \in 0 .. m |-> IF n = 0 THEN k ELSE putchar(f[n - 1], str[n], bg)]
           S == {m \in Nat : Has(m)}
<1>1. 0 \in S
  <2> DEFINE f == [n \in 0 .. 0 |-> k]
  <2>1. f = [n \in 0 .. 0 |-> IF n = 0 THEN k ELSE putchar(f[n - 1], str[n], bg)]
    OBVIOUS
  <2> QED
    BY <2>1
<1>2. ASSUME NEW m \in Nat, Has(m) PROVE Has(m + 1)
  <2>1. PICK f : f = [n \in 0 .. m |-> IF n = 0 THEN k ELSE putchar(f[n - 1], str[n], bg)]
    BY <1>2
  <2> DEFINE g == [n \in 0 .. m + 1 |-> IF n <= m THEN f[n] ELSE putchar(f[n - 1], str[n], bg)]
  <2>2. ASSUME NEW n \in 0 .. m + 1
        PROVE  g[n] = IF n = 0 THEN k ELSE putchar(g[n - 1], str[n], bg)
    <3>1. CASE n = 0
      <4>1. 0 \in 0 .. m /\ 0 \in 0 .. m + 1 /\ 0 <= m
        OBVIOUS
      <4>2. f[0] = k
        BY <2>1, <4>1
      <4>3. g[0] = f[0]
        BY <4>1
      <4> QED
        BY <3>1, <4>2, <4>3
    <3>2. CASE n # 0
      <4>1. n - 1 \in 0 .. m /\ n - 1 \in 0 .. m + 1 /\ n - 1 <= m
        BY <3>2
      <4>2. g[n - 1] = f[n - 1]
        BY <4>1
      <4>3. CASE n <= m
        <5>1. g[n] = f[n] /\ n \in 0 .. m
          BY <4>3
        <5> HIDE DEF g
        <5>2. f[n] = putchar(f[n - 1], str[n], bg)
          BY <2>1, <3>2, <5>1
        <5> QED
          BY <3>2, <4>2, <5>1, <5>2
      <4>4. CASE ~ (n <= m)
        <5>1. g[n] = putchar(f[n - 1], str[n], bg)
          BY <4>4
        <5> HIDE DEF g
        <5> QED
          BY <3>2, <4>2, <5>1
      <4> QED
        BY <4>3, <4>4
    <3> QED
      BY <3>1, <3>2
  <2>3. g = [n \in 0 .. m + 1 |-> IF n = 0 THEN k ELSE putchar(g[n - 1], str[n], bg)]
    <3>1. g = [n \in 0 .. m + 1 |-> g[n]]
      OBVIOUS
    <3> HIDE DEF g
    <3> QED
      BY <2>2, <3>1
  <2> HIDE DEF g
  <2> QED
    BY <2>3
<1>3. \A m \in Nat : m \in S => m + 1 \in S
  BY <1>2
<1> HIDE DEF S
<1>4. \A m \in Nat : m \in S
  BY <1>1, <1>3, SetInduction
<1> QED
  BY <1>4 DEF S, PutsRun

\* puts follows that run.
Follows(f, q, k, str, bg) ==
    /\ q = f[Len(str)] /\ f[0] = k
    /\ \A n \in 1 .. Len(str) : f[n] = putchar(f[n - 1], str[n], bg)

\* puts, character by character.
LEMMA PutsSteps ==
    ASSUME NEW k, NEW str, Len(str) \in Nat, NEW bg
    PROVE  \E f : Follows(f, puts(k, str, bg), k, str, bg)
<1> DEFINE f == CHOOSE g : PutsRun(g, k, str, bg, Len(str))
<1>1. \E g : PutsRun(g, k, str, bg, Len(str))
  BY RunExists
<1>2. PutsRun(f, k, str, bg, Len(str))
  BY <1>1, Zenon
<1>3. puts(k, str, bg) = f[Len(str)]
  BY DEF puts, PutsRun
<1> HIDE DEF f
<1>4. f[0] = k /\ \A n \in 1 .. Len(str) : f[n] = putchar(f[n - 1], str[n], bg)
  <2>1. \A n \in 0 .. Len(str) : f[n] = IF n = 0 THEN k ELSE putchar(f[n - 1], str[n], bg)
    BY <1>2 DEF PutsRun
  <2> QED
    BY <2>1
<1> QED
  BY <1>3, <1>4 DEF Follows

\* The window lies on the screen.
LEMMA Sizes ==
    /\ Up \in Nat /\ Down \in Nat /\ 1 <= Up /\ Up <= Down /\ Left \in Nat /\ Right \in Nat /\ Left <= Right
    /\ FRAMEBUFFER_HEIGHT \in 1 .. 256 /\ FRAMEBUFFER_WIDTH \in 1 .. 256
    /\ Down < FRAMEBUFFER_HEIGHT /\ Right < FRAMEBUFFER_WIDTH
    /\ Down <= 255 /\ Right <= 255
    /\ \A r \in Int : r \in Rows <=> (0 <= r /\ r < FRAMEBUFFER_HEIGHT)
    /\ \A c \in Int : c \in Cols <=> (0 <= c /\ c < FRAMEBUFFER_WIDTH)
    /\ Rows \subseteq Int /\ Cols \subseteq Int
<1>1. FRAMEBUFFER_HEIGHT \in 1 .. 256 /\ FRAMEBUFFER_WIDTH \in 1 .. 256
  BY ScreenAssumption
<1>2. Up \in 1 .. Down /\ Down \in Rows /\ Left \in 0 .. Right /\ Right \in Cols
  BY ConsoleAssumption
<1> QED
  BY <1>1, <1>2 DEF Rows, Cols

\* q is k with the cell at row, col written.
OneCell(k, q, row, col, cell) ==
    /\ Shaped(q.fb)
    /\ \A r \in Rows, c \in Cols : q.fb[r][c] = IF r = row /\ c = col THEN cell ELSE k.fb[r][c]

\* framebuffer_write on the screen.
LEMMA CellWritten ==
    ASSUME NEW k, ScreenRec(k), NEW row \in Rows, NEW col \in Cols, NEW cell
    PROVE  LET q == framebuffer_write(k, row, col, cell) IN
           /\ ScreenRec(q) /\ OneCell(k, q, row, col, cell)
           /\ q.row = k.row /\ q.col = k.col /\ q.last_non_space_col = k.last_non_space_col
           /\ q.up_limit = k.up_limit /\ q.down_limit = k.down_limit
           /\ q.left_limit = k.left_limit /\ q.right_limit = k.right_limit
<1> DEFINE q == framebuffer_write(k, row, col, cell)
           fb == [k.fb EXCEPT ![row][col] = cell]
<1>1. k = [f \in ScreenFields |-> k[f]] /\ Shaped(k.fb)
  BY DEF ScreenRec
<1>2. q = [k EXCEPT !.fb = fb]
  BY <1>1 DEF framebuffer_write, ScreenFields
<1>3. /\ Shaped(fb)
      /\ \A r \in Rows, c \in Cols : fb[r][c] = IF r = row /\ c = col THEN cell ELSE k.fb[r][c]
  BY <1>1 DEF Shaped
<1> HIDE DEF q, fb
<1>4. /\ q = [f \in ScreenFields |-> q[f]] /\ q.fb = fb
      /\ q.row = k.row /\ q.col = k.col /\ q.last_non_space_col = k.last_non_space_col
      /\ q.up_limit = k.up_limit /\ q.down_limit = k.down_limit
      /\ q.left_limit = k.left_limit /\ q.right_limit = k.right_limit
  BY <1>1, <1>2 DEF ScreenFields
<1>5. ScreenRec(q) /\ OneCell(k, q, row, col, cell)
  BY <1>3, <1>4 DEF ScreenRec, OneCell
<1> QED
  BY <1>4, <1>5 DEF q

\* A character that is no newline, backspace or tab, before the last column.
LEMMA Printed ==
    ASSUME NEW k, ScreenRec(k), Limits(k), NEW ch, ch \notin {NL, BS, TAB}, NEW bg,
           k.row \in Rows, k.col \in Left .. Right
    PROVE  LET q == putchar(k, ch, bg) IN
           /\ ScreenRec(q) /\ Limits(q) /\ OneCell(k, q, k.row, k.col, Cell(ch, bg))
           /\ k.col # Right => q.row = k.row /\ q.col = k.col + 1
           /\ k.col = Right /\ k.row # Down => q.row = k.row + 1 /\ q.col = Left
           /\ k.col = Right /\ k.row = Down => q.row = k.row /\ q.col = k.col
<1> DEFINE q == putchar(k, ch, bg)
           w == framebuffer_write(k, k.row, k.col, Cell(ch, bg))
           cols == [k.last_non_space_col EXCEPT ![k.row] = k.col]
           v == [w EXCEPT !.last_non_space_col = cols]
<1>1. q = PutPrintable(k, ch, bg)
  BY DEF putchar
<1>2. /\ k.right_limit = Right /\ k.down_limit = Down /\ k.left_limit = Left /\ k.up_limit = Up
      /\ k.col \in Cols /\ k.col \in Byte
  BY Sizes DEF Limits, Byte
<1>3. /\ ScreenRec(w) /\ OneCell(k, w, k.row, k.col, Cell(ch, bg))
      /\ w.row = k.row /\ w.col = k.col /\ w.last_non_space_col = k.last_non_space_col
      /\ w.up_limit = Up /\ w.down_limit = Down /\ w.left_limit = Left /\ w.right_limit = Right
  BY <1>2, CellWritten
<1>4. k.last_non_space_col \in [Rows -> Byte] /\ cols \in [Rows -> Byte]
  BY <1>2 DEF ScreenRec
<1>5. v = [w EXCEPT !.last_non_space_col[k.row] = k.col]
  BY <1>3 DEF ScreenRec, ScreenFields
<1>6. q = IF k.col # Right THEN [v EXCEPT !.col = (@ + 1) % 256]
          ELSE IF k.row = Down THEN v
          ELSE [v EXCEPT !.row = @ + 1, !.col = Left]
  BY <1>1, <1>2, <1>5 DEF PutPrintable
<1> HIDE DEF w, cols, q
<1>7. /\ v = [f \in ScreenFields |-> v[f]] /\ v.fb = w.fb /\ v.last_non_space_col = cols
      /\ v.row = k.row /\ v.col = k.col
      /\ v.up_limit = Up /\ v.down_limit = Down /\ v.left_limit = Left /\ v.right_limit = Right
  BY <1>3 DEF ScreenRec, ScreenFields
<1> HIDE DEF v
<1>8. /\ q = [f \in ScreenFields |-> q[f]] /\ q.fb = w.fb /\ q.last_non_space_col = cols
      /\ q.up_limit = Up /\ q.down_limit = Down /\ q.left_limit = Left /\ q.right_limit = Right
  BY <1>6, <1>7 DEF ScreenFields
<1>9. /\ k.col # Right => q.row = k.row /\ q.col = (k.col + 1) % 256
      /\ k.col = Right /\ k.row # Down => q.row = k.row + 1 /\ q.col = Left
      /\ k.col = Right /\ k.row = Down => q.row = k.row /\ q.col = k.col
  BY <1>6, <1>7 DEF ScreenFields
<1>10. k.col # Right => (k.col + 1) % 256 = k.col + 1
  <2>1. k.col # Right => k.col + 1 \in 0 .. 255
    BY Sizes
  <2> QED
    BY <2>1
<1>11. ScreenRec(q) /\ Limits(q) /\ OneCell(k, q, k.row, k.col, Cell(ch, bg))
  <2>1. Shaped(w.fb)
    BY <1>3 DEF ScreenRec
  <2>2. ScreenRec(q)
    BY <1>4, <1>8, <2>1 DEF ScreenRec
  <2>3. OneCell(k, q, k.row, k.col, Cell(ch, bg))
    BY <1>3, <1>8 DEF OneCell
  <2> QED
    BY <1>8, <2>2, <2>3 DEF Limits
<1> QED
  BY <1>9, <1>10, <1>11 DEF q

\* A newline in the window: the next row, or the window scrolled.
LEMMA Newline ==
    ASSUME NEW k, Window(k), NEW bg
    PROVE  LET q == putchar(k, NL, bg) IN Window(q) /\ q.col = Left
<1> DEFINE q == putchar(k, NL, bg)
<1>1. q = PutNewline(k)
  BY DEF putchar, NL, BS, TAB
<1>2. /\ k = [f \in ScreenFields |-> k[f]] /\ Shaped(k.fb)
      /\ k.last_non_space_col \in [Rows -> Byte]
      /\ k.right_limit = Right /\ k.down_limit = Down /\ k.left_limit = Left /\ k.up_limit = Up
  BY DEF Window, ScreenRec, Limits
<1>0. k.row \in Up .. Down /\ k.col \in Left .. Right /\ Painted(k)
  BY DEF Window, Inside
<1>3. CASE k.row = Down
  <2> DEFINE fb == [r \in Rows |-> [c \in Cols |->
                      IF ~ InWindow(k, r, c) THEN k.fb[r][c]
                      ELSE IF r = k.down_limit THEN Cell(SP, "black")
                      ELSE k.fb[r + 1][c]]]
             s == [k EXCEPT !.fb = fb]
  <2>1. q = [s EXCEPT !.col = Left]
    BY <1>1, <1>2, <1>3 DEF PutNewline, ScrollUp
  <2>2. ASSUME NEW r \in Rows, NEW c \in Cols
        PROVE  (fb[r][c].bg # "art") <=> (r \in Up - 1 .. Down /\ c \in Left .. Right)
    <3>1. fb[r][c] = IF ~ (r \in Up .. Down /\ c \in Left .. Right) THEN k.fb[r][c]
                     ELSE IF r = Down THEN Cell(SP, "black") ELSE k.fb[r + 1][c]
      BY <1>2 DEF InWindow
    <3> HIDE DEF fb
    <3>2. Cell(SP, "black").bg = "black"
      BY DEF Cell
    <3>3. r \in Up .. Down /\ r # Down => r + 1 \in Rows /\ r + 1 \in Up - 1 .. Down /\ r \in Up - 1 .. Down
      BY Sizes
    <3>4. r \in Up .. Down => r \in Up - 1 .. Down
      BY Sizes
    <3> QED
      BY <1>0, <3>1, <3>2, <3>3, <3>4 DEF Painted
  <2>3. Shaped(fb)
    BY DEF Shaped
  <2> HIDE DEF fb
  <2>4. /\ q = [f \in ScreenFields |-> q[f]] /\ q.fb = fb
        /\ q.last_non_space_col = k.last_non_space_col
        /\ q.right_limit = Right /\ q.down_limit = Down /\ q.left_limit = Left /\ q.up_limit = Up
        /\ q.row = k.row /\ q.col = Left
    BY <1>2, <2>1 DEF ScreenFields
  <2> HIDE DEF q
  <2>5. ScreenRec(q)
    BY <1>2, <2>3, <2>4 DEF ScreenRec
  <2>6. Limits(q) /\ Inside(q)
    BY <1>0, <2>4, Sizes DEF Limits, Inside
  <2>7. Painted(q)
    BY <2>2, <2>4 DEF Painted
  <2> QED
    BY <2>4, <2>5, <2>6, <2>7 DEF Window, q
<1>4. CASE k.row # Down
  <2>1. k.row + 1 \in Up .. Down /\ (k.row + 1) % 256 = k.row + 1
    <3>1. k.row + 1 \in Up .. Down /\ k.row + 1 \in 0 .. 255
      BY <1>0, <1>4, Sizes
    <3> QED
      BY <3>1
  <2> DEFINE s == [k EXCEPT !.row = (@ + 1) % 256]
  <2>2. q = [s EXCEPT !.col = Left]
    BY <1>1, <1>2, <1>4 DEF PutNewline
  <2>3. /\ q = [f \in ScreenFields |-> q[f]] /\ q.fb = k.fb
        /\ q.last_non_space_col = k.last_non_space_col
        /\ q.right_limit = Right /\ q.down_limit = Down /\ q.left_limit = Left /\ q.up_limit = Up
        /\ q.row = k.row + 1 /\ q.col = Left
    BY <1>2, <2>1, <2>2 DEF ScreenFields
  <2> HIDE DEF q
  <2>5. ScreenRec(q)
    BY <1>2, <2>3 DEF ScreenRec
  <2>6. Limits(q) /\ Inside(q)
    BY <2>1, <2>3, Sizes DEF Limits, Inside
  <2>7. Painted(q)
    BY <1>0, <2>3 DEF Painted
  <2> QED
    BY <2>3, <2>5, <2>6, <2>7 DEF Window, q
<1> QED
  BY <1>3, <1>4

\* A character printed in the window keeps it.
LEMMA PutWindow ==
    ASSUME NEW k, Window(k), NEW ch, ch \notin {BS, TAB}, NEW bg, bg # "art"
    PROVE  Window(putchar(k, ch, bg))
<1>1. CASE ch = NL
  BY <1>1, Newline
<1>2. CASE ch # NL
  <2> DEFINE q == putchar(k, ch, bg)
  <2>1. /\ ScreenRec(k) /\ Limits(k) /\ k.row \in Up .. Down /\ k.col \in Left .. Right /\ Painted(k)
        /\ k.row \in Rows /\ k.col \in Cols /\ k.row \in Up - 1 .. Down
    BY Sizes DEF Window, Inside
  <2>2. /\ ScreenRec(q) /\ Limits(q) /\ OneCell(k, q, k.row, k.col, Cell(ch, bg))
        /\ k.col # Right => q.row = k.row /\ q.col = k.col + 1
        /\ k.col = Right /\ k.row # Down => q.row = k.row + 1 /\ q.col = Left
        /\ k.col = Right /\ k.row = Down => q.row = k.row /\ q.col = k.col
    BY <1>2, <2>1, Printed
  <2> HIDE DEF q
  <2>3. Inside(q)
    BY <2>1, <2>2, Sizes DEF Inside
  <2>4. Painted(q)
    BY <2>1, <2>2 DEF Painted, OneCell, Cell
  <2> QED
    BY <2>2, <2>3, <2>4 DEF Window, q
<1> QED
  BY <1>1, <1>2

\* A text without backspace or tab keeps the window.
LEMMA TextWindow ==
    ASSUME NEW k, Window(k), NEW str, Len(str) \in Nat,
           \A i \in 1 .. Len(str) : str[i] \notin {BS, TAB}, NEW bg, bg # "art"
    PROVE  Window(puts(k, str, bg))
<1>0. PICK f : Follows(f, puts(k, str, bg), k, str, bg)
  BY PutsSteps
<1>1. /\ puts(k, str, bg) = f[Len(str)] /\ f[0] = k
      /\ \A n \in 1 .. Len(str) : f[n] = putchar(f[n - 1], str[n], bg)
  BY <1>0 DEF Follows
<1> DEFINE S == {n \in Nat : n <= Len(str) => Window(f[n])}
<1>2. 0 \in S
  BY <1>1
<1>3. ASSUME NEW n \in Nat, n \in S PROVE n + 1 \in S
  <2> SUFFICES ASSUME n + 1 <= Len(str) PROVE Window(f[n + 1])
    OBVIOUS
  <2>1. n <= Len(str) /\ n + 1 \in 1 .. Len(str) /\ (n + 1) - 1 = n
    OBVIOUS
  <2>2. Window(f[n])
    BY <1>3, <2>1
  <2>3. f[n + 1] = putchar(f[n], str[n + 1], bg)
    BY <1>1, <2>1
  <2> QED
    BY <2>1, <2>2, <2>3, PutWindow
<1> HIDE DEF S
<1>4. \A n \in Nat : n \in S
  BY <1>2, <1>3, SetInduction
<1> QED
  BY <1>1, <1>4 DEF S

\* The two newlines before a prompt.
LEMMA TwoNewlines ==
    ASSUME NEW k, Window(k)
    PROVE  LET q == puts(k, <<NL, NL>>, "black") IN Window(q) /\ q.col = Left
<1> DEFINE str == <<NL, NL>>
<1>1. Len(str) = 2 /\ str[1] = NL /\ str[2] = NL
  OBVIOUS
<1> HIDE DEF str
<1>0. PICK f : Follows(f, puts(k, str, "black"), k, str, "black")
  BY <1>1, PutsSteps
<1>2. /\ puts(k, str, "black") = f[2] /\ f[0] = k
      /\ \A n \in 1 .. 2 : f[n] = putchar(f[n - 1], str[n], "black")
  BY <1>0, <1>1 DEF Follows
<1>3. f[1] = putchar(k, NL, "black") /\ f[2] = putchar(f[1], NL, "black")
  <2>1. 1 \in 1 .. 2 /\ 2 \in 1 .. 2 /\ 1 - 1 = 0 /\ 2 - 1 = 1
    OBVIOUS
  <2> QED
    BY <1>1, <1>2, <2>1
<1>4. Window(f[1])
  BY <1>3, Newline
<1> QED
  BY <1>2, <1>3, <1>4, Newline DEF str

\* The prompt printed at the start of a row.
LEMMA PromptFacts ==
    ASSUME Plain
    PROVE  /\ Len(PromptText) \in Nat /\ LineStart \in Int /\ Left <= LineStart /\ LineStart < Right
           /\ \A i \in 1 .. Len(PromptText) : PromptText[i] \notin {NL, BS, TAB}
  BY ConsoleAssumption, Sizes DEF Plain, LineStart

\* The prompt printed at the window's left edge stands on one row.
LEMMA PromptWindow ==
    ASSUME Plain, NEW k, Window(k), k.col = Left
    PROVE  LET q == shell_print_prompt(k) IN
           Window(q) /\ q.row = k.row /\ q.col = LineStart /\ PromptAt(q, q.row)
<1> DEFINE N == Len(PromptText)
<1>0. N \in Nat /\ \A i \in 1 .. N : PromptText[i] \notin {NL, BS, TAB}
  BY PromptFacts
<1>p. PICK f : Follows(f, puts(k, PromptText, "black"), k, PromptText, "black")
  BY <1>0, PutsSteps
<1>1. /\ puts(k, PromptText, "black") = f[N] /\ f[0] = k
      /\ \A n \in 1 .. N : f[n] = putchar(f[n - 1], PromptText[n], "black")
  BY <1>p DEF Follows
<1> DEFINE Good(n) == /\ Window(f[n]) /\ f[n].row = k.row /\ f[n].col = Left + n
                      /\ \A i \in 1 .. n : f[n].fb[k.row][Left + i - 1].ch = PromptText[i]
           S == {n \in Nat : n <= N => Good(n)}
<1>2. 0 \in S
  BY <1>1, Sizes
<1>3. ASSUME NEW n \in Nat, n \in S PROVE n + 1 \in S
  <2> SUFFICES ASSUME n + 1 <= N PROVE Good(n + 1)
    OBVIOUS
  <2> DEFINE ch == PromptText[n + 1]
             q == putchar(f[n], ch, "black")
  <2>1. n <= N /\ n + 1 \in 1 .. N /\ (n + 1) - 1 = n
    BY <1>0
  <2>2. Good(n)
    BY <1>3, <2>1
  <2>3. f[n + 1] = q /\ ch \notin {NL, BS, TAB}
    BY <1>0, <1>1, <2>1
  <2>4. Left + n < Right /\ Left + n \in Cols /\ Left + n \in Left .. Right
    BY <1>0, PromptFacts, Sizes DEF LineStart
  <2>5. /\ ScreenRec(f[n]) /\ Limits(f[n]) /\ f[n].row = k.row /\ f[n].row \in Rows
        /\ f[n].col = Left + n
    BY <2>2, Sizes DEF Window, Inside
  <2>6. OneCell(f[n], q, k.row, Left + n, Cell(ch, "black")) /\ q.row = k.row /\ q.col = Left + n + 1
    BY <2>3, <2>4, <2>5, Printed
  <2>7. Window(q)
    BY <2>2, <2>3, PutWindow
  <2> HIDE DEF q, ch
  <2>8. ASSUME NEW i \in 1 .. n + 1 PROVE q.fb[k.row][Left + i - 1].ch = PromptText[i]
    <3>1. Left + i - 1 \in Cols /\ k.row \in Rows
      BY <2>4, <2>5, Sizes
    <3>2. q.fb[k.row][Left + i - 1] = IF Left + i - 1 = Left + n THEN Cell(ch, "black")
                                      ELSE f[n].fb[k.row][Left + i - 1]
      BY <2>6, <3>1 DEF OneCell
    <3>3. CASE i = n + 1
      BY <3>2, <3>3, Sizes DEF Cell, ch
    <3>4. CASE i # n + 1
      <4>1. i \in 1 .. n /\ Left + i - 1 # Left + n
        BY <3>4, Sizes
      <4> QED
        BY <2>2, <3>2, <4>1
    <3> QED
      BY <3>3, <3>4
  <2> QED
    BY <2>3, <2>6, <2>7, <2>8, Sizes
<1> HIDE DEF S
<1>4. \A n \in Nat : n \in S
  BY <1>2, <1>3, SetInduction
<1>5. Good(N)
  BY <1>0, <1>4 DEF S
<1> QED
  BY <1>1, <1>5 DEF shell_print_prompt, LineStart, PromptAt

\* A cursor that fits a byte is set as it is.
LEMMA CursorSet ==
    ASSUME NEW k, ScreenRec(k), NEW row \in 0 .. 255, NEW col \in 0 .. 255
    PROVE  LET q == set_cursor(k, row, col) IN
           /\ ScreenRec(q) /\ q.row = row /\ q.col = col /\ q.fb = k.fb
           /\ q.up_limit = k.up_limit /\ q.down_limit = k.down_limit
           /\ q.left_limit = k.left_limit /\ q.right_limit = k.right_limit
<1> DEFINE q == set_cursor(k, row, col)
<1>1. row % 256 = row /\ col % 256 = col
  OBVIOUS
<1>2. q = [k EXCEPT !.row = row, !.col = col]
  BY <1>1 DEF set_cursor
<1>3. k = [f \in ScreenFields |-> k[f]] /\ Shaped(k.fb) /\ k.last_non_space_col \in [Rows -> Byte]
  BY DEF ScreenRec
<1> HIDE DEF q
<1>4. /\ q = [f \in ScreenFields |-> q[f]] /\ q.row = row /\ q.col = col /\ q.fb = k.fb
      /\ q.last_non_space_col = k.last_non_space_col
      /\ q.up_limit = k.up_limit /\ q.down_limit = k.down_limit
      /\ q.left_limit = k.left_limit /\ q.right_limit = k.right_limit
  BY <1>2, <1>3 DEF ScreenFields
<1>5. ScreenRec(q)
  BY <1>3, <1>4 DEF ScreenRec
<1> QED
  BY <1>4, <1>5 DEF q

\* A framebuffer painted anew.
LEMMA Repainted ==
    ASSUME NEW k, ScreenRec(k), NEW fb, Shaped(fb)
    PROVE  LET q == [k EXCEPT !.fb = fb] IN
           /\ ScreenRec(q) /\ q.row = k.row /\ q.col = k.col /\ q.fb = fb
           /\ q.up_limit = k.up_limit /\ q.down_limit = k.down_limit
           /\ q.left_limit = k.left_limit /\ q.right_limit = k.right_limit
<1> DEFINE q == [k EXCEPT !.fb = fb]
<1>3. k = [f \in ScreenFields |-> k[f]] /\ k.last_non_space_col \in [Rows -> Byte]
  BY DEF ScreenRec
<1>4. /\ q = [f \in ScreenFields |-> q[f]] /\ q.row = k.row /\ q.col = k.col /\ q.fb = fb
      /\ q.last_non_space_col = k.last_non_space_col
      /\ q.up_limit = k.up_limit /\ q.down_limit = k.down_limit
      /\ q.left_limit = k.left_limit /\ q.right_limit = k.right_limit
  BY <1>3 DEF ScreenFields
<1> HIDE DEF q
<1>5. ScreenRec(q)
  BY <1>3, <1>4 DEF ScreenRec
<1> QED
  BY <1>4, <1>5 DEF q

\* clear paints the window and leaves the rest.
LEMMA ClearFacts ==
    ASSUME NEW k, ScreenRec(k), Limits(k)
    PROVE  LET q == clear_screen(k) IN
           /\ ScreenRec(q) /\ Limits(q)
           /\ \A r \in Rows, c \in Cols :
                q.fb[r][c] = IF r \in Up .. Down /\ c \in Left .. Right
                             THEN Cell(NUL, "black") ELSE k.fb[r][c]
<1> DEFINE fb == [r \in Rows |-> [c \in Cols |->
                    IF InWindow(k, r, c) THEN Cell(NUL, "black") ELSE k.fb[r][c]]]
           q == [k EXCEPT !.fb = fb]
<1>1. Shaped(fb)
  BY DEF Shaped
<1>2. \A r \in Rows, c \in Cols :
        fb[r][c] = IF r \in Up .. Down /\ c \in Left .. Right THEN Cell(NUL, "black") ELSE k.fb[r][c]
  BY DEF InWindow, Limits
<1>3. clear_screen(k) = q
  BY DEF clear_screen
<1> HIDE DEF fb
<1>4. /\ ScreenRec(q) /\ q.fb = fb
      /\ q.up_limit = k.up_limit /\ q.down_limit = k.down_limit
      /\ q.left_limit = k.left_limit /\ q.right_limit = k.right_limit
  BY <1>1, Repainted
<1> HIDE DEF q
<1> QED
  BY <1>2, <1>3, <1>4 DEF Limits

\* The command clear, as far as its prompt.
LEMMA ClearWindow ==
    ASSUME NEW k, Window(k)
    PROVE  LET q == set_cursor(clear_screen(k), Up, Left) IN Window(q) /\ q.col = Left
<1> DEFINE c == clear_screen(k)
           q == set_cursor(c, Up, Left)
<1>1. ScreenRec(k) /\ Limits(k) /\ Painted(k)
  BY DEF Window
<1>2. /\ ScreenRec(c) /\ Limits(c)
      /\ \A r \in Rows, d \in Cols :
           c.fb[r][d] = IF r \in Up .. Down /\ d \in Left .. Right THEN Cell(NUL, "black") ELSE k.fb[r][d]
  BY <1>1, ClearFacts
<1>3. Up \in 0 .. 255 /\ Left \in 0 .. 255 /\ Up \in Up .. Down /\ Left \in Left .. Right
  BY Sizes
<1> HIDE DEF c
<1>s. ScreenRec(c)
  BY <1>2
<1>4. /\ ScreenRec(q) /\ q.row = Up /\ q.col = Left /\ q.fb = c.fb
      /\ q.up_limit = c.up_limit /\ q.down_limit = c.down_limit
      /\ q.left_limit = c.left_limit /\ q.right_limit = c.right_limit
  BY <1>s, <1>3, CursorSet
<1> HIDE DEF q
<1>5. Limits(q) /\ Inside(q)
  BY <1>2, <1>3, <1>4 DEF Limits, Inside
<1>6. Painted(q)
  <2> SUFFICES ASSUME NEW r \in Rows, NEW d \in Cols
               PROVE  (q.fb[r][d].bg # "art") <=> (r \in Up - 1 .. Down /\ d \in Left .. Right)
    BY DEF Painted
  <2>1. Cell(NUL, "black").bg = "black"
    BY DEF Cell
  <2>2. r \in Up .. Down => r \in Up - 1 .. Down
    BY Sizes
  <2> QED
    BY <1>1, <1>2, <1>4, <2>1, <2>2 DEF Painted
<1> QED
  BY <1>4, <1>5, <1>6 DEF Window, q, c

\* The background, and the cursor where shell_create_bg leaves it.
LEMMA BackgroundFacts ==
    ASSUME NEW k, ScreenRec(k)
    PROVE  LET q == shell_create_bg(k) IN
           /\ ScreenRec(q) /\ Background(q) /\ q.row \in Rows /\ q.col \in Cols
           /\ q.up_limit = k.up_limit /\ q.down_limit = k.down_limit
           /\ q.left_limit = k.left_limit /\ q.right_limit = k.right_limit
<1> DEFINE fb == [r \in Rows |-> [c \in Cols |-> Cell(SP, "art")]]
           p == [k EXCEPT !.fb = fb]
           q == set_cursor(p, WelcomeRow, WelcomeCol)
<1>1. Shaped(fb) /\ \A r \in Rows, c \in Cols : fb[r][c].bg = "art"
  BY DEF Shaped, Cell
<1>2. shell_create_bg(k) = q
  BY DEF shell_create_bg
<1> HIDE DEF fb
<1>3. /\ ScreenRec(p) /\ p.fb = fb
      /\ p.up_limit = k.up_limit /\ p.down_limit = k.down_limit
      /\ p.left_limit = k.left_limit /\ p.right_limit = k.right_limit
  BY <1>1, Repainted
<1> HIDE DEF p
<1>4. WelcomeRow \in 0 .. 255 /\ WelcomeCol \in 0 .. 255
  BY ConsoleAssumption, ScreenAssumption DEF Rows, Cols
<1>5. /\ ScreenRec(q) /\ q.row = WelcomeRow /\ q.col = WelcomeCol /\ q.fb = p.fb
      /\ q.up_limit = p.up_limit /\ q.down_limit = p.down_limit
      /\ q.left_limit = p.left_limit /\ q.right_limit = p.right_limit
  BY <1>3, <1>4, CursorSet
<1> HIDE DEF q
<1> QED
  BY <1>1, <1>2, <1>3, <1>5, ConsoleAssumption DEF Background

\* The window and the first n cells of the header are painted.
PaintedUpTo(k, n) ==
    \A r \in Rows, c \in Cols :
        (k.fb[r][c].bg # "art") <=> \/ r \in Up .. Down /\ c \in Left .. Right
                                    \/ r = Up - 1 /\ c \in Left .. Left + n - 1

\* The header printed above the window takes the cursor into it.
LEMMA HeaderWindow ==
    ASSUME NEW k, ScreenRec(k), Limits(k), PaintedUpTo(k, 0), k.row = Up - 1, k.col = Left,
           NEW str, Len(str) = Right + 1 - Left,
           \A i \in 1 .. Len(str) : str[i] = SP
    PROVE  LET q == puts(k, str, "header") IN Window(q) /\ q.col = Left /\ q.row = Up
<1> DEFINE N == Right + 1 - Left
<1>0. N \in Nat /\ N >= 1 /\ N = Len(str) /\ Up - 1 \in Rows
  BY Sizes
<1>p. PICK f : Follows(f, puts(k, str, "header"), k, str, "header")
  BY <1>0, PutsSteps
<1>1. /\ puts(k, str, "header") = f[N] /\ f[0] = k
      /\ \A n \in 1 .. N : f[n] = putchar(f[n - 1], SP, "header")
  BY <1>p, <1>0 DEF Follows
<1> DEFINE Good(n) == /\ ScreenRec(f[n]) /\ Limits(f[n]) /\ PaintedUpTo(f[n], n)
                      /\ n < N => f[n].row = Up - 1 /\ f[n].col = Left + n
                      /\ n = N => f[n].row = Up /\ f[n].col = Left
           S == {n \in Nat : n <= N => Good(n)}
<1> HIDE DEF N
<1>2. 0 \in S
  <2>1. 0 # N /\ Left + 0 = Left
    BY <1>0, Sizes
  <2> QED
    BY <1>1, <2>1
<1>3. ASSUME NEW n \in Nat, n \in S PROVE n + 1 \in S
  <2> SUFFICES ASSUME n + 1 <= N PROVE Good(n + 1)
    OBVIOUS
  <2> DEFINE q == putchar(f[n], SP, "header")
  <2>1. n < N /\ n <= N /\ n + 1 \in 1 .. N /\ (n + 1) - 1 = n
    BY <1>0
  <2>2. Good(n)
    BY <1>3, <2>1
  <2>3. f[n + 1] = q
    BY <1>1, <2>1
  <2>4. /\ ScreenRec(f[n]) /\ Limits(f[n]) /\ f[n].row = Up - 1 /\ f[n].col = Left + n
        /\ f[n].row \in Rows
    BY <1>0, <2>1, <2>2
  <2>5. /\ Left + n \in Left .. Right /\ Left + n \in Cols /\ Up - 1 # Down
        /\ Left + n = Right <=> n + 1 = N
    BY <2>1, Sizes DEF N
  <2>6. SP \notin {NL, BS, TAB}
    BY DEF SP, NL, BS, TAB
  <2>7. /\ ScreenRec(q) /\ Limits(q) /\ OneCell(f[n], q, Up - 1, Left + n, Cell(SP, "header"))
        /\ Left + n # Right => q.row = Up - 1 /\ q.col = Left + n + 1
        /\ Left + n = Right => q.row = (Up - 1) + 1 /\ q.col = Left
    BY <2>4, <2>5, <2>6, Printed
  <2> HIDE DEF q
  <2>8. PaintedUpTo(q, n + 1)
    <3> SUFFICES ASSUME NEW r \in Rows, NEW c \in Cols
                 PROVE  (q.fb[r][c].bg # "art") <=>
                           \/ r \in Up .. Down /\ c \in Left .. Right
                           \/ r = Up - 1 /\ c \in Left .. Left + (n + 1) - 1
      BY DEF PaintedUpTo
    <3>1. q.fb[r][c] = IF r = Up - 1 /\ c = Left + n THEN Cell(SP, "header") ELSE f[n].fb[r][c]
      BY <2>7 DEF OneCell
    <3>2. (f[n].fb[r][c].bg # "art") <=> \/ r \in Up .. Down /\ c \in Left .. Right
                                         \/ r = Up - 1 /\ c \in Left .. Left + n - 1
      BY <2>2 DEF PaintedUpTo
    <3>3. Cell(SP, "header").bg = "header"
      BY DEF Cell
    <3>4. c \in Left .. Left + (n + 1) - 1 <=> (c \in Left .. Left + n - 1 \/ c = Left + n)
      BY Sizes
    <3> QED
      BY <3>1, <3>2, <3>3, <3>4
  <2>9. /\ n + 1 < N => q.row = Up - 1 /\ q.col = Left + (n + 1)
        /\ n + 1 = N => q.row = Up /\ q.col = Left
    BY <1>0, <2>5, <2>7, Sizes
  <2> QED
    BY <2>3, <2>7, <2>8, <2>9
<1> HIDE DEF S
<1>4. \A n \in Nat : n \in S
  BY <1>2, <1>3, SetInduction
<1>5. Good(N)
  BY <1>0, <1>4 DEF S
<1> DEFINE q == f[N]
<1>6. ScreenRec(q) /\ Limits(q) /\ PaintedUpTo(q, N) /\ q.row = Up /\ q.col = Left
  BY <1>5
<1> HIDE DEF q
<1>7. Inside(q)
  BY <1>6, Sizes DEF Inside
<1>8. Painted(q)
  <2> SUFFICES ASSUME NEW r \in Rows, NEW c \in Cols
               PROVE  (q.fb[r][c].bg # "art") <=> (r \in Up - 1 .. Down /\ c \in Left .. Right)
    BY DEF Painted
  <2>1. (q.fb[r][c].bg # "art") <=> \/ r \in Up .. Down /\ c \in Left .. Right
                                    \/ r = Up - 1 /\ c \in Left .. Left + N - 1
    BY <1>6 DEF PaintedUpTo
  <2>2. Left + N - 1 = Right /\ (r \in Up - 1 .. Down <=> (r \in Up .. Down \/ r = Up - 1))
    BY Sizes DEF N
  <2> QED
    BY <2>1, <2>2
<1> QED
  BY <1>1, <1>6, <1>7, <1>8 DEF Window, q

-----------------------------------------------------------------------------
(***************************************************************************)
(* The line.                                                               *)
(***************************************************************************)

\* Intervals from 1 with as many elements have the same end.
LEMMA SameEnd ==
    ASSUME NEW m \in Nat, NEW n \in Nat, 1 .. m = 1 .. n
    PROVE  m = n
<1>1. CASE m < n
  <2>1. n \in 1 .. n /\ n \notin 1 .. m
    BY <1>1
  <2> QED
    BY <2>1
<1>2. CASE n < m
  <2>1. m \in 1 .. m /\ m \notin 1 .. n
    BY <1>2
  <2> QED
    BY <2>1
<1> QED
  BY <1>1, <1>2

\* A function on 1 .. n with values in S is a sequence of that length.
LEMMA Listed ==
    ASSUME NEW S, NEW n \in Nat, NEW s \in [1 .. n -> S]
    PROVE  s \in Seq(S) /\ Len(s) = n
<1>1. s \in Seq(S)
  BY SeqDef
<1>2. Len(s) \in Nat /\ DOMAIN s = 1 .. Len(s)
  BY <1>1, LenProperties
<1> QED
  BY <1>1, <1>2, SameEnd

\* The cells of the line.
LEMMA RowFacts ==
    ASSUME Plain, NEW k, NEW row, k.col \in Int, k.col >= LineStart,
           \A i \in 1 .. k.col - LineStart : k.fb[row][LineStart + i - 1].ch \in Chars
    PROVE  /\ RowText(k, row) \in Seq(Chars) /\ Len(RowText(k, row)) = k.col - LineStart
           /\ \A i \in 1 .. k.col - LineStart : RowText(k, row)[i] = k.fb[row][LineStart + i - 1].ch
<1>1. k.col - LineStart \in Nat
  BY PromptFacts
<1>2. RowText(k, row) \in [1 .. k.col - LineStart -> Chars]
  BY DEF RowText
<1>3. \A i \in 1 .. k.col - LineStart : RowText(k, row)[i] = k.fb[row][LineStart + i - 1].ch
  BY DEF RowText
<1> QED
  BY <1>1, <1>2, <1>3, Listed

\* A line of known characters, read back.
LEMMA RowRead ==
    ASSUME Plain, NEW k, NEW row, k.col \in Int, k.col >= LineStart, RowText(k, row) \in Seq(Chars)
    PROVE  /\ Len(RowText(k, row)) = k.col - LineStart
           /\ \A i \in 1 .. k.col - LineStart : k.fb[row][LineStart + i - 1].ch \in Chars
<1>1. k.col - LineStart \in Nat
  BY PromptFacts
<1>2. DOMAIN RowText(k, row) = 1 .. k.col - LineStart
  BY DEF RowText
<1>3. Len(RowText(k, row)) = k.col - LineStart
  BY <1>1, <1>2, LenProperties, SameEnd
<1>4. \A i \in 1 .. k.col - LineStart : RowText(k, row)[i] \in Chars
  BY <1>3, ElementOfSeq
<1> QED
  BY <1>3, <1>4 DEF RowText

\* A line that has no character.
LEMMA RowEmpty ==
    ASSUME Plain, NEW k, NEW row, k.col = LineStart
    PROVE  RowText(k, row) = <<>> /\ RowText(k, row) \in Seq(Chars)
<1>1. k.col - LineStart = 0 /\ LineStart \in Int
  BY PromptFacts
<1>2. \A i \in 1 .. k.col - LineStart : k.fb[row][LineStart + i - 1].ch \in Chars
  BY <1>1
<1>3. RowText(k, row) \in Seq(Chars) /\ Len(RowText(k, row)) = 0
  BY <1>1, <1>2, RowFacts
<1> QED
  BY <1>3, EmptySeq

\* A character more at the cursor.
LEMMA RowGrown ==
    ASSUME Plain, NEW k, NEW q, NEW row \in Rows, NEW ch \in Chars, NEW bg,
           k.col \in Left .. Right, k.col >= LineStart, q.col = k.col + 1,
           RowText(k, row) \in Seq(Chars), OneCell(k, q, row, k.col, Cell(ch, bg))
    PROVE  RowText(q, row) = Append(RowText(k, row), ch) /\ RowText(q, row) \in Seq(Chars)
<1> DEFINE n == k.col - LineStart
           s == RowText(k, row)
           t == RowText(q, row)
<1>0. /\ n \in Nat /\ k.col \in Int /\ q.col - LineStart = n + 1 /\ LineStart \in Int /\ Left <= LineStart
      /\ q.col \in Int /\ q.col >= LineStart /\ LineStart + (n + 1) - 1 = k.col
      /\ k.col \in Cols
  BY PromptFacts, Sizes
<1>1. Len(s) = n /\ \A i \in 1 .. n : k.fb[row][LineStart + i - 1].ch \in Chars
  BY <1>0, RowRead
<1>2. ASSUME NEW i \in 1 .. n + 1
      PROVE  q.fb[row][LineStart + i - 1].ch = IF i = n + 1 THEN ch ELSE k.fb[row][LineStart + i - 1].ch
  <2>a. /\ LineStart + i - 1 \in Int /\ 0 <= LineStart + i - 1 /\ LineStart + i - 1 <= k.col
        /\ (LineStart + i - 1 = k.col <=> i = n + 1)
    <3>1. Left \in Nat
      BY Sizes
    <3> HIDE DEF n
    <3>2. n \in Nat /\ LineStart \in Int /\ Left <= LineStart /\ k.col = LineStart + n
      BY <1>0
    <3> QED
      BY <3>1, <3>2
  <2>b. k.col < FRAMEBUFFER_WIDTH /\ FRAMEBUFFER_WIDTH \in Int /\ k.col \in Int
    BY <1>0, Sizes
  <2>1. LineStart + i - 1 \in Cols /\ (LineStart + i - 1 = k.col <=> i = n + 1)
    <3> HIDE DEF n
    <3> QED
      BY <2>a, <2>b DEF Cols
  <2>2. q.fb[row][LineStart + i - 1] = IF LineStart + i - 1 = k.col THEN Cell(ch, bg)
                                       ELSE k.fb[row][LineStart + i - 1]
    BY <2>1 DEF OneCell
  <2> QED
    BY <2>1, <2>2 DEF Cell
<1>3. \A i \in 1 .. q.col - LineStart : q.fb[row][LineStart + i - 1].ch \in Chars
  <2> SUFFICES ASSUME NEW i \in 1 .. n + 1 PROVE q.fb[row][LineStart + i - 1].ch \in Chars
    BY <1>0
  <2>1. i # n + 1 => i \in 1 .. n
    BY <1>0
  <2> QED
    BY <1>1, <1>2, <2>1
<1>4. /\ t \in Seq(Chars) /\ Len(t) = n + 1
      /\ \A i \in 1 .. n + 1 : t[i] = q.fb[row][LineStart + i - 1].ch
  BY <1>0, <1>3, RowFacts
<1>5. \A i \in 1 .. n : s[i] = k.fb[row][LineStart + i - 1].ch
  BY <1>0, <1>1, RowFacts
<1> DEFINE u == Append(s, ch)
<1>6. /\ u \in Seq(Chars) /\ Len(u) = n + 1 /\ u[n + 1] = ch
      /\ \A i \in 1 .. n : u[i] = s[i]
  BY <1>1, AppendProperties
<1> HIDE DEF s, t, u, n
<1>7. \A i \in 1 .. Len(t) : t[i] = u[i]
  <2> SUFFICES ASSUME NEW i \in 1 .. n + 1 PROVE t[i] = u[i]
    BY <1>4
  <2>1. i # n + 1 => i \in 1 .. n
    BY <1>0
  <2> QED
    BY <1>2, <1>4, <1>5, <1>6, <2>1
<1>8. t = u
  BY <1>4, <1>6, <1>7, SeqEqual
<1> QED
  BY <1>4, <1>8 DEF t, u, s

\* A line r without the last character of t.
Shorter(r, t) == Len(t) = Len(r) + 1 /\ \A i \in 1 .. Len(r) : r[i] = t[i]

\* A character less before the cursor.
LEMMA RowShrunk ==
    ASSUME Plain, NEW k, NEW q, NEW row \in Rows, NEW cell,
           k.col \in Left .. Right, k.col > LineStart, q.col = k.col - 1,
           RowText(k, row) \in Seq(Chars), OneCell(k, q, row, k.col - 1, cell)
    PROVE  RowText(q, row) \in Seq(Chars) /\ Shorter(RowText(q, row), RowText(k, row))
<1> DEFINE n == q.col - LineStart
           s == RowText(k, row)
           t == RowText(q, row)
<1>0. /\ n \in Nat /\ k.col \in Int /\ k.col - LineStart = n + 1 /\ LineStart \in Int /\ 0 <= LineStart
      /\ q.col \in Int /\ q.col >= LineStart /\ LineStart + n = q.col /\ k.col >= LineStart
      /\ k.col < FRAMEBUFFER_WIDTH /\ FRAMEBUFFER_WIDTH \in Int
  BY PromptFacts, Sizes
<1>1. Len(s) = n + 1 /\ \A i \in 1 .. n + 1 : k.fb[row][LineStart + i - 1].ch \in Chars
  BY <1>0, RowRead
<1>2. ASSUME NEW i \in 1 .. n
      PROVE  q.fb[row][LineStart + i - 1] = k.fb[row][LineStart + i - 1]
  <2>1. /\ LineStart + i - 1 \in Int /\ 0 <= LineStart + i - 1 /\ LineStart + i - 1 < FRAMEBUFFER_WIDTH
        /\ LineStart + i - 1 # k.col - 1
    BY <1>0
  <2>2. LineStart + i - 1 \in Cols
    <3> HIDE DEF n
    <3> QED
      BY <1>0, <2>1 DEF Cols
  <2> QED
    BY <2>1, <2>2 DEF OneCell
<1>3. \A i \in 1 .. n : i \in 1 .. n + 1
  BY <1>0
<1>4. \A i \in 1 .. n : q.fb[row][LineStart + i - 1].ch \in Chars
  BY <1>1, <1>2, <1>3
<1>5. t \in Seq(Chars) /\ Len(t) = n /\ \A i \in 1 .. n : t[i] = q.fb[row][LineStart + i - 1].ch
  BY <1>0, <1>4, RowFacts
<1>6. \A i \in 1 .. n + 1 : s[i] = k.fb[row][LineStart + i - 1].ch
  <2>1. \A i \in 1 .. k.col - LineStart : s[i] = k.fb[row][LineStart + i - 1].ch
    BY DEF RowText
  <2> HIDE DEF n, s
  <2> QED
    BY <1>0, <2>1
<1> HIDE DEF s, t, n
<1>7. \A i \in 1 .. Len(t) : t[i] = s[i]
  BY <1>2, <1>3, <1>5, <1>6
<1>8. Shorter(t, s)
  BY <1>1, <1>5, <1>7 DEF Shorter
<1> QED
  BY <1>5, <1>8 DEF s, t

\* Appending to the end of a line, and taking its last character off.
Appends(s, t, e) == Append(s \o t, e) = s \o Append(t, e)
Shortens(S, s, t, r) ==
    /\ Front(s \o t) = s \o r /\ s \o r \in Seq(S)
    /\ Len(s \o t) > 0 /\ Len(s \o r) = Len(s \o t) - 1

\* A character behind a line is a character behind its second part.
LEMMA AppendedLine ==
    ASSUME NEW S, NEW s \in Seq(S), NEW t \in Seq(S), NEW e \in S
    PROVE  Appends(s, t, e)
<1> DEFINE u == Append(s \o t, e)
           v == s \o Append(t, e)
           m == Len(s)
           n == Len(t)
<1>0. m \in Nat /\ n \in Nat
  BY LenProperties
<1>1. /\ s \o t \in Seq(S) /\ Len(s \o t) = m + n
      /\ \A i \in 1 .. m + n : (s \o t)[i] = IF i <= m THEN s[i] ELSE t[i - m]
  BY ConcatProperties
<1>2. /\ u \in Seq(S) /\ Len(u) = m + n + 1 /\ u[m + n + 1] = e
      /\ \A i \in 1 .. m + n : u[i] = (s \o t)[i]
  BY <1>1, AppendProperties
<1> DEFINE w == Append(t, e)
<1>3. /\ w \in Seq(S) /\ Len(w) = n + 1 /\ w[n + 1] = e
      /\ \A i \in 1 .. n : w[i] = t[i]
  BY AppendProperties
<1>4. /\ v \in Seq(S) /\ Len(v) = m + n + 1
      /\ \A i \in 1 .. m + n + 1 : v[i] = IF i <= m THEN s[i] ELSE w[i - m]
  <2> HIDE DEF w
  <2>1. /\ s \o w \in Seq(S) /\ Len(s \o w) = m + Len(w)
        /\ \A i \in 1 .. m + Len(w) : (s \o w)[i] = IF i <= m THEN s[i] ELSE w[i - m]
    BY <1>3, ConcatProperties
  <2>2. m + Len(w) = m + n + 1
    BY <1>0, <1>3
  <2> QED
    BY <2>1, <2>2 DEF w
<1> HIDE DEF u, v, w, m, n
<1>5. ASSUME NEW i \in 1 .. m + n + 1 PROVE u[i] = v[i]
  <2>1. CASE i = m + n + 1
    <3>1. ~ (i <= m) /\ i - m = n + 1
      BY <1>0, <2>1
    <3> QED
      BY <1>2, <1>3, <1>4, <2>1, <3>1
  <2>2. CASE i # m + n + 1
    <3>1. i \in 1 .. m + n /\ (~ (i <= m) => i - m \in 1 .. n)
      BY <1>0, <2>2
    <3> QED
      BY <1>1, <1>2, <1>3, <1>4, <3>1
  <2> QED
    BY <2>1, <2>2
<1>6. u = v
  BY <1>2, <1>4, <1>5, SeqEqual
<1> QED
  BY <1>6 DEF u, v, w, Appends

\* The last character of a line is the last of its second part.
LEMMA ShortenedLine ==
    ASSUME NEW S, NEW s \in Seq(S), NEW t \in Seq(S), NEW r \in Seq(S), Shorter(r, t)
    PROVE  Shortens(S, s, t, r)
<1> DEFINE m == Len(s)
           n == Len(r)
           st == s \o t
           sr == s \o r
           u == Front(st)
<1>s. Len(t) = Len(r) + 1 /\ \A i \in 1 .. Len(r) : r[i] = t[i]
  BY DEF Shorter
<1>0. m \in Nat /\ n \in Nat
  BY LenProperties
<1>1. /\ st \in Seq(S) /\ Len(st) = m + n + 1
      /\ \A i \in 1 .. m + n + 1 : st[i] = IF i <= m THEN s[i] ELSE t[i - m]
  <2>1. /\ st \in Seq(S) /\ Len(st) = m + Len(t)
        /\ \A i \in 1 .. m + Len(t) : st[i] = IF i <= m THEN s[i] ELSE t[i - m]
    BY ConcatProperties
  <2>2. m + Len(t) = m + n + 1
    BY <1>0, <1>s
  <2> QED
    BY <2>1, <2>2
<1>2. /\ sr \in Seq(S) /\ Len(sr) = m + n
      /\ \A i \in 1 .. m + n : sr[i] = IF i <= m THEN s[i] ELSE r[i - m]
  BY ConcatProperties
<1>3. \A i \in 1 .. m + n : st[i] \in S
  <2>1. \A i \in 1 .. m + n : i \in 1 .. Len(st)
    BY <1>0, <1>1
  <2> HIDE DEF st
  <2> QED
    BY <1>1, <2>1, ElementOfSeq
<1>4. u = SubSeq(st, 1, m + n)
  BY <1>0, <1>1 DEF Front
<1> HIDE DEF st, sr
<1>5. /\ u \in Seq(S) /\ Len(u) = m + n
      /\ \A i \in 1 .. m + n : u[i] = st[i]
  <2>1. 1 \in Int /\ m + n \in Int /\ (IF 1 <= m + n THEN m + n - 1 + 1 ELSE 0) = m + n
    BY <1>0
  <2>2. /\ SubSeq(st, 1, m + n) \in Seq(S)
        /\ Len(SubSeq(st, 1, m + n)) = IF 1 <= m + n THEN m + n - 1 + 1 ELSE 0
        /\ \A i \in 1 .. m + n - 1 + 1 : SubSeq(st, 1, m + n)[i] = st[1 + i - 1]
    BY <1>3, <2>1, SubSeqProperties
  <2>3. \A i \in 1 .. m + n : i \in 1 .. m + n - 1 + 1 /\ 1 + i - 1 = i
    BY <1>0
  <2> QED
    BY <1>4, <2>1, <2>2, <2>3
<1> HIDE DEF u, m
<1>6. ASSUME NEW i \in 1 .. m + n PROVE u[i] = sr[i]
  <2>1. i \in 1 .. m + n + 1 /\ (~ (i <= m) => i - m \in 1 .. n)
    BY <1>0
  <2> QED
    BY <1>s, <1>1, <1>2, <1>5, <2>1
<1>7. u = sr
  BY <1>2, <1>5, <1>6, SeqEqual
<1> QED
  BY <1>0, <1>1, <1>2, <1>7 DEF u, st, sr, Shortens

-----------------------------------------------------------------------------
\* A backspace behind the first column of the window.
LEMMA Erased ==
    ASSUME NEW k, Window(k), k.col > Left, NEW bg
    PROVE  LET q == putchar(k, BS, bg) IN
           /\ Window(q) /\ q.row = k.row /\ q.col = k.col - 1
           /\ OneCell(k, q, k.row, k.col - 1, Cell(SP, "black"))
<1> DEFINE p == [k EXCEPT !.col = @ - 1]
           q == framebuffer_write(p, k.row, k.col - 1, Cell(SP, "black"))
<1>1. /\ ScreenRec(k) /\ Limits(k) /\ k.row \in Up .. Down /\ k.col \in Left .. Right /\ Painted(k)
  BY DEF Window, Inside
<1>2. /\ k.row \in Rows /\ k.row \in Up - 1 .. Down
      /\ k.col - 1 \in Cols /\ k.col - 1 \in Left .. Right
  BY <1>1, Sizes
<1>3. putchar(k, BS, bg) = q
  <2>1. putchar(k, BS, bg) = PutBackspace(k)
    BY DEF putchar, NL, BS, TAB
  <2>2. k.col > k.left_limit
    BY <1>1 DEF Limits
  <2> QED
    BY <2>1, <2>2 DEF PutBackspace
<1>4. /\ p = [f \in ScreenFields |-> p[f]] /\ p.row = k.row /\ p.col = k.col - 1 /\ p.fb = k.fb
      /\ p.last_non_space_col = k.last_non_space_col
      /\ p.up_limit = Up /\ p.down_limit = Down /\ p.left_limit = Left /\ p.right_limit = Right
  BY <1>1 DEF ScreenRec, ScreenFields, Limits
<1> HIDE DEF p
<1>5. ScreenRec(p)
  BY <1>1, <1>4 DEF ScreenRec
<1>6. /\ ScreenRec(q) /\ OneCell(p, q, k.row, k.col - 1, Cell(SP, "black"))
      /\ q.row = p.row /\ q.col = p.col
      /\ q.up_limit = p.up_limit /\ q.down_limit = p.down_limit
      /\ q.left_limit = p.left_limit /\ q.right_limit = p.right_limit
  BY <1>2, <1>5, CellWritten
<1> HIDE DEF q
<1>7. OneCell(k, q, k.row, k.col - 1, Cell(SP, "black"))
  BY <1>4, <1>6 DEF OneCell
<1>8. Limits(q) /\ Inside(q)
  BY <1>1, <1>2, <1>4, <1>6 DEF Limits, Inside
<1>9. Painted(q)
  <2>1. Cell(SP, "black").bg = "black"
    BY DEF Cell
  <2> QED
    BY <1>1, <1>2, <1>7, <2>1 DEF Painted, OneCell
<1> QED
  BY <1>3, <1>4, <1>6, <1>7, <1>8, <1>9 DEF Window

\* The screen of OpenShell.
Header == [c \in 1 .. Right + 1 - Left |-> SP]
Opened(k) == shell_print_prompt(puts(set_cursor(clear_screen(k), Up - 1, Left), Header, "header"))

\* A prompt alone on its row of the window.
FreshPrompt(q) == Window(q) /\ q.col = LineStart /\ PromptAt(q, q.row)

\* Opening paints window and header over the background and prints the prompt.
LEMMA OpenedScreen ==
    ASSUME Plain, NEW k, ScreenRec(k), Limits(k), Background(k)
    PROVE  FreshPrompt(Opened(k)) /\ Opened(k).row = Up
<1> DEFINE c == clear_screen(k)
           p == set_cursor(c, Up - 1, Left)
           h == puts(p, Header, "header")
<1>1. /\ ScreenRec(c) /\ Limits(c)
      /\ \A r \in Rows, d \in Cols :
           c.fb[r][d] = IF r \in Up .. Down /\ d \in Left .. Right THEN Cell(NUL, "black") ELSE k.fb[r][d]
  BY ClearFacts
<1> HIDE DEF c
<1>2. ScreenRec(c) /\ Up - 1 \in 0 .. 255 /\ Left \in 0 .. 255
  BY <1>1, Sizes
<1>3. /\ ScreenRec(p) /\ p.row = Up - 1 /\ p.col = Left /\ p.fb = c.fb
      /\ p.up_limit = c.up_limit /\ p.down_limit = c.down_limit
      /\ p.left_limit = c.left_limit /\ p.right_limit = c.right_limit
  BY <1>2, CursorSet
<1> HIDE DEF p
<1>4. Limits(p)
  BY <1>1, <1>3 DEF Limits
<1>5. PaintedUpTo(p, 0)
  <2> SUFFICES ASSUME NEW r \in Rows, NEW d \in Cols
               PROVE  (p.fb[r][d].bg # "art") <=> \/ r \in Up .. Down /\ d \in Left .. Right
                                                  \/ r = Up - 1 /\ d \in Left .. Left + 0 - 1
    BY DEF PaintedUpTo
  <2>1. d \notin Left .. Left + 0 - 1
    BY Sizes
  <2>2. Cell(NUL, "black").bg = "black" /\ k.fb[r][d].bg = "art"
    BY DEF Cell, Background
  <2> QED
    BY <1>1, <1>3, <2>1, <2>2
<1>6. Len(Header) = Right + 1 - Left /\ \A i \in 1 .. Len(Header) : Header[i] = SP
  <2>1. Right + 1 - Left \in Nat /\ Header \in [1 .. Right + 1 - Left -> {SP}]
    BY Sizes DEF Header
  <2>2. Len(Header) = Right + 1 - Left
    BY <2>1, Listed
  <2> QED
    BY <2>1, <2>2
<1>7. Window(h) /\ h.col = Left /\ h.row = Up
  BY <1>3, <1>4, <1>5, <1>6, HeaderWindow
<1> HIDE DEF h
<1>8. LET q == shell_print_prompt(h) IN
      Window(q) /\ q.row = h.row /\ q.col = LineStart /\ PromptAt(q, q.row)
  BY <1>7, PromptWindow
<1> QED
  BY <1>7, <1>8 DEF FreshPrompt, Opened, c, p, h

\* The screen of EnterLine.
Entered(k, input, out) ==
    LET printed == shell_input_handler(putchar(k, NL, "black"), input, out)
    IN  IF input = ClearWord THEN printed
        ELSE shell_print_prompt(puts(printed, <<NL, NL>>, "black"))

\* Whatever a command prints, its prompt ends on a row of the window.
LEMMA EnteredScreen ==
    ASSUME Plain, NEW k, Window(k), NEW input, NEW out \in Outputs
    PROVE  FreshPrompt(Entered(k, input, out))
<1> DEFINE n == putchar(k, NL, "black")
           p == shell_input_handler(n, input, out)
           c == set_cursor(clear_screen(n), Up, Left)
<1>1. Window(n)
  BY Newline
<1> HIDE DEF n
<1>2. Window(c) /\ c.col = Left
  BY <1>1, ClearWindow
<1> HIDE DEF c
<1>3. FreshPrompt(shell_print_prompt(c))
  BY <1>2, PromptWindow DEF FreshPrompt
<1>4. Arg0(input) = ClearWord => p = shell_print_prompt(c)
  BY DEF shell_input_handler, c
<1>5. Arg0(input) # ClearWord => Window(p)
  <2>1. Len(out) \in Nat /\ \A i \in 1 .. Len(out) : out[i] \notin {BS, TAB}
    BY ConsoleAssumption DEF Plain
  <2>2. Window(puts(n, out, "black"))
    BY <1>1, <2>1, TextWindow
  <2> QED
    BY <2>2 DEF shell_input_handler
<1> HIDE DEF p
<1>6. Window(p)
  BY <1>3, <1>4, <1>5 DEF FreshPrompt
<1>7. CASE input = ClearWord
  <2>1. Arg0(input) = ClearWord
    BY <1>7 DEF Plain
  <2> QED
    BY <1>3, <1>4, <1>7, <2>1 DEF Entered, p, n
<1>8. CASE input # ClearWord
  <2> DEFINE t == puts(p, <<NL, NL>>, "black")
  <2>1. Window(t) /\ t.col = Left
    BY <1>6, TwoNewlines
  <2> HIDE DEF t
  <2>2. FreshPrompt(shell_print_prompt(t))
    BY <2>1, PromptWindow DEF FreshPrompt
  <2> QED
    BY <1>8, <2>2 DEF Entered, p, n, t
<1> QED
  BY <1>7, <1>8

-----------------------------------------------------------------------------
(***************************************************************************)
(* The invariant of the line, step by step.                                   *)
(***************************************************************************)
LEMMA WideFacts ==
    \A ch : /\ Wide(ch) \in {0, 1}
            /\ ch \in {NL, BS, NUL} => Wide(ch) = 0
            /\ ch \notin {NL, BS, NUL} => Wide(ch) = 1
  BY DEF Wide

\* Where a line starts, and what a dropped key leaves.
LEMMA LineFacts ==
    ASSUME Plain
    PROVE  LineStart \in Byte /\ NUL \in Chars /\ NUL # TAB
<1>1. LineStart \in Byte
  <2>1. LineStart \in Int /\ Left <= LineStart /\ LineStart < Right
    BY PromptFacts
  <2>2. Left \in Nat /\ Right \in Nat /\ Right <= 255
    BY Sizes
  <2> QED
    BY <2>1, <2>2 DEF Byte
<1>2. NUL \in Chars
  BY DEF Chars, NUL
<1>3. NUL # TAB
  BY DEF NUL, TAB
<1> QED
  BY <1>1, <1>2, <1>3

\* The key waiting and the keys taken, as the line sees them.
LEMMA BufferFacts ==
    ASSUME KeyInv
    PROVE  /\ keyboard_state.keyboard_buffer.ch \in Chars
           /\ sh.taken \in Nat /\ presses \in Nat /\ sh.taken <= presses
  BY DEF KeyInv, KeyTypes, KeyboardTypeOK, Chars

\* A line behind a fresh prompt.
LEMMA FreshLine ==
    ASSUME Plain, NEW q, FreshPrompt(q), NEW t, t.pc = "ctrl", t.prompt_row = q.row,
           t.del_limit = q.col, t.shell_row >= q.row, t.carried \in Seq(Chars),
           t.shell_input = t.carried, NEW kbd
    PROVE  LineOpen(q, t, kbd)
<1>1. Window(q) /\ q.col = LineStart /\ PromptAt(q, q.row)
  BY DEF FreshPrompt
<1>2. InHand(t) = 0 /\ Wide(kbd.keyboard_buffer.ch) \in {0, 1}
  BY WideFacts DEF InHand
<1>3. LineStart \in Int /\ LineStart < Right /\ Right \in Int
  BY PromptFacts, Sizes
<1>4. q.col + InHand(t) + Wide(kbd.keyboard_buffer.ch) <= Right /\ q.col >= LineStart
  BY <1>1, <1>2, <1>3
<1>5. RowText(q, q.row) = <<>> /\ RowText(q, q.row) \in Seq(Chars)
  BY <1>1, RowEmpty
<1>6. t.carried \o RowText(q, q.row) = t.carried
  BY <1>5, ConcatEmptySeq
<1> QED
  BY <1>1, <1>4, <1>5, <1>6 DEF LineOpen

\* What a step must show of the shell and the screen.
LineRest(s, n) ==
    /\ s.high = 0
    /\ s.shell_input \in Seq(Chars) /\ s.carried \in Seq(Chars)
    /\ Len(s.shell_input) + InHand(s) <= s.taken
    /\ s.shell_row \in Up .. Down /\ s.del_limit \in Byte
    /\ s.buf # TAB /\ s.buf \in Chars /\ n # TAB
Closed(s, k) ==
    /\ ScreenRec(k) /\ Limits(k) /\ Background(k)
    /\ k.row \in Rows /\ k.col \in Cols /\ s.pc # "erase"

\* The invariant once main's loop runs, in parts.
LEMMA LineParts ==
    ASSUME LineInv, sh.pc # "main"
    PROVE  /\ LineRest(sh, keyboard_state.keyboard_buffer.ch)
           /\ ~ sh.is_open => Closed(sh, screen)
           /\ sh.is_open => LineOpen(screen, sh, keyboard_state)
  BY DEF LineInv, LineRest, Closed, InHand

\* And put together again.
LEMMA LineWhole ==
    ASSUME sh'.pc # "main", LineRest(sh', keyboard_state'.keyboard_buffer.ch),
           ~ sh'.is_open => Closed(sh', screen'),
           sh'.is_open => LineOpen(screen', sh', keyboard_state')
    PROVE  LineInv'
  BY DEF LineInv, LineRest, Closed, InHand, Window

\* OpenShell: an empty line behind the prompt, and what an earlier opening left.
LEMMA OpenLine ==
    ASSUME Plain, KeyInv, LineInv, OpenShell
    PROVE  LineInv'
<1> DEFINE s == Loop(sh)
           k == Opened(screen)
<1>1. ShellRec(sh) /\ sh.pc = "handle" /\ ~ sh.is_open /\ sh.taken \in Nat
  BY BufferFacts DEF KeyInv, KeyTypes, OpenShell, Handle
<1>2. LineRest(sh, keyboard_state.keyboard_buffer.ch) /\ Closed(sh, screen)
  BY <1>1, LineParts
<1>3. /\ screen' = k /\ keyboard_state' = keyboard_state
      /\ sh' = [Prompted(s, k) EXCEPT !.is_open = TRUE, !.carried = sh.shell_input]
  BY DEF OpenShell, Handle, Opened, Header, kbdvars
<1>4. /\ ShellRec(s) /\ s.pc = "ctrl" /\ s.buf = NUL /\ s.taken = sh.taken /\ s.high = sh.high
      /\ s.shell_row = sh.shell_row /\ s.shell_input = sh.shell_input
  BY <1>1, LoopFacts
<1>5. FreshPrompt(k) /\ k.row = Up
  BY <1>2, OpenedScreen DEF Closed
<1> HIDE DEF s, k
<1>6. /\ sh'.pc = "ctrl" /\ sh'.prompt_row = k.row /\ sh'.del_limit = k.col
      /\ sh'.shell_row = sh.shell_row /\ sh'.carried = sh.shell_input
      /\ sh'.shell_input = sh.shell_input /\ sh'.high = sh.high /\ sh'.taken = sh.taken
      /\ sh'.buf = NUL
  BY <1>3, <1>4 DEF ShellRec, Fields, Prompted
<1>7. sh'.is_open
  BY <1>3, <1>4 DEF ShellRec, Fields, Prompted
<1>8. sh.shell_row >= Up /\ sh.shell_input \in Seq(Chars)
  BY <1>2, Sizes DEF LineRest
<1>9. LineOpen(k, sh', keyboard_state)
  BY <1>5, <1>6, <1>8, FreshLine
<1>10. k.col \in Byte /\ NUL \in Chars /\ NUL # TAB
  BY <1>5, LineFacts DEF FreshPrompt
<1>11. Len(sh.shell_input) <= sh.taken
  BY <1>1, <1>2, WideFacts, LenProperties DEF LineRest, InHand
<1>12. LineRest(sh', keyboard_state'.keyboard_buffer.ch)
  <2>1. InHand(sh') = 0
    BY <1>6 DEF InHand
  <2>2. Len(sh'.shell_input) + InHand(sh') <= sh'.taken
    BY <1>1, <1>6, <1>8, <1>11, <2>1, LenProperties
  <2> QED
    BY <1>2, <1>3, <1>6, <1>10, <2>2 DEF LineRest
<1> QED
  BY <1>3, <1>6, <1>7, <1>9, <1>12, LineWhole

\* CloseShell: the background is painted, the line is kept.
LEMMA CloseLine ==
    ASSUME Plain, KeyInv, LineInv, CloseShell
    PROVE  LineInv'
<1> DEFINE s == Loop(sh)
           k == shell_create_bg(screen)
<1>1. ShellRec(sh) /\ sh.pc = "handle" /\ sh.is_open /\ sh.taken \in Nat
  BY BufferFacts DEF KeyInv, KeyTypes, CloseShell, Handle
<1>2. LineRest(sh, keyboard_state.keyboard_buffer.ch) /\ LineOpen(screen, sh, keyboard_state)
  BY <1>1, LineParts
<1>3. screen' = k /\ keyboard_state' = keyboard_state /\ sh' = [s EXCEPT !.is_open = FALSE]
  BY DEF CloseShell, Handle, kbdvars
<1>4. /\ ShellRec(s) /\ s.pc = "ctrl" /\ s.buf = NUL /\ s.taken = sh.taken /\ s.high = sh.high
      /\ s.shell_row = sh.shell_row /\ s.shell_input = sh.shell_input
      /\ s.del_limit = sh.del_limit /\ s.carried = sh.carried
  BY <1>1, LoopFacts
<1>5. ScreenRec(screen) /\ Limits(screen)
  BY <1>2 DEF LineOpen, Window
<1>6. /\ ScreenRec(k) /\ Background(k) /\ k.row \in Rows /\ k.col \in Cols /\ Limits(k)
  BY <1>5, BackgroundFacts DEF Limits
<1> HIDE DEF s, k
<1>7. /\ sh'.pc = "ctrl" /\ sh'.buf = NUL /\ sh'.taken = sh.taken /\ sh'.high = sh.high
      /\ sh'.shell_row = sh.shell_row /\ sh'.shell_input = sh.shell_input
      /\ sh'.del_limit = sh.del_limit /\ sh'.carried = sh.carried
  BY <1>3, <1>4 DEF ShellRec, Fields
<1>8. ~ sh'.is_open
  BY <1>3, <1>4 DEF ShellRec, Fields
<1>9. LineRest(sh', keyboard_state'.keyboard_buffer.ch)
  <2>1. InHand(sh') = 0 /\ InHand(sh) \in {0, 1}
    BY <1>7, WideFacts DEF InHand
  <2>2. Len(sh.shell_input) \in Nat /\ Len(sh.shell_input) + InHand(sh) <= sh.taken
    BY <1>2, LenProperties DEF LineRest
  <2>3. Len(sh'.shell_input) + InHand(sh') <= sh'.taken
    BY <1>1, <1>7, <2>1, <2>2
  <2> QED
    BY <1>2, <1>3, <1>7, <2>3, LineFacts DEF LineRest
<1> QED
  BY <1>3, <1>6, <1>7, <1>8, <1>9, LineWhole DEF Closed

\* EnterLine: an empty line behind a new prompt.
LEMMA EnterLineLine ==
    ASSUME Plain, KeyInv, LineInv, NEW out \in Outputs, EnterLine(out)
    PROVE  LineInv'
<1> DEFINE s == Loop(sh)
           k == Entered(screen, sh.shell_input, out)
<1>1. ShellRec(sh) /\ sh.pc = "handle" /\ sh.is_open \in BOOLEAN /\ sh.is_open /\ sh.taken \in Nat
  BY BufferFacts DEF KeyInv, KeyTypes, EnterLine, Handle
<1>2. LineRest(sh, keyboard_state.keyboard_buffer.ch) /\ LineOpen(screen, sh, keyboard_state)
  BY <1>1, LineParts
<1>3. /\ screen' = k /\ keyboard_state' = keyboard_state
      /\ sh' = [Prompted(s, k) EXCEPT !.shell_row = k.row, !.shell_input = <<>>, !.carried = <<>>]
  BY DEF EnterLine, Handle, Entered, kbdvars
<1>4. /\ ShellRec(s) /\ s.pc = "ctrl" /\ s.buf = NUL /\ s.taken = sh.taken /\ s.high = sh.high
      /\ s.is_open = sh.is_open
  BY <1>1, LoopFacts
<1>5. FreshPrompt(k)
  BY <1>2, EnteredScreen DEF LineOpen
<1> HIDE DEF s, k
<1>6. /\ sh'.pc = "ctrl" /\ sh'.prompt_row = k.row /\ sh'.del_limit = k.col
      /\ sh'.shell_row = k.row /\ sh'.carried = <<>>
      /\ sh'.shell_input = <<>> /\ sh'.high = sh.high /\ sh'.taken = sh.taken
      /\ sh'.buf = NUL /\ sh'.is_open = sh.is_open
  BY <1>3, <1>4 DEF ShellRec, Fields, Prompted
<1>7. k.row \in Up .. Down /\ k.row >= k.row /\ k.col \in Byte
  BY <1>5, LineFacts DEF FreshPrompt, Window, Inside
<1>8. <<>> \in Seq(Chars) /\ Len(<<>>) = 0
  BY EmptySeq
<1>9. LineOpen(k, sh', keyboard_state)
  BY <1>5, <1>6, <1>7, <1>8, FreshLine
<1>10. LineRest(sh', keyboard_state'.keyboard_buffer.ch)
  <2>1. InHand(sh') = 0
    BY <1>6 DEF InHand
  <2>2. Len(sh'.shell_input) + InHand(sh') <= sh'.taken
    BY <1>1, <1>6, <1>8, <2>1
  <2> QED
    BY <1>2, <1>3, <1>6, <1>7, <1>8, <2>2, LineFacts DEF LineRest
<1> QED
  BY <1>1, <1>3, <1>6, <1>9, <1>10, LineWhole

\* A written cell of the row leaves the prompt, if it is behind it.
LEMMA PromptKept ==
    ASSUME Plain, NEW k, NEW q, NEW row \in Rows, NEW col \in Int, NEW cell, PromptAt(k, row),
           OneCell(k, q, row, col, cell), col >= LineStart
    PROVE  PromptAt(q, row)
<1> SUFFICES ASSUME NEW i \in 1 .. Len(PromptText)
             PROVE  q.fb[row][Left + i - 1].ch = PromptText[i]
  BY DEF PromptAt
<1>1. /\ Len(PromptText) \in Nat /\ LineStart = Left + Len(PromptText) /\ LineStart < Right
      /\ Left \in Nat /\ Right \in Nat /\ Right < FRAMEBUFFER_WIDTH /\ FRAMEBUFFER_WIDTH \in Int
  BY PromptFacts, Sizes DEF LineStart
<1>2. Left + i - 1 \in Int /\ 0 <= Left + i - 1 /\ Left + i - 1 < FRAMEBUFFER_WIDTH /\ Left + i - 1 # col
  BY <1>1
<1>3. Left + i - 1 \in Cols
  BY <1>1, <1>2 DEF Cols
<1>4. q.fb[row][Left + i - 1] = k.fb[row][Left + i - 1]
  BY <1>2, <1>3 DEF OneCell
<1> QED
  BY <1>4 DEF PromptAt

\* TypeChar: a character more in the line and on the screen.
LEMMA TypeLine ==
    ASSUME Plain, KeyInv, LineInv, TypeChar
    PROVE  LineInv'
<1> DEFINE s == Loop(sh)
           ch == sh.buf
           k == screen
           q == putchar(screen, ch, "black")
<1>1. /\ ShellRec(sh) /\ sh.pc = "handle" /\ sh.is_open \in BOOLEAN /\ sh.is_open /\ sh.taken \in Nat
      /\ ch \notin {NL, BS, NUL}
  BY BufferFacts DEF KeyInv, KeyTypes, TypeChar, Handle
<1>2. LineRest(sh, keyboard_state.keyboard_buffer.ch) /\ LineOpen(screen, sh, keyboard_state)
  BY <1>1, LineParts
<1>3. /\ screen' = q /\ keyboard_state' = keyboard_state
      /\ sh' = [s EXCEPT !.shell_input = Append(@, ch)]
  BY DEF TypeChar, Handle, kbdvars
<1>4. /\ ShellRec(s) /\ s.pc = "ctrl" /\ s.buf = NUL /\ s.taken = sh.taken /\ s.high = sh.high
      /\ s.is_open = sh.is_open /\ s.shell_row = sh.shell_row /\ s.shell_input = sh.shell_input
      /\ s.del_limit = sh.del_limit /\ s.carried = sh.carried /\ s.prompt_row = sh.prompt_row
  BY <1>1, LoopFacts
<1> HIDE DEF s
<1>5. /\ sh'.pc = "ctrl" /\ sh'.buf = NUL /\ sh'.taken = sh.taken /\ sh'.high = sh.high
      /\ sh'.is_open = sh.is_open /\ sh'.shell_row = sh.shell_row
      /\ sh'.shell_input = Append(sh.shell_input, ch)
      /\ sh'.del_limit = sh.del_limit /\ sh'.carried = sh.carried /\ sh'.prompt_row = sh.prompt_row
  BY <1>3, <1>4 DEF ShellRec, Fields
<1>6. /\ Window(k) /\ k.col >= LineStart /\ PromptAt(k, k.row) /\ RowText(k, k.row) \in Seq(Chars)
      /\ sh.prompt_row = k.row /\ sh.del_limit = LineStart /\ sh.shell_row >= k.row
      /\ sh.shell_input = sh.carried \o RowText(k, k.row)
      /\ k.col + 1 + Wide(keyboard_state.keyboard_buffer.ch) <= Right
  BY <1>1, <1>2, WideFacts DEF LineOpen, InHand
<1>7. /\ ScreenRec(k) /\ Limits(k) /\ k.row \in Rows /\ k.col \in Left .. Right /\ k.col \in Int
      /\ Right \in Int
  BY <1>6, Sizes DEF Window, Inside
<1>8. /\ ch \in Chars /\ ch # TAB /\ sh.carried \in Seq(Chars) /\ sh.shell_input \in Seq(Chars)
      /\ Len(sh.shell_input) + 1 <= sh.taken
  BY <1>1, <1>2, WideFacts DEF LineRest, InHand
<1>9. k.col # Right
  <2>1. Wide(keyboard_state.keyboard_buffer.ch) \in {0, 1}
    BY WideFacts
  <2> QED
    BY <1>6, <1>7, <2>1
<1> HIDE DEF ch, k
<1>10. q.row = k.row /\ q.col = k.col + 1 /\ OneCell(k, q, k.row, k.col, Cell(ch, "black"))
  BY <1>1, <1>7, <1>8, <1>9, Printed DEF k
<1>11. Window(q)
  BY <1>1, <1>6, <1>8, PutWindow DEF k
<1> HIDE DEF q
<1>12. RowText(q, q.row) = Append(RowText(k, k.row), ch) /\ RowText(q, q.row) \in Seq(Chars)
  BY <1>6, <1>7, <1>8, <1>10, RowGrown
<1>13. sh'.shell_input = sh'.carried \o RowText(q, q.row)
  <2> DEFINE text == RowText(k, k.row)
  <2>1. text \in Seq(Chars) /\ sh.carried \in Seq(Chars) /\ ch \in Chars
    BY <1>6, <1>8
  <2>2. /\ sh'.shell_input = Append(sh.carried \o text, ch) /\ sh'.carried = sh.carried
        /\ RowText(q, q.row) = Append(text, ch)
    BY <1>5, <1>6, <1>12
  <2> HIDE DEF text
  <2>3. Append(sh.carried \o text, ch) = sh.carried \o Append(text, ch)
    <3>1. Appends(sh.carried, text, ch)
      BY <2>1, AppendedLine
    <3> QED
      BY <3>1 DEF Appends
  <2> QED
    BY <2>2, <2>3
<1>14. PromptAt(q, q.row)
  BY <1>6, <1>7, <1>10, PromptKept
<1>15. InHand(sh') = 0
  BY <1>5 DEF InHand
<1>16. LineOpen(q, sh', keyboard_state')
  <2>1. Wide(keyboard_state.keyboard_buffer.ch) \in {0, 1} /\ LineStart \in Int
    BY WideFacts, PromptFacts
  <2>2. /\ q.col + InHand(sh') + Wide(keyboard_state'.keyboard_buffer.ch) <= Right
        /\ q.col >= LineStart
    BY <1>3, <1>6, <1>7, <1>10, <1>15, <2>1
  <2> QED
    BY <1>5, <1>6, <1>10, <1>11, <1>12, <1>13, <1>14, <2>2 DEF LineOpen
<1>17. LineRest(sh', keyboard_state'.keyboard_buffer.ch)
  <2>1. /\ Append(sh.shell_input, ch) \in Seq(Chars)
        /\ Len(Append(sh.shell_input, ch)) = Len(sh.shell_input) + 1
    BY <1>8, AppendProperties
  <2>2. Len(sh.shell_input) \in Nat
    BY <1>8, LenProperties
  <2>3. Len(sh'.shell_input) + InHand(sh') <= sh'.taken
    BY <1>1, <1>5, <1>8, <1>15, <2>1, <2>2
  <2> QED
    BY <1>2, <1>3, <1>5, <2>1, <2>3, LineFacts DEF LineRest
<1> QED
  BY <1>1, <1>3, <1>5, <1>16, <1>17, LineWhole

\* Backspace acts on a line that has a character.
LEMMA BackspaceLine ==
    ASSUME Plain, KeyInv, LineInv, Backspace
    PROVE  LineInv'
<1> DEFINE s == Loop(sh)
<1>1. /\ ShellRec(sh) /\ sh.pc = "handle" /\ sh.is_open \in BOOLEAN /\ sh.is_open /\ sh.taken \in Nat
      /\ sh.buf = BS
  BY BufferFacts DEF KeyInv, KeyTypes, Backspace, Handle
<1>2. LineRest(sh, keyboard_state.keyboard_buffer.ch) /\ LineOpen(screen, sh, keyboard_state)
  BY <1>1, LineParts
<1>3. /\ screen' = screen /\ keyboard_state' = keyboard_state
      /\ sh' = IF Erasable(screen) THEN [sh EXCEPT !.pc = "erase"] ELSE s
  BY DEF Backspace, Handle, kbdvars
<1>4. /\ ShellRec(s) /\ s.pc = "ctrl" /\ s.buf = NUL /\ s.taken = sh.taken /\ s.high = sh.high
      /\ s.is_open = sh.is_open /\ s.shell_row = sh.shell_row /\ s.shell_input = sh.shell_input
      /\ s.del_limit = sh.del_limit /\ s.carried = sh.carried /\ s.prompt_row = sh.prompt_row
  BY <1>1, LoopFacts
<1> HIDE DEF s
<1>5. /\ sh'.pc = IF Erasable(screen) THEN "erase" ELSE "ctrl"
      /\ sh'.taken = sh.taken /\ sh'.high = sh.high
      /\ sh'.is_open = sh.is_open /\ sh'.shell_row = sh.shell_row /\ sh'.shell_input = sh.shell_input
      /\ sh'.del_limit = sh.del_limit /\ sh'.carried = sh.carried /\ sh'.prompt_row = sh.prompt_row
  BY <1>1, <1>3, <1>4 DEF ShellRec, Fields
<1>6. sh'.buf = BS \/ sh'.buf = NUL
  BY <1>1, <1>3, <1>4 DEF ShellRec, Fields
<1>7. InHand(sh') = 0 /\ InHand(sh) = 0
  BY <1>1, <1>5, WideFacts DEF InHand
<1>8. Erasable(screen) => screen.col > LineStart
  <2>1. /\ Window(screen) /\ sh.del_limit = LineStart /\ sh.shell_row >= screen.row /\ sh.high = 0
        /\ sh.shell_row \in Up .. Down
    BY <1>2 DEF LineOpen, LineRest
  <2>2. screen.row \in Int /\ screen.col \in Int /\ sh.shell_row \in Int
    BY <2>1, Sizes DEF Window, Inside
  <2>3. screen.col + 256 * sh.high = screen.col /\ screen.row + 256 * sh.high = screen.row
    BY <2>1, <2>2
  <2> QED
    BY <2>1, <2>2, <2>3 DEF Erasable
<1>9. LineOpen(screen', sh', keyboard_state')
  BY <1>2, <1>3, <1>5, <1>7, <1>8 DEF LineOpen
<1>10. LineRest(sh', keyboard_state'.keyboard_buffer.ch)
  BY <1>1, <1>2, <1>3, <1>5, <1>6, <1>7, LineFacts DEF LineRest
<1> QED
  BY <1>1, <1>5, <1>9, <1>10, LineWhole

\* One turn of the loop that erases.
LEMMA EraseFacts ==
    ASSUME Plain, KeyInv, LineInv, Erase
    PROVE  LET q == putchar(screen, BS, "black") IN
           /\ screen' = q /\ keyboard_state' = keyboard_state
           /\ Window(q) /\ q.row = screen.row /\ q.col = screen.col - 1 /\ q.col >= LineStart
           /\ PromptAt(q, q.row) /\ RowText(q, q.row) \in Seq(Chars)
           /\ sh'.shell_input = sh.carried \o RowText(q, q.row)
           /\ sh'.shell_input \in Seq(Chars) /\ Len(sh'.shell_input) = Len(sh.shell_input) - 1
           /\ sh'.pc \in {"ctrl", "erase"} /\ (sh'.pc = "erase" => q.col > LineStart)
           /\ sh'.taken = sh.taken /\ sh'.high = sh.high /\ sh'.is_open = sh.is_open
           /\ sh'.shell_row = sh.shell_row /\ sh'.del_limit = sh.del_limit
           /\ sh'.carried = sh.carried /\ sh'.prompt_row = sh.prompt_row
           /\ (sh'.buf = sh.buf \/ sh'.buf = NUL)
<1> DEFINE s == Loop(sh)
           q == putchar(screen, BS, "black")
           k == screen
           input == IF Len(sh.shell_input) > 0 THEN Front(sh.shell_input) ELSE <<>>
<1>1. ShellRec(sh) /\ sh.pc = "erase" /\ sh.is_open \in BOOLEAN /\ sh.taken \in Nat
  BY BufferFacts DEF KeyInv, KeyTypes, Erase
<1>2. LineRest(sh, keyboard_state.keyboard_buffer.ch) /\ LineOpen(k, sh, keyboard_state)
  BY <1>1, LineParts DEF Closed
<1>3. /\ screen' = q /\ keyboard_state' = keyboard_state
      /\ \/ Erasable(q) /\ sh' = [sh EXCEPT !.shell_input = input]
         \/ sh' = [s EXCEPT !.shell_input = input]
  BY DEF Erase, kbdvars
<1>4. /\ ShellRec(s) /\ s.pc = "ctrl" /\ s.buf = NUL /\ s.taken = sh.taken /\ s.high = sh.high
      /\ s.is_open = sh.is_open /\ s.shell_row = sh.shell_row
      /\ s.del_limit = sh.del_limit /\ s.carried = sh.carried /\ s.prompt_row = sh.prompt_row
  BY <1>1, LoopFacts
<1>5. /\ Window(k) /\ k.col > LineStart /\ PromptAt(k, k.row) /\ RowText(k, k.row) \in Seq(Chars)
      /\ sh.prompt_row = k.row /\ sh.del_limit = LineStart /\ sh.shell_row >= k.row
      /\ sh.shell_input = sh.carried \o RowText(k, k.row) /\ sh.high = 0
      /\ sh.shell_row \in Up .. Down /\ sh.carried \in Seq(Chars)
  BY <1>1, <1>2 DEF LineOpen, LineRest
<1>6. /\ k.row \in Rows /\ k.col \in Left .. Right /\ k.col \in Int /\ k.row \in Int
      /\ LineStart \in Int /\ k.col > Left /\ k.col - 1 >= LineStart
  <2>1. k.row \in Up .. Down /\ k.col \in Left .. Right
    BY <1>5 DEF Window, Inside
  <2>2. LineStart \in Int /\ Left <= LineStart
    BY PromptFacts
  <2> QED
    BY <1>5, <2>1, <2>2, Sizes
<1> HIDE DEF k, s
<1>7. /\ Window(q) /\ q.row = k.row /\ q.col = k.col - 1
      /\ OneCell(k, q, k.row, k.col - 1, Cell(SP, "black"))
  BY <1>5, <1>6, Erased DEF k
<1> HIDE DEF q
<1>8. PromptAt(q, q.row)
  BY <1>5, <1>6, <1>7, PromptKept
<1> DEFINE text == RowText(k, k.row)
           rest == RowText(q, k.row)
<1>9. rest \in Seq(Chars) /\ Shorter(rest, text)
  BY <1>5, <1>6, <1>7, RowShrunk
<1>10. text \in Seq(Chars) /\ sh.carried \in Seq(Chars) /\ sh.shell_input = sh.carried \o text
  BY <1>5
<1> HIDE DEF text, rest
<1>11. /\ Front(sh.carried \o text) = sh.carried \o rest /\ sh.carried \o rest \in Seq(Chars)
       /\ Len(sh.carried \o text) > 0 /\ Len(sh.carried \o rest) = Len(sh.carried \o text) - 1
  <2>1. Shortens(Chars, sh.carried, text, rest)
    BY <1>9, <1>10, ShortenedLine
  <2> QED
    BY <2>1 DEF Shortens
<1>12. input = sh.carried \o rest
  BY <1>10, <1>11
<1> HIDE DEF input
<1>13. Erasable(q) => q.col > LineStart
  <2>1. q.row \in Int /\ q.col \in Int /\ sh.shell_row \in Int /\ sh.shell_row >= q.row
    BY <1>5, <1>6, <1>7, Sizes
  <2>2. q.col + 256 * sh.high = q.col /\ q.row + 256 * sh.high = q.row
    BY <1>5, <2>1
  <2> QED
    BY <1>5, <2>1, <2>2 DEF Erasable
<1>14. /\ sh'.shell_input = input /\ sh'.pc \in {"ctrl", "erase"} /\ (sh'.pc = "erase" => Erasable(q))
       /\ sh'.taken = sh.taken /\ sh'.high = sh.high /\ sh'.is_open = sh.is_open
       /\ sh'.shell_row = sh.shell_row /\ sh'.del_limit = sh.del_limit
       /\ sh'.carried = sh.carried /\ sh'.prompt_row = sh.prompt_row
       /\ (sh'.buf = sh.buf \/ sh'.buf = NUL)
  BY <1>1, <1>3, <1>4 DEF ShellRec, Fields
<1>15. rest = RowText(q, q.row)
  BY <1>7 DEF rest
<1> QED
  BY <1>3, <1>6, <1>7, <1>8, <1>9, <1>10, <1>11, <1>12, <1>13, <1>14, <1>15 DEF q, k

\* Erase: a character less in the line and on the screen.
LEMMA EraseLine ==
    ASSUME Plain, KeyInv, LineInv, Erase
    PROVE  LineInv'
<1> DEFINE q == putchar(screen, BS, "black")
<1>1. sh.pc = "erase" /\ sh.taken \in Nat
  BY BufferFacts DEF Erase
<1>2. LineRest(sh, keyboard_state.keyboard_buffer.ch) /\ LineOpen(screen, sh, keyboard_state) /\ sh.is_open
  BY <1>1, LineParts DEF Closed, KeyInv, KeyTypes
<1>3. /\ screen' = q /\ keyboard_state' = keyboard_state
      /\ Window(q) /\ q.row = screen.row /\ q.col = screen.col - 1 /\ q.col >= LineStart
      /\ PromptAt(q, q.row) /\ RowText(q, q.row) \in Seq(Chars)
      /\ sh'.shell_input = sh.carried \o RowText(q, q.row)
      /\ sh'.shell_input \in Seq(Chars) /\ Len(sh'.shell_input) = Len(sh.shell_input) - 1
      /\ sh'.pc \in {"ctrl", "erase"} /\ (sh'.pc = "erase" => q.col > LineStart)
      /\ sh'.taken = sh.taken /\ sh'.high = sh.high /\ sh'.is_open = sh.is_open
      /\ sh'.shell_row = sh.shell_row /\ sh'.del_limit = sh.del_limit
      /\ sh'.carried = sh.carried /\ sh'.prompt_row = sh.prompt_row
      /\ (sh'.buf = sh.buf \/ sh'.buf = NUL)
  BY EraseFacts
<1> HIDE DEF q
<1>4. InHand(sh') = 0 /\ InHand(sh) = 0
  BY <1>1, <1>3 DEF InHand
<1>5. /\ screen.col + InHand(sh) + Wide(keyboard_state.keyboard_buffer.ch) <= Right
      /\ Len(sh.shell_input) + InHand(sh) <= sh.taken
      /\ Len(sh.shell_input) \in Nat /\ screen.col \in Int /\ Right \in Int
  <2>1. screen.col \in Left .. Right /\ Left \in Int /\ Right \in Int
    BY <1>2, Sizes DEF LineOpen, Window, Inside
  <2>2. /\ screen.col + InHand(sh) + Wide(keyboard_state.keyboard_buffer.ch) <= Right
        /\ Len(sh.shell_input) + InHand(sh) <= sh.taken /\ sh.shell_input \in Seq(Chars)
    BY <1>2 DEF LineOpen, LineRest
  <2>3. Len(sh.shell_input) \in Nat
    BY <2>2, LenProperties
  <2> QED
    BY <2>1, <2>2, <2>3
<1>6. /\ q.col + InHand(sh') + Wide(keyboard_state'.keyboard_buffer.ch) <= Right
      /\ Len(sh'.shell_input) + InHand(sh') <= sh'.taken
  <2>1. Wide(keyboard_state.keyboard_buffer.ch) \in {0, 1}
    BY WideFacts
  <2> QED
    BY <1>1, <1>3, <1>4, <1>5, <2>1
<1>7. LineOpen(screen', sh', keyboard_state')
  BY <1>2, <1>3, <1>6 DEF LineOpen
<1>8. LineRest(sh', keyboard_state'.keyboard_buffer.ch)
  BY <1>2, <1>3, <1>6, LineFacts DEF LineRest
<1> QED
  BY <1>2, <1>3, <1>7, <1>8, LineWhole

\* A key that does nothing.
LEMMA DropLine ==
    ASSUME Plain, KeyInv, LineInv, DropKey
    PROVE  LineInv'
<1> DEFINE s == Loop(sh)
<1>1. ShellRec(sh) /\ sh.pc = "handle" /\ sh.is_open \in BOOLEAN /\ sh.taken \in Nat
  BY BufferFacts DEF KeyInv, KeyTypes, DropKey, Handle
<1>2. /\ LineRest(sh, keyboard_state.keyboard_buffer.ch)
      /\ ~ sh.is_open => Closed(sh, screen)
      /\ sh.is_open => LineOpen(screen, sh, keyboard_state)
  BY <1>1, LineParts
<1>3. screen' = screen /\ keyboard_state' = keyboard_state /\ sh' = s
  BY DEF DropKey, Handle, kbdvars
<1>4. /\ s.pc = "ctrl" /\ s.buf = NUL /\ s.taken = sh.taken /\ s.high = sh.high
      /\ s.is_open = sh.is_open /\ s.shell_row = sh.shell_row /\ s.shell_input = sh.shell_input
      /\ s.del_limit = sh.del_limit /\ s.carried = sh.carried /\ s.prompt_row = sh.prompt_row
  BY <1>1, LoopFacts
<1> HIDE DEF s
<1>5. InHand(sh') = 0 /\ InHand(sh) \in {0, 1}
  BY <1>3, <1>4, WideFacts DEF InHand
<1>6. LineRest(sh', keyboard_state'.keyboard_buffer.ch)
  <2>1. Len(sh.shell_input) \in Nat /\ Len(sh.shell_input) + InHand(sh) <= sh.taken
    BY <1>2, LenProperties DEF LineRest
  <2>2. Len(sh'.shell_input) + InHand(sh') <= sh'.taken
    BY <1>1, <1>3, <1>4, <1>5, <2>1
  <2> QED
    BY <1>2, <1>3, <1>4, <2>2, LineFacts DEF LineRest
<1>7. ASSUME sh.is_open PROVE LineOpen(screen', sh', keyboard_state')
  <2>1. LineOpen(screen, sh, keyboard_state)
    BY <1>2, <1>7
  <2>2. /\ screen.col + InHand(sh) + Wide(keyboard_state.keyboard_buffer.ch) <= Right
        /\ screen.col \in Int /\ Right \in Int
    BY <2>1, Sizes DEF LineOpen, Window, Inside
  <2>3. Wide(keyboard_state.keyboard_buffer.ch) \in {0, 1}
    BY WideFacts
  <2>4. screen.col + InHand(sh') + Wide(keyboard_state'.keyboard_buffer.ch) <= Right
    BY <1>3, <1>5, <2>2, <2>3
  <2> QED
    BY <1>3, <1>4, <2>1, <2>4 DEF LineOpen
<1>8. ~ sh'.is_open => Closed(sh', screen')
  BY <1>2, <1>3, <1>4 DEF Closed
<1> QED
  BY <1>3, <1>4, <1>6, <1>7, <1>8, LineWhole

\* The shell asks for Ctrl.
LEMMA PollLine ==
    ASSUME Plain, KeyInv, LineInv, PollCtrl
    PROVE  LineInv'
<1>1. ShellRec(sh) /\ sh.pc = "ctrl" /\ sh.is_open \in BOOLEAN /\ sh.taken \in Nat
  BY BufferFacts DEF KeyInv, KeyTypes, PollCtrl
<1>2. /\ LineRest(sh, keyboard_state.keyboard_buffer.ch)
      /\ ~ sh.is_open => Closed(sh, screen)
      /\ sh.is_open => LineOpen(screen, sh, keyboard_state)
  BY <1>1, LineParts
<1>3. /\ screen' = screen /\ keyboard_state' = keyboard_state
      /\ sh' = [sh EXCEPT !.pc = "getchar", !.press_ctrl = keyboard_state.press_ctrl]
  BY DEF PollCtrl, kbdvars
<1>4. /\ sh'.pc = "getchar" /\ sh'.buf = sh.buf /\ sh'.taken = sh.taken /\ sh'.high = sh.high
      /\ sh'.is_open = sh.is_open /\ sh'.shell_row = sh.shell_row /\ sh'.shell_input = sh.shell_input
      /\ sh'.del_limit = sh.del_limit /\ sh'.carried = sh.carried /\ sh'.prompt_row = sh.prompt_row
  BY <1>1, <1>3 DEF ShellRec, Fields
<1>5. InHand(sh') = 0 /\ InHand(sh) = 0
  BY <1>1, <1>4 DEF InHand
<1>6. LineRest(sh', keyboard_state'.keyboard_buffer.ch)
  BY <1>2, <1>3, <1>4, <1>5 DEF LineRest
<1>7. sh'.is_open => LineOpen(screen', sh', keyboard_state')
  BY <1>2, <1>3, <1>4, <1>5 DEF LineOpen
<1>8. ~ sh'.is_open => Closed(sh', screen')
  BY <1>2, <1>3, <1>4 DEF Closed
<1> QED
  BY <1>4, <1>6, <1>7, <1>8, LineWhole

\* The key passes from the buffer into the shell's hand.
LEMMA GetcharLine ==
    ASSUME Plain, KeyInv, LineInv, Getchar
    PROVE  LineInv'
<1> DEFINE b == keyboard_state.keyboard_buffer
<1>1. ShellRec(sh) /\ sh.pc = "getchar" /\ sh.is_open \in BOOLEAN /\ sh.taken \in Nat
  BY BufferFacts DEF KeyInv, KeyTypes, Getchar
<1>2. /\ LineRest(sh, b.ch)
      /\ ~ sh.is_open => Closed(sh, screen)
      /\ sh.is_open => LineOpen(screen, sh, keyboard_state)
  BY <1>1, LineParts
<1>3. /\ screen' = screen /\ keyboard_state' = [keyboard_state EXCEPT !.keyboard_buffer = NoKey]
      /\ sh' = [sh EXCEPT !.pc = "handle", !.buf = b.ch,
                          !.taken = IF b = NoKey THEN @ ELSE b.key,
                          !.some = ctrl.some /\ b.ch = "s", !.all = ctrl.all /\ b.ch = "s"]
  BY DEF Getchar, BufferTaken
<1>4. keyboard_state'.keyboard_buffer = NoKey
  BY <1>3, KeyboardFacts DEF KeyInv, KeyTypes
<1>5. /\ sh'.pc = "handle" /\ sh'.buf = b.ch /\ sh'.high = sh.high
      /\ sh'.taken = IF b = NoKey THEN sh.taken ELSE b.key
      /\ sh'.is_open = sh.is_open /\ sh'.shell_row = sh.shell_row /\ sh'.shell_input = sh.shell_input
      /\ sh'.del_limit = sh.del_limit /\ sh'.carried = sh.carried /\ sh'.prompt_row = sh.prompt_row
  BY <1>1, <1>3 DEF ShellRec, Fields
<1>6. NoKey.ch = NUL /\ Wide(NoKey.ch) = 0 /\ NoKey.ch # TAB
  BY WideFacts, LineFacts DEF NoKey, NUL
<1>7. InHand(sh') = Wide(b.ch) /\ InHand(sh) = 0
  BY <1>1, <1>5 DEF InHand
<1>8. LineRest(sh', keyboard_state'.keyboard_buffer.ch)
  <2>1. Len(sh.shell_input) \in Nat /\ Len(sh.shell_input) + 0 <= sh.taken
    BY <1>2, <1>7, LenProperties DEF LineRest
  <2>2. Waiting(b, sh.taken, presses) /\ presses \in Nat /\ b.ch \in Chars
    BY BufferFacts DEF KeyInv
  <2>3. Wide(b.ch) \in {0, 1} /\ (b = NoKey => Wide(b.ch) = 0)
    BY <1>6, WideFacts
  <2> HIDE DEF b
  <2>4. Len(sh'.shell_input) + InHand(sh') <= sh'.taken
    <3>1. CASE b = NoKey
      BY <1>1, <1>5, <1>7, <2>1, <2>3, <3>1
    <3>2. CASE b # NoKey
      <4>1. b.key \in sh.taken + 1 .. presses
        BY <2>2, <3>2 DEF Waiting
      <4> QED
        BY <1>1, <1>5, <1>7, <2>1, <2>2, <2>3, <3>2, <4>1
    <3> QED
      BY <3>1, <3>2
  <2> QED
    BY <1>2, <1>4, <1>5, <1>6, <2>2, <2>4 DEF LineRest
<1>9. ASSUME sh.is_open PROVE LineOpen(screen', sh', keyboard_state')
  <2>1. LineOpen(screen, sh, keyboard_state)
    BY <1>2, <1>9
  <2>2. /\ screen.col + InHand(sh) + Wide(b.ch) <= Right
        /\ screen.col \in Int /\ Right \in Int
    BY <2>1, Sizes DEF LineOpen, Window, Inside
  <2>3. Wide(b.ch) \in {0, 1}
    BY WideFacts
  <2>4. screen.col + InHand(sh') + Wide(keyboard_state'.keyboard_buffer.ch) <= Right
    <3> HIDE DEF b
    <3> QED
      BY <1>4, <1>6, <1>7, <2>2, <2>3
  <2> QED
    BY <1>3, <1>5, <2>1, <2>4 DEF LineOpen
<1>10. ~ sh'.is_open => Closed(sh', screen')
  BY <1>2, <1>3, <1>5 DEF Closed
<1> QED
  BY <1>5, <1>8, <1>9, <1>10, LineWhole

\* main paints the screen and gives the window its limits.
LEMMA MainLine ==
    ASSUME Plain, KeyInv, LineInv, Main
    PROVE  LineInv'
<1> DEFINE k == InitialScreen
           p == shell_create_bg(k)
           q == set_keyboard_borders(p, Up, Down, Left, Right)
<1>1. ShellRec(sh) /\ sh.pc = "main" /\ ~ sh.is_open /\ sh.taken \in Nat
  BY BufferFacts DEF KeyInv, KeyTypes, LineInv, Main
<1>2. /\ screen = InitialScreen /\ sh.del_limit = 0 /\ sh.buf = NUL /\ sh.high = 0
      /\ keyboard_state.keyboard_buffer = NoKey
      /\ sh.shell_input \in Seq(Chars) /\ sh.carried \in Seq(Chars)
      /\ Len(sh.shell_input) + 0 <= sh.taken
  BY <1>1 DEF LineInv
<1>3. /\ screen' = q /\ sh' = [sh EXCEPT !.pc = "ctrl", !.shell_row = Up]
      /\ keyboard_state' = Activated
  BY <1>2 DEF Main
<1>4. keyboard_state'.keyboard_buffer = NoKey
  BY <1>2, <1>3, KeyboardFacts DEF KeyInv, KeyTypes, Activated
<1>5. ScreenRec(k)
  <2>1. k = [f \in ScreenFields |-> k[f]]
    BY DEF InitialScreen, ScreenFields
  <2>2. Shaped(k.fb) /\ k.last_non_space_col \in [Rows -> Byte]
    BY DEF InitialScreen, Shaped, Byte
  <2> QED
    BY <2>1, <2>2 DEF ScreenRec
<1> HIDE DEF k
<1>6. ScreenRec(p) /\ Background(p) /\ p.row \in Rows /\ p.col \in Cols
  BY <1>5, BackgroundFacts
<1> HIDE DEF p
<1>7. /\ q = [f \in ScreenFields |-> q[f]] /\ q.row = p.row /\ q.col = p.col /\ q.fb = p.fb
      /\ q.last_non_space_col = p.last_non_space_col
      /\ q.up_limit = Up /\ q.down_limit = Down /\ q.left_limit = Left /\ q.right_limit = Right
  BY <1>6 DEF ScreenRec, ScreenFields, set_keyboard_borders
<1> HIDE DEF q
<1>8. ScreenRec(q) /\ Limits(q) /\ Background(q)
  BY <1>6, <1>7 DEF ScreenRec, Limits, Background
<1>9. /\ sh'.pc = "ctrl" /\ sh'.shell_row = Up /\ sh'.buf = sh.buf /\ sh'.taken = sh.taken
      /\ sh'.high = sh.high /\ sh'.shell_input = sh.shell_input
      /\ sh'.del_limit = sh.del_limit /\ sh'.carried = sh.carried
  BY <1>1, <1>3 DEF ShellRec, Fields
<1>10. ~ sh'.is_open
  BY <1>1, <1>3 DEF ShellRec, Fields
<1>11. Closed(sh', screen')
  BY <1>3, <1>6, <1>7, <1>8, <1>9 DEF Closed
<1>12. NoKey.ch = NUL /\ NUL \in Chars /\ NUL # TAB /\ InHand(sh') = 0
  BY <1>9, LineFacts DEF NoKey, NUL, InHand
<1>13. Up \in Up .. Down /\ 0 \in Byte
  BY Sizes DEF Byte
<1>14. LineRest(sh', keyboard_state'.keyboard_buffer.ch)
  BY <1>2, <1>4, <1>9, <1>12, <1>13 DEF LineRest
<1> QED
  BY <1>9, <1>10, <1>11, <1>14, LineWhole

\* An interrupt leaves a key that still fits in the line.
LEMMA BufferLine ==
    ASSUME Plain, KeyInv, LineInv, sh' = sh, screen' = screen, sh.pc # "main",
           keyboard_state'.keyboard_buffer.ch # TAB,
           sh.is_open => screen.col + InHand(sh) + Wide(keyboard_state'.keyboard_buffer.ch) <= Right
    PROVE  LineInv'
<1>1. /\ LineRest(sh, keyboard_state.keyboard_buffer.ch)
      /\ ~ sh.is_open => Closed(sh, screen)
      /\ sh.is_open => LineOpen(screen, sh, keyboard_state)
  BY LineParts
<1>2. InHand(sh') = InHand(sh)
  BY DEF InHand
<1>3. LineRest(sh', keyboard_state'.keyboard_buffer.ch)
  BY <1>1, <1>2 DEF LineRest
<1>4. sh'.is_open => LineOpen(screen', sh', keyboard_state')
  BY <1>1, <1>2 DEF LineOpen
<1>5. ~ sh'.is_open => Closed(sh', screen')
  BY <1>1
<1> QED
  BY <1>3, <1>4, <1>5, LineWhole

\* Interrupts touch the buffer only, and a careful user's key still fits.
LEMMA InterruptLine ==
    ASSUME Plain, KeyInv, LineInv, Interrupt
    PROVE  LineInv'
<1>1. sh' = sh /\ screen' = screen /\ KeyboardTypeOK
  BY DEF Interrupt, KeyInv, KeyTypes
<1>2. keyboard_state.keyboard_input_on
  BY DEF Interrupt, ModifierDown, ModifierUp, KeyDown, OtherCode, KeyInv
<1>3. sh.pc # "main"
  BY <1>2 DEF LineInv
<1>4. /\ keyboard_state.keyboard_buffer.ch # TAB
      /\ sh.is_open => screen.col + InHand(sh) + Wide(keyboard_state.keyboard_buffer.ch) <= Right
      /\ sh.is_open => /\ screen.col \in Int /\ screen.right_limit = Right /\ Right \in Int
  <2>1. /\ LineRest(sh, keyboard_state.keyboard_buffer.ch)
        /\ sh.is_open => LineOpen(screen, sh, keyboard_state)
    BY <1>3, LineParts
  <2>2. keyboard_state.keyboard_buffer.ch # TAB
    BY <2>1 DEF LineRest
  <2>3. ASSUME sh.is_open
        PROVE  /\ screen.col + InHand(sh) + Wide(keyboard_state.keyboard_buffer.ch) <= Right
               /\ screen.col \in Left .. Right /\ screen.right_limit = Right
    BY <2>1, <2>3 DEF LineOpen, Window, Inside, Limits
  <2>4. Left \in Int /\ Right \in Int
    BY Sizes
  <2> QED
    BY <2>2, <2>3, <2>4
<1>5. InHand(sh) \in {0, 1} /\ (sh.pc # "handle" => InHand(sh) = 0)
  BY WideFacts DEF InHand
<1>6. CASE \E k \in CtrlKeys \cup ShiftKeys : ModifierDown(k) \/ ModifierUp(k)
  <2>1. PICK v : \/ keyboard_state' = [keyboard_state EXCEPT !.press_ctrl = v]
                 \/ keyboard_state' = [keyboard_state EXCEPT !.press_shift = v]
    BY <1>6 DEF ModifierDown, ModifierUp
  <2>2. keyboard_state'.keyboard_buffer = keyboard_state.keyboard_buffer
    BY <1>1, <2>1, KeyboardFacts
  <2> QED
    BY <1>1, <1>3, <1>4, <2>2, BufferLine
<1>7. CASE \E c \in CharKeys : (CarefulTyping => c \in {NL, BS} \/ RoomToType) /\ KeyDown(c)
  <2>1. PICK c \in CharKeys : (CarefulTyping => c \in {NL, BS} \/ RoomToType) /\ KeyDown(c)
    BY <1>7
  <2> DEFINE a == AsciiOf(c)
             b == [ch |-> a, key |-> presses + 1]
  <2>2. c \in {NL, BS} \/ RoomToType
    BY <2>1 DEF Plain
  <2>3. a # TAB /\ (c \in {NL, BS} => a \in {NL, BS, NUL})
    BY DEF AsciiOf, Plain
  <2>4. keyboard_state' = [keyboard_state EXCEPT !.keyboard_buffer = b]
    BY <2>1 DEF KeyDown
  <2> HIDE DEF a
  <2>5. b.ch = a
    OBVIOUS
  <2> HIDE DEF b
  <2>6. keyboard_state'.keyboard_buffer = b
    BY <1>1, <2>4, KeyboardFacts
  <2>7. Wide(a) \in {0, 1} /\ (c \in {NL, BS} => Wide(a) = 0)
    BY <2>3, WideFacts
  <2>8. ASSUME sh.is_open PROVE screen.col + InHand(sh) + Wide(a) <= Right
    <3>1. /\ screen.col \in Int /\ screen.right_limit = Right /\ Right \in Int
          /\ screen.col + InHand(sh) + Wide(keyboard_state.keyboard_buffer.ch) <= Right
          /\ Wide(keyboard_state.keyboard_buffer.ch) \in {0, 1}
      BY <1>4, <2>8, WideFacts
    <3>2. CASE c \in {NL, BS}
      BY <1>5, <2>7, <3>1, <3>2
    <3>3. CASE RoomToType
      <4>1. screen.col + (IF sh.pc = "handle" THEN 1 ELSE 0) + 1 <= Right
        BY <2>8, <3>1, <3>3 DEF RoomToType
      <4> QED
        BY <1>5, <2>7, <3>1, <4>1
    <3> QED
      BY <2>2, <3>2, <3>3
  <2> QED
    BY <1>1, <1>3, <2>3, <2>5, <2>6, <2>8, BufferLine
<1>8. CASE OtherCode
  <2>1. keyboard_state'.keyboard_buffer = NoKey
    BY <1>1, <1>8, KeyboardFacts DEF OtherCode
  <2>2. NoKey.ch # TAB /\ Wide(NoKey.ch) = 0
    BY WideFacts, LineFacts DEF NoKey, NUL
  <2>3. sh.is_open => screen.col + InHand(sh) + Wide(NoKey.ch) <= Right
    <3>1. Wide(keyboard_state.keyboard_buffer.ch) \in {0, 1}
      BY WideFacts
    <3> QED
      BY <1>4, <1>5, <2>2, <3>1
  <2> QED
    BY <1>1, <1>3, <2>1, <2>2, <2>3, BufferLine
<1> QED
  BY <1>6, <1>7, <1>8 DEF Interrupt

\* Before main runs.
LEMMA InitLine ==
    ASSUME Plain, ConsoleInit
    PROVE  LineInv
<1>1. PICK high \in HighBytes :
         sh = [pc |-> "main", is_open |-> FALSE, del_limit |-> 0, shell_row |-> 0,
               shell_input |-> <<>>, press_ctrl |-> FALSE, buf |-> NUL, high |-> high,
               prompt_row |-> 0, carried |-> <<>>, taken |-> 0, some |-> FALSE, all |-> FALSE]
  BY DEF ConsoleInit
<1>2. high = 0
  BY DEF Plain
<1>3. /\ sh.pc = "main" /\ sh.del_limit = 0 /\ sh.shell_row = 0 /\ sh.shell_input = <<>>
      /\ sh.buf = NUL /\ sh.high = 0 /\ sh.carried = <<>> /\ sh.taken = 0
  BY <1>1, <1>2
<1>4. ~ sh.is_open
  BY <1>1
<1>5. screen = InitialScreen /\ ~ keyboard_state.keyboard_input_on
  BY DEF ConsoleInit, KeyboardInit
<1>6. keyboard_state.keyboard_buffer = NoKey
  BY DEF ConsoleInit, KeyboardInit
<1>7. <<>> \in Seq(Chars) /\ Len(<<>>) = 0
  BY EmptySeq
<1> QED
  BY <1>3, <1>4, <1>5, <1>6, <1>7 DEF LineInv

\* Every step of the keyboard and the shell keeps the line's invariant.
LEMMA LineStep ==
    ASSUME Plain, KeyInv, LineInv, [ConsoleNext]_vars
    PROVE  LineInv'
<1>1. CASE Interrupt
  BY <1>1, InterruptLine
<1>2. CASE ShellStep
  BY <1>2, MainLine, PollLine, GetcharLine, OpenLine, CloseLine, BackspaceLine, EraseLine,
     TypeLine, DropLine, EnterLineLine DEF ShellStep
<1>3. CASE UNCHANGED vars
  <2>1. keyboard_state' = keyboard_state /\ sh' = sh /\ screen' = screen
    BY <1>3 DEF vars
  <2> QED
    BY <2>1 DEF LineInv
<1> QED
  BY <1>1, <1>2, <1>3 DEF ConsoleNext

(***************************************************************************)
(* The line's invariant holds in every run of the keyboard and the shell.        *)
(***************************************************************************)
THEOREM LineInvariant == ASSUME Plain PROVE ConsoleSpec => []LineInv
<1>1. ConsoleInit => LineInv
  BY InitLine
<1>2. KeyInv /\ LineInv /\ [ConsoleNext]_vars => LineInv'
  BY LineStep
<1> QED
  BY <1>1, <1>2, KeyInvariant, PTL DEF ConsoleSpec

-----------------------------------------------------------------------------
\* A place in a row, divided by the width of the window.
LEMMA DivMod ==
    ASSUME NEW r \in Nat, NEW w \in Nat \ {0}, NEW x \in 0 .. w - 1
    PROVE  (r * w + x) \div w = r /\ (r * w + x) % w = x
<1> DEFINE p == r * w
           a == p + x
           q == a \div w
           m == a % w
<1>1. p \in Nat /\ a \in Nat
  OBVIOUS
<1> HIDE DEF p
<1>2. q \in Int /\ m \in 0 .. w - 1 /\ a = w * q + m
  BY <1>1
<1> HIDE DEF q, m
<1>3. w * q + m = w * r + x
  BY <1>2 DEF p
<1>4. ASSUME q > r PROVE FALSE
  <2>1. w * (q - r) >= w
    BY <1>2, <1>4
  <2>2. w * (q - r) = w * q - w * r
    BY <1>2
  <2> QED
    BY <1>2, <1>3, <2>1, <2>2
<1>5. ASSUME q < r PROVE FALSE
  <2>1. w * (r - q) >= w
    BY <1>2, <1>5
  <2>2. w * (r - q) = w * r - w * q
    BY <1>2
  <2> QED
    BY <1>2, <1>3, <2>1, <2>2
<1>6. q = r
  BY <1>2, <1>4, <1>5
<1>7. m = x
  BY <1>2, <1>3, <1>6
<1> QED
  BY <1>6, <1>7 DEF q, m, p

\* The line that LineText reads is the one on the prompt's row.
LEMMA TextOfRow ==
    ASSUME Plain, LineOpen(screen, sh, keyboard_state)
    PROVE  LineText = RowText(screen, screen.row)
<1> DEFINE W == Right + 1 - Left
           row == screen.row
           n == screen.col - LineStart
           from == Place(sh.prompt_row, sh.del_limit)
<1>1. /\ row \in Up .. Down /\ screen.col \in Left .. Right /\ screen.col >= LineStart
      /\ sh.prompt_row = row /\ sh.del_limit = LineStart
  BY DEF LineOpen, Window, Inside
<1>2. Up \in Nat /\ Down \in Nat /\ Left \in Nat /\ Right \in Nat /\ Left <= Right
  BY Sizes
<1>3. LineStart \in Int /\ Left <= LineStart /\ LineStart < Right
  BY PromptFacts
<1>4. W \in Nat \ {0} /\ row \in Nat /\ n \in Nat
  BY <1>1, <1>2, <1>3
<1> DEFINE p == row * W
<1>5. p \in Int
  BY <1>4
<1>6. Place(row, LineStart) = p + LineStart - Left /\ Place(row, screen.col) = p + screen.col - Left
  BY DEF Place
<1> HIDE DEF W, p
<1>7. from = p + LineStart - Left /\ Place(screen.row, screen.col) - from = n
  BY <1>1, <1>2, <1>3, <1>5, <1>6
<1> HIDE DEF from
<1>8. ASSUME NEW i \in 1 .. n
      PROVE  /\ (from + i - 1) \div W = row
             /\ Left + ((from + i - 1) % W) = LineStart + i - 1
  <2> DEFINE x == LineStart - Left + i - 1
  <2>1. x \in 0 .. W - 1
    BY <1>1, <1>2, <1>3 DEF W
  <2>2. from + i - 1 = p + x
    BY <1>2, <1>3, <1>5, <1>7
  <2>3. Left + x = LineStart + i - 1
    BY <1>2, <1>3
  <2> HIDE DEF x
  <2>4. (p + x) \div W = row /\ (p + x) % W = x
    BY <1>4, <2>1, DivMod DEF p
  <2> QED
    BY <2>2, <2>3, <2>4
<1>9. LineText = [i \in 1 .. Place(screen.row, screen.col) - from |->
                    screen.fb[(from + i - 1) \div W][Left + ((from + i - 1) % W)].ch]
  BY DEF LineText, from, W
<1>10. LineText = [i \in 1 .. n |-> screen.fb[(from + i - 1) \div W][Left + ((from + i - 1) % W)].ch]
  BY <1>7, <1>9
<1>11. RowText(screen, row) = [i \in 1 .. n |-> screen.fb[row][LineStart + i - 1].ch]
  BY DEF RowText
<1> HIDE DEF n, row
<1>12. [i \in 1 .. n |-> screen.fb[(from + i - 1) \div W][Left + ((from + i - 1) % W)].ch]
         = [i \in 1 .. n |-> screen.fb[row][LineStart + i - 1].ch]
  BY <1>8
<1> QED
  BY <1>10, <1>11, <1>12 DEF row

(***************************************************************************)
(* The fields of main and of the screen keep their types: rows and columns fit in    *)
(* the byte that the system calls hand over, and the line is never longer than the    *)
(* keys pressed.                                                            *)
(***************************************************************************)
THEOREM ConsoleTypes == ASSUME Plain PROVE ConsoleSpec => []ConsoleTypeOK
<1>1. KeyInv /\ LineInv => ConsoleTypeOK
  <2> SUFFICES ASSUME KeyInv, LineInv PROVE ConsoleTypeOK
    OBVIOUS
  <2>1. KeyboardTypeOK /\ sh.pc \in PCs /\ sh.taken \in Nat /\ presses \in Nat /\ sh.taken <= presses
    BY BufferFacts DEF KeyInv, KeyTypes
  <2>2. Len(sh.shell_input) <= presses
    <3>1. /\ sh.shell_input \in Seq(Chars)
          /\ Len(sh.shell_input) + (IF sh.pc = "handle" THEN Wide(sh.buf) ELSE 0) <= sh.taken
      BY DEF LineInv
    <3>2. Wide(sh.buf) \in {0, 1} /\ Len(sh.shell_input) \in Nat
      BY <3>1, WideFacts, LenProperties
    <3> QED
      BY <2>1, <3>1, <3>2
  <2>s. /\ FRAMEBUFFER_HEIGHT \in Nat /\ FRAMEBUFFER_HEIGHT >= 1 /\ FRAMEBUFFER_HEIGHT <= 256
        /\ FRAMEBUFFER_WIDTH \in Nat /\ FRAMEBUFFER_WIDTH >= 1 /\ FRAMEBUFFER_WIDTH <= 256
    BY ScreenAssumption
  <2>r. (\A r \in Rows : r \in Byte) /\ (\A c \in Cols : c \in Byte) /\ 0 \in Byte
    <3>1. ASSUME NEW r \in Rows PROVE r \in Byte
      BY <2>s DEF Rows, Byte
    <3>2. ASSUME NEW c \in Cols PROVE c \in Byte
      BY <2>s DEF Cols, Byte
    <3>3. 0 \in Byte
      BY DEF Byte
    <3> QED
      BY <3>1, <3>2, <3>3
  <2>w. Up \in Rows /\ Down \in Rows /\ Left \in Cols /\ Right \in Cols
    BY Sizes DEF Rows, Cols
  <2>i. \A r \in Up .. Down : r \in Rows
    BY Sizes DEF Rows
  <2>c. \A c \in Left .. Right : c \in Cols
    BY Sizes DEF Cols
  <2>3. CASE sh.pc = "main"
    <3>1. screen = InitialScreen /\ sh.del_limit = 0 /\ sh.shell_row = 0
      BY <2>3 DEF LineInv
    <3>2. /\ screen.row = 0 /\ screen.col = 0
          /\ screen.last_non_space_col = [r \in Rows |-> 0]
          /\ screen.up_limit = 0 /\ screen.down_limit = FRAMEBUFFER_HEIGHT - 1
          /\ screen.left_limit = 0 /\ screen.right_limit = FRAMEBUFFER_WIDTH - 1
          /\ DOMAIN screen.fb = Rows /\ \A r \in Rows : DOMAIN screen.fb[r] = Cols
      BY <3>1 DEF InitialScreen
    <3>3. 0 \in Rows /\ FRAMEBUFFER_HEIGHT - 1 \in Rows /\ 0 \in Cols /\ FRAMEBUFFER_WIDTH - 1 \in Cols
      BY <2>s DEF Rows, Cols
    <3>4. ScreenTypeOK(screen)
      BY <2>r, <3>2, <3>3 DEF ScreenTypeOK
    <3> QED
      BY <2>1, <2>2, <2>r, <3>1, <3>4 DEF ConsoleTypeOK, PCs
  <2>4. CASE sh.pc # "main"
    <3>1. /\ LineRest(sh, keyboard_state.keyboard_buffer.ch)
          /\ ~ sh.is_open => Closed(sh, screen)
          /\ sh.is_open => LineOpen(screen, sh, keyboard_state)
      BY <2>4, LineParts
    <3>2. ScreenRec(screen) /\ Limits(screen) /\ screen.row \in Rows /\ screen.col \in Cols
      BY <2>i, <2>c, <3>1 DEF Closed, LineOpen, Window, Inside
    <3>3. ScreenTypeOK(screen)
      BY <2>r, <2>w, <3>2 DEF ScreenTypeOK, ScreenRec, Limits, Shaped
    <3>4. sh.del_limit \in Byte /\ sh.shell_row \in Byte
      BY <2>r, <2>i, <3>1 DEF LineRest
    <3> QED
      BY <2>1, <2>2, <3>3, <3>4 DEF ConsoleTypeOK, PCs
  <2> QED
    BY <2>3, <2>4
<1> QED
  BY <1>1, KeyInvariant, LineInvariant, PTL

(***************************************************************************)
(* The line that Enter runs is the line on the screen, behind the one a closed       *)
(* window left over, after any typing and erasing.                             *)
(***************************************************************************)
THEOREM LineShown == ASSUME Plain PROVE ConsoleSpec => []LineShowsInput
<1>1. LineInv => LineShowsInput
  <2> SUFFICES ASSUME LineInv, sh.is_open PROVE sh.shell_input = sh.carried \o LineText
    BY DEF LineShowsInput
  <2>1. LineOpen(screen, sh, keyboard_state)
    BY DEF LineInv
  <2>2. LineText = RowText(screen, screen.row)
    BY <2>1, TextOfRow
  <2> QED
    BY <2>1, <2>2 DEF LineOpen
<1> QED
  BY <1>1, LineInvariant, PTL

(***************************************************************************)
(* Whatever is printed and scrolled, the cursor stays in the open window, the prompt   *)
(* before the line, and the background around window and header.                  *)
(***************************************************************************)
THEOREM WindowStays == ASSUME Plain PROVE ConsoleSpec => []WindowKept
<1>1. KeyInv /\ LineInv => WindowKept
  <2> SUFFICES ASSUME KeyInv, LineInv PROVE WindowKept
    OBVIOUS
  <2>1. ASSUME sh.is_open
        PROVE  /\ InWindow(screen, screen.row, screen.col)
               /\ [i \in 1 .. Len(PromptText) |->
                     screen.fb[sh.prompt_row][sh.del_limit - Len(PromptText) + i - 1].ch] = PromptText
    <3>1. LineOpen(screen, sh, keyboard_state)
      BY <2>1 DEF LineInv
    <3>2. InWindow(screen, screen.row, screen.col)
      BY <3>1 DEF LineOpen, Window, Limits, Inside, InWindow
    <3>3. /\ sh.prompt_row = screen.row /\ sh.del_limit = LineStart
          /\ \A i \in 1 .. Len(PromptText) : screen.fb[screen.row][Left + i - 1].ch = PromptText[i]
      BY <3>1 DEF LineOpen, PromptAt
    <3>4. LineStart = Left + Len(PromptText) /\ Left \in Int /\ Len(PromptText) \in Nat
      BY PromptFacts, Sizes DEF LineStart
    <3>5. \A i \in 1 .. Len(PromptText) : LineStart - Len(PromptText) + i - 1 = Left + i - 1
      BY <3>4
    <3>6. PromptText = [i \in 1 .. Len(PromptText) |-> PromptText[i]]
      BY ConsoleAssumption
    <3>7. [i \in 1 .. Len(PromptText) |->
             screen.fb[sh.prompt_row][sh.del_limit - Len(PromptText) + i - 1].ch]
            = [i \in 1 .. Len(PromptText) |-> PromptText[i]]
      BY <3>3, <3>5
    <3> QED
      BY <3>2, <3>6, <3>7
  <2>2. ASSUME sh.pc # "main", NEW r \in Rows, NEW c \in Cols
        PROVE  (screen.fb[r][c].bg # "art") <=> (sh.is_open /\ r \in Up - 1 .. Down /\ c \in Left .. Right)
    <3>1. CASE sh.is_open
      <4>1. Painted(screen)
        BY <2>2, <3>1 DEF LineInv, LineOpen, Window
      <4> QED
        BY <3>1, <4>1 DEF Painted
    <3>2. CASE ~ sh.is_open
      <4>1. Background(screen)
        BY <2>2, <3>2 DEF LineInv
      <4> QED
        BY <3>2, <4>1 DEF Background
    <3> QED
      BY <3>1, <3>2
  <2> QED
    BY <2>1, <2>2 DEF WindowKept
<1> QED
  BY <1>1, KeyInvariant, LineInvariant, PTL

(***************************************************************************)
(* Every turn of Ctrl+Backspace that another follows takes a character off the line    *)
(* and moves the cursor back, so the loop comes to an end.                       *)
(***************************************************************************)
THEOREM ErasingStops == ASSUME Plain PROVE ConsoleSpec => ErasingEnds
<1>1. KeyInv /\ LineInv /\ [ConsoleNext]_vars =>
        [(Erase /\ sh'.pc = "erase") =>
           /\ Len(sh'.shell_input) < Len(sh.shell_input)
           /\ Place(screen'.row, screen'.col) < Place(screen.row, screen.col)]_vars
  <2> SUFFICES ASSUME KeyInv, LineInv, Erase
               PROVE  /\ Len(sh'.shell_input) < Len(sh.shell_input)
                      /\ Place(screen'.row, screen'.col) < Place(screen.row, screen.col)
    OBVIOUS
  <2>1. /\ screen'.row = screen.row /\ screen'.col = screen.col - 1
        /\ Len(sh'.shell_input) = Len(sh.shell_input) - 1
    BY EraseFacts
  <2>2. sh.shell_input \in Seq(Chars) /\ screen.row \in Up .. Down /\ screen.col \in Left .. Right
    <3>1. sh.pc = "erase" /\ sh.is_open
      BY DEF LineInv, Erase, KeyInv, KeyTypes
    <3> QED
      BY <3>1 DEF LineInv, LineOpen, Window, Inside
  <2>3. Len(sh.shell_input) \in Nat
    BY <2>2, LenProperties
  <2>4. /\ screen.row \in Int /\ screen.col \in Int /\ Left \in Int /\ Right \in Int
    BY <2>2, Sizes
  <2> DEFINE p == screen.row * (Right + 1 - Left)
  <2>5. p \in Int
    BY <2>4
  <2>6. /\ Place(screen'.row, screen'.col) = p + (screen.col - 1) - Left
        /\ Place(screen.row, screen.col) = p + screen.col - Left
    BY <2>1 DEF Place
  <2> HIDE DEF p
  <2> QED
    BY <2>1, <2>3, <2>4, <2>5, <2>6
<1> QED
  BY <1>1, KeyInvariant, LineInvariant, PTL DEF ConsoleSpec, ErasingEnds
=============================================================================
