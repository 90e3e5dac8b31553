------------------------------ MODULE Keyboard ------------------------------
(***************************************************************************)
(* The keyboard driver (keyboard.c): an interrupt per scancode, a buffer of     *)
(* one character, and flags for Shift and Ctrl.                              *)
(*                                                                         *)
(* Scancodes are sorted by what keyboard_isr does with them: the make and break *)
(* codes of the modifiers, the make codes of keys with a character, and every    *)
(* other code, whose place in the map is 0.  To the last belong the break code   *)
(* of every character key, function keys and the prefix byte 0xE0.             *)
(* read_extended_mode and keyboard_buffer_ext are written and never read by      *)
(* anything that runs, and are left out.                                     *)
(*                                                                         *)
(* Three things are no state of the code: the number of a key press kept with    *)
(* its character, the number of presses so far, and the modifiers held down.     *)
(***************************************************************************)
EXTENDS Naturals

CONSTANTS
    CharKeys,               \* keys with a character, named by the character without Shift
    Shifted,                \* the character each gives with Shift
    CtrlKeys, ShiftKeys,    \* the Ctrl and Shift keys of the keyboard
    MaxKeys                 \* bound: presses of character keys

ASSUME KeyboardAssumption ==
    MaxKeys \in Nat /\ DOMAIN Shifted = CharKeys /\ CtrlKeys \cap ShiftKeys = {}

VARIABLES
    keyboard_state,     \* keyboard_input_on, press_shift, press_ctrl, keyboard_buffer
    presses,            \* character keys pressed so far
    held                \* modifier keys held down since the keyboard was activated

kbdvars == <<keyboard_state, presses, held>>

NoKey == [ch |-> "NUL", key |-> 0]

KeyboardInit ==
    /\ keyboard_state = [keyboard_input_on |-> FALSE, press_shift |-> FALSE,
                         press_ctrl |-> FALSE, keyboard_buffer |-> NoKey]
    /\ presses = 0
    /\ held = {}

\* keyboard_state_activate, and get_keyboard_buffer without its result.
Activated == [keyboard_state EXCEPT !.keyboard_input_on = TRUE]

\* Mutant: the buffer is not emptied.
BufferKept == keyboard_state

BufferTaken == [keyboard_state EXCEPT !.keyboard_buffer = NoKey]

-----------------------------------------------------------------------------
(***************************************************************************)
(* keyboard_isr, by kind of scancode.  A key held down sends its make code      *)
(* again and again.  A scancode that comes while input is off is read and         *)
(* dropped.                                                                  *)
(***************************************************************************)
ModifierDown(k) ==
    /\ keyboard_state.keyboard_input_on
    /\ held' = held \cup {k}
    /\ keyboard_state' = IF k \in CtrlKeys THEN [keyboard_state EXCEPT !.press_ctrl = TRUE]
                                           ELSE [keyboard_state EXCEPT !.press_shift = TRUE]
    /\ UNCHANGED presses

\* Mutant: only the break code of Shift is known.
CtrlUpUnknown(k) ==
    /\ k \in held
    /\ held' = held \ {k}
    /\ keyboard_state' = IF k \in CtrlKeys THEN keyboard_state
                                           ELSE [keyboard_state EXCEPT !.press_shift = FALSE]
    /\ UNCHANGED presses

ModifierUp(k) ==
    /\ k \in held
    /\ held' = held \ {k}
    /\ keyboard_state' = IF k \in CtrlKeys THEN [keyboard_state EXCEPT !.press_ctrl = FALSE]
                                           ELSE [keyboard_state EXCEPT !.press_shift = FALSE]
    /\ UNCHANGED presses

\* The maps from scancodes to characters, without Shift and with it.
AsciiOf(c) == IF keyboard_state.press_shift THEN Shifted[c] ELSE c

KeyDown(c) ==
    /\ keyboard_state.keyboard_input_on
    /\ presses < MaxKeys
    /\ presses' = presses + 1
    /\ keyboard_state' = [keyboard_state EXCEPT !.keyboard_buffer =
            [ch |-> AsciiOf(c), key |-> presses + 1]]
    /\ UNCHANGED held

OtherCode ==
    /\ keyboard_state.keyboard_input_on
    /\ keyboard_state' = [keyboard_state EXCEPT !.keyboard_buffer = NoKey]
    /\ UNCHANGED <<presses, held>>

CtrlHeld == held \cap CtrlKeys # {}

-----------------------------------------------------------------------------
KeyboardTypeOK ==
    /\ keyboard_state \in [keyboard_input_on : BOOLEAN, press_shift : BOOLEAN, press_ctrl : BOOLEAN,
            keyboard_buffer : [ch : CharKeys \cup {Shifted[c] : c \in CharKeys} \cup {"NUL"},
                               key : 0 .. MaxKeys]]
    /\ presses \in 0 .. MaxKeys
    /\ held \subseteq CtrlKeys \cup ShiftKeys

(***************************************************************************)
(* keyboard_isr's flags never outlast the keys: whatever order the codes of      *)
(* several modifier keys come in, Ctrl or Shift that counts as pressed is held.   *)
(***************************************************************************)
NoStuckModifier ==
    /\ keyboard_state.press_ctrl => CtrlHeld
    /\ keyboard_state.press_shift => held \cap ShiftKeys # {}
=============================================================================
