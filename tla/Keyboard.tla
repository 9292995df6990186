------------------------------ MODULE Keyboard ------------------------------
(***************************************************************************)
(* What Kernel/drivers/keyboard-driver.c makes of the bytes that the       *)
(* keyboard sends.  A byte is the code of a key (0 .. 127), plus 128 when  *)
(* the key is let go.  Characters are their own names.                     *)
(***************************************************************************)
EXTENDS Integers, Sequences

VARIABLES capslock, shift, ctrl, alt

modifiers == <<capslock, shift, ctrl, alt>>

Codes       == 0 .. 127
NotDrawable == "not drawable"       \* NOT_DRAWBLE
Interrupt   == "interrupt"          \* CHAR_INTERRUPT
Eof         == "eof"                \* CHAR_EOF
Nul         == "nul"                \* the byte 0

(* The keys by code.  RCTRL and RALT are 157 and 184 in the driver: no code is. *)
Esc      == {1}
CapsLock == {58}
Shifts   == {54, 42}
Ctrls    == {29}
Alts     == {56}
FKeys    == 59 .. 68 \cup {87, 88}
IsSpecialKey(key) == key \in Esc \cup CapsLock \cup Shifts \cup Ctrls \cup Alts \cup FKeys

(* The two tables: three rows of keys that print, the space, and the rest. *)
Layout(row1, row2, row3, rest) ==
    [key \in Codes |->
        CASE key \in 2 .. 28  -> row1[key - 1]
          [] key \in 30 .. 41 -> row2[key - 29]
          [] key \in 43 .. 53 -> row3[key - 42]
          [] key = 57         -> " "
          [] key = 0          -> rest
          [] OTHER            -> NotDrawable]
NotShifted == Layout(
    <<"1", "2", "3", "4", "5", "6", "7", "8", "9", "0", "-", "=", "backspace", "tab",
      "q", "w", "e", "r", "t", "y", "u", "i", "o", "p", "[", "]", "newline">>,
    <<"a", "s", "d", "f", "g", "h", "j", "k", "l", ";", "'", "grave">>,
    <<"\\", "z", "x", "c", "v", "b", "n", "m", ",", ".", "/">>,
    NotDrawable)
Shifted == Layout(
    <<"!", "@", "#", "$", "%", "^", "&", "*", "(", ")", "_", "+", "backspace", "tab",
      "Q", "W", "E", "R", "T", "Y", "U", "I", "O", "P", "{", "}", "newline">>,
    <<"A", "S", "D", "F", "G", "H", "J", "K", "L", ":", "\"", "~">>,
    <<"|", "Z", "X", "C", "V", "B", "N", "M", "<", ">", "?">>,
    Nul)
Characters == {NotShifted[key] : key \in Codes} \cup {Shifted[key] : key \in Codes}

KInit == capslock = FALSE /\ shift = FALSE /\ ctrl = FALSE /\ alt = FALSE

(* kd_handler, the branches that only turn a modifier on or off, or nothing. *)
Modifies(key, release) ==
    \/ /\ key \in Esc
       /\ UNCHANGED modifiers
    \/ /\ key \in CapsLock
       /\ capslock' = IF release THEN capslock ELSE ~capslock
       /\ UNCHANGED <<shift, ctrl, alt>>
    \/ key \in Shifts /\ shift' = ~release /\ UNCHANGED <<capslock, ctrl, alt>>
    \/ key \in Ctrls /\ ctrl' = ~release /\ UNCHANGED <<capslock, shift, alt>>
    \/ key \in Alts /\ alt' = ~release /\ UNCHANGED <<capslock, shift, ctrl>>
    \/ (key \in FKeys \/ (~IsSpecialKey(key) /\ release)) /\ UNCHANGED modifiers

(* The branch that types: the character for standard input. *)
IsCtrlC(key) == ctrl /\ Shifted[key] = "C"
CharOf(key) ==
    CASE IsCtrlC(key)               -> Interrupt
      [] ctrl /\ Shifted[key] = "D" -> Eof
      [] OTHER -> IF shift # capslock THEN Shifted[key] ELSE NotShifted[key]
Types(key, release, char) ==
    /\ ~IsSpecialKey(key) /\ ~release
    /\ char = CharOf(key)
    /\ UNCHANGED modifiers
=============================================================================
