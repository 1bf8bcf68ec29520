------------------------------ MODULE Keyboard ------------------------------
(***************************************************************************)
(* The keyboard half of 104console.c (lines 255-398) as pure functions:    *)
(* the scan code tables and what kbd_proc_data makes of one scan code byte *)
(* in a given state of its static variable shift.  shift is the set of the *)
(* names of its one bits; characters and scan codes are their numbers.     *)
(***************************************************************************)
EXTENDS Integers, Sequences

Byte == 0..255

Modifiers == {"SHIFT", "CTL", "ALT"}
Locks     == {"CAPSLOCK", "NUMLOCK", "SCROLLLOCK"}
Flags     == Modifiers \cup Locks \cup {"E0ESC"}

NO      == 0        \* no character
E0      == 224      \* the prefix of the extended keys' scan codes
KEY_DEL == 233

(* static uint8_t shiftcode[256]: the modifier a (prefixed) scan code stands for. *)
shiftcode(data) ==
    IF data \in {29, 157} THEN {"CTL"}             \* 0x1D, 0x9D
    ELSE IF data \in {42, 54} THEN {"SHIFT"}       \* 0x2A, 0x36
    ELSE IF data \in {56, 184} THEN {"ALT"}        \* 0x38, 0xB8
    ELSE {}

(* static uint8_t togglecode[256] *)
togglecode(data) ==
    IF data = 58 THEN {"CAPSLOCK"}                 \* 0x3A
    ELSE IF data = 69 THEN {"NUMLOCK"}             \* 0x45
    ELSE IF data = 70 THEN {"SCROLLLOCK"}          \* 0x46
    ELSE {}

(* The rows of normalmap, shiftmap and ctlmap from 0x00 to 0x36. *)
NormalRows ==
    << NO, 27, 49, 50, 51, 52, 53, 54,   55, 56, 57, 48, 45, 61, 8, 9,
       113, 119, 101, 114, 116, 121, 117, 105,   111, 112, 91, 93, 10, NO, 97, 115,
       100, 102, 103, 104, 106, 107, 108, 59,   39, 96, NO, 92, 122, 120, 99, 118,
       98, 110, 109, 44, 46, 47, NO >>
ShiftRows ==
    << NO, 27, 33, 64, 35, 36, 37, 94,   38, 42, 40, 41, 95, 43, 8, 9,
       81, 87, 69, 82, 84, 89, 85, 73,   79, 80, 123, 125, 10, NO, 65, 83,
       68, 70, 71, 72, 74, 75, 76, 58,   34, 126, NO, 124, 90, 88, 67, 86,
       66, 78, 77, 60, 62, 63, NO >>
(* C('/') is '/' - '@' = -17, stored as the byte 239. *)
CtlRows ==
    << NO, NO, NO, NO, NO, NO, NO, NO,   NO, NO, NO, NO, NO, NO, NO, NO,
       17, 23, 5, 18, 20, 25, 21, 9,   15, 16, NO, NO, 13, NO, 1, 19,
       4, 6, 7, 8, 10, 11, 12, NO,   NO, NO, NO, 28, 26, 24, 3, 22,
       2, 14, 13, NO, NO, 239, NO >>

(* The codes 0x37 to 0x53, which normalmap and shiftmap share: the keypad. *)
Keypad == << 42, NO, 32, NO, NO, NO, NO, NO, NO, NO, NO, NO, NO, NO, NO, NO, 55,
             56, 57, 45, 52, 53, 54, 43, 49, 50, 51, 48, 46 >>

(* The codes 0xC7 to 0xD3, those of the extended keys Home to Delete. *)
Navigation == << 224, 226, 230, NO, 228, NO, 229, NO, 225, 227, 231, 232, KEY_DEL >>

(* normalmap and shiftmap: their rows, the keypad, the keypad's extended Enter
   and '/' keys at 0x9C and 0xB5, and the navigation keys. *)
CharMap(rows) ==
    [data \in Byte |->
        IF data < 55 THEN rows[data + 1]
        ELSE IF data < 84 THEN Keypad[data - 54]
        ELSE IF data = 156 THEN 10
        ELSE IF data = 181 THEN 47
        ELSE IF data \in 199..211 THEN Navigation[data - 198]
        ELSE NO]

normalmap == CharMap(NormalRows)
shiftmap  == CharMap(ShiftRows)

(* ctlmap: no keypad, no Enter at 0x9C, and KEY_HOME at 0x97, not at 0xC7. *)
ctlmap ==
    [data \in Byte |->
        IF data < 55 THEN CtlRows[data + 1]
        ELSE IF data = 151 THEN 224
        ELSE IF data = 181 THEN 239
        ELSE IF data \in 200..211 THEN Navigation[data - 198]
        ELSE NO]

(* Faulty: Shift counts before Ctrl. *)
charcode_ShiftFirst(shift) ==
    IF "SHIFT" \in shift THEN shiftmap
    ELSE IF "CTL" \in shift THEN ctlmap
    ELSE normalmap

(* charcode[shift & (CTL | SHIFT)] *)
charcode(shift) ==
    IF "CTL" \in shift THEN ctlmap
    ELSE IF "SHIFT" \in shift THEN shiftmap
    ELSE normalmap

(* Faulty: the character is not known to be a letter. *)
flipcase_Any(c) == c - 32

(* The case of a letter under Caps Lock. *)
flipcase(c) ==
    IF c \in 97..122 THEN c - 32
    ELSE IF c \in 65..90 THEN c + 32
    ELSE c

-----------------------------------------------------------------------------
(* kbd_proc_data: the three ways it takes a byte. *)

SymmetricDifference(S, T) == (S \ T) \cup (T \ S)

(* The scan code with bit 7 set, and cleared. *)
Extended(data) == IF data < 128 THEN data + 128 ELSE data
Plain(data)    == data % 128

(* Faulty: the prefix is returned as if it were a character. *)
Prefix_Returned(shift) == [shift |-> shift \cup {"E0ESC"}, c |-> E0, reboot |-> FALSE]

Prefix(shift) == [shift |-> shift \cup {"E0ESC"}, c |-> NO, reboot |-> FALSE]

(* Faulty: bit 7 of a plain break code is not cleared. *)
Release_KeepsBit7(shift, data) ==
    [shift |-> shift \ (shiftcode(data) \cup {"E0ESC"}), c |-> NO, reboot |-> FALSE]

(* Faulty: the prefix outlives the break code. *)
Release_KeepsPrefix(shift, data) ==
    LET code == IF "E0ESC" \in shift THEN data ELSE Plain(data) IN
    [shift |-> shift \ shiftcode(code), c |-> NO, reboot |-> FALSE]

Release(shift, data) ==
    LET code == IF "E0ESC" \in shift THEN data ELSE Plain(data) IN
    [shift |-> shift \ (shiftcode(code) \cup {"E0ESC"}), c |-> NO, reboot |-> FALSE]

(* Faulty: a modifier is toggled, not set. *)
Press_Toggles(shift, data) ==
    LET code  == IF "E0ESC" \in shift THEN Extended(data) ELSE data
        flags == SymmetricDifference(shift \ {"E0ESC"}, shiftcode(code) \cup togglecode(code))
        char  == charcode(flags)[code]
        c     == IF "CAPSLOCK" \in flags THEN flipcase(char) ELSE char
    IN [shift |-> flags, c |-> c, reboot |-> {"CTL", "ALT"} \subseteq flags /\ c = KEY_DEL]

(* Faulty: a lock is set, not toggled. *)
Press_SetsLock(shift, data) ==
    LET code  == IF "E0ESC" \in shift THEN Extended(data) ELSE data
        flags == (shift \ {"E0ESC"}) \cup shiftcode(code) \cup togglecode(code)
        char  == charcode(flags)[code]
        c     == IF "CAPSLOCK" \in flags THEN flipcase(char) ELSE char
    IN [shift |-> flags, c |-> c, reboot |-> {"CTL", "ALT"} \subseteq flags /\ c = KEY_DEL]

(* Faulty: the prefix is dropped. *)
Press_NoPrefix(shift, data) ==
    LET code  == data
        flags == SymmetricDifference((shift \ {"E0ESC"}) \cup shiftcode(code), togglecode(code))
        char  == charcode(flags)[code]
        c     == IF "CAPSLOCK" \in flags THEN flipcase(char) ELSE char
    IN [shift |-> flags, c |-> c, reboot |-> {"CTL", "ALT"} \subseteq flags /\ c = KEY_DEL]

Press(shift, data) ==
    LET code  == IF "E0ESC" \in shift THEN Extended(data) ELSE data
        flags == SymmetricDifference((shift \ {"E0ESC"}) \cup shiftcode(code), togglecode(code))
        char  == charcode(flags)[code]
        c     == IF "CAPSLOCK" \in flags THEN flipcase(char) ELSE char
    IN [shift |-> flags, c |-> c, reboot |-> {"CTL", "ALT"} \subseteq flags /\ c = KEY_DEL]

(* The new value of shift, the character (NO for none), and whether the call
   reset the machine through port 0x92. *)
kbd_proc_data(shift, data) ==
    IF data = E0 THEN Prefix(shift)
    ELSE IF data >= 128 THEN Release(shift, data)
    ELSE Press(shift, data)
=============================================================================
