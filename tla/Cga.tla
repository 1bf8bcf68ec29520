-------------------------------- MODULE Cga --------------------------------
(***************************************************************************)
(* The text display of 104console.c, lines 41 to 177: cga_init finds the   *)
(* adapter and its cursor, cga_putc writes one character into video memory *)
(* and moves the cursor of the 6845 controller, scrolling by memmove.      *)
(* A cell is a character and its attribute byte.                           *)
(***************************************************************************)
EXTENDS Integers

CONSTANTS
    CRT_ROWS, CRT_COLS,    \* 25 and 80
    RegSize,               \* the number of values of a 6845 register, 256
    Chars,                 \* the printing characters
    Attributes,            \* the values of c's upper byte other than 0
    BiosCell               \* the cell the BIOS left on the screen

CRT_SIZE == CRT_ROWS * CRT_COLS

ASSUME CgaAssumption ==
    /\ CRT_ROWS \in Nat \ {0} /\ CRT_COLS \in Nat \ {0}
    /\ RegSize \in Nat \ {0}
    /\ CRT_SIZE <= RegSize * RegSize
    /\ Chars \cap {8, 10, 13} = {} /\ 32 \notin Chars
    /\ 7 \notin Attributes

BS    == 8       \* '\b'
LF    == 10      \* '\n'
CR    == 13      \* '\r'
Space == 32

Cell(char, attribute) == [char |-> char, attribute |-> attribute]
Blank == Cell(Space, 7)

Cells == {Cell(char, attribute) : char \in Chars \cup {Space}, attribute \in Attributes \cup {7}}
            \cup {BiosCell}

Positions == 0..(CRT_SIZE - 1)

VARIABLES
    adapter,      \* the machine's adapter: colour, at CGA_BUF, or monochrome, at MONO_BUF
    memory,       \* its video memory
    cursor,       \* its 6845: the registers 14 and 15 of the cursor
    addr_6845,    \* static uint16_t addr_6845, by the adapter it belongs to
    crt_buf,      \* static uint16_t *crt_buf, likewise
    crt_pos,      \* static uint16_t crt_pos
    printed       \* history: the character that cga_putc got last, with its upper byte

crtVars == <<adapter, memory, cursor, addr_6845, crt_buf, crt_pos, printed>>

(* Faulty: only the low half is written. *)
Registers_LowOnly(pos) == [high |-> 0, low |-> pos % RegSize]

(* A position as the two registers hold it, and back. *)
Registers(pos) == [high |-> (pos \div RegSize) % RegSize, low |-> pos % RegSize]
Position(regs) == regs.high * RegSize + regs.low

Init ==
    /\ adapter \in {"cga", "mono"}
    /\ memory = [p \in Positions |-> BiosCell]
    /\ \E p \in Positions : cursor = Registers(p)
    /\ addr_6845 = "none" /\ crt_buf = "none" /\ crt_pos = 0
    /\ printed = [char |-> Space, upper |-> 0]

(* cga_init probes for the colour adapter: a word written at CGA_BUF is read
   back only if its memory is there, and then what was there is put back. *)
Probe    == Cell(90, 165)         \* 0xA55A
OpenBus  == Cell(255, 255)        \* what is read where no memory answers

cga_init ==
    /\ addr_6845 = "none"
    /\ LET present == adapter = "cga"
           was     == IF present THEN memory[0] ELSE OpenBus
           probed  == IF present THEN [memory EXCEPT ![0] = Probe] ELSE memory
           read    == IF present THEN probed[0] ELSE OpenBus
           found   == IF read # Probe THEN "mono" ELSE "cga"
       IN /\ addr_6845' = found /\ crt_buf' = found
          /\ memory' = IF found = "cga" THEN [probed EXCEPT ![0] = was] ELSE probed
          /\ crt_pos' = IF found = adapter THEN Position(cursor) ELSE 0
    /\ UNCHANGED <<adapter, cursor, printed>>

(* The character's cell: plain characters are black on white. *)
Shown(char, upper) == Cell(char, IF upper = 0 THEN 7 ELSE upper)

(* The switch of cga_putc: the cell it writes, where, and the new position. *)
Written(char, upper) ==
    IF char = BS
    THEN IF crt_pos > 0 THEN [memory EXCEPT ![crt_pos - 1] = Shown(Space, upper)] ELSE memory
    ELSE IF char \in {LF, CR} THEN memory
    ELSE [memory EXCEPT ![crt_pos] = Shown(char, upper)]

(* Faulty: a backspace at the corner moves on. *)
Moved_PastCorner(char) ==
    IF char = BS THEN crt_pos - 1
    ELSE IF char = LF THEN (crt_pos + CRT_COLS) - ((crt_pos + CRT_COLS) % CRT_COLS)
    ELSE IF char = CR THEN crt_pos - (crt_pos % CRT_COLS)
    ELSE crt_pos + 1

Moved(char) ==
    IF char = BS THEN IF crt_pos > 0 THEN crt_pos - 1 ELSE crt_pos
    ELSE IF char = LF THEN (crt_pos + CRT_COLS) - ((crt_pos + CRT_COLS) % CRT_COLS)
    ELSE IF char = CR THEN crt_pos - (crt_pos % CRT_COLS)
    ELSE crt_pos + 1

(* Faulty: the last row stays as it is. *)
Scrolled_KeepsLast(m) ==
    [p \in Positions |-> IF p < CRT_SIZE - CRT_COLS THEN m[p + CRT_COLS] ELSE m[p]]

(* memmove one row up and blank the last row. *)
Scrolled(m) ==
    [p \in Positions |-> IF p < CRT_SIZE - CRT_COLS THEN m[p + CRT_COLS] ELSE Blank]

cga_putc(char, upper) ==
    /\ addr_6845 # "none"
    /\ LET m   == Written(char, upper)
           pos == Moved(char)
           off == pos >= CRT_SIZE
       IN /\ crt_pos' = IF off THEN pos - CRT_COLS ELSE pos
          /\ memory' = IF crt_buf # adapter THEN memory ELSE IF off THEN Scrolled(m) ELSE m
    /\ cursor' = IF addr_6845 = adapter THEN Registers(crt_pos') ELSE cursor
    /\ printed' = [char |-> char, upper |-> upper]
    /\ UNCHANGED <<adapter, addr_6845, crt_buf>>

Codes  == Chars \cup {Space, BS, LF, CR}
Uppers == Attributes \cup {0}

CgaNext ==
    \/ cga_init
    \/ \E char \in Codes, upper \in Uppers : cga_putc(char, upper)

Spec == Init /\ [][CgaNext]_crtVars

-----------------------------------------------------------------------------
(* The type invariant: the position never leaves the screen, so no character
   is written outside video memory. *)
TypeOK ==
    /\ adapter \in {"cga", "mono"}
    /\ memory \in [Positions -> Cells]
    /\ cursor \in [high : 0..(RegSize - 1), low : 0..(RegSize - 1)]
    /\ addr_6845 \in {"none", "cga", "mono"} /\ crt_buf \in {"none", "cga", "mono"}
    /\ crt_pos \in Positions
    /\ printed \in [char : Codes, upper : Uppers]

(* Between two calls the blinking cursor is where the next character goes:
   both of its registers were written, in both halves of the position. *)
CursorFollows == addr_6845 # "none" => Position(cursor) = crt_pos

(* The display as rows and columns.  Before cga_init the place is the cursor's. *)
Place == IF addr_6845 = "none" THEN Position(cursor) ELSE crt_pos

Screen == INSTANCE Terminal WITH
    Rows <- CRT_ROWS, Cols <- CRT_COLS, Start <- BiosCell,
    screen <- [r \in 0..(CRT_ROWS - 1) |-> [c \in 0..(CRT_COLS - 1) |-> memory[r * CRT_COLS + c]]],
    row <- Place \div CRT_COLS,
    col <- Place % CRT_COLS

(* Video memory and the one position in it show the terminal: characters wrap
   at the end of a row, a newline or a wrap on the last row scrolls exactly one
   row, a backspace erases the cell before the cursor and stops at the corner,
   and cga_init leaves the screen and the cursor as the BIOS left them. *)
ShowsTerminal == Screen!Spec
=============================================================================
