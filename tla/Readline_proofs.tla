--------------------------- MODULE Readline_proofs ---------------------------
(***************************************************************************)
(* Proofs about the display and the line that is read on it, for every size*)
(* of the screen and of the buffer.                                        *)
(***************************************************************************)
EXTENDS Readline, SequenceTheorems, TLAPS

-----------------------------------------------------------------------------
(* The display. *)

(* The screen is not empty, and a row fits into it. *)
LEMMA SizeType == CRT_SIZE \in Nat /\ CRT_COLS \in Nat \ {0} /\ CRT_COLS <= CRT_SIZE
<1>1. CRT_ROWS \in Nat /\ CRT_ROWS >= 1 /\ CRT_COLS \in Nat /\ CRT_COLS >= 1
  BY CgaAssumption
<1> QED
  BY <1>1 DEF CRT_SIZE

(* The two registers of the cursor hold every position of the screen. *)
LEMMA RegistersHold ==
    \A p \in Positions :
        /\ Registers(p) \in [high : 0..(RegSize - 1), low : 0..(RegSize - 1)]
        /\ Position(Registers(p)) = p
<1> SUFFICES ASSUME NEW p \in Positions
             PROVE  /\ Registers(p) \in [high : 0..(RegSize - 1), low : 0..(RegSize - 1)]
                    /\ Position(Registers(p)) = p
  OBVIOUS
<1>1. p \in Nat /\ p < RegSize * RegSize /\ RegSize \in Nat /\ RegSize >= 1
  BY SizeType, CgaAssumption DEF Positions
<1>2. p \div RegSize \in 0..(RegSize - 1)
  BY <1>1
<1>3. (p \div RegSize) % RegSize = p \div RegSize
  BY <1>1, <1>2
<1>4. p = (RegSize * (p \div RegSize)) + (p % RegSize)
  BY <1>1
<1>5. p % RegSize \in 0..(RegSize - 1)
  BY <1>1
<1>6. (p \div RegSize) * RegSize = RegSize * (p \div RegSize)
  BY <1>1, <1>2
<1> QED
  BY <1>1, <1>2, <1>3, <1>4, <1>5, <1>6 DEF Registers, Position

(* Between calls the cursor is on the screen: the BIOS left it there, and every
   cga_putc writes back the position it computed. *)
CursorOnScreen ==
    /\ Position(cursor) \in Positions
    /\ CursorFollows

(* cga_init finds the adapter that is there, so both are the same later on. *)
AdapterFound == addr_6845 \in {"none", adapter} /\ crt_buf = addr_6845

IInv == TypeOK /\ CursorOnScreen /\ AdapterFound

(* The initial states satisfy the invariant. *)
LEMMA InitIInv == Init => IInv
<1> SUFFICES ASSUME Init PROVE IInv
  OBVIOUS
<1>1. PICK p \in Positions : cursor = Registers(p)
  BY DEF Init
<1>2. Position(cursor) = p /\ cursor \in [high : 0..(RegSize - 1), low : 0..(RegSize - 1)]
  BY <1>1, RegistersHold
<1>3. 0 \in Positions
  BY SizeType DEF Positions
<1>4. memory \in [Positions -> Cells]
  BY DEF Init, Cells
<1>5. printed \in [char : Codes, upper : Uppers]
  BY DEF Init, Codes, Uppers
<1> QED
  BY <1>2, <1>3, <1>4, <1>5 DEF Init, IInv, TypeOK, CursorOnScreen, CursorFollows, AdapterFound

(* Where the switch of cga_putc leaves the position: at most one row beyond the
   end of the screen, which the one scroll takes back. *)
LEMMA MovedRange ==
    ASSUME crt_pos \in Positions, NEW char
    PROVE  /\ Moved(char) \in 0..(CRT_SIZE + CRT_COLS - 1)
           /\ Moved(char) >= CRT_SIZE => Moved(char) - CRT_COLS \in Positions
           /\ Moved(char) < CRT_SIZE => Moved(char) \in Positions
<1>1. crt_pos \in Nat /\ crt_pos < CRT_SIZE /\ CRT_COLS \in Nat /\ CRT_COLS >= 1 /\ CRT_SIZE \in Nat
      /\ CRT_COLS <= CRT_SIZE
  BY SizeType DEF Positions
<1>2. /\ crt_pos % CRT_COLS \in 0..crt_pos
      /\ (crt_pos + CRT_COLS) % CRT_COLS \in 0..(crt_pos + CRT_COLS)
  BY <1>1
<1>3. Moved(char) \in 0..(CRT_SIZE + CRT_COLS - 1)
  BY <1>1, <1>2 DEF Moved
<1> QED
  BY <1>1, <1>3 DEF Positions

(* A cell that cga_putc makes, and a screen it writes or scrolls. *)
LEMMA WrittenType ==
    ASSUME IInv,
           NEW char \in Codes, NEW upper \in Uppers
    PROVE  Written(char, upper) \in [Positions -> Cells]
<1>1. crt_pos \in Positions /\ memory \in [Positions -> Cells]
  BY DEF IInv, TypeOK
<1>2. \A ch \in Chars \cup {Space} : Shown(ch, upper) \in Cells
  BY DEF Shown, Cells, Uppers
<1>3. char \notin {BS, LF, CR} => char \in Chars \cup {Space}
  BY DEF Codes
<1> QED
  BY <1>1, <1>2, <1>3 DEF Written

(* A scrolled screen is a screen. *)
LEMMA ScrolledType ==
    ASSUME NEW m \in [Positions -> Cells]
    PROVE  Scrolled(m) \in [Positions -> Cells]
<1>1. Blank \in Cells
  BY DEF Blank, Cells
<1>2. \A p \in Positions : p < CRT_SIZE - CRT_COLS => p + CRT_COLS \in Positions
  BY SizeType DEF Positions
<1> QED
  BY <1>1, <1>2 DEF Scrolled

(* Every step keeps the invariant. *)
LEMMA StepIInv == IInv /\ [CgaNext]_crtVars => IInv'
<1> SUFFICES ASSUME IInv, [CgaNext]_crtVars PROVE IInv'
  OBVIOUS
<1>1. CASE cga_init
  <2>1. addr_6845' = adapter /\ crt_buf' = adapter
    <3>1. 0 \in Positions
      BY SizeType DEF Positions
    <3>2. Probe # OpenBus
      BY DEF Probe, OpenBus, Cell
    <3>3. adapter = "cga" => [memory EXCEPT ![0] = Probe][0] = Probe
      BY <3>1 DEF IInv, TypeOK
    <3> QED
      BY <1>1, <3>2, <3>3 DEF cga_init, IInv, TypeOK
  <2>2. memory' = memory
    BY <1>1, <2>1, SizeType DEF cga_init, IInv, TypeOK, Positions
  <2>3. crt_pos' = Position(cursor) /\ UNCHANGED <<adapter, cursor, printed>>
    BY <1>1, <2>1 DEF cga_init
  <2> QED
    BY <2>1, <2>2, <2>3
       DEF IInv, TypeOK, CursorOnScreen, CursorFollows, AdapterFound, Position
<1>2. CASE \E char \in Codes, upper \in Uppers : cga_putc(char, upper)
  <2>1. PICK char \in Codes, upper \in Uppers : cga_putc(char, upper)
    BY <1>2
  <2>2. crt_pos' \in Positions
    <3>1. crt_pos' = IF Moved(char) >= CRT_SIZE THEN Moved(char) - CRT_COLS ELSE Moved(char)
      BY <2>1 DEF cga_putc
    <3>2. /\ Moved(char) \in Int /\ CRT_SIZE \in Int
          /\ Moved(char) >= CRT_SIZE => Moved(char) - CRT_COLS \in Positions
          /\ Moved(char) < CRT_SIZE => Moved(char) \in Positions
      BY MovedRange, SizeType DEF IInv, TypeOK
    <3> QED
      BY <3>1, <3>2
  <2>3. memory' \in [Positions -> Cells]
    BY <2>1, WrittenType, ScrolledType DEF cga_putc, IInv, TypeOK
  <2>4. cursor' = Registers(crt_pos') /\ UNCHANGED <<adapter, addr_6845, crt_buf>>
    BY <2>1 DEF cga_putc, IInv, AdapterFound
  <2>5. Position(cursor') = crt_pos'
        /\ cursor' \in [high : 0..(RegSize - 1), low : 0..(RegSize - 1)]
    BY <2>2, <2>4, RegistersHold
  <2>6. printed' \in [char : Codes, upper : Uppers]
    BY <2>1 DEF cga_putc
  <2> QED
    BY <2>2, <2>3, <2>4, <2>5, <2>6
       DEF IInv, TypeOK, CursorOnScreen, CursorFollows, AdapterFound, Position
<1>3. CASE UNCHANGED crtVars
  BY <1>3 DEF crtVars, IInv, TypeOK, CursorOnScreen, CursorFollows, AdapterFound, Position
<1> QED
  BY <1>1, <1>2, <1>3 DEF CgaNext

(* The write position never leaves the screen: whatever is printed, every write
   of cga_putc goes to a cell of video memory. *)
THEOREM PositionOnScreen == Spec => []TypeOK
<1>1. IInv => TypeOK
  BY DEF IInv
<1> QED
  BY <1>1, InitIInv, StepIInv, PTL DEF Spec

(* The blinking cursor is always where the next character goes. *)
THEOREM CursorIsThere == Spec => []CursorFollows
<1>1. IInv => CursorFollows
  BY DEF IInv, CursorOnScreen
<1> QED
  BY <1>1, InitIInv, StepIInv, PTL DEF Spec

-----------------------------------------------------------------------------
(* The refinement: one index into video memory is a terminal's row and column. *)

(* The refinement mapping, by name. *)
Display(m) == [r \in 0..(CRT_ROWS - 1) |-> [c \in 0..(CRT_COLS - 1) |-> m[r * CRT_COLS + c]]]
RowNow     == Place \div CRT_COLS
ColNow     == Place % CRT_COLS

(* The screen has at least one row and one column, and a position for each cell. *)
LEMMA ScreenSize ==
    /\ CRT_ROWS \in Nat /\ CRT_ROWS > 0 /\ CRT_COLS \in Nat /\ CRT_COLS > 0
    /\ CRT_SIZE = CRT_ROWS * CRT_COLS /\ CRT_SIZE \in Nat
    /\ Positions = 0..(CRT_SIZE - 1)
<1>1. CRT_ROWS \in Nat /\ CRT_ROWS > 0 /\ CRT_COLS \in Nat /\ CRT_COLS > 0
  BY CgaAssumption
<1> QED
  BY <1>1, SizeType DEF CRT_SIZE, Positions

(* The position of a row and a column, on the screen, and what it is of the row
   above and below. *)
LEMMA PlaceIs ==
    ASSUME NEW r \in 0..(CRT_ROWS - 1), NEW c \in 0..(CRT_COLS - 1)
    PROVE  /\ r * CRT_COLS \in Nat /\ r * CRT_COLS + c \in Positions
           /\ (r * CRT_COLS + c) \div CRT_COLS = r
           /\ (r * CRT_COLS + c) % CRT_COLS = c
           /\ (r + 1) * CRT_COLS = (r * CRT_COLS) + CRT_COLS
           /\ (r - 1) * CRT_COLS = (r * CRT_COLS) - CRT_COLS
           /\ (r + 1) * CRT_COLS <= CRT_SIZE
           /\ r = CRT_ROWS - 1 <=> (r + 1) * CRT_COLS = CRT_SIZE
<1> DEFINE C == CRT_COLS  x == r * C
<1>1. C \in Nat /\ C > 0 /\ CRT_ROWS \in Nat /\ CRT_SIZE \in Nat /\ Positions = 0..(CRT_SIZE - 1)
  BY ScreenSize
<1>2. x \in Nat /\ (r + 1) * C = x + C /\ (r - 1) * C = x - C
  BY <1>1
<1>3. (r + 1) * C <= CRT_SIZE
  BY <1>1, ScreenSize
<1>4. r = CRT_ROWS - 1 <=> (r + 1) * C = CRT_SIZE
  <2>1. ASSUME r # CRT_ROWS - 1 PROVE (r + 1) * C # CRT_SIZE
    <3>1. (CRT_ROWS - (r + 1)) * C > 0
      BY <1>1, <2>1
    <3>2. (CRT_ROWS - (r + 1)) * C = CRT_SIZE - (r + 1) * C
      BY <1>1, ScreenSize
    <3> QED
      BY <1>1, <1>2, <3>1, <3>2
  <2>2. r = CRT_ROWS - 1 => (r + 1) * C = CRT_SIZE
    BY <1>1, ScreenSize
  <2> QED
    BY <2>1, <2>2
<1>5. x + c \in Positions
  <2> HIDE DEF x
  <2> QED
    BY <1>1, <1>2, <1>3
<1>6. (x + c) \div C = r /\ (x + c) % C = c
  <2> DEFINE q == (x + c) \div C  s == (x + c) % C
  <2>1. x + c \in Nat
    BY <1>1, <1>2
  <2>2. q \in Nat /\ s \in 0..(C - 1) /\ x + c = C * q + s
    BY <1>1, <2>1
  <2> HIDE DEF q, s
  <2>3. x = C * r
    BY <1>1
  <2>4. ASSUME q < r PROVE FALSE
    <3>1. C * (q + 1) <= C * r
      BY <1>1, <2>2, <2>4
    <3> QED
      BY <1>1, <2>2, <2>3, <3>1
  <2>5. ASSUME r < q PROVE FALSE
    <3>1. C * (r + 1) <= C * q
      BY <1>1, <2>2, <2>5
    <3> QED
      BY <1>1, <2>2, <2>3, <3>1
  <2>6. q = r
    BY <2>2, <2>4, <2>5
  <2>7. q = r /\ s = c
    BY <1>1, <2>2, <2>3, <2>6
  <2> QED
    BY <2>7 DEF q, s
<1> QED
  BY <1>2, <1>3, <1>4, <1>5, <1>6

(* Every position has a row and a column. *)
LEMMA PlaceHas ==
    ASSUME NEW p \in Positions
    PROVE  \E r \in 0..(CRT_ROWS - 1), c \in 0..(CRT_COLS - 1) : p = r * CRT_COLS + c
<1> DEFINE C == CRT_COLS  r == p \div C  c == p % C
<1>1. C \in Nat /\ C > 0 /\ CRT_ROWS \in Nat /\ CRT_ROWS > 0 /\ p \in Nat /\ p < CRT_ROWS * C
  BY ScreenSize
<1>2. r \in Nat /\ c \in 0..(C - 1) /\ p = C * r + c
  BY <1>1
<1> HIDE DEF r, c
<1>3. ~(r >= CRT_ROWS)
  <2> SUFFICES ASSUME r >= CRT_ROWS PROVE FALSE
    OBVIOUS
  <2>1. C * r >= C * CRT_ROWS
    BY <1>1, <1>2
  <2>2. C * CRT_ROWS = CRT_ROWS * C
    BY <1>1
  <2> QED
    BY <1>1, <1>2, <2>1, <2>2
<1>4. C * r = r * C
  BY <1>1, <1>2
<1> QED
  BY <1>1, <1>2, <1>3, <1>4

(* A cell written is a cell of the row and the column. *)
WritesCell(m, cell, r, c) ==
    Display([m EXCEPT ![r * CRT_COLS + c] = cell]) = [Display(m) EXCEPT ![r][c] = cell]

(* A cell written in video memory is the cell written at its row and column. *)
LEMMA DisplayWritten ==
    ASSUME NEW m \in [Positions -> Cells], NEW cell,
           NEW r \in 0..(CRT_ROWS - 1), NEW c \in 0..(CRT_COLS - 1)
    PROVE  WritesCell(m, cell, r, c)
<1> DEFINE p == r * CRT_COLS + c
<1>1. p \in Positions
  BY PlaceIs
<1>2. \A s \in 0..(CRT_ROWS - 1), d \in 0..(CRT_COLS - 1) :
        /\ s * CRT_COLS + d \in Positions
        /\ s * CRT_COLS + d = p <=> s = r /\ d = c
  <2> TAKE s \in 0..(CRT_ROWS - 1), d \in 0..(CRT_COLS - 1)
  <2>1. /\ s * CRT_COLS + d \in Positions
        /\ (s * CRT_COLS + d) \div CRT_COLS = s /\ (s * CRT_COLS + d) % CRT_COLS = d
    BY PlaceIs
  <2>2. p \div CRT_COLS = r /\ p % CRT_COLS = c
    BY PlaceIs
  <2>3. s = r /\ d = c => s * CRT_COLS + d = p
    OBVIOUS
  <2> DEFINE q == s * CRT_COLS + d
  <2> HIDE DEF p, q
  <2>4. q = p => s = r /\ d = c
    BY <2>1, <2>2 DEF q
  <2> QED
    BY <2>1, <2>3, <2>4 DEF q
<1> HIDE DEF p
<1>3. \A s \in 0..(CRT_ROWS - 1), d \in 0..(CRT_COLS - 1) :
        [m EXCEPT ![p] = cell][s * CRT_COLS + d]
          = IF s = r /\ d = c THEN cell ELSE m[s * CRT_COLS + d]
  BY <1>1, <1>2
<1> DEFINE Old(s) == [d \in 0..(CRT_COLS - 1) |-> m[s * CRT_COLS + d]]
           New(s) == [d \in 0..(CRT_COLS - 1) |-> [m EXCEPT ![p] = cell][s * CRT_COLS + d]]
<1>4. \A s \in 0..(CRT_ROWS - 1) : New(s) = IF s = r THEN [Old(s) EXCEPT ![c] = cell] ELSE Old(s)
  BY <1>3
<1>5. Display(m) = [s \in 0..(CRT_ROWS - 1) |-> Old(s)]
  BY DEF Display
<1>6. Display([m EXCEPT ![p] = cell]) = [s \in 0..(CRT_ROWS - 1) |-> New(s)]
  BY DEF Display
<1> HIDE DEF Old, New
<1>7. [Display(m) EXCEPT ![r][c] = cell]
        = [s \in 0..(CRT_ROWS - 1) |-> IF s = r THEN [Old(s) EXCEPT ![c] = cell] ELSE Old(s)]
  BY <1>5
<1>8. Display([m EXCEPT ![p] = cell]) = [Display(m) EXCEPT ![r][c] = cell]
  BY <1>4, <1>6, <1>7
<1> QED
  BY <1>8 DEF WritesCell, p

(* A scrolled screen has every row moved up and a blank one last. *)
LEMMA DisplayScrolled ==
    ASSUME NEW m \in [Positions -> Cells]
    PROVE  Display(Scrolled(m))
             = [r \in 0..(CRT_ROWS - 1) |->
                  IF r = CRT_ROWS - 1 THEN [c \in 0..(CRT_COLS - 1) |-> Blank] ELSE Display(m)[r + 1]]
<1>1. ASSUME NEW r \in 0..(CRT_ROWS - 1), NEW c \in 0..(CRT_COLS - 1)
      PROVE  Scrolled(m)[r * CRT_COLS + c]
               = IF r = CRT_ROWS - 1 THEN Blank ELSE m[(r + 1) * CRT_COLS + c]
  <2> DEFINE x == r * CRT_COLS  y == (r + 1) * CRT_COLS
  <2>1. /\ x \in Nat /\ x + c \in Positions /\ y = x + CRT_COLS /\ y <= CRT_SIZE
        /\ r = CRT_ROWS - 1 <=> y = CRT_SIZE
    BY PlaceIs
  <2>2. ASSUME r # CRT_ROWS - 1 PROVE y + CRT_COLS <= CRT_SIZE
    <3>1. r + 1 \in 0..(CRT_ROWS - 1)
      BY <2>2, ScreenSize
    <3>2. ((r + 1) + 1) * CRT_COLS = ((r + 1) * CRT_COLS) + CRT_COLS
          /\ ((r + 1) + 1) * CRT_COLS <= CRT_SIZE
      BY <3>1, PlaceIs
    <3> QED
      BY <3>2
  <2> HIDE DEF x, y
  <2>3. x + c < CRT_SIZE - CRT_COLS <=> r # CRT_ROWS - 1
    BY <2>1, <2>2, ScreenSize
  <2>4. Scrolled(m)[x + c]
          = IF x + c < CRT_SIZE - CRT_COLS THEN m[(x + c) + CRT_COLS] ELSE Blank
    BY <2>1 DEF Scrolled
  <2>5. (x + c) + CRT_COLS = y + c
    BY <2>1, ScreenSize
  <2>6. Scrolled(m)[x + c] = IF r = CRT_ROWS - 1 THEN Blank ELSE m[y + c]
    BY <2>3, <2>4, <2>5
  <2> QED
    BY <2>6 DEF x, y
<1>2. ASSUME NEW r \in 0..(CRT_ROWS - 1), r # CRT_ROWS - 1
      PROVE  Display(m)[r + 1] = [c \in 0..(CRT_COLS - 1) |-> m[(r + 1) * CRT_COLS + c]]
  <2>1. r + 1 \in 0..(CRT_ROWS - 1)
    BY <1>2, ScreenSize
  <2> QED
    BY <2>1 DEF Display
<1> DEFINE Up(r) == [c \in 0..(CRT_COLS - 1) |-> Scrolled(m)[r * CRT_COLS + c]]
<1>3. ASSUME NEW r \in 0..(CRT_ROWS - 1)
      PROVE  Up(r) = IF r = CRT_ROWS - 1 THEN [c \in 0..(CRT_COLS - 1) |-> Blank] ELSE Display(m)[r + 1]
  <2> DEFINE below == (r + 1) * CRT_COLS
  <2>1. \A c \in 0..(CRT_COLS - 1) :
          Scrolled(m)[r * CRT_COLS + c] = IF r = CRT_ROWS - 1 THEN Blank ELSE m[below + c]
    BY <1>1
  <2>2. r # CRT_ROWS - 1 => Display(m)[r + 1] = [c \in 0..(CRT_COLS - 1) |-> m[below + c]]
    BY <1>2
  <2> HIDE DEF below
  <2> QED
    BY <2>1, <2>2
<1>4. Display(Scrolled(m)) = [r \in 0..(CRT_ROWS - 1) |-> Up(r)]
  BY DEF Display
<1> HIDE DEF Up
<1> QED
  BY <1>3, <1>4

(* The abstract screen moved down from row r with content s. *)
MovesDown(r, s) ==
    IF r < CRT_ROWS - 1
    THEN RowNow' = r + 1 /\ Display(memory)' = s
    ELSE /\ RowNow' = r
         /\ Display(memory)' = [q \in 0..(CRT_ROWS - 1) |->
                                  IF q = CRT_ROWS - 1 THEN [c \in 0..(CRT_COLS - 1) |-> Blank]
                                  ELSE s[q + 1]]

(* What cga_putc does with the position and the memory that its switch leaves. *)
Lands(p, m) ==
    /\ crt_pos' = IF p >= CRT_SIZE THEN p - CRT_COLS ELSE p
    /\ memory' = IF p >= CRT_SIZE THEN Scrolled(m) ELSE m
    /\ Place' = crt_pos'

(* A character printed lands where Terminal has it. *)
LEMMA PutLands ==
    ASSUME IInv, NEW char, NEW upper, cga_putc(char, upper)
    PROVE  Lands(Moved(char), Written(char, upper)) /\ Place = crt_pos
<1>1. addr_6845 # "none" /\ addr_6845' = addr_6845 /\ crt_buf = adapter
  BY DEF cga_putc, IInv, AdapterFound
<1>2. /\ crt_pos' = IF Moved(char) >= CRT_SIZE THEN Moved(char) - CRT_COLS ELSE Moved(char)
      /\ memory' = IF Moved(char) >= CRT_SIZE THEN Scrolled(Written(char, upper)) ELSE Written(char, upper)
  BY <1>1 DEF cga_putc
<1> QED
  BY <1>1, <1>2 DEF Lands, Place

(* A position on the screen is where it is. *)
LEMMA LandsInside ==
    ASSUME NEW r \in 0..(CRT_ROWS - 1), NEW c \in 0..(CRT_COLS - 1), NEW m,
           Lands(r * CRT_COLS + c, m)
    PROVE  RowNow' = r /\ ColNow' = c /\ memory' = m
<1> DEFINE p == r * CRT_COLS + c
<1>1. p \in Positions /\ p \div CRT_COLS = r /\ p % CRT_COLS = c
  BY PlaceIs
<1>2. Lands(p, m)
  OBVIOUS
<1> HIDE DEF p
<1>3. p \in Int /\ ~(p >= CRT_SIZE)
  BY <1>1, ScreenSize
<1>4. Place' = p /\ memory' = m
  BY <1>2, <1>3 DEF Lands
<1> QED
  BY <1>1, <1>4 DEF RowNow, ColNow

(* The beginning of the row below is there, or scrolls. *)
LEMMA LandsBelow ==
    ASSUME NEW r \in 0..(CRT_ROWS - 1), NEW m \in [Positions -> Cells],
           Lands((r + 1) * CRT_COLS, m)
    PROVE  ColNow' = 0 /\ MovesDown(r, Display(m))
<1> DEFINE p == (r + 1) * CRT_COLS  x == r * CRT_COLS
<1>1. 0 \in 0..(CRT_COLS - 1) /\ CRT_ROWS \in Nat /\ CRT_COLS \in Nat /\ CRT_SIZE \in Nat
  BY ScreenSize
<1>2. x \in Nat /\ p = x + CRT_COLS /\ p <= CRT_SIZE /\ (r = CRT_ROWS - 1 <=> p = CRT_SIZE)
  BY <1>1, PlaceIs
<1>3. CASE r < CRT_ROWS - 1
  <2>1. r + 1 \in 0..(CRT_ROWS - 1) /\ r # CRT_ROWS - 1
    BY <1>1, <1>3
  <2>2. Lands((r + 1) * CRT_COLS + 0, m)
    <3>1. (r + 1) * CRT_COLS \in Int
      BY <1>1
    <3>2. (r + 1) * CRT_COLS + 0 = (r + 1) * CRT_COLS
      BY <3>1
    <3> QED
      BY <3>2
  <2>3. RowNow' = r + 1 /\ ColNow' = 0 /\ memory' = m
    BY <1>1, <2>1, <2>2, LandsInside
  <2>4. Display(memory)' = Display(m)
    BY <2>3 DEF Display
  <2> QED
    BY <1>3, <2>3, <2>4 DEF MovesDown
<1>4. CASE ~(r < CRT_ROWS - 1)
  <2>1. r = CRT_ROWS - 1 /\ p = CRT_SIZE
    BY <1>1, <1>2, <1>4
  <2>2. Lands(p, m)
    OBVIOUS
  <2>3. p - CRT_COLS = x /\ p \in Int
    BY <1>1, <1>2
  <2> HIDE DEF p, x
  <2>4. crt_pos' = x /\ memory' = Scrolled(m) /\ Place' = x
    BY <1>1, <2>1, <2>2, <2>3 DEF Lands
  <2>5. x = r * CRT_COLS + 0 /\ (r * CRT_COLS + 0) \div CRT_COLS = r /\ (r * CRT_COLS + 0) % CRT_COLS = 0
    BY <1>1, <1>2, PlaceIs DEF x
  <2>6. RowNow' = r /\ ColNow' = 0
    BY <2>4, <2>5 DEF RowNow, ColNow
  <2>7. Display(memory)' = Display(Scrolled(m))
    BY <2>4 DEF Display
  <2> QED
    BY <1>4, <2>6, <2>7, DisplayScrolled DEF MovesDown
<1> QED
  BY <1>3, <1>4

(* Each action of the terminal, by the names of the mapping. *)
LEMMA TerminalActions ==
    ASSUME NEW r, r = RowNow, NEW k, k = ColNow, NEW s, s = Display(memory)
    PROVE  /\ \A cell : Screen!Show(cell) <=>
                IF k < CRT_COLS - 1
                THEN Display(memory)' = [s EXCEPT ![r][k] = cell] /\ ColNow' = k + 1 /\ RowNow' = r
                ELSE ColNow' = 0 /\ MovesDown(r, [s EXCEPT ![r][k] = cell])
           /\ Screen!NewLine <=> ColNow' = 0 /\ MovesDown(r, s)
           /\ Screen!Return <=> ColNow' = 0 /\ Display(memory)' = s /\ RowNow' = r
           /\ \A cell : Screen!Erase(cell) <=>
                IF k > 0
                THEN ColNow' = k - 1 /\ RowNow' = r /\ Display(memory)' = [s EXCEPT ![r][k - 1] = cell]
                ELSE IF r > 0
                THEN /\ ColNow' = CRT_COLS - 1 /\ RowNow' = r - 1
                     /\ Display(memory)' = [s EXCEPT ![r - 1][CRT_COLS - 1] = cell]
                ELSE Display(memory)' = s /\ RowNow' = r /\ ColNow' = k
  BY DEF Screen!Show, Screen!NewLine, Screen!Return, Screen!Erase, Screen!MoveDown, Screen!BlankRow,
         Screen!RowRange, Screen!ColRange, Screen!Cell, MovesDown, Blank, Cell, Space,
         RowNow, ColNow, Display

(* A character that is printed is one that the terminal takes. *)
LEMMA PutIsPut ==
    ASSUME IInv, NEW char \in Codes, NEW upper \in Uppers, cga_putc(char, upper)
    PROVE  Screen!Put(char, upper)
<1> DEFINE C == CRT_COLS
<1>1. crt_pos \in Positions /\ memory \in [Positions -> Cells]
  BY DEF IInv, TypeOK
<1>2. PICK r \in 0..(CRT_ROWS - 1), k \in 0..(CRT_COLS - 1) : crt_pos = r * CRT_COLS + k
  BY <1>1, PlaceHas
<1>3. PICK m : m = memory
  OBVIOUS
<1>4. Lands(Moved(char), Written(char, upper)) /\ Place = crt_pos
  BY PutLands
<1>5. /\ r * C \in Nat /\ r * C + k \in Positions
      /\ (r * C + k) \div C = r /\ (r * C + k) % C = k
      /\ (r + 1) * C = (r * C) + C /\ (r - 1) * C = (r * C) - C
  BY PlaceIs
<1>6. RowNow = r /\ ColNow = k
  BY <1>2, <1>4, <1>5 DEF RowNow, ColNow
<1>7. CRT_COLS \in Nat /\ CRT_COLS > 0 /\ CRT_ROWS \in Nat /\ CRT_ROWS > 0
  BY ScreenSize
<1> DEFINE s == Display(memory)
<1>8. /\ \A cell : Screen!Show(cell) <=>
            IF k < CRT_COLS - 1
            THEN Display(memory)' = [s EXCEPT ![r][k] = cell] /\ ColNow' = k + 1 /\ RowNow' = r
            ELSE ColNow' = 0 /\ MovesDown(r, [s EXCEPT ![r][k] = cell])
      /\ Screen!NewLine <=> ColNow' = 0 /\ MovesDown(r, s)
      /\ Screen!Return <=> ColNow' = 0 /\ Display(memory)' = s /\ RowNow' = r
      /\ \A cell : Screen!Erase(cell) <=>
            IF k > 0
            THEN ColNow' = k - 1 /\ RowNow' = r /\ Display(memory)' = [s EXCEPT ![r][k - 1] = cell]
            ELSE IF r > 0
            THEN /\ ColNow' = CRT_COLS - 1 /\ RowNow' = r - 1
                 /\ Display(memory)' = [s EXCEPT ![r - 1][CRT_COLS - 1] = cell]
            ELSE Display(memory)' = s /\ RowNow' = r /\ ColNow' = k
  BY <1>6, TerminalActions
<1>9. Display(memory)' = Display(memory')
  BY DEF Display
<1>10. printed' = [char |-> char, upper |-> upper]
  BY DEF cga_putc
<1>11. \A ch : Screen!Cell(ch, upper) = Shown(ch, upper)
  BY DEF Screen!Cell, Shown, Cell
<1> HIDE DEF s
<1>12. CASE char = LF
  <2>1. Moved(char) = (r + 1) * C
    <3>1. (crt_pos + C) % C = k
      <4> DEFINE x == r * C  p == crt_pos + C  q == p \div C  t == p % C
      <4>1. p = (x + k) + C /\ x \in Nat /\ p \in Nat
        BY <1>2, <1>5, <1>7
      <4>2. t = k
        <5>1. (p - C) % C = k /\ p - C \in Nat
          BY <1>2, <1>5, <1>7, <4>1
        <5> HIDE DEF p
        <5>2. p % C = (p - C) % C
          BY <1>7, <4>1, <5>1
        <5> QED
          BY <5>1, <5>2
      <4> QED
        BY <4>2
    <3>2. Moved(char) = (crt_pos + C) - ((crt_pos + C) % C)
      BY <1>12 DEF Moved, LF, BS
    <3> QED
      BY <1>2, <1>5, <1>7, <3>1, <3>2
  <2>2. Written(char, upper) = memory
    BY <1>12 DEF Written, LF, BS
  <2>3. Lands((r + 1) * CRT_COLS, m)
    BY <1>3, <1>4, <2>1, <2>2
  <2>4. ColNow' = 0 /\ MovesDown(r, Display(m))
    BY <1>1, <1>3, <2>3, LandsBelow
  <2>5. Screen!NewLine
    BY <1>3, <1>8, <2>4 DEF s
  <2> QED
    BY <1>10, <1>12, <2>5 DEF Screen!Put, LF
<1>13. CASE char = CR
  <2>1. Moved(char) = r * C + 0
    <3>1. Moved(char) = crt_pos - (crt_pos % C)
      BY <1>13 DEF Moved, LF, BS, CR
    <3> QED
      BY <1>2, <1>5, <1>7, <3>1
  <2>2. Written(char, upper) = memory
    BY <1>13 DEF Written, LF, BS, CR
  <2>3. 0 \in 0..(CRT_COLS - 1) /\ Lands(r * CRT_COLS + 0, m)
    BY <1>3, <1>4, <1>7, <2>1, <2>2
  <2>4. RowNow' = r /\ ColNow' = 0 /\ memory' = m
    BY <2>3, LandsInside
  <2>5. Screen!Return
    BY <1>3, <1>8, <1>9, <2>4 DEF s
  <2> QED
    BY <1>10, <1>13, <2>5 DEF Screen!Put, CR
<1>14. CASE char = BS
  <2> DEFINE cell == Shown(Space, upper)
  <2>1. Moved(char) = IF crt_pos > 0 THEN crt_pos - 1 ELSE crt_pos
    BY <1>14 DEF Moved
  <2>2. Written(char, upper) = IF crt_pos > 0 THEN [memory EXCEPT ![crt_pos - 1] = cell] ELSE memory
    BY <1>14 DEF Written
  <2>3. ASSUME NEW q \in 0..(CRT_ROWS - 1), NEW d \in 0..(CRT_COLS - 1),
               crt_pos > 0, crt_pos - 1 = q * CRT_COLS + d
        PROVE  RowNow' = q /\ ColNow' = d /\ Display(memory)' = [s EXCEPT ![q][d] = cell]
    <3>1. Lands(q * CRT_COLS + d, [m EXCEPT ![q * CRT_COLS + d] = cell])
      BY <1>3, <1>4, <2>1, <2>2, <2>3
    <3>2. RowNow' = q /\ ColNow' = d /\ memory' = [m EXCEPT ![q * CRT_COLS + d] = cell]
      BY <3>1, LandsInside
    <3>3. Display([m EXCEPT ![q * CRT_COLS + d] = cell]) = [Display(m) EXCEPT ![q][d] = cell]
      <4>1. m \in [Positions -> Cells]
        BY <1>1, <1>3
      <4> HIDE DEF cell
      <4>2. WritesCell(m, cell, q, d)
        BY <4>1, DisplayWritten
      <4> QED
        BY <4>2 DEF WritesCell
    <3> QED
      BY <1>3, <1>9, <3>2, <3>3 DEF s
  <2>4. CASE k > 0
    <3>1. k - 1 \in 0..(CRT_COLS - 1) /\ crt_pos > 0 /\ crt_pos - 1 = r * CRT_COLS + (k - 1)
      BY <1>2, <1>5, <1>7, <2>4
    <3>2. RowNow' = r /\ ColNow' = k - 1 /\ Display(memory)' = [s EXCEPT ![r][k - 1] = cell]
      BY <2>3, <3>1
    <3> HIDE DEF cell
    <3>3. Screen!Erase(cell)
      BY <1>8, <2>4, <3>2
    <3> QED
      BY <1>10, <1>11, <1>14, <3>3 DEF Screen!Put, BS, Space, cell
  <2>5. CASE k = 0 /\ r > 0
    <3>1. r - 1 \in 0..(CRT_ROWS - 1) /\ CRT_COLS - 1 \in 0..(CRT_COLS - 1)
      BY <1>7, <2>5
    <3>2. crt_pos > 0 /\ crt_pos - 1 = (r - 1) * CRT_COLS + (CRT_COLS - 1)
      <4>1. (r - 1) * C \in Nat
        BY <3>1, PlaceIs
      <4> DEFINE x == r * C  y == (r - 1) * C
      <4>2. x \in Nat /\ y \in Nat /\ y = x - C /\ crt_pos = x + k
        BY <1>2, <1>5, <4>1
      <4> HIDE DEF x, y
      <4> QED
        BY <1>7, <2>5, <4>2 DEF y
    <3>3. /\ RowNow' = r - 1 /\ ColNow' = CRT_COLS - 1
          /\ Display(memory)' = [s EXCEPT ![r - 1][CRT_COLS - 1] = cell]
      BY <2>3, <3>1, <3>2
    <3> HIDE DEF cell
    <3>4. ~(k > 0) /\ r > 0
      BY <2>5
    <3>5. Screen!Erase(cell)
      BY <1>8, <3>3, <3>4, Zenon
    <3> QED
      BY <1>10, <1>11, <1>14, <3>5 DEF Screen!Put, BS, Space, cell
  <2>6. CASE k = 0 /\ r = 0
    <3>1. crt_pos = 0
      BY <1>2, <1>5, <1>7, <2>6
    <3>2. Lands(r * CRT_COLS + k, m)
      BY <1>2, <1>3, <1>4, <2>1, <2>2, <3>1
    <3>3. RowNow' = r /\ ColNow' = k /\ memory' = m
      BY <3>2, LandsInside
    <3> HIDE DEF cell
    <3>4. Screen!Erase(cell)
      BY <1>3, <1>8, <1>9, <2>6, <3>3 DEF s
    <3> QED
      BY <1>10, <1>11, <1>14, <3>4 DEF Screen!Put, BS, Space, cell
  <2> QED
    BY <2>4, <2>5, <2>6
<1>15. CASE char \notin {BS, LF, CR}
  <2> DEFINE cell == Shown(char, upper)  n == [m EXCEPT ![r * CRT_COLS + k] = cell]
  <2>1. Moved(char) = crt_pos + 1 /\ Written(char, upper) = n
    BY <1>2, <1>3, <1>15 DEF Moved, Written
  <2>2. Display(n) = [s EXCEPT ![r][k] = cell]
    <3>1. m \in [Positions -> Cells]
      BY <1>1, <1>3
    <3> HIDE DEF cell
    <3>2. Display([m EXCEPT ![r * CRT_COLS + k] = cell]) = [Display(m) EXCEPT ![r][k] = cell]
      <4>1. WritesCell(m, cell, r, k)
        BY <3>1, DisplayWritten
      <4> QED
        BY <4>1 DEF WritesCell
    <3> QED
      BY <1>3, <3>2 DEF n, s
  <2>3. n \in [Positions -> Cells]
    BY <2>1, WrittenType
  <2> HIDE DEF n
  <2>4. CASE k < CRT_COLS - 1
    <3>1. k + 1 \in 0..(CRT_COLS - 1) /\ crt_pos + 1 = r * CRT_COLS + (k + 1)
      BY <1>2, <1>5, <1>7, <2>4
    <3>2. Lands(r * CRT_COLS + (k + 1), n)
      BY <1>4, <2>1, <3>1
    <3>3. RowNow' = r /\ ColNow' = k + 1 /\ memory' = n
      BY <3>1, <3>2, LandsInside
    <3> HIDE DEF cell
    <3>4. Screen!Show(cell)
      BY <1>8, <1>9, <2>2, <2>4, <3>3
    <3> QED
      BY <1>10, <1>11, <1>15, <3>4 DEF Screen!Put, BS, LF, CR, cell
  <2>5. CASE ~(k < CRT_COLS - 1)
    <3>1. crt_pos + 1 = (r + 1) * CRT_COLS
      BY <1>2, <1>5, <1>7, <2>5
    <3>2. Lands((r + 1) * CRT_COLS, n)
      BY <1>4, <2>1, <3>1
    <3>3. ColNow' = 0 /\ MovesDown(r, Display(n))
      BY <2>3, <3>2, LandsBelow
    <3> HIDE DEF cell
    <3>4. Screen!Show(cell)
      BY <1>8, <2>2, <2>5, <3>3
    <3> QED
      BY <1>10, <1>11, <1>15, <3>4 DEF Screen!Put, BS, LF, CR, cell
  <2> QED
    BY <2>4, <2>5
<1> QED
  BY <1>12, <1>13, <1>14, <1>15

(* cga_init changes nothing that is seen. *)
LEMMA InitUnseen ==
    ASSUME IInv, cga_init
    PROVE  memory' = memory /\ Place' = Place /\ printed' = printed
<1>1. addr_6845' = adapter
  <2>1. 0 \in Positions
    BY SizeType DEF Positions
  <2>2. Probe # OpenBus
    BY DEF Probe, OpenBus, Cell
  <2>3. adapter = "cga" => [memory EXCEPT ![0] = Probe][0] = Probe
    BY <2>1 DEF IInv, TypeOK
  <2> QED
    BY <2>2, <2>3 DEF cga_init, IInv, TypeOK
<1>2. memory' = memory
  BY <1>1, SizeType DEF cga_init, IInv, TypeOK, Positions
<1>3. crt_pos' = Position(cursor) /\ printed' = printed /\ addr_6845 = "none" /\ adapter # "none"
  BY <1>1 DEF cga_init, IInv, TypeOK
<1> QED
  BY <1>1, <1>2, <1>3 DEF Place

(* On a screen of any size, one index into video memory with its memmove is a
   terminal of rows and columns: it wraps, scrolls by one row, erases backwards
   over row ends, and takes over the screen that the BIOS left
   (104console.c:56-81, 124-175). *)
THEOREM IndexIsTerminal == Spec => ShowsTerminal
<1>1. Init => Screen!Init
  <2> SUFFICES ASSUME Init PROVE Screen!Init
    OBVIOUS
  <2>1. addr_6845 = "none" /\ memory = [p \in Positions |-> BiosCell] /\ printed = [char |-> Space, upper |-> 0]
    BY DEF Init
  <2>2. PICK r \in 0..(CRT_ROWS - 1), k \in 0..(CRT_COLS - 1) : Place = r * CRT_COLS + k
    <3>1. Place \in Positions
      BY <2>1, InitIInv DEF IInv, CursorOnScreen, Place
    <3> QED
      BY <3>1, PlaceHas
  <2>3. RowNow = r /\ ColNow = k
    BY <2>2, PlaceIs DEF RowNow, ColNow
  <2>4. \A q \in 0..(CRT_ROWS - 1), c \in 0..(CRT_COLS - 1) : memory[q * CRT_COLS + c] = BiosCell
    BY <2>1, PlaceIs
  <2>5. Display(memory) = [q \in 0..(CRT_ROWS - 1) |-> [c \in 0..(CRT_COLS - 1) |-> BiosCell]]
    BY <2>4 DEF Display
  <2> QED
    BY <2>1, <2>3, <2>5 DEF Screen!Init, Screen!RowRange, Screen!ColRange, RowNow, ColNow, Display, Space
<1>2. IInv /\ [CgaNext]_crtVars => [Screen!Next]_(Screen!screenVars)
  <2> SUFFICES ASSUME IInv, [CgaNext]_crtVars PROVE [Screen!Next]_(Screen!screenVars)
    OBVIOUS
  <2>1. ASSUME memory' = memory, Place' = Place, printed' = printed
        PROVE  UNCHANGED Screen!screenVars
    BY <2>1 DEF Screen!screenVars
  <2>2. CASE cga_init
    BY <2>1, <2>2, InitUnseen
  <2>3. CASE UNCHANGED crtVars
    BY <2>1, <2>3 DEF crtVars, Place, Position
  <2>4. CASE \E char \in Codes, upper \in Uppers : cga_putc(char, upper)
    BY <2>4, PutIsPut DEF Screen!Next
  <2> QED
    BY <2>2, <2>3, <2>4 DEF CgaNext
<1> QED
  BY <1>1, <1>2, InitIInv, StepIInv, PTL DEF Spec, ShowsTerminal, Screen!Spec

-----------------------------------------------------------------------------
(* The line. *)

(* The line's own variables: it is inside the buffer, and the display is there
   once it is read. *)
LineType ==
    /\ pc \in {"prints", "caller", "prompt", "getchar", "returned"}
    /\ prompt \in Seq(Chars \cup {Space})
    /\ i \in 0..(BUFSIZE - 1)
    /\ buf \in [0..(BUFSIZE - 1) -> 0..255]
    /\ pc \in {"prompt", "getchar"} => addr_6845 # "none"

LineInv == IInv /\ LineType /\ LineShown

(* The buffer holds at least a Nul, and no line is longer than the screen without a
   row. *)
LEMMA BufferType == BUFSIZE \in Nat /\ BUFSIZE >= 1 /\ BUFSIZE - 1 <= CRT_SIZE - CRT_COLS
  BY ReadlineAssumption

(* The characters that are stored are printing characters. *)
LEMMA StoredType ==
    ASSUME NEW c \in Typed, c >= Space
    PROVE  c \in Chars \cup {Space} /\ c \in 0..255 /\ c \notin {BS, LF, CR} /\ c # 0
<1>1. c \in Chars \/ c \in 1..32
  BY ReadlineAssumption
<1>2. c \in Chars => c \in 33..255
  BY ReadlineAssumption
<1>3. c \in 1..32 => c = 32
  BY DEF Space
<1> QED
  BY <1>1, <1>2, <1>3 DEF Space, BS, LF, CR

(* To the display, reading a line is just characters that are printed. *)
LEMMA StepOfDisplay == LineType /\ [LineNext]_<<crtVars, readVars>> => [CgaNext]_crtVars
<1> SUFFICES ASSUME LineType, [LineNext]_<<crtVars, readVars>> PROVE [CgaNext]_crtVars
  OBVIOUS
<1>1. CASE cga_init
  BY <1>1 DEF CgaNext
<1>2. CASE \E char \in Codes, upper \in Uppers : cputchar(char, upper)
  BY <1>2 DEF CgaNext, cputchar
<1>3. CASE (\E p \in Prompts : readline(p)) \/ prompt_ends
  BY <1>3 DEF readline, prompt_ends
<1>4. CASE print_prompt
  <2>1. Head(prompt) \in Codes /\ 0 \in Uppers
    BY <1>4 DEF print_prompt, LineType, Codes, Uppers
  <2> QED
    BY <1>4, <2>1 DEF print_prompt, cons_putc, CgaNext
<1>5. CASE \E c \in Typed : getchar(c)
  <2>1. PICK c \in Typed : getchar(c)
    BY <1>5
  <2>2. c \in Codes /\ 0 \in Uppers /\ cga_putc(c, 0)
    BY <2>1, StoredType DEF getchar, store, erase, enter, cons_putc, Codes, Uppers
  <2> QED
    BY <2>2 DEF CgaNext
<1>6. CASE UNCHANGED <<crtVars, readVars>>
  BY <1>6
<1> QED
  BY <1>1, <1>2, <1>3, <1>4, <1>5, <1>6 DEF LineNext

(* A printed character stands right before the new position, and behind it what
   stood there before, if the screen has one more row than that. *)
LEMMA PutShown ==
    ASSUME IInv, addr_6845 # "none", NEW c, c \notin {BS, LF, CR}, cga_putc(c, 0),
           NEW n \in Nat, n < CRT_SIZE - CRT_COLS,
           \A j \in 1..n : crt_pos - j \in Positions
    PROVE  /\ crt_pos' - 1 \in Positions /\ memory'[crt_pos' - 1] = Shown(c, 0)
           /\ \A j \in 1..n : /\ crt_pos' - 1 - j \in Positions
                              /\ memory'[crt_pos' - 1 - j] = memory[crt_pos - j]
<1> DEFINE m == [memory EXCEPT ![crt_pos] = Shown(c, 0)]
<1>1. /\ CRT_SIZE \in Nat /\ CRT_COLS \in Nat /\ CRT_COLS >= 1 /\ CRT_COLS <= CRT_SIZE
      /\ crt_pos \in Nat /\ crt_pos < CRT_SIZE /\ crt_pos \in Positions
      /\ memory \in [Positions -> Cells]
  BY SizeType DEF IInv, TypeOK, Positions
<1>2. Moved(c) = crt_pos + 1 /\ Written(c, 0) = m
  BY DEF Moved, Written
<1>3. crt_buf = adapter
  BY DEF IInv, AdapterFound
<1>4. /\ crt_pos' = IF crt_pos + 1 >= CRT_SIZE THEN crt_pos + 1 - CRT_COLS ELSE crt_pos + 1
      /\ memory' = IF crt_pos + 1 >= CRT_SIZE THEN Scrolled(m) ELSE m
  <2>1. /\ crt_pos' = IF Moved(c) >= CRT_SIZE THEN Moved(c) - CRT_COLS ELSE Moved(c)
        /\ memory' = IF crt_buf # adapter THEN memory
                     ELSE IF Moved(c) >= CRT_SIZE THEN Scrolled(Written(c, 0)) ELSE Written(c, 0)
    BY DEF cga_putc
  <2> HIDE DEF m
  <2>2. Scrolled(Written(c, 0)) = Scrolled(m)
    BY <1>2, Zenon
  <2>6. Moved(c) = crt_pos + 1
    BY <1>2
  <2>7. ASSUME NEW v, crt_pos' = IF v >= CRT_SIZE THEN v - CRT_COLS ELSE v, v = crt_pos + 1
        PROVE  crt_pos' = IF crt_pos + 1 >= CRT_SIZE THEN crt_pos + 1 - CRT_COLS ELSE crt_pos + 1
    BY <1>1, <2>7
  <2>3. crt_pos' = IF crt_pos + 1 >= CRT_SIZE THEN crt_pos + 1 - CRT_COLS ELSE crt_pos + 1
    BY <2>1, <2>6, <2>7
  <2>4. memory' = IF Moved(c) >= CRT_SIZE THEN Scrolled(Written(c, 0)) ELSE Written(c, 0)
    BY <1>3, <2>1
  <2>5. memory' = IF crt_pos + 1 >= CRT_SIZE THEN Scrolled(m) ELSE m
    BY <1>2, <2>2, <2>4, Zenon
  <2> QED
    BY <2>3, <2>5
<1>5. m[crt_pos] = Shown(c, 0) /\ \A p \in Positions : p # crt_pos => m[p] = memory[p]
  BY <1>1
<1> HIDE DEF m
<1>6. CASE crt_pos + 1 < CRT_SIZE
  <2>1. crt_pos' = crt_pos + 1 /\ memory' = m
    BY <1>1, <1>4, <1>6
  <2>2. \A j \in 1..n : crt_pos' - 1 - j = crt_pos - j /\ crt_pos - j # crt_pos
    BY <1>1, <2>1
  <2>3. crt_pos' - 1 = crt_pos
    BY <1>1, <2>1
  <2> QED
    BY <1>1, <1>5, <2>1, <2>2, <2>3
<1>7. CASE crt_pos + 1 >= CRT_SIZE
  <2>1. crt_pos = CRT_SIZE - 1 /\ crt_pos' = CRT_SIZE - CRT_COLS /\ memory' = Scrolled(m)
    BY <1>1, <1>4, <1>7
  <2>2. \A j \in 0..n : /\ crt_pos' - 1 - j \in Positions
                        /\ crt_pos' - 1 - j < CRT_SIZE - CRT_COLS
                        /\ (crt_pos' - 1 - j) + CRT_COLS = crt_pos - j
    BY <1>1, <2>1 DEF Positions
  <2>3. \A p \in Positions : p < CRT_SIZE - CRT_COLS => memory'[p] = m[p + CRT_COLS]
    BY <2>1 DEF Scrolled
  <2>4. \A j \in 0..n : memory'[crt_pos' - 1 - j] = m[crt_pos - j]
    BY <2>2, <2>3
  <2>5. crt_pos' - 1 - 0 = crt_pos' - 1 /\ crt_pos - 0 = crt_pos /\ 0 \in 0..n
    BY <1>1, <2>1
  <2>6. crt_pos' - 1 \in Positions /\ memory'[crt_pos' - 1] = Shown(c, 0)
    BY <1>5, <2>2, <2>4, <2>5
  <2>7. \A j \in 1..n : j \in 0..n /\ crt_pos - j # crt_pos
    BY <1>1
  <2> QED
    BY <1>5, <2>2, <2>4, <2>6, <2>7
<1> QED
  BY <1>1, <1>6, <1>7

(* A character more is stored. *)
LEMMA StoreStep ==
    ASSUME LineInv, pc = "getchar", NEW c \in Typed, store(c)
    PROVE  LineType' /\ LineShown'
<1>1. /\ c \in 0..255 /\ c \notin {BS, LF, CR} /\ i < BUFSIZE - 1 /\ cga_putc(c, 0)
      /\ buf' = [buf EXCEPT ![i] = c] /\ i' = i + 1 /\ UNCHANGED <<pc, prompt>>
  BY StoredType DEF store, cons_putc
<1>2. /\ BUFSIZE \in Nat /\ i \in 0..(BUFSIZE - 1) /\ buf \in [0..(BUFSIZE - 1) -> 0..255]
      /\ i < CRT_SIZE - CRT_COLS /\ addr_6845 # "none" /\ addr_6845' = addr_6845
      /\ crt_pos \in Int /\ CRT_SIZE \in Nat /\ CRT_COLS \in Nat
  BY <1>1, BufferType, SizeType DEF LineInv, LineType, cga_putc, IInv, TypeOK, Positions
<1>3. LineType'
  BY <1>1, <1>2 DEF LineInv, LineType
<1>4. \A k \in 0..(i - 1) : /\ crt_pos - i + k \in Positions
                            /\ memory[crt_pos - i + k] = Shown(buf[k], 0)
  BY DEF LineInv, LineShown
<1>5. \A j \in 1..i : i - j \in 0..(i - 1) /\ crt_pos - i + (i - j) = crt_pos - j
  BY <1>2
<1>6. \A j \in 1..i : crt_pos - j \in Positions /\ memory[crt_pos - j] = Shown(buf[i - j], 0)
  BY <1>4, <1>5
<1>7. /\ crt_pos' - 1 \in Positions /\ memory'[crt_pos' - 1] = Shown(c, 0)
      /\ \A j \in 1..i : /\ crt_pos' - 1 - j \in Positions
                         /\ memory'[crt_pos' - 1 - j] = memory[crt_pos - j]
  <2>1. IInv /\ i \in Nat /\ \A j \in 1..i : crt_pos - j \in Positions
    BY <1>2, <1>6 DEF LineInv
  <2> QED
    BY <1>1, <1>2, <2>1, PutShown
<1>8. crt_pos' \in Int
  BY <1>2, <1>1, SizeType, StepIInv, MovedRange DEF cga_putc, LineInv, IInv, TypeOK
<1>9. ASSUME NEW k \in 0..(i' - 1)
      PROVE  crt_pos' - i' + k \in Positions /\ memory'[crt_pos' - i' + k] = Shown(buf'[k], 0)
  <2>1. CASE k = i
    <3>1. crt_pos' - i' + k = crt_pos' - 1 /\ buf'[k] = c
      BY <1>1, <1>2, <1>8, <2>1
    <3> QED
      BY <1>7, <3>1
  <2>2. CASE k # i
    <3>1. i - k \in 1..i /\ crt_pos' - i' + k = crt_pos' - 1 - (i - k) /\ buf'[k] = buf[k]
          /\ i - (i - k) = k
      BY <1>1, <1>2, <1>8, <2>2
    <3> QED
      BY <1>6, <1>7, <3>1
  <2> QED
    BY <2>1, <2>2
<1> QED
  BY <1>3, <1>9 DEF LineShown

(* The last character is taken back. *)
LEMMA EraseStep ==
    ASSUME LineInv, pc = "getchar", NEW c \in Typed, erase(c)
    PROVE  LineType' /\ LineShown'
<1>1. c = BS /\ i > 0 /\ cga_putc(BS, 0) /\ i' = i - 1 /\ UNCHANGED <<pc, prompt, buf>>
  BY DEF erase, cons_putc
<1>2. /\ BUFSIZE \in Nat /\ i \in 0..(BUFSIZE - 1) /\ addr_6845 # "none" /\ addr_6845' = addr_6845
      /\ crt_pos \in Positions /\ memory \in [Positions -> Cells] /\ crt_buf = adapter
      /\ CRT_SIZE \in Nat /\ crt_pos \in Nat /\ crt_pos < CRT_SIZE
  BY <1>1, BufferType, SizeType DEF LineInv, LineType, cga_putc, IInv, TypeOK, Positions, AdapterFound
<1>3. LineType'
  BY <1>1, <1>2 DEF LineInv, LineType
<1>4. \A k \in 0..(i - 1) : /\ crt_pos - i + k \in Positions
                            /\ memory[crt_pos - i + k] = Shown(buf[k], 0)
  BY DEF LineInv, LineShown
<1>5. i - 1 \in 0..(i - 1) /\ crt_pos - i + (i - 1) = crt_pos - 1
  BY <1>1, <1>2
<1>6. crt_pos - 1 \in Positions /\ crt_pos > 0
  BY <1>2, <1>4, <1>5 DEF Positions
<1>7. crt_pos' = crt_pos - 1 /\ memory' = [memory EXCEPT ![crt_pos - 1] = Shown(Space, 0)]
  BY <1>1, <1>2, <1>6 DEF cga_putc, Moved, Written
<1>8. ASSUME NEW k \in 0..(i' - 1)
      PROVE  crt_pos' - i' + k \in Positions /\ memory'[crt_pos' - i' + k] = Shown(buf'[k], 0)
  <2>1. k \in 0..(i - 1) /\ crt_pos' - i' + k = crt_pos - i + k /\ crt_pos - i + k # crt_pos - 1
    BY <1>1, <1>2, <1>7
  <2> QED
    BY <1>1, <1>2, <1>4, <1>7, <2>1
<1> QED
  BY <1>3, <1>8 DEF LineShown

(* readline begins within the invariant. *)
LEMMA LineInit_Inv == LineInit => LineInv
<1> SUFFICES ASSUME LineInit PROVE LineInv
  OBVIOUS
<1>1. IInv
  BY InitIInv DEF LineInit
<1>2. LineType
  BY BufferType DEF LineInit, LineType
<1> QED
  BY <1>1, <1>2 DEF LineInit, LineInv, LineShown

(* Every step of readline and of who prints keeps the invariant. *)
LEMMA LineStep_Inv == LineInv /\ [LineNext]_<<crtVars, readVars>> => LineInv'
<1> SUFFICES ASSUME LineInv, [LineNext]_<<crtVars, readVars>> PROVE LineInv'
  OBVIOUS
<1>1. IInv'
  BY StepOfDisplay, StepIInv DEF LineInv
<1>2. CASE cga_init /\ UNCHANGED readVars
  <2>1. pc # "getchar" /\ pc # "prompt"
    BY <1>2 DEF cga_init, LineInv, LineType
  <2> QED
    BY <1>1, <1>2, <2>1 DEF readVars, LineInv, LineType, LineShown
<1>3. CASE \E char \in Codes, upper \in Uppers : cputchar(char, upper)
  BY <1>1, <1>3 DEF cputchar, readVars, LineInv, LineType, LineShown
<1>4. CASE \E p \in Prompts : readline(p)
  <2>1. PICK p \in Prompts : readline(p)
    BY <1>4
  <2>2. p \in Seq(Chars \cup {Space})
    BY ReadlineAssumption
  <2> QED
    BY <1>1, <2>1, <2>2 DEF readline, crtVars, LineInv, LineType, LineShown
<1>5. CASE print_prompt
  <2>1. prompt' \in Seq(Chars \cup {Space}) /\ addr_6845' = addr_6845
    BY <1>5 DEF print_prompt, cons_putc, cga_putc, LineInv, LineType
  <2> QED
    BY <1>1, <1>5, <2>1 DEF print_prompt, LineInv, LineType, LineShown
<1>6. CASE prompt_ends
  BY <1>1, <1>6, BufferType DEF prompt_ends, crtVars, LineInv, LineType, LineShown
<1>7. CASE \E c \in Typed : getchar(c)
  <2>1. PICK c \in Typed : getchar(c)
    BY <1>7
  <2>2. CASE store(c)
    BY <1>1, <2>1, <2>2, StoreStep DEF getchar, LineInv
  <2>3. CASE erase(c)
    BY <1>1, <2>1, <2>3, EraseStep DEF getchar, LineInv
  <2>4. CASE enter(c)
    BY <1>1, <2>1, <2>4 DEF enter, LineInv, LineType, LineShown
  <2> QED
    BY <2>1, <2>2, <2>3, <2>4 DEF getchar
<1>8. CASE UNCHANGED <<crtVars, readVars>>
  BY <1>1, <1>8 DEF crtVars, readVars, LineInv, LineType, LineShown
<1> QED
  BY <1>2, <1>3, <1>4, <1>5, <1>6, <1>7, <1>8 DEF LineNext

(* On a screen of any size and with a buffer of any size that it has room for,
   the display shows the line that is read, through every wrap and scroll. *)
THEOREM LineAlwaysShown == LineSpec => []LineShown
<1>1. LineInv => LineShown
  BY DEF LineInv
<1> QED
  BY <1>1, LineInit_Inv, LineStep_Inv, PTL DEF LineSpec

(* While lines are read the display is the one of Cga, so that all that is shown
   of it holds here. *)
THEOREM LinesAreDisplayed == LineSpec => Spec
<1>1. LineInit => Init
  BY DEF LineInit
<1>2. LineInv => LineType
  BY DEF LineInv
<1> QED
  BY <1>1, <1>2, LineInit_Inv, LineStep_Inv, StepOfDisplay, PTL DEF LineSpec, Spec

-----------------------------------------------------------------------------
(* The refinement: what the caller gets is the line that was edited. *)

(* No character of the line is a Nul, so the first Nul after "enter" ends the line. *)
NoNul == pc = "getchar" => \A k \in 0..(i - 1) : buf[k] # 0

EditInv == LineInv /\ NoNul

(* The refinement mapping, by name. *)
Editing == IF pc = "getchar" THEN 1 ELSE 0
Line    == IF pc = "getchar" THEN [k \in 1..i |-> buf[k - 1]]
           ELSE IF \E n \in 0..(BUFSIZE - 1) : buf[n] = 0 THEN CString ELSE << -1 >>

(* No step puts a Nul among the characters of the line. *)
LEMMA NoNulStep == EditInv /\ [LineNext]_<<crtVars, readVars>> => NoNul'
<1> SUFFICES ASSUME EditInv, [LineNext]_<<crtVars, readVars>>, pc' = "getchar",
                    NEW k \in 0..(i' - 1)
             PROVE  buf'[k] # 0
  BY DEF NoNul
<1>1. CASE prompt_ends
  BY <1>1 DEF prompt_ends
<1>2. CASE \E c \in Typed : getchar(c)
  <2>1. PICK c \in Typed : getchar(c)
    BY <1>2
  <2>2. /\ \A j \in 0..(i - 1) : buf[j] # 0
        /\ i \in 0..(BUFSIZE - 1) /\ buf \in [0..(BUFSIZE - 1) -> 0..255] /\ BUFSIZE \in Nat
    BY <2>1, BufferType DEF getchar, EditInv, NoNul, LineInv, LineType
  <2>3. CASE store(c)
    <3>1. c # 0 /\ i < BUFSIZE - 1 /\ buf' = [buf EXCEPT ![i] = c] /\ i' = i + 1
      BY <2>3, StoredType DEF store
    <3> QED
      BY <2>2, <3>1
  <2>4. CASE erase(c)
    BY <2>2, <2>4 DEF erase
  <2>5. CASE enter(c)
    BY <2>5 DEF enter
  <2> QED
    BY <2>1, <2>3, <2>4, <2>5 DEF getchar
<1>3. CASE \/ cga_init /\ UNCHANGED readVars
           \/ \E char \in Codes, upper \in Uppers : cputchar(char, upper)
           \/ UNCHANGED <<crtVars, readVars>>
  BY <1>3 DEF cputchar, readVars, EditInv, NoNul
<1>4. CASE (\E p \in Prompts : readline(p)) \/ print_prompt
  BY <1>4 DEF readline, print_prompt
<1> QED
  BY <1>1, <1>2, <1>3, <1>4 DEF LineNext

(* Where the first Nul ends the string, once a step is done. *)
LEMMA StringIs ==
    ASSUME NEW n \in 0..(BUFSIZE - 1), buf'[n] = 0, \A k \in 0..(n - 1) : buf'[k] # 0
    PROVE  CString' = [k \in 1..n |-> buf'[k - 1]]
<1> DEFINE Ends(m) == buf'[m] = 0 /\ \A k \in 0..(m - 1) : buf'[k] # 0
           end == CHOOSE m \in 0..(BUFSIZE - 1) : Ends(m)
<1>1. end \in 0..(BUFSIZE - 1) /\ Ends(end)
  <2>1. n \in 0..(BUFSIZE - 1) /\ Ends(n)
    OBVIOUS
  <2> HIDE DEF Ends
  <2> QED
    BY <2>1
<1>2. CString' = [k \in 1..end |-> buf'[k - 1]]
  BY DEF CString
<1> HIDE DEF end
<1>3. ~(end < n) /\ ~(n < end)
  <2>1. end < n => end \in 0..(n - 1)
    BY <1>1, BufferType
  <2>2. n < end => n \in 0..(end - 1)
    BY <1>1, BufferType
  <2> QED
    BY <1>1, <2>1, <2>2
<1>4. end = n
  BY <1>1, <1>3, BufferType
<1> QED
  BY <1>2, <1>4

(* A sequence with one element more. *)
LEMMA AppendIs ==
    ASSUME NEW S, NEW s \in Seq(S), NEW c \in S, NEW n \in Nat, n = Len(s)
    PROVE  Append(s, c) = [k \in 1..(n + 1) |-> IF k = n + 1 THEN c ELSE s[k]]
<1> DEFINE t == [k \in 1..(n + 1) |-> IF k = n + 1 THEN c ELSE s[k]]
<1>1. \A k \in 1..(n + 1) : (IF k = n + 1 THEN c ELSE s[k]) \in S
  BY ElementOfSeq
<1>2. t \in Seq(S) /\ Len(t) = n + 1
  BY <1>1, IsASeq
<1>3. \A k \in 1..(n + 1) : t[k] = Append(s, c)[k]
  BY AppendProperties
<1> HIDE DEF t
<1>4. t = Append(s, c)
  BY <1>2, <1>3, AppendProperties, SeqEqual
<1> QED
  BY <1>4 DEF t

(* What getchar's character does to the line. *)
LEMMA StoreRefines ==
    ASSUME EditInv, pc = "getchar", NEW c \in Typed, store(c)
    PROVE  Editing' = 1 /\ Line' = Append(Line, c) /\ c >= 32 /\ Len(Line) < BUFSIZE - 1 /\ c \notin {10, 13}
<1>1. /\ c >= 32 /\ c \notin {10, 13} /\ i < BUFSIZE - 1 /\ buf' = [buf EXCEPT ![i] = c]
      /\ i' = i + 1 /\ pc' = pc
  BY StoredType DEF store, Space, LF, CR
<1>2. i \in Nat /\ BUFSIZE \in Nat /\ buf \in [0..(BUFSIZE - 1) -> 0..255]
  BY BufferType DEF EditInv, LineInv, LineType
<1>3. Line = [k \in 1..i |-> buf[k - 1]] /\ Line' = [k \in 1..(i + 1) |-> buf'[k - 1]]
  BY <1>1 DEF Line
<1>4. \A k \in 1..i : buf[k - 1] \in 0..255 /\ buf'[k - 1] = buf[k - 1]
  BY <1>1, <1>2
<1>5. Line \in Seq(0..255) /\ Len(Line) = i
  <2> DEFINE s == [k \in 1..i |-> buf[k - 1]]
  <2>1. s \in Seq(0..255) /\ Len(s) = i
    BY <1>2, <1>4, IsASeq
  <2> QED
    BY <1>3, <2>1
<1>6. Append(Line, c) = [k \in 1..(i + 1) |-> IF k = i + 1 THEN c ELSE Line[k]]
  BY <1>2, <1>5, AppendIs, StoredType DEF store
<1>7. ASSUME NEW k \in 1..(i + 1)
      PROVE  buf'[k - 1] = IF k = i + 1 THEN c ELSE Line[k]
  BY <1>1, <1>2, <1>3, <1>4
<1>8. Line' = Append(Line, c)
  BY <1>3, <1>6, <1>7
<1> QED
  BY <1>1, <1>2, <1>5, <1>8 DEF Editing

(* A backspace takes the abstract line's last character. *)
LEMMA EraseRefines ==
    ASSUME EditInv, pc = "getchar", NEW c \in Typed, erase(c)
    PROVE  /\ Editing' = 1 /\ c = 8 /\ Line # << >>
           /\ Line' = SubSeq(Line, 1, Len(Line) - 1)
<1>1. c = 8 /\ i > 0 /\ i' = i - 1 /\ pc' = pc /\ buf' = buf
  BY DEF erase, BS
<1>2. i \in Nat /\ i <= BUFSIZE - 1 /\ BUFSIZE \in Nat /\ buf \in [0..(BUFSIZE - 1) -> 0..255]
  BY BufferType DEF EditInv, LineInv, LineType
<1>3. Line = [k \in 1..i |-> buf[k - 1]] /\ Line' = [k \in 1..(i - 1) |-> buf[k - 1]]
  BY <1>1 DEF Line
<1>4. \A k \in 1..i : buf[k - 1] \in 0..255
  BY <1>1, <1>2
<1>5. Line \in Seq(0..255) /\ Len(Line) = i
  <2> DEFINE s == [k \in 1..i |-> buf[k - 1]]
  <2>1. s \in Seq(0..255) /\ Len(s) = i
    BY <1>2, <1>4, IsASeq
  <2> QED
    BY <1>3, <2>1
<1>6. SubSeq(Line, 1, i - 1) = [k \in 1..(i - 1) |-> Line[k]]
  BY <1>1, <1>2, <1>5
<1>7. \A k \in 1..(i - 1) : Line[k] = buf[k - 1]
  BY <1>2, <1>3
<1>8. Line' = SubSeq(Line, 1, Len(Line) - 1)
  BY <1>3, <1>5, <1>6, <1>7
<1>9. Line # << >>
  BY <1>1, <1>5
<1> QED
  BY <1>1, <1>8, <1>9 DEF Editing

(* The line's end returns the abstract line. *)
LEMMA EnterRefines ==
    ASSUME EditInv, pc = "getchar", NEW c \in Typed, enter(c)
    PROVE  Editing' = 0 /\ Line' = Line /\ c \in {10, 13}
<1>1. c \in {10, 13} /\ pc' = "returned" /\ buf' = [buf EXCEPT ![i] = 0] /\ i' = i
  BY DEF enter, LF, CR
<1>2. i \in 0..(BUFSIZE - 1) /\ BUFSIZE \in Nat /\ buf \in [0..(BUFSIZE - 1) -> 0..255]
      /\ \A k \in 0..(i - 1) : buf[k] # 0
  BY BufferType DEF EditInv, NoNul, LineInv, LineType
<1>3. buf'[i] = 0 /\ \A k \in 0..(i - 1) : buf'[k] = buf[k]
  BY <1>1, <1>2
<1>4. CString' = [k \in 1..i |-> buf'[k - 1]]
  <2>1. i' \in 0..(BUFSIZE - 1) /\ buf'[i'] = 0 /\ \A k \in 0..(i' - 1) : buf'[k] # 0
    BY <1>1, <1>2, <1>3
  <2> QED
    BY <1>1, <1>2, <1>3, <2>1, StringIs
<1>5. \A k \in 1..i : buf'[k - 1] = buf[k - 1]
  BY <1>2, <1>3
<1>6. Line' = CString' /\ Line = [k \in 1..i |-> buf[k - 1]]
  BY <1>1, <1>2, <1>3 DEF Line
<1> QED
  BY <1>1, <1>4, <1>5, <1>6 DEF Editing

(* Every step is a step of the editor, or none. *)
LEMMA StepEdits == EditInv /\ [LineNext]_<<crtVars, readVars>> => [Editor!Next]_(Editor!lineVars)
<1> SUFFICES ASSUME EditInv, [LineNext]_<<crtVars, readVars>>
             PROVE  [Editor!Next]_(Editor!lineVars)
  OBVIOUS
<1>1. ASSUME Editing' = Editing, Line' = Line PROVE UNCHANGED Editor!lineVars
  BY <1>1 DEF Editor!lineVars, Editing, Line
<1>2. CASE \/ cga_init /\ UNCHANGED readVars
           \/ \E char \in Codes, upper \in Uppers : cputchar(char, upper)
           \/ UNCHANGED <<crtVars, readVars>>
  <2>1. pc' = pc /\ i' = i /\ buf' = buf
    BY <1>2 DEF cputchar, readVars
  <2>2. Editing' = Editing /\ Line' = Line
    BY <2>1 DEF Editing, Line, CString
  <2> QED
    BY <1>1, <2>2
<1>3. CASE (\E p \in Prompts : readline(p)) \/ print_prompt
  <2>1. pc # "getchar" /\ pc' # "getchar" /\ buf' = buf
    BY <1>3 DEF readline, print_prompt
  <2>2. Editing' = Editing /\ Line' = Line
    BY <2>1 DEF Editing, Line, CString
  <2> QED
    BY <1>1, <2>2
<1>4. CASE prompt_ends
  <2>1. pc # "getchar" /\ pc' = "getchar" /\ i' = 0
    BY <1>4 DEF prompt_ends
  <2>2. Editing = 0 /\ Editing' = 1 /\ Line' = << >>
    BY <2>1 DEF Editing, Line
  <2>3. Editor!Begin
    BY <2>2 DEF Editor!Begin, Editing, Line
  <2> QED
    BY <2>3 DEF Editor!Next
<1>5. CASE \E c \in Typed : getchar(c)
  <2>1. PICK c \in Typed : getchar(c)
    BY <1>5
  <2>2. pc = "getchar" /\ Editing = 1
    BY <2>1 DEF getchar, Editing
  <2>3. CASE store(c)
    <3>1. /\ Editing' = 1 /\ Line' = Append(Line, c)
          /\ c >= 32 /\ Len(Line) < BUFSIZE - 1 /\ c \notin {10, 13}
      BY <2>2, <2>3, StoreRefines
    <3>2. Editor!Type(c)
      BY <2>2, <3>1 DEF Editor!Type, Editing, Line
    <3> QED
      BY <3>2 DEF Editor!Next
  <2>4. CASE erase(c)
    <3>1. Editing' = 1 /\ c = 8 /\ Line # << >> /\ Line' = SubSeq(Line, 1, Len(Line) - 1)
      BY <2>2, <2>4, EraseRefines
    <3>2. /\ ~(c >= 32 /\ Len(Line) < BUFSIZE - 1)
          /\ c \notin {10, 13}
      BY <3>1
    <3>3. Editor!Type(c)
      <4> DEFINE l == Line  s == SubSeq(l, 1, Len(l) - 1)
      <4>1. l # << >> /\ Line' = s /\ ~(c >= 32 /\ Len(l) < BUFSIZE - 1)
        BY <3>1, <3>2
      <4>2. /\ Editing = 1
            /\ IF c >= 32 /\ Len(l) < BUFSIZE - 1 THEN Line' = Append(l, c)
               ELSE IF c = 8 /\ l # << >> THEN Line' = s
               ELSE Line' = l
            /\ Editing' = IF c \in {10, 13} THEN 0 ELSE 1
        <5> HIDE DEF l, s
        <5> QED
          BY <2>2, <3>1, <3>2, <4>1
      <4> QED
        BY <4>2, Zenon DEF Editor!Type, Editing, Line
    <3> QED
      BY <3>3 DEF Editor!Next
  <2>5. CASE enter(c)
    <3>1. Editing' = 0 /\ Line' = Line /\ c \in {10, 13}
      BY <2>2, <2>5, EnterRefines
    <3>2. Editor!Type(c)
      BY <2>2, <3>1 DEF Editor!Type, Editing, Line
    <3> QED
      BY <3>2 DEF Editor!Next
  <2> QED
    BY <2>1, <2>3, <2>4, <2>5 DEF getchar
<1> QED
  BY <1>2, <1>3, <1>4, <1>5 DEF LineNext

(* readline returns the line that was typed and edited with the backspace, at
   most BUFSIZE - 1 characters of it, call after call, though static buf still
   holds the line before (readline.c:24-49). *)
THEOREM LineIsEdited == LineSpec => LineEdited
<1>1. LineInit => Editor!Init
  <2> SUFFICES ASSUME LineInit PROVE Editor!Init
    OBVIOUS
  <2>1. 0 \in 0..(BUFSIZE - 1) /\ buf = [k \in 0..(BUFSIZE - 1) |-> 0] /\ pc # "getchar"
    BY BufferType DEF LineInit
  <2>2. CString = << >>
    <3> DEFINE Ends(m) == buf[m] = 0 /\ \A k \in 0..(m - 1) : buf[k] # 0
               end == CHOOSE m \in 0..(BUFSIZE - 1) : Ends(m)
    <3>1. end \in 0..(BUFSIZE - 1) /\ Ends(end)
      <4>1. 0 \in 0..(BUFSIZE - 1) /\ Ends(0)
        BY <2>1
      <4> HIDE DEF Ends
      <4> QED
        BY <4>1
    <3>2. CString = [k \in 1..end |-> buf[k - 1]]
      BY DEF CString
    <3> HIDE DEF end
    <3>3. end = 0
      <4>1. end > 0 => 0 \in 0..(end - 1)
        BY <3>1, BufferType
      <4> QED
        BY <2>1, <3>1, <4>1, BufferType
    <3> QED
      BY <3>2, <3>3
  <2>3. Editing = 0 /\ Line = << >>
    BY <2>1, <2>2 DEF Editing, Line
  <2> QED
    BY <2>3 DEF Editor!Init, Editing, Line
<1>2. LineInit => EditInv
  BY LineInit_Inv DEF LineInit, EditInv, NoNul
<1>3. EditInv /\ [LineNext]_<<crtVars, readVars>> => EditInv'
  BY LineStep_Inv, NoNulStep DEF EditInv
<1>4. EditInv /\ [LineNext]_<<crtVars, readVars>> => [Editor!Next]_(Editor!lineVars)
  BY StepEdits
<1> QED
  BY <1>1, <1>2, <1>3, <1>4, PTL DEF LineSpec, LineEdited, Editor!Spec

-----------------------------------------------------------------------------
(* The serial line. *)

(* What a terminal has received of a character: one byte, or three. *)
LEMMA SentIs ==
    ASSUME NEW char, serial_putc(char)
    PROVE  echo' = IF char = BS THEN Received(Received(Received(echo, BS), Space), BS)
                   ELSE Received(echo, char)
<1> DEFINE S == Sent(char)
           F(f) == [k \in 0..3 |-> IF k = 0 THEN echo ELSE Received(f[k - 1], S[k])]
           after == CHOOSE f : f = F(f)
<1>1. IF char = BS THEN S[1] = BS /\ S[2] = Space /\ S[3] = BS /\ Len(S) = 3
      ELSE S[1] = char /\ Len(S) = 1
  BY DEF Sent
<1>2. echo' = after[Len(S)]
  BY DEF serial_putc
<1> DEFINE a1 == Received(echo, S[1])
           a2 == Received(a1, S[2])
           a3 == Received(a2, S[3])
           w == [k \in 0..3 |-> IF k = 0 THEN echo ELSE IF k = 1 THEN a1 ELSE IF k = 2 THEN a2 ELSE a3]
<1>3. w = F(w)
  <2>1. w[0] = echo /\ w[1] = a1 /\ w[2] = a2
    OBVIOUS
  <2>2. \A k \in 0..3 : w[k] = F(w)[k]
    <3> TAKE k \in 0..3
    <3>1. k = 0 \/ k = 1 \/ k = 2 \/ k = 3
      OBVIOUS
    <3> QED
      BY <2>1, <3>1
  <2> HIDE DEF a1, a2, a3
  <2> QED
    BY <2>2
<1>4. after = F(after)
  <2> HIDE DEF w, F
  <2> QED
    BY <1>3
<1> HIDE DEF after, S
<1>5. after[0] = echo /\ after[1] = Received(after[0], S[1])
  BY <1>4
<1>6. after[2] = Received(after[1], S[2]) /\ after[3] = Received(after[2], S[3])
  BY <1>4
<1> QED
  BY <1>1, <1>2, <1>5, <1>6

(* The row of a terminal that shows n characters of a line, and blanks behind
   them where others were erased. *)
RowShows(row, n, line) ==
    \E cells \in Seq(0..255) :
        /\ row = [cells |-> cells, col |-> n] /\ n <= Len(cells)
        /\ \A k \in 1..Len(cells) : cells[k] = IF k <= n THEN line[k - 1] ELSE Space

(* A row shows a line if its cells do. *)
LEMMA RowIs ==
    ASSUME NEW cells \in Seq(0..255), NEW n, n <= Len(cells), NEW line, NEW row,
           row = [cells |-> cells, col |-> n],
           \A k \in 1..Len(cells) : cells[k] = IF k <= n THEN line[k - 1] ELSE Space
    PROVE  RowShows(row, n, line)
  BY DEF RowShows

(* A character sent takes the place of the first blank behind the line. *)
LEMMA RowGrows ==
    ASSUME NEW row, NEW n \in 0..(BUFSIZE - 1), n < BUFSIZE - 1, NEW line \in [0..(BUFSIZE - 1) -> 0..255],
           NEW c \in 0..255, c \notin {BS, LF, CR}, RowShows(row, n, line)
    PROVE  RowShows(Received(row, c), n + 1, [line EXCEPT ![n] = c])
<1>1. PICK cells \in Seq(0..255) :
        /\ row = [cells |-> cells, col |-> n] /\ n <= Len(cells)
        /\ \A k \in 1..Len(cells) : cells[k] = IF k <= n THEN line[k - 1] ELSE Space
  BY DEF RowShows
<1>2. n \in Nat /\ Len(cells) \in Nat /\ BUFSIZE \in Nat
  BY BufferType, LenProperties
<1> DEFINE next == IF n = Len(cells) THEN Append(cells, c) ELSE [cells EXCEPT ![n + 1] = c]
<1>3. Received(row, c) = [cells |-> next, col |-> n + 1]
  BY <1>1 DEF Received
<1>4. CASE n = Len(cells)
  <2>1. next \in Seq(0..255) /\ Len(next) = n + 1
    BY <1>4, AppendProperties
  <2>2. next[n + 1] = c /\ \A k \in 1..n : next[k] = cells[k]
    BY <1>4, AppendProperties
  <2> HIDE DEF next
  <2>3. \A k \in 1..Len(next) : next[k] = IF k <= n + 1 THEN [line EXCEPT ![n] = c][k - 1] ELSE Space
    BY <1>1, <1>2, <1>4, <2>1, <2>2
  <2>4. n + 1 <= Len(next)
    BY <1>2, <2>1
  <2> QED
    BY <1>3, <2>1, <2>3, <2>4, RowIs
<1>5. CASE n < Len(cells)
  <2>1. next = [cells EXCEPT ![n + 1] = c] /\ n + 1 \in 1..Len(cells)
    BY <1>2, <1>5
  <2>2. /\ next \in Seq(0..255) /\ Len(next) = Len(cells)
        /\ \A k \in 1..Len(cells) : next[k] = IF k = n + 1 THEN c ELSE cells[k]
    <3>1. PICK j \in 1..Len(cells) : j = n + 1
      BY <2>1
    <3>2. next = [cells EXCEPT ![j] = c]
      BY <2>1, <3>1
    <3> HIDE DEF next
    <3> QED
      BY <3>1, <3>2, ExceptSeq
  <2> HIDE DEF next
  <2>3. \A k \in 1..Len(next) : next[k] = IF k <= n + 1 THEN [line EXCEPT ![n] = c][k - 1] ELSE Space
    BY <1>1, <1>2, <1>5, <2>2
  <2>4. n + 1 <= Len(next)
    BY <1>2, <1>5, <2>2
  <2> QED
    BY <1>3, <2>2, <2>3, <2>4, RowIs
<1> QED
  BY <1>1, <1>2, <1>4, <1>5

(* Backspace, blank, backspace leave the line without its last character. *)
LEMMA RowShrinks ==
    ASSUME NEW row, NEW n \in 1..(BUFSIZE - 1), NEW line \in [0..(BUFSIZE - 1) -> 0..255],
           RowShows(row, n, line)
    PROVE  RowShows(Received(Received(Received(row, BS), Space), BS), n - 1, line)
<1>1. PICK cells \in Seq(0..255) :
        /\ row = [cells |-> cells, col |-> n] /\ n <= Len(cells)
        /\ \A k \in 1..Len(cells) : cells[k] = IF k <= n THEN line[k - 1] ELSE Space
  BY DEF RowShows
<1>2. n \in Nat /\ n > 0 /\ Len(cells) \in Nat /\ BUFSIZE \in Nat /\ n \in 1..Len(cells)
  BY <1>1, BufferType, LenProperties
<1> DEFINE next == [cells EXCEPT ![n] = Space]
<1>3. Received(row, BS) = [cells |-> cells, col |-> n - 1]
  BY <1>1, <1>2 DEF Received
<1>4. Received([cells |-> cells, col |-> n - 1], Space) = [cells |-> next, col |-> n]
  <2>1. n - 1 # Len(cells) /\ (n - 1) + 1 = n
    BY <1>1, <1>2
  <2>2. Space \notin {BS, LF, CR}
    BY DEF Space, BS, LF, CR
  <2> DEFINE before == [cells |-> cells, col |-> n - 1]
  <2>3. before.col = n - 1 /\ before.cells = cells
    OBVIOUS
  <2> HIDE DEF before
  <2>4. Received(before, Space) = [cells |-> next, col |-> n]
    BY <2>1, <2>2, <2>3 DEF Received
  <2> QED
    BY <2>4 DEF before
<1>5. Received([cells |-> next, col |-> n], BS) = [cells |-> next, col |-> n - 1]
  BY <1>2 DEF Received
<1>6. next \in Seq(0..255) /\ Len(next) = Len(cells) /\ \A k \in 1..Len(cells) : next[k] = IF k = n THEN Space ELSE cells[k]
  BY <1>2, ExceptSeq DEF Space
<1> HIDE DEF next
<1>7. \A k \in 1..Len(next) : next[k] = IF k <= n - 1 THEN line[k - 1] ELSE Space
  BY <1>1, <1>2, <1>6
<1>8. n - 1 <= Len(next)
  BY <1>1, <1>2, <1>6
<1>9. RowShows([cells |-> next, col |-> n - 1], n - 1, line)
  BY <1>6, <1>7, <1>8, RowIs
<1> QED
  BY <1>3, <1>4, <1>5, <1>9

(* The row on the serial line is that of the characters in the buffer. *)
RowFollows == pc = "getchar" => RowShows(echo, i, buf)

SerialInv == LineInv /\ RowFollows

(* Every step keeps what the terminal's row shows of the buffer. *)
LEMMA RowStep == SerialInv /\ [LineNext]_<<crtVars, readVars>> => RowFollows'
<1> SUFFICES ASSUME SerialInv, [LineNext]_<<crtVars, readVars>>, pc' = "getchar"
             PROVE  RowShows(echo', i', buf')
  BY DEF RowFollows, RowShows
<1>1. i \in 0..(BUFSIZE - 1) /\ buf \in [0..(BUFSIZE - 1) -> 0..255] /\ BUFSIZE \in Nat
  BY BufferType DEF SerialInv, LineInv, LineType
<1>2. CASE prompt_ends
  <2>1. echo' = [cells |-> << >>, col |-> 0] /\ i' = 0
    BY <1>2 DEF prompt_ends, NoEcho
  <2>2. PICK none \in Seq(0..255) : none = << >> /\ Len(none) = 0
    BY EmptySeq
  <2>3. PICK line : line = buf'
    OBVIOUS
  <2>4. 0 <= Len(none) /\ \A k \in 1..Len(none) : none[k] = IF k <= 0 THEN line[k - 1] ELSE Space
    BY <2>2
  <2>5. RowShows([cells |-> none, col |-> 0], 0, line)
    BY <2>4, RowIs
  <2> QED
    BY <2>1, <2>2, <2>3, <2>5
<1>3. CASE \E c \in Typed : getchar(c)
  <2>1. PICK c \in Typed : getchar(c)
    BY <1>3
  <2>2. RowShows(echo, i, buf)
    BY <2>1 DEF getchar, SerialInv, RowFollows
  <2>3. CASE store(c)
    <3>1. /\ c \in 0..255 /\ c \notin {BS, LF, CR} /\ i < BUFSIZE - 1
          /\ buf' = [buf EXCEPT ![i] = c] /\ i' = i + 1
      BY <2>3, StoredType DEF store
    <3>2. echo' = Received(echo, c)
      BY <2>3, <3>1, SentIs DEF store, cons_putc
    <3> QED
      BY <1>1, <2>2, <3>1, <3>2, RowGrows
  <2>4. CASE erase(c)
    <3>1. i \in 1..(BUFSIZE - 1) /\ i' = i - 1 /\ buf' = buf
      BY <1>1, <2>4 DEF erase
    <3>2. echo' = Received(Received(Received(echo, BS), Space), BS)
      BY <2>4, SentIs DEF erase, cons_putc
    <3> QED
      BY <1>1, <2>2, <3>1, <3>2, RowShrinks
  <2>5. CASE enter(c)
    BY <2>5 DEF enter
  <2> QED
    BY <2>1, <2>3, <2>4, <2>5 DEF getchar
<1>4. CASE \/ cga_init /\ UNCHANGED readVars
           \/ \E char \in Codes, upper \in Uppers : cputchar(char, upper)
           \/ UNCHANGED <<crtVars, readVars>>
  BY <1>4 DEF cputchar, readVars, SerialInv, RowFollows
<1>5. CASE (\E p \in Prompts : readline(p)) \/ print_prompt
  BY <1>5 DEF readline, print_prompt
<1> QED
  BY <1>2, <1>3, <1>4, <1>5 DEF LineNext

(* A terminal on the serial line shows the characters in the buffer and, behind
   them, nothing of those that were erased: the three bytes of serial_putc for a
   backspace undo one character (104console.c:188-199, readline.c:35-42). *)
THEOREM SerialLineAgrees == LineSpec => []SerialShown
<1>1. LineInit => SerialInv
  BY LineInit_Inv DEF LineInit, SerialInv, RowFollows
<1>2. SerialInv /\ [LineNext]_<<crtVars, readVars>> => SerialInv'
  BY LineStep_Inv, RowStep DEF SerialInv
<1>3. SerialInv => SerialShown
  BY DEF SerialInv, RowFollows, RowShows, SerialShown
<1> QED
  BY <1>1, <1>2, <1>3, PTL DEF LineSpec
=============================================================================
