------------------------------ MODULE Terminal ------------------------------
(***************************************************************************)
(* What the text display promises, without memory addresses: a screen of   *)
(* Rows by Cols cells and a place (row, col) on it where the next          *)
(* character goes.                                                         *)
(***************************************************************************)
EXTENDS Naturals

CONSTANTS Rows, Cols,
          Start,        \* the cell that fills the screen at first
          Codes,        \* the characters, with '\b', '\n' and '\r' among them
          Uppers        \* the attributes, 0 for black on white

VARIABLES screen,       \* screen[r][c]
          row, col,
          printed       \* the character printed last: [char, upper]

screenVars == <<screen, row, col, printed>>

(* How a character looks. *)
Cell(char, upper) == [char |-> char, attribute |-> IF upper = 0 THEN 7 ELSE upper]

RowRange == 0..(Rows - 1)
ColRange == 0..(Cols - 1)

Init ==
    /\ screen = [r \in RowRange |-> [c \in ColRange |-> Start]]
    /\ row \in RowRange /\ col \in ColRange
    /\ printed = [char |-> 32, upper |-> 0]

BlankRow == [c \in ColRange |-> Cell(32, 0)]

(* The content after moving down from row r with content s: the last row
   scrolls the others up. *)
MoveDown(s) ==
    IF row < Rows - 1
    THEN row' = row + 1 /\ screen' = s
    ELSE /\ row' = row
         /\ screen' = [r \in RowRange |-> IF r = Rows - 1 THEN BlankRow ELSE s[r + 1]]

(* A cell that is shown appears at the cursor, which moves on, at the end of a row to
   the next one. *)
Show(cell) ==
    LET s == [screen EXCEPT ![row][col] = cell] IN
    IF col < Cols - 1
    THEN screen' = s /\ col' = col + 1 /\ UNCHANGED row
    ELSE col' = 0 /\ MoveDown(s)

NewLine == col' = 0 /\ MoveDown(screen)

Return == col' = 0 /\ UNCHANGED <<screen, row>>

(* A backspace erases the cell before the cursor, which may be the last of the
   row above; at the top left corner it does nothing. *)
Erase(cell) ==
    IF col > 0
    THEN col' = col - 1 /\ row' = row /\ screen' = [screen EXCEPT ![row][col - 1] = cell]
    ELSE IF row > 0
    THEN col' = Cols - 1 /\ row' = row - 1 /\ screen' = [screen EXCEPT ![row - 1][Cols - 1] = cell]
    ELSE UNCHANGED <<screen, row, col>>

(* '\b', '\n' and '\r' move, every other character is shown. *)
Put(char, upper) ==
    /\ printed' = [char |-> char, upper |-> upper]
    /\ \/ char = 8  /\ Erase(Cell(32, upper))
       \/ char = 10 /\ NewLine
       \/ char = 13 /\ Return
       \/ char \notin {8, 10, 13} /\ Show(Cell(char, upper))

Next == \E char \in Codes, upper \in Uppers : Put(char, upper)

Spec == Init /\ [][Next]_screenVars
=============================================================================
