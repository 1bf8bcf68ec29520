------------------------------ MODULE Readline ------------------------------
(***************************************************************************)
(* readline.c on top of the console's output: cons_putc of 104console.c    *)
(* gives every character to the printer, the display and the serial line.  *)
(***************************************************************************)
EXTENDS Cga, Sequences

CONSTANTS
    BUFSIZE,      \* 1024
    Prompts,      \* the prompts, << >> for NULL and for the empty string
    Typed         \* the characters that getchar may return, bytes other than 0

ASSUME ReadlineAssumption ==
    /\ BUFSIZE \in Nat \ {0} /\ BUFSIZE - 1 <= CRT_SIZE - CRT_COLS
    /\ Prompts \subseteq Seq(Chars \cup {Space})
    /\ Typed \subseteq Chars \cup (1..32)
    /\ Chars \subseteq 33..255

VARIABLES
    pc,         \* "prints", "caller", "prompt", "getchar" or "returned"
    prompt,     \* what is left of the prompt
    i, buf,     \* the line's length and static char buf[BUFSIZE]
    echo        \* history: the serial terminal's row since the prompt, [cells, col]

readVars == <<pc, prompt, i, buf, echo>>

NoEcho == [cells |-> << >>, col |-> 0]

(* A bound: a kernel that reads lines prints nothing but its prompts. *)
LineInit ==
    /\ Init
    /\ pc \in {"prints", "caller"}
    /\ prompt = << >> /\ i = 0 /\ echo = NoEcho
    /\ buf = [k \in 0..(BUFSIZE - 1) |-> 0]

(* Faulty: a backspace moves back and erases nothing. *)
Sent_Once(char) == << char >>

(* The bytes that serial_putc_sub and lpt_putc_sub send for a character.  Their
   wait for the device is long enough for it to take a byte. *)
Sent(char) == IF char = BS THEN << BS, Space, BS >> ELSE << char >>

(* A terminal on the serial line: a row of cells, in which a backspace just
   moves back; it is looked at while a line is read. *)
Received(row, byte) ==
    IF byte = BS THEN [row EXCEPT !.col = IF @ > 0 THEN @ - 1 ELSE 0]
    ELSE IF byte \in {LF, CR} THEN NoEcho
    ELSE [cells |-> IF row.col = Len(row.cells) THEN Append(row.cells, byte)
                    ELSE [row.cells EXCEPT ![row.col + 1] = byte],
          col   |-> row.col + 1]

serial_putc(char) ==
    LET after[k \in 0..3] == IF k = 0 THEN echo ELSE Received(after[k - 1], Sent(char)[k])
    IN echo' = after[Len(Sent(char))]

cons_putc(char, upper) == cga_putc(char, upper) /\ serial_putc(char)

(* cputchar, cputs and cprintf elsewhere in the kernel. *)
cputchar(char, upper) ==
    /\ pc = "prints"
    /\ cga_putc(char, upper)
    /\ UNCHANGED readVars

readline(p) ==
    /\ pc \in {"caller", "returned"} /\ addr_6845 # "none"
    /\ pc' = "prompt" /\ prompt' = p
    /\ UNCHANGED <<crtVars, i, buf, echo>>

(* cprintf("%s", prompt) *)
print_prompt ==
    /\ pc = "prompt" /\ prompt # << >>
    /\ cons_putc(Head(prompt), 0)
    /\ prompt' = Tail(prompt)
    /\ UNCHANGED <<pc, i, buf>>

prompt_ends ==
    /\ pc = "prompt" /\ prompt = << >>
    /\ pc' = "getchar" /\ i' = 0 /\ echo' = NoEcho
    /\ UNCHANGED <<crtVars, prompt, buf>>

(* Faulty: the character is shown before it is known to fit. *)
store_ShownAnyway(c) ==
    /\ c >= Space
    /\ cons_putc(c, 0)
    /\ IF i < BUFSIZE - 1 THEN buf' = [buf EXCEPT ![i] = c] /\ i' = i + 1 ELSE UNCHANGED <<buf, i>>
    /\ UNCHANGED <<pc, prompt>>

store(c) ==
    /\ c >= Space /\ i < BUFSIZE - 1
    /\ cons_putc(c, 0)
    /\ buf' = [buf EXCEPT ![i] = c] /\ i' = i + 1
    /\ UNCHANGED <<pc, prompt>>

erase(c) ==
    /\ c = BS /\ i > 0
    /\ cons_putc(c, 0)
    /\ i' = i - 1
    /\ UNCHANGED <<pc, prompt, buf>>

(* Faulty: the line of before shows through. *)
enter_NoNul(c) ==
    /\ c \in {LF, CR}
    /\ cons_putc(c, 0)
    /\ pc' = "returned"
    /\ UNCHANGED <<prompt, i, buf>>

enter(c) ==
    /\ c \in {LF, CR}
    /\ cons_putc(c, 0)
    /\ buf' = [buf EXCEPT ![i] = 0]
    /\ pc' = "returned"
    /\ UNCHANGED <<prompt, i>>

(* All other characters, and those that do not fit, change nothing.  getchar
   returns no negative character, so NULL is never returned. *)
getchar(c) == pc = "getchar" /\ (store(c) \/ erase(c) \/ enter(c))

LineNext ==
    \/ cga_init /\ UNCHANGED readVars
    \/ \E char \in Codes, upper \in Uppers : cputchar(char, upper)
    \/ \E p \in Prompts : readline(p)
    \/ print_prompt \/ prompt_ends
    \/ \E c \in Typed : getchar(c)

LineSpec == LineInit /\ [][LineNext]_<<crtVars, readVars>>
-----------------------------------------------------------------------------
(* While a line is read the display shows it right before the cursor, whatever
   was wrapped, scrolled and erased; characters that are discarded are not
   shown. *)
LineShown ==
    pc = "getchar" =>
        \A k \in 0..(i - 1) :
            /\ crt_pos - i + k \in Positions
            /\ memory[crt_pos - i + k] = Shown(buf[k], 0)

(* A terminal on the serial line shows the same, and nothing of what was erased. *)
SerialShown ==
    pc = "getchar" =>
        /\ echo.col = i
        /\ \A k \in 1..Len(echo.cells) : echo.cells[k] = IF k <= i THEN buf[k - 1] ELSE Space

(* The string that buf holds for the caller. *)
CString ==
    LET end == CHOOSE n \in 0..(BUFSIZE - 1) : buf[n] = 0 /\ \A k \in 0..(n - 1) : buf[k] # 0
    IN [k \in 1..end |-> buf[k - 1]]

Editor == INSTANCE LineEditor WITH
    Length  <- BUFSIZE - 1,
    editing <- IF pc = "getchar" THEN 1 ELSE 0,
    line    <- IF pc = "getchar" THEN [k \in 1..i |-> buf[k - 1]]
               ELSE IF \E n \in 0..(BUFSIZE - 1) : buf[n] = 0 THEN CString ELSE << -1 >>

(* The line returned is the one typed and edited, neither longer than the buffer
   holds nor with anything of the line before it. *)
LineEdited == Editor!Spec
=============================================================================
