------------------------------ MODULE Numbers ------------------------------
(***************************************************************************)
(* The arithmetic of printfmt.c and of strtol in string.c: numbers of one  *)
(* word (int and long) and of two (long long), their figures, and back.    *)
(* A character is a string of length one.                                  *)
(***************************************************************************)
EXTENDS Integers, Sequences

CONSTANT Word      \* 2^32

ASSUME WordAssumption == Word \in Nat /\ Word > 36 /\ Word % 4 = 0

Unsigned(w) == 0..(w - 1)
Signed(w)   == -(w \div 2)..((w \div 2) - 1)

(* A number kept in as many bits as w has values: unsigned, and signed. *)
Wrap(x, w)       == x % w
WrapSigned(x, w) == ((x + (w \div 2)) % w) - (w \div 2)

Nul    == "NUL"
Blanks == {" ", "\t"}
Lower  == << "0", "1", "2", "3", "4", "5", "6", "7", "8", "9", "a", "b", "c", "d", "e", "f", "g", "h",
             "i", "j", "k", "l", "m", "n", "o", "p", "q", "r", "s", "t", "u", "v", "w", "x", "y", "z" >>
Hexits == << "0", "1", "2", "3", "4", "5", "6", "7", "8", "9", "a", "b", "c", "d", "e", "f" >>
Upper  == << "A", "B", "C", "D", "E", "F", "G", "H", "I", "J", "K", "L", "M", "N", "O", "P", "Q", "R",
             "S", "T", "U", "V", "W", "X", "Y", "Z" >>

(* do_div: two words by one, with two divisions of the processor; the second
   divides what the first left over, and the low word. *)
do_div(n, base) ==
    LET high == n \div Word  low == n % Word
        rest == (high % base) * Word + low
    IN [quotient |-> (high \div base) * Word + (rest \div base), mod |-> rest % base]

Repeated(c, n) == [i \in 1..(IF n > 0 THEN n ELSE 0) |-> c]

(* printnum: the figures of a number, in a base of 16 at most, after the padding. *)
printnum(number, base, columns, padc) ==
    LET text[num \in Nat] == [width \in Int |->
            LET d == do_div(num, base) IN
            (IF num >= base THEN text[d.quotient][width - 1]
             ELSE Repeated(padc, width - 1)) \o << Hexits[d.mod + 1] >>]
    IN text[number][columns]

(* The value of a figure in strtol; 36 for all other characters. *)
Figure(c) ==
    IF \E i \in 1..36 : Lower[i] = c THEN (CHOOSE i \in 1..36 : Lower[i] = c) - 1
    ELSE IF \E i \in 1..26 : Upper[i] = c THEN (CHOOSE i \in 1..26 : Upper[i] = c) + 9
    ELSE 36

(* Faulty: the prefix of a hexadecimal number counts only if the base is open. *)
Prefix_OpenOnly(s, i, base) ==
    IF base = 0 /\ s[i] = "0" /\ s[i + 1] = "x" THEN [next |-> i + 2, base |-> 16]
    ELSE IF base = 0 /\ s[i] = "0" THEN [next |-> i + 1, base |-> 8]
    ELSE [next |-> i, base |-> IF base = 0 THEN 10 ELSE base]

(* The prefix of a string at i, and the base that it tells. *)
Prefix(s, i, base) ==
    IF base \in {0, 16} /\ s[i] = "0" /\ s[i + 1] = "x" THEN [next |-> i + 2, base |-> 16]
    ELSE IF base = 0 /\ s[i] = "0" THEN [next |-> i + 1, base |-> 8]
    ELSE [next |-> i, base |-> IF base = 0 THEN 10 ELSE base]

(* strtol of a string that ends with a Nul: the number, and where it ends. *)
strtol(s, base) ==
    LET skip[i \in DOMAIN s] == IF s[i] \in Blanks THEN skip[i + 1] ELSE i
        begin == skip[1]
        neg   == s[begin] = "-"
        p     == Prefix(s, IF s[begin] \in {"+", "-"} THEN begin + 1 ELSE begin, base)
        digits[i \in DOMAIN s] == [val \in Int |->
            LET dig == Figure(s[i]) IN
            IF dig >= p.base THEN [value |-> IF neg THEN WrapSigned(-val, Word) ELSE val, end |-> i]
            ELSE digits[i + 1][WrapSigned(val * p.base + dig, Word)]]
    IN digits[p.next][0]
=============================================================================
