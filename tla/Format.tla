------------------------------- MODULE Format -------------------------------
(***************************************************************************)
(* printfmt.c: vprintfmt reads its format character by character, one      *)
(* action per case of its switch, under vsnprintf or vcprintf; and cputs.  *)
(***************************************************************************)
EXTENDS FormatCalls

VARIABLES
    at,                   \* fmt: the index of the next character
    padc, width, precision, lflag, altflag,
    ap,                   \* the index of the next argument
    b                     \* struct sprintbuf, buf and ebuf as indices of str

directive == <<padc, width, precision, lflag, altflag>>
output    == <<str, b, shown>>
formatVars == <<call, pc, at, directive, ap, output, value>>

Fmt  == Spelled(call) \o << Nul >>
ch   == Fmt[at]
Args == FlattenSeq([i \in DOMAIN call.directives |-> Arguments(call.directives[i])])
arg  == Args[ap]

FormatInit ==
    /\ Init
    /\ at = 1 /\ ap = 1
    /\ padc = " " /\ width = -1 /\ precision = -1 /\ lflag = 0 /\ altflag = 0
    /\ b = [buf |-> 0, ebuf |-> 0, cnt |-> 0]

(* Faulty: the last byte is given away, and the Nul lands behind the buffer. *)
Fits_ToTheEnd(length) ==
    IF length < b.ebuf + 1 - b.buf THEN length ELSE b.ebuf + 1 - b.buf

(* How many of the next characters are stored: only those below ebuf. *)
Fits(length) == IF length < b.ebuf - b.buf THEN length ELSE b.ebuf - b.buf

(* sprintputch and cputch, for each character of a text. *)
sprintputch(text) ==
    LET stored == Fits(Len(text)) IN
    /\ str' = [i \in DOMAIN str |->
                  IF i \in b.buf..(b.buf + stored - 1) THEN text[i - b.buf + 1] ELSE str[i]]
    /\ b' = [b EXCEPT !.buf = @ + stored, !.cnt = @ + Len(text)]
    /\ UNCHANGED shown

cputch(text) ==
    /\ shown' = shown \o text
    /\ b' = [b EXCEPT !.cnt = @ + Len(text)]
    /\ UNCHANGED str

putch(text) == IF call.function = "vsnprintf" THEN sprintputch(text) ELSE cputch(text)

vsnprintf ==
    /\ pc = "called" /\ call.function = "vsnprintf"
    /\ IF call.to = "NULL" \/ call.size = 0
       THEN pc' = "returned" /\ Returned(-E_INVAL) /\ UNCHANGED b
       ELSE pc' = "text" /\ b' = [b EXCEPT !.ebuf = call.size - 1] /\ UNCHANGED value
    /\ UNCHANGED <<call, at, directive, ap, str, shown>>

vcprintf ==
    /\ pc = "called" /\ call.function = "vcprintf"
    /\ pc' = "text"
    /\ UNCHANGED <<call, at, directive, ap, output, value>>

cputs ==
    /\ pc = "called" /\ call.function = "cputs"
    /\ at' = at + 1
    /\ IF ch = Nul
       THEN cputch(<< "\n" >>) /\ pc' = "returned" /\ Returned(b.cnt + 1)
       ELSE cputch(<< ch >>) /\ UNCHANGED <<pc, value>>
    /\ UNCHANGED <<call, directive, ap>>

strtol_call ==
    /\ pc = "called" /\ call.function = "strtol"
    /\ value' = strtol(call.after \o << Nul >>, call.base)
    /\ pc' = "returned"
    /\ UNCHANGED <<call, at, directive, ap, output>>

(* The text between the directives. *)
text ==
    /\ pc = "text" /\ ch \notin {"%", Nul}
    /\ putch(<< ch >>)
    /\ at' = at + 1
    /\ UNCHANGED <<call, pc, directive, ap, value>>

(* Faulty: # counts for the rest of the format. *)
Reset_KeepsAlt == padc' = " " /\ width' = -1 /\ precision' = -1 /\ lflag' = 0 /\ UNCHANGED altflag

Reset == padc' = " " /\ width' = -1 /\ precision' = -1 /\ lflag' = 0 /\ altflag' = 0

percent ==
    /\ pc = "text" /\ ch = "%"
    /\ Reset
    /\ at' = at + 1 /\ pc' = "reswitch"
    /\ UNCHANGED <<call, ap, output, value>>

(* The end of the format: vsnprintf adds the Nul. *)
end ==
    /\ pc = "text" /\ ch = Nul
    /\ str' = IF call.function = "vsnprintf" THEN [str EXCEPT ![b.buf] = Nul] ELSE str
    /\ pc' = "returned" /\ Returned(b.cnt)
    /\ UNCHANGED <<call, at, directive, ap, b, shown>>

(* A case of the switch that goes back to it. *)
Switch(chars) ==
    /\ pc = "reswitch" /\ ch \in chars
    /\ at' = at + 1
    /\ UNCHANGED <<call, output, value>>

pad_flag   == Switch({"-", "0"}) /\ padc' = ch /\ UNCHANGED <<pc, width, precision, lflag, altflag, ap>>
alt_flag   == Switch({"#"}) /\ altflag' = 1 /\ UNCHANGED <<pc, padc, width, precision, lflag, ap>>
long_flag  == Switch({"l"}) /\ lflag' = lflag + 1 /\ UNCHANGED <<pc, padc, width, precision, altflag, ap>>

point ==
    /\ Switch({"."})
    /\ width' = IF width < 0 THEN 0 ELSE width
    /\ UNCHANGED <<pc, padc, precision, lflag, altflag, ap>>

process_precision(n) ==
    IF width < 0 THEN width' = n /\ precision' = -1 ELSE precision' = n /\ UNCHANGED width

star ==
    /\ Switch({"*"})
    /\ process_precision(arg.number)
    /\ ap' = ap + 1
    /\ UNCHANGED <<pc, padc, lflag, altflag>>

(* A number in the directive begins, and goes on. *)
number_begins ==
    /\ Switch(Digits \ {"0"})
    /\ precision' = Figure(ch)
    /\ pc' = "number"
    /\ UNCHANGED <<padc, width, lflag, altflag, ap>>

number ==
    /\ pc = "number"
    /\ IF ch \in Digits
       THEN at' = at + 1 /\ precision' = precision * 10 + Figure(ch) /\ UNCHANGED <<pc, width>>
       ELSE pc' = "reswitch" /\ process_precision(precision) /\ UNCHANGED at
    /\ UNCHANGED <<call, padc, lflag, altflag, ap, output, value>>

(* A case that ends the directive. *)
Convert(conv, arguments, printed) ==
    /\ pc = "reswitch" /\ ch = conv
    /\ putch(printed)
    /\ at' = at + 1 /\ ap' = ap + arguments /\ pc' = "text"
    /\ UNCHANGED <<call, directive, value>>

getuint == Wrap(arg.number, IF lflag >= 2 THEN Word * Word ELSE Word)
getint  == WrapSigned(arg.number, IF lflag >= 2 THEN Word * Word ELSE Word)

c_character == Convert("c", 1, arg.text)
percent_sign == Convert("%", 0, << "%" >>)

(* The nested printfmt of %e prints without a field. *)
decimal(n) ==
    (IF n < 0 THEN << "-" >> ELSE << >>) \o printnum(Wrap(IF n < 0 THEN -n ELSE n, Word * Word), 10, -1, " ")

(* The table's entry 0 is NULL.  The negative of the least int is itself: the
   index is then a multiple of 2^32 bytes, and meets entry 0. *)
e_error ==
    LET err   == IF arg.number < 0 THEN WrapSigned(-arg.number, Word) ELSE arg.number
        index == ((err * 4) % Word) \div 4
    IN Convert("e", 1, IF err > MAXERROR \/ index = 0 THEN << "error " >> \o decimal(err)
                       ELSE << error_string[index] >>)

(* Without the flag - the field is filled on the left, with the length that
   strnlen tells, and otherwise on the right. *)
s_string ==
    LET p == (IF arg.text = NULL THEN << "(", "n", "u", "l", "l", ")" >> ELSE arg.text) \o << Nul >>
        strnlen[i \in DOMAIN p] == IF i - 1 = precision \/ p[i] = Nul THEN i - 1 ELSE strnlen[i + 1]
        left  == IF width > 0 /\ padc # "-" THEN width - strnlen[1] ELSE 0
        chars[i \in DOMAIN p] ==
            IF p[i] = Nul \/ (precision >= 0 /\ i > precision) THEN << >>
            ELSE << IF altflag = 1 /\ p[i] \in Unprintable THEN "?" ELSE p[i] >> \o chars[i + 1]
        right == IF padc = "-" THEN width - Len(chars[1]) ELSE 0
    IN Convert("s", 1, Repeated(padc, left) \o chars[1] \o Repeated(" ", right))

d_signed ==
    LET num == getint  minus == IF num < 0 THEN << "-" >> ELSE << >>
    IN Convert("d", 1, minus \o printnum(Wrap(IF num < 0 THEN -num ELSE num, Word * Word), 10, width, padc))

uox_unsigned == \E conv \in {"u", "o", "x"} :
    Convert(conv, 1, printnum(getuint, Base(conv), width, padc))

p_pointer == Convert("p", 1, << "0", "x" >> \o printnum(Wrap(arg.number, Word), 16, width, padc))

Cases == {"-", "#", "l", ".", "*", "c", "%", "e", "s", "d", "u", "o", "x", "p"} \cup Digits

(* Faulty: back to the '%' itself, in the hope that it is printed there. *)
default_Again ==
    /\ pc = "reswitch" /\ ch \notin Cases
    /\ at' = CHOOSE i \in 1..at : Fmt[i] = "%" /\ \A j \in (i + 1)..at : Fmt[j] # "%"
    /\ pc' = "text"
    /\ UNCHANGED <<call, directive, ap, output, value>>

(* Anything else: the '%' is printed, and all after it read again as text. *)
default ==
    /\ pc = "reswitch" /\ ch \notin Cases
    /\ putch(<< "%" >>)
    /\ at' = CHOOSE i \in 2..at : Fmt[i - 1] = "%" /\ \A j \in i..(at - 1) : Fmt[j] # "%"
    /\ pc' = "text"
    /\ UNCHANGED <<call, directive, ap, value>>

vprintfmt ==
    \/ text \/ percent \/ end
    \/ pad_flag \/ alt_flag \/ long_flag \/ point \/ star \/ number_begins \/ number
    \/ c_character \/ percent_sign \/ e_error \/ s_string \/ d_signed \/ uox_unsigned \/ p_pointer
    \/ default

FormatNext == vsnprintf \/ vcprintf \/ cputs \/ strtol_call \/ vprintfmt

FormatSpec == FormatInit /\ [][FormatNext]_formatVars /\ WF_formatVars(FormatNext)
-----------------------------------------------------------------------------
(* The type invariant.  No byte at or behind str + size is ever written, and
   there is always room for the Nul (sprintputch, vsnprintf). *)
TypeOK ==
    /\ call \in Calls
    /\ pc \in {"called", "text", "reswitch", "number", "returned"}
    /\ at \in 1..(Len(Fmt) + 1) /\ ap \in 1..(Len(Args) + 1)
    /\ padc \in {" ", "-", "0"} /\ width \in Int /\ precision \in Int /\ lflag \in 0..2 /\ altflag \in 0..1
    /\ b.buf \in 0..b.ebuf /\ b.ebuf \in {0, call.size - 1} /\ b.cnt \in Nat
    /\ \A i \in call.size..(Room - 1) : str[i] = "before"

Promise == INSTANCE FormatCalls WITH
    pc    <- IF pc = "returned" THEN pc ELSE "called",
    str   <- IF pc = "returned" THEN str ELSE Untouched,
    shown <- IF pc = "returned" THEN shown ELSE << >>

(* A format prints what its directives stand for, seen when the call returns:
   flags, widths, precisions and sizes count for their own directive and take
   their own argument; a buffer that is too small gets the text's beginning, and
   the count is the whole text's.  strtol returns the number that a text stands
   for.  It holds of the calls that are AsDocumented; of the others, printfmt.c:139
   calls - the "flag to pad on the right". *)
MeansWhatItSays == Promise!Spec

(* strtol, asked for the directive's base, reads what printnum printed: the
   same number, as far as a long holds it, and all of its text. *)
NumbersReadBack ==
    \A d \in Range(call.directives) :
        ( /\ pc = "returned" /\ call.function = "vcprintf"
          /\ Conversion(d) \in Numeric /\ Len(shown) > 0
          /\ Len(call.directives) = 1 /\ d.before = << >> /\ call.after = << >>
          /\ Pad(d) # "-"
          /\ Pad(d) = " " /\ shown[1] \in {"-", "0"} => Width(d) <= 1 )
        => strtol(shown \o << Nul >>, Base(Conversion(d)))
               = [value |-> WrapSigned(d.number, Word), end |-> Len(shown) + 1]

(* Every call returns, whatever its format: an unknown directive, which is read
   again from its beginning, and a format that ends within one included. *)
FormatReturns == <>(pc = "returned")
=============================================================================
