---------------------------- MODULE FormatCalls ----------------------------
(***************************************************************************)
(* What printfmt.c, stdio.c and strtol promise, in one step: which text a  *)
(* format and its arguments stand for, which part of it a buffer gets, and *)
(* which number a text is.  A format is given by its directives, and       *)
(* spelled from them.  Padding and prefixes are those of the comments;     *)
(* AsDocumented names the calls for which the code does otherwise.         *)
(***************************************************************************)
EXTENDS Numbers, SequencesExt

CONSTANTS
    Calls,        \* the calls that may be made
    Room          \* the memory from str on

(* A width or precision that is not there, or that is an argument. *)
None == -1
Star == -2

NULL     == << "NULL" >>
E_INVAL  == 3
MAXERROR == 6
Unprintable == {"\n", "\t", "high"}     \* as characters are signed: "high" is one above 127

DirectiveType ==
    [before : Seq(STRING), flags : Seq({"-", "0", "#"}), width : Int, precision : Int, longs : 0..2,
     conv : Seq(STRING),       \* the last character, or none at the end of the format
     stars : Seq(Int), number : Int, text : Seq(STRING)]

(* to is the buffer, or a null pointer; after is also the string of cputs and strtol. *)
CallType ==
    [function : {"vsnprintf", "vcprintf", "cputs", "strtol"}, to : {"str", "NULL"}, size : 0..Room,
     directives : Seq(DirectiveType), after : Seq(STRING), base : {0} \cup 2..36]

VARIABLES
    call, pc,     \* pc is "called" or "returned"
    str,          \* the memory that vsnprintf is given, and more
    shown,        \* what the console got
    value         \* the value returned, and strtol's end pointer

Power(base, n) == LET power[k \in Nat] == IF k = 0 THEN 1 ELSE base * power[k - 1] IN power[n]

(* The figures of n: as many as it needs, each the digit at its place. *)
Numeral(n, base) ==
    LET places == CHOOSE k \in 1..(n + 1) : n < Power(base, k) /\ (k = 1 \/ Power(base, k - 1) <= n)
    IN [i \in 1..places |-> Lower[((n \div Power(base, places - i)) % base) + 1]]

Digits == {Lower[i] : i \in 1..10}

Conversion(d) == IF d.conv = << >> THEN "" ELSE d.conv[1]
Numeric == {"d", "u", "o", "x", "p"}
Base(conv) == IF conv \in {"d", "u"} THEN 10 ELSE IF conv = "o" THEN 8 ELSE 16
Size(longs) == IF longs = 2 THEN Word * Word ELSE Word

(* The spelling of a directive, and the arguments that go with it. *)
Field(n) == IF n = Star THEN << "*" >> ELSE Numeral(n, 10)

Written(d) ==
    << "%" >> \o d.flags
        \o (IF d.width = None THEN << >> ELSE Field(d.width))
        \o (IF d.precision = None THEN << >> ELSE << "." >> \o Field(d.precision))
        \o Repeated("l", d.longs) \o d.conv

Spelled(c) == FlattenSeq([i \in DOMAIN c.directives |-> c.directives[i].before \o Written(c.directives[i])])
                  \o c.after

Arguments(d) ==
    [i \in DOMAIN d.stars |-> [number |-> d.stars[i], text |-> NULL]]
        \o (IF Conversion(d) \in {"c", "s", "e"} \cup Numeric
            THEN << [number |-> d.number, text |-> d.text] >> ELSE << >>)

(* What a caller may write: strings without a Nul in them, a zero is a flag and
   no precision, each * has its argument, what ends a directive is none of its
   settings, and only the last directive ends with the format. *)
Without(string, c) == \A i \in DOMAIN string : string[i] # c

LegalDirective(d) ==
    /\ d \in DirectiveType
    /\ Without(d.before, "%") /\ Without(d.before, Nul) /\ Without(d.text, Nul)
    /\ Len(d.conv) <= 1 /\ Conversion(d) \notin {"-", "#", ".", "*", "l", Nul} \cup Digits
    /\ d.width \in {None, Star} \cup (Nat \ {0}) /\ d.precision \in {None, Star} \cup (Nat \ {0})
    /\ Len(d.stars) = (IF d.width = Star THEN 1 ELSE 0) + (IF d.precision = Star THEN 1 ELSE 0)
    /\ \A i \in DOMAIN d.stars : d.stars[i] \in Signed(Word)
    /\ d.number \in Signed(Size(d.longs)) \cup Unsigned(Size(d.longs))
    /\ Conversion(d) = "e" => d.number \in Signed(Word)

ASSUME CallsAssumption ==
    /\ Room \in Nat
    /\ \A c \in Calls :
           /\ c \in CallType
           /\ c.size < Room
           /\ Without(c.after, Nul)
           /\ IF c.function \in {"cputs", "strtol"} THEN c.directives = << >> ELSE Without(c.after, "%")
           /\ \A i \in DOMAIN c.directives :
                  /\ LegalDirective(c.directives[i])
                  /\ c.directives[i].conv = << >> => i = Len(c.directives) /\ c.after = << >>

(* A directive's own settings. *)
Width(d)     == IF d.width = Star THEN d.stars[1] ELSE d.width
Precision(d) == IF d.precision = Star THEN Last(d.stars) ELSE d.precision

(* The last of the flags - and 0 counts. *)
Pad(d) ==
    LET pads == {i \in DOMAIN d.flags : d.flags[i] \in {"-", "0"}}
    IN IF pads = {} THEN " " ELSE d.flags[CHOOSE i \in pads : \A j \in pads : j <= i]

(* Characters in their field: - is the "flag to pad on the right" (line 139), 0
   the one "to pad with 0's instead of spaces" (line 144). *)
Padded(d, chars) ==
    LET space == Width(d) - Len(chars)
    IN IF Pad(d) = "-" THEN chars \o Repeated(" ", space) ELSE Repeated(Pad(d), space) \o chars

(* A string, as much of it as the precision allows, in its field. *)
StringText(d) ==
    LET whole == IF d.text = NULL THEN << "(", "n", "u", "l", "l", ")" >> ELSE d.text
        kept  == IF Precision(d) \in 0..(Len(whole) - 1) THEN SubSeq(whole, 1, Precision(d)) ELSE whole
        clean == [i \in DOMAIN kept |->
                     IF Contains(d.flags, "#") /\ kept[i] \in Unprintable THEN "?" ELSE kept[i]]
    IN Padded(d, clean)

(* The messages of error.h, each counted as one character; a code and its
   negative are equivalent. *)
error_string == << "unspecified error", "bad process", "invalid parameter", "out of memory",
                   "out of processes", "segmentation fault" >>

IntegerText(n) == (IF n < 0 THEN << "-" >> ELSE << >>) \o Numeral(IF n < 0 THEN -n ELSE n, 10)

ErrorText(n) ==
    LET err == IF n < 0 THEN -n ELSE n
    IN IF err \in 1..MAXERROR THEN << error_string[err] >>
       ELSE << "error " >> \o IntegerText(WrapSigned(err, Word))

(* A number's padding goes between a sign or 0x and its figures. *)
DirectiveText(d) ==
    LET conv == Conversion(d)
        n    == Wrap(d.number, Size(d.longs))
        m    == WrapSigned(d.number, Size(d.longs))
    IN CASE conv = "c" -> d.text
         [] conv = "s" -> StringText(d)
         [] conv = "e" -> ErrorText(d.number)
         [] conv = "d" /\ m < 0 -> << "-" >> \o Padded(d, Numeral(-m, 10))
         [] conv = "p" -> << "0", "x" >> \o Padded(d, Numeral(Wrap(d.number, Word), 16))
         [] conv \in {"d", "u", "o", "x"} /\ ~(conv = "d" /\ m < 0) -> Padded(d, Numeral(n, Base(conv)))
         [] conv = "%" -> << "%" >>
         [] OTHER -> Written(d)

Text(c) == FlattenSeq([i \in DOMAIN c.directives |-> c.directives[i].before \o DirectiveText(c.directives[i])])
               \o c.after

(* The number a text stands for: blanks, a sign, a prefix - 0 or 0x if the base
   is open, 0x or 0X if it is 16 (string.c:191 and 199) -, then figures of the
   base until one is none; and the index after them. *)
Meaning(s, base) ==
    LET At(i)  == IF i \in DOMAIN s THEN s[i] ELSE Nul
        begin  == CHOOSE i \in 1..(Len(s) + 1) : At(i) \notin Blanks /\ \A j \in 1..(i - 1) : s[j] \in Blanks
        signed == begin + (IF At(begin) \in {"+", "-"} THEN 1 ELSE 0)
        hex    == /\ base \in {0, 16} /\ At(signed) = "0"
                  /\ At(signed + 1) = "x" \/ (base = 16 /\ At(signed + 1) = "X")
        radix  == IF base # 0 THEN base ELSE IF hex THEN 16 ELSE IF At(signed) = "0" THEN 8 ELSE 10
        first  == signed + (IF hex THEN 2 ELSE 0)
        IsFigure(c) == Figure(c) < radix
        end    == CHOOSE i \in first..(Len(s) + 1) :
                      ~IsFigure(At(i)) /\ \A j \in first..(i - 1) : IsFigure(s[j])
        sum[k \in Nat] == IF k = 0 THEN 0 ELSE sum[k - 1] + Figure(s[end - k]) * Power(radix, k - 1)
        total  == sum[end - first]
    IN [value |-> WrapSigned(IF At(begin) = "-" THEN -total ELSE total, Word), end |-> end]

(* The comments hold but for two things.  The code pads a number on the left
   whatever the flags are, with minus signs if the last is -, and a string too if
   a 0 comes behind the -; and it knows no prefix 0X. *)
NoCapitalPrefix(s) == \A i \in 1..(Len(s) - 1) : ~(s[i] = "0" /\ s[i + 1] = "X")

AsDocumented(c) ==
    /\ \A i \in DOMAIN c.directives :
           LET d == c.directives[i]
           IN Contains(d.flags, "-") => Conversion(d) \notin Numeric /\ Pad(d) = "-"
    /\ c.function = "strtol" /\ c.base = 16 => NoCapitalPrefix(c.after)

Untouched == [i \in 0..(Room - 1) |-> "before"]
NoValue   == [value |-> 0, end |-> 0]

Init == call \in Calls /\ pc = "called" /\ str = Untouched /\ shown = << >> /\ value = NoValue

Returned(n) == value' = [value |-> n, end |-> 0]

(* A buffer gets as much of the text as leaves room for the Nul. *)
Stores(text) ==
    LET kept == IF Len(text) < call.size THEN Len(text) ELSE call.size - 1
    IN IF call.size = 0 \/ call.to = "NULL"
       THEN Returned(-E_INVAL) /\ UNCHANGED str
       ELSE /\ str' = [i \in DOMAIN str |->
                          IF i < kept THEN text[i + 1] ELSE IF i = kept THEN Nul ELSE str[i]]
            /\ Returned(Len(text))

Shows(text) == shown' = text /\ Returned(Len(text)) /\ UNCHANGED str

Returns ==
    /\ pc = "called" /\ pc' = "returned"
    /\ UNCHANGED call
    /\ \/ call.function = "vsnprintf" /\ Stores(Text(call)) /\ UNCHANGED shown
       \/ call.function = "vcprintf" /\ Shows(Text(call))
       \/ call.function = "cputs" /\ Shows(call.after \o << "\n" >>)
       \/ call.function = "strtol" /\ value' = Meaning(call.after, call.base) /\ UNCHANGED <<str, shown>>

Spec == Init /\ [][Returns]_<<call, pc, str, shown, value>>
=============================================================================
