--------------------------- MODULE Format_proofs ---------------------------
(***************************************************************************)
(* Proofs about vprintfmt as a state machine, for every call: it stays within *)
(* its types, prints what its format means, and strtol reads back what a   *)
(* %d, %u, %o or %x has printed.                                           *)
(***************************************************************************)
EXTENDS Format, FormatCalls_proofs

(* An unknown directive behind its %, and the text behind it, are printed as
   they are. *)
LEMMA PlainAgain ==
    ASSUME NEW c \in Calls, FormatCall(c), NEW k \in 1..Count(c), NEW d, d = c.directives[k], Ending(d) \notin Cases
    PROVE  \E r : /\ Plain(c, k + 1, r) /\ Place(c, k + 1) - r = Place(c, k) + 1
                  /\ Said(c, k + 1) - r = Said(c, k) + 1
                  /\ Place(c, k) \in Nat /\ Said(c, k) \in Nat
                  /\ Len(DirectivePrinted(d)) >= 1 /\ Printout(c)[Said(c, k) + 1] = "%"
<1>1. PICK n \in Nat : n = Count(c)
  BY LegalCall
<1>2. k \in 1..(n + 1) /\ k + 1 \in 1..(n + 1) /\ (k + 1) - 1 = k
  BY <1>1
<1>3. LiesBefore(c, k) /\ LiesBefore(c, k + 1) /\ LiesBehind(c, k, d) /\ LegalDirective(d)
  BY <1>1, <1>2, CallLies, LegalCall
<1>4. Spells(c, Place(c, k), d)
  BY DirectiveSpelled
<1>5. DirectivePrinted(d) = Written(d)
  <2>1. Ending(d) \notin {"c", "s", "e", "d", "p", "u", "o", "x", "%"}
    BY DEF Cases
  <2>2. Conversion(d) \notin {"c", "s", "e", "d", "p", "u", "o", "x", "%"}
    <3>1. CASE d.conv = << >>
      BY <3>1 DEF Conversion
    <3>2. CASE d.conv # << >>
      BY <2>1, <3>2 DEF Ending
    <3> QED
      BY <3>1, <3>2
  <2>3. Conversion(d) \notin Numeric
    BY <2>2 DEF Numeric
  <2> QED
    BY <2>2, <2>3, TextIsBy, PrintedBy
<1>6. PICK p \in Nat, q \in Nat, m \in Nat, w \in Nat, e \in Nat \ {0} :
          /\ p = Place(c, k) /\ q = Said(c, k) /\ m = Len(Before(c, k + 1)) /\ w = Len(Written(d))
          /\ e = LongsEnd(d) /\ (w = e \/ (w = e + 1 /\ d.conv # << >>))
  <2>1. SpelledSo(Written(d), d)
    BY <1>3, WrittenIs
  <2>2. PICK nf \in Nat, nw \in Nat, np \in Nat, nl \in 0..2, nc \in 0..1 :
            /\ nf = Len(d.flags) /\ nw = Len(WidthField(d)) /\ np = Len(PrecisionField(d)) /\ nl = d.longs
            /\ nc = Len(d.conv)
    BY <2>1 DEF SpelledSo
  <2>3. LongsEnd(d) = 1 + nf + nw + np + nl /\ Len(Written(d)) = 1 + nf + nw + np + nl + nc
    BY <2>1, <2>2 DEF SpelledSo, FlagsEnd, WidthEnd, PrecisionEnd, LongsEnd
  <2>4. nc = 1 => d.conv # << >>
    <3>1. nc = 1 => Len(<< >>) # nc
      OBVIOUS
    <3> QED
      BY <2>2, <3>1, Zenon
  <2>5. Place(c, k) \in Nat /\ Said(c, k) \in Nat /\ Len(Before(c, k + 1)) \in Nat
    <3>1. PICK a \in Nat, t \in Nat, l \in Nat : a = FmtAt(c)[k - 1] /\ t = TxtAt(c)[k - 1] /\ l = Len(Before(c, k))
      BY <1>3, Zenon DEF LiesBefore
    <3>2. Place(c, k) = a + l + 1 /\ Said(c, k) = t + l /\ Len(Before(c, k + 1)) \in Nat
      BY <1>3, <3>1, Zenon DEF LiesBefore, Place, Said
    <3>3. a + l + 1 \in Nat /\ t + l \in Nat
      OBVIOUS
    <3> QED
      BY <3>2, <3>3, Zenon
  <2>6. PICK e \in Nat \ {0}, w \in Nat : e = 1 + nf + nw + np + nl /\ w = e + nc
    OBVIOUS
  <2>7. w = e \/ (w = e + 1 /\ nc = 1)
    BY <2>6
  <2>8. e = LongsEnd(d) /\ w = Len(Written(d))
    BY <2>3, <2>6, Zenon
  <2> QED
    BY <2>4, <2>5, <2>7, <2>8, Zenon
<1>7. PICK f \in Nat, t \in Nat : f = FmtAt(c)[k] /\ t = TxtAt(c)[k] /\ f = p + w - 1 /\ t = q + w
  BY <1>2, <1>3, <1>5, <1>6 DEF LiesBefore, LiesBehind
<1>8. Place(c, k + 1) = f + m + 1 /\ Said(c, k + 1) = t + m
  BY <1>2, <1>6, <1>7 DEF Place, Said
<1>8a. f = p + w - 1 /\ t = q + w
  BY <1>7
<1>8b. w = e \/ w = e + 1
  BY <1>6
<1>9. PICK r \in Nat : r = m + w - 1
  BY <1>8b
<1>10. f + m + 1 - r = p + 1 /\ t + m - r = q + 1 /\ r < f + m + 1 /\ r <= t + m
  BY ONLY m \in Nat, w \in Nat, p \in Nat, q \in Nat, f \in Nat, t \in Nat, <1>8a, <1>9, <1>8b, e \in Nat \ {0}
<1>11. ASSUME NEW i \in 1..r
       PROVE  /\ Character(c, f + m + 1 - i) = Printout(c)[t + m - i + 1]
              /\ Character(c, f + m + 1 - i) \notin {"%", Nul}
  <2>1. CASE i <= m
    <3>1. PICK j \in 1..m : j = m + 1 - i
      BY <2>1
    <3>2. f + m + 1 - i = f + j /\ t + m - i + 1 = t + j
      BY <3>1
    <3>3. Character(c, f + j) = Printout(c)[t + j] /\ Character(c, f + j) \notin {"%", Nul}
      <4>1. \A i1 \in 1..Len(Before(c, k + 1)) :
                /\ Character(c, FmtAt(c)[(k + 1) - 1] + i1) = Printout(c)[TxtAt(c)[(k + 1) - 1] + i1]
                /\ Character(c, FmtAt(c)[(k + 1) - 1] + i1) \notin {"%", Nul}
        BY <1>3 DEF LiesBefore
      <4>2. \A i1 \in 1..m : Character(c, f + i1) = Printout(c)[t + i1] /\ Character(c, f + i1) \notin {"%", Nul}
        BY <1>2, <1>6, <1>7, <4>1, Zenon
      <4> QED
        BY <4>2
    <3> QED
      BY <3>2, <3>3, Zenon
  <2>2. CASE ~(i <= m)
    <3>1. PICK j \in 1..(w - 1) : j = w + m - i
      BY <1>9, <2>2
    <3>2. f + m + 1 - i = p + j /\ t + m - i + 1 = q + (j + 1) /\ j + 1 \in 1..w /\ p + (j + 1) - 1 = p + j
      BY <1>8a, <3>1
    <3>3. Character(c, p + j) = Written(d)[j + 1] /\ Printout(c)[q + (j + 1)] = Written(d)[j + 1]
      BY <1>3, <1>5, <1>6, <3>2, Zenon DEF LiesBehind
    <3>4. Character(c, p + j) \notin {"%", Nul}
      <4>1. CASE j \in 1..(e - 1)
        BY <1>4, <1>6, <4>1 DEF Spells
      <4>2. CASE j = e
        <5>1. d.conv # << >>
          BY <1>6, <4>2
        <5>2. Character(c, p + j) = Conversion(d)
          BY <1>4, <1>6, <4>2, <5>1, Zenon DEF Spells, SpellsEnd, Ending
        <5>3. Conversion(d) # Nul /\ Conversion(d) # "%"
          <6>1. Conversion(d) \notin Cases
            BY <5>1 DEF Ending
          <6> QED
            BY <1>3, <6>1 DEF LegalDirective, Cases
        <5> QED
          BY <5>2, <5>3
      <4>3. j \in 1..(e - 1) \/ j = e
        BY <1>8b, <3>1
      <4> QED
        BY <4>1, <4>2, <4>3
    <3> QED
      BY <3>2, <3>3, <3>4, Zenon
  <2> QED
    BY <2>1, <2>2
<1>12. Plain(c, k + 1, r)
  BY <1>8, <1>10, <1>11 DEF Plain
<1>13. w >= 1 /\ Printout(c)[q + 1] = "%"
  <2>1. w >= 1 /\ 1 \in 1..w
    BY <1>8b
  <2>2. Written(d)[1] = "%"
    BY <1>3, WrittenIs DEF SpelledSo
  <2>3. Printout(c)[q + 1] = Written(d)[1]
    BY <1>3, <1>5, <1>6, <2>1, Zenon DEF LiesBehind
  <2> QED
    BY <2>1, <2>2, <2>3
<1>14. Place(c, k + 1) - r = p + 1 /\ Said(c, k + 1) - r = q + 1
  BY <1>8, <1>10
<1>15. Len(DirectivePrinted(d)) >= 1 /\ Printout(c)[Said(c, k) + 1] = "%"
  BY <1>5, <1>6, <1>13, Zenon
<1> QED
  BY <1>6, <1>12, <1>14, <1>15

-----------------------------------------------------------------------------
(* How far a call is: what it has printed, and how far it is in its format. *)
Stored(c, m) == IF m < c.size - 1 THEN m ELSE c.size - 1
Beginning(c, m) == [i \in 1..m |-> Printout(c)[i]]

ToConsole(c, m) == shown = Beginning(c, m) /\ str = Untouched /\ b = [buf |-> 0, ebuf |-> 0, cnt |-> m]
ToBuffer(c, m) ==
    /\ c.to # "NULL" /\ c.size # 0 /\ shown = << >>
    /\ str = [i \in 0..(Room - 1) |-> IF i < Stored(c, m) THEN Printout(c)[i + 1] ELSE "before"]
    /\ b = [buf |-> Stored(c, m), ebuf |-> c.size - 1, cnt |-> m]
Output(c, m) ==
    \/ c.function = "vcprintf" /\ ToConsole(c, m)
    \/ c.function = "vsnprintf" /\ ToBuffer(c, m)

Settings ==
    /\ padc \in {Blank, "-", "0"} /\ width \in Int /\ precision \in Int
    /\ lflag \in 0..2 /\ altflag \in 0..1

WidthStars(d) == IF d.width = Star THEN 1 ELSE 0
Marked(d) == padc = Pad(d) /\ altflag = Alt(d) /\ padc \in {Blank, "-", "0"} /\ altflag \in 0..1
At(c, k, off, wide, exact, longs, taken) ==
    /\ at = Place(c, k) + off /\ ap = ArgAt(c)[k - 1] + 1 + taken
    /\ width = wide /\ precision = exact /\ lflag = longs
    /\ Output(c, Said(c, k))

InText(c, k) ==
    /\ pc = "text" /\ Settings /\ ap = ArgAt(c)[k - 1] + 1
    /\ \E r \in Nat : Plain(c, k, r) /\ at = Place(c, k) - r /\ Output(c, Said(c, k) - r)
InFlags(c, k, d) ==
    /\ pc = "reswitch"
    /\ \E i \in 0..Len(d.flags) : MarkedBy(d, i, padc, altflag) /\ At(c, k, 1 + i, -1, -1, 0, 0)
InWidth(c, k, d) ==
    /\ pc = "number" /\ d.width \notin {None, Star} /\ Marked(d)
    /\ \E i \in 1..Figured(d.width) : At(c, k, FlagsEnd(d) + i, -1, ValueAt(d.width)[i], 0, 0)
Wide(c, k, d) ==
    /\ pc = "reswitch" /\ Marked(d)
    /\ At(c, k, WidthEnd(d), Width(d), -1, 0, WidthStars(d))
InPoint(c, k, d) ==
    /\ pc = "reswitch" /\ d.precision # None /\ Marked(d)
    /\ At(c, k, WidthEnd(d) + 1, Columns(d), -1, 0, WidthStars(d))
InPrecision(c, k, d) ==
    /\ pc = "number" /\ d.precision \notin {None, Star} /\ Marked(d)
    /\ \E i \in 1..Figured(d.precision) :
           At(c, k, WidthEnd(d) + 1 + i, Columns(d), ValueAt(d.precision)[i], 0, WidthStars(d))
InLongs(c, k, d) ==
    /\ pc = "reswitch" /\ Marked(d)
    /\ \E i \in 0..d.longs : At(c, k, PrecisionEnd(d) + i, Columns(d), Precision(d), i, Len(d.stars))

InDirective(c, k, d) ==
    \/ InFlags(c, k, d) \/ InWidth(c, k, d) \/ Wide(c, k, d) \/ InPoint(c, k, d) \/ InPrecision(c, k, d)
    \/ InLongs(c, k, d)

Writing(c) ==
    /\ FormatCall(c)
    /\ \/ \E k \in 1..(Count(c) + 1) : InText(c, k)
       \/ \E k \in 1..Count(c) : InDirective(c, k, c.directives[k])

Begun(c) ==
    /\ pc = "called" /\ str = Untouched
    /\ padc = Blank /\ width = -1 /\ precision = -1 /\ lflag = 0 /\ altflag = 0 /\ ap = 1
    /\ \/ c.function # "cputs" /\ at = 1 /\ shown = << >> /\ b = [buf |-> 0, ebuf |-> 0, cnt |-> 0]
       \/ /\ c.function = "cputs"
          /\ \E j \in 0..Len(c.after) : /\ at = j + 1 /\ shown = [i \in 1..j |-> c.after[i]]
                                        /\ b = [buf |-> 0, ebuf |-> 0, cnt |-> j]

(* What a call has done when it returns. *)
Number(n) == [value |-> n, end |-> 0]
NoRoom(c) == c.to = "NULL" \/ c.size = 0
Buffer(c) == [i \in 0..(Room - 1) |-> IF i < Stored(c, Len(Printout(c))) THEN Printout(c)[i + 1]
                                      ELSE IF i = Stored(c, Len(Printout(c))) THEN Nul ELSE "before"]
Results(c) ==
    \/ /\ c.function = "vsnprintf" /\ NoRoom(c)
       /\ value = Number(-E_INVAL) /\ str = Untouched /\ shown = << >>
    \/ /\ c.function = "vsnprintf" /\ ~NoRoom(c)
       /\ value = Number(Len(Printout(c))) /\ str = Buffer(c) /\ shown = << >>
    \/ /\ c.function = "vcprintf"
       /\ value = Number(Len(Printout(c))) /\ str = Untouched /\ shown = Printout(c)
    \/ /\ c.function = "cputs"
       /\ value = Number(Len(c.after \o << "\n" >>)) /\ str = Untouched /\ shown = c.after \o << "\n" >>
    \/ /\ c.function = "strtol"
       /\ value = strtol(c.after \o << Nul >>, c.base) /\ str = Untouched /\ shown = << >>

Bounds(c) ==
    /\ at \in 1..(Len(Spelled(c)) + 2) /\ ap \in 1..(Len(FlattenSeq(ArgumentsOf(c))) + 1)
    /\ Settings
    /\ b.buf \in 0..b.ebuf /\ b.ebuf \in {0, c.size - 1} /\ b.cnt \in Nat
Done(c) == pc = "returned" /\ Bounds(c) /\ Results(c)

State(c) == Begun(c) \/ Writing(c) \/ Done(c)
Inv == call \in Calls /\ State(call)

(* Which step a call takes next: where it is, and the character there, decide. *)
LEMMA Dispatch ==
    ASSUME FormatNext
    PROVE  /\ pc = "called" => vsnprintf \/ vcprintf \/ cputs \/ strtol_call
           /\ pc = "text" => \/ ch = "%" /\ percent
                             \/ ch = Nul /\ end
                             \/ ch \notin {"%", Nul} /\ text
           /\ pc = "number" => number
           /\ pc = "reswitch"
                => \/ ch \in {"-", "0"} /\ pad_flag
                   \/ ch = "#" /\ alt_flag
                   \/ ch = "l" /\ long_flag
                   \/ ch = "." /\ point
                   \/ ch = "*" /\ star
                   \/ ch \in Digits \ {"0"} /\ number_begins
                   \/ ch = "c" /\ c_character
                   \/ ch = "%" /\ percent_sign
                   \/ ch = "e" /\ e_error
                   \/ ch = "s" /\ s_string
                   \/ ch = "d" /\ d_signed
                   \/ ch \in {"u", "o", "x"} /\ uox_unsigned
                   \/ ch = "p" /\ p_pointer
                   \/ ch \notin Cases /\ default
           /\ pc # "returned"
<1>1. CASE vsnprintf \/ vcprintf \/ cputs \/ strtol_call
  BY <1>1 DEF vsnprintf, vcprintf, cputs, strtol_call
<1>2. CASE text \/ percent \/ end
  BY <1>2 DEF text, percent, end
<1>3. CASE pad_flag \/ alt_flag \/ long_flag \/ point \/ star \/ number_begins
  <2>1. pc = "reswitch"
    BY <1>3 DEF pad_flag, alt_flag, long_flag, point, star, number_begins, Switch
  <2>2. pad_flag => ch \in {"-", "0"}
    BY DEF pad_flag, Switch
  <2>3. alt_flag => ch = "#"
    BY DEF alt_flag, Switch
  <2>4. long_flag => ch = "l"
    BY DEF long_flag, Switch
  <2>5. point => ch = "."
    BY DEF point, Switch
  <2>6. star => ch = "*"
    BY DEF star, Switch
  <2>7. number_begins => ch \in Digits \ {"0"}
    BY DEF number_begins, Switch
  <2> QED
    BY <1>3, <2>1, <2>2, <2>3, <2>4, <2>5, <2>6, <2>7
<1>4. CASE number
  BY <1>4 DEF number
<1>5. CASE c_character \/ percent_sign \/ e_error \/ s_string \/ d_signed \/ uox_unsigned \/ p_pointer
  <2>1. c_character => pc = "reswitch" /\ ch = "c"
    BY DEF c_character, Convert
  <2>2. percent_sign => pc = "reswitch" /\ ch = "%"
    BY DEF percent_sign, Convert
  <2>3. e_error => pc = "reswitch" /\ ch = "e"
    BY Zenon DEF e_error, Convert
  <2>4. s_string => pc = "reswitch" /\ ch = "s"
    BY Zenon DEF s_string, Convert
  <2>5. d_signed => pc = "reswitch" /\ ch = "d"
    BY Zenon DEF d_signed, Convert
  <2>6. uox_unsigned => pc = "reswitch" /\ ch \in {"u", "o", "x"}
    BY Zenon DEF uox_unsigned, Convert
  <2>7. p_pointer => pc = "reswitch" /\ ch = "p"
    BY Zenon DEF p_pointer, Convert
  <2> QED
    BY <1>5, <2>1, <2>2, <2>3, <2>4, <2>5, <2>6, <2>7
<1>6. CASE default
  <2>1. default => pc = "reswitch" /\ ch \notin Cases
    BY Zenon DEF default
  <2> QED
    BY <1>6, <2>1
<1> QED
  BY <1>1, <1>2, <1>3, <1>4, <1>5, <1>6 DEF FormatNext, vprintfmt

(* What is printed behind what was printed before. *)
LEMMA ShownMore ==
    ASSUME NEW T, NEW m \in Nat, NEW x, IsSeq(x), \A j \in 1..Len(x) : x[j] = T[m + j]
    PROVE  [i \in 1..m |-> T[i]] \o x = [i \in 1..(m + Len(x)) |-> T[i]]
<1> DEFINE s == [i \in 1..m |-> T[i]]
<1>1. IsSeq(s) /\ Len(s) = m /\ \A i \in 1..m : s[i] = T[i]
  <2> DEFINE S == {T[i] : i \in 1..m}
  <2>1. s \in [1..m -> S] /\ \A i \in 1..m : s[i] = T[i]
    OBVIOUS
  <2> HIDE DEF s, S
  <2>2. s \in Seq(S) /\ Len(s) = m
    BY <2>1
  <2> QED
    BY <2>1, <2>2 DEF IsSeq
<1> HIDE DEF s
<1>2. PICK n \in Nat : n = Len(x)
  <2>1. PICK S : x \in Seq(S)
    BY DEF IsSeq
  <2> QED
    BY <2>1, LenProperties
<1>3. PICK y : y = s \o x /\ Joined(s, x)
  BY <1>1, JoinIs
<1>4. IsSeq(y) /\ Len(y) = m + n /\ (\A i \in 1..m : y[i] = s[i]) /\ \A i \in 1..n : y[m + i] = x[i]
  BY <1>1, <1>2, <1>3, Zenon DEF Joined
<1>5. DOMAIN y = 1..(m + n) /\ y = [i \in 1..(m + n) |-> y[i]]
  <2>1. PICK S : y \in Seq(S)
    BY <1>4 DEF IsSeq
  <2> QED
    BY <1>4, <2>1, LenProperties
<1>6. ASSUME NEW i \in 1..(m + n) PROVE y[i] = T[i]
  <2>1. CASE i \in 1..m
    BY <1>1, <1>4, <2>1
  <2>2. CASE i \notin 1..m
    <3>1. PICK j \in 1..n : i = m + j
      <4>1. i - m \in 1..n /\ i = m + (i - m)
        BY <2>2
      <4> QED
        BY <4>1
    <3> QED
      BY <1>2, <1>4, <3>1, Zenon
  <2> QED
    BY <2>1, <2>2
<1>7. y = [i \in 1..(m + n) |-> T[i]]
  BY <1>5, <1>6
<1> QED
  BY <1>2, <1>3, <1>7 DEF s

(* The characters that fit are stored, one behind the other. *)
Below(z, m) == IF m < z - 1 THEN m ELSE z - 1
Fitting(z, m, n, E, s, t) ==
    /\ E = z - 1 /\ s = Below(z, m) /\ t = Below(z, m + n) /\ s <= E /\ s <= m
    /\ t = s + (IF n < E - s THEN n ELSE E - s)
    /\ \A i \in Nat : i >= s /\ i < t => i - s + 1 \in 1..n /\ s = m

(* How many of the next characters a buffer of z characters still gets behind m. *)
LEMMA StoredMore ==
    ASSUME NEW z \in Nat \ {0}, NEW m \in Nat, NEW n \in Nat
    PROVE  \E E \in Nat, s \in Nat, t \in Nat : Fitting(z, m, n, E, s, t)
<1>1. PICK E \in Nat, s \in Nat, t \in Nat : E = z - 1 /\ s = Below(z, m) /\ t = Below(z, m + n)
  <2>1. z - 1 \in Nat /\ Below(z, m) \in Nat /\ Below(z, m + n) \in Nat
    BY DEF Below
  <2> QED
    BY <2>1
<1>2. Fitting(z, m, n, E, s, t)
  BY <1>1 DEF Fitting, Below
<1> QED
  BY <1>2

(* putch prints what the text has next. *)
LEMMA Putched ==
    ASSUME NEW c \in Calls, call = c, NEW m \in Nat, NEW x, IsSeq(x),
           \A j \in 1..Len(x) : x[j] = Printout(c)[m + j], Output(c, m), putch(x)
    PROVE  Output(c, m + Len(x))'
<1>1. PICK n \in Nat : n = Len(x)
  <2>1. PICK S : x \in Seq(S)
    BY DEF IsSeq
  <2> QED
    BY <2>1, LenProperties
<1>2. CASE c.function = "vcprintf" /\ ToConsole(c, m)
  <2>1. cputch(x)
    BY <1>2 DEF putch
  <2>2. shown' = Beginning(c, m) \o x /\ UNCHANGED str /\ b' = [b EXCEPT !.cnt = @ + n]
    BY <1>1, <1>2, <2>1 DEF cputch, ToConsole
  <2>3. shown' = Beginning(c, m + n)
    BY <1>1, <2>2, ShownMore DEF Beginning
  <2>4. b' = [buf |-> 0, ebuf |-> 0, cnt |-> m + n]
    BY <1>2, <2>2 DEF ToConsole
  <2>5. str' = Untouched
    BY <1>2, <2>2 DEF ToConsole
  <2> QED
    BY <1>1, <1>2, <2>3, <2>4, <2>5 DEF Output, ToConsole
<1>3. CASE c.function = "vsnprintf" /\ ToBuffer(c, m)
  <2>1. sprintputch(x)
    BY <1>3 DEF putch
  <2>2. c.size \in Nat /\ c.size # 0 /\ c.size < Room /\ Room \in Nat
    BY <1>3, LegalCall DEF ToBuffer
  <2>2a. PICK z \in Nat \ {0} : z = c.size
    BY <2>2
  <2>2b. PICK E \in Nat, s \in Nat, t \in Nat : Fitting(z, m, n, E, s, t)
    BY StoredMore
  <2>3. /\ E = c.size - 1 /\ s = Stored(c, m) /\ t = Stored(c, m + n) /\ s <= E /\ s <= m
        /\ t = s + (IF n < E - s THEN n ELSE E - s)
        /\ \A i \in Nat : i >= s /\ i < t => i - s + 1 \in 1..n /\ s = m
    <3>1. Below(z, m) = Stored(c, m) /\ Below(z, m + n) = Stored(c, m + n)
      BY <2>2a DEF Below, Stored
    <3> QED
      BY <2>2a, <2>2b, <3>1, Zenon DEF Fitting
  <2>4. b = [buf |-> s, ebuf |-> E, cnt |-> m]
    BY <1>3, <2>3 DEF ToBuffer
  <2>5. Fits(Len(x)) = t - s
    <3>1. b.ebuf - b.buf = E - s
      BY <2>4
    <3> QED
      BY <1>1, <2>3, <3>1 DEF Fits
  <2>6. /\ str' = [i \in DOMAIN str |-> IF i \in s..(s + (t - s) - 1) THEN x[i - s + 1] ELSE str[i]]
        /\ b' = [b EXCEPT !.buf = @ + (t - s), !.cnt = @ + n] /\ UNCHANGED shown
    <3>1. b.buf = s
      BY <2>4
    <3> QED
      BY <1>1, <2>1, <2>5, <3>1, Zenon DEF sprintputch
  <2>7. b' = [buf |-> t, ebuf |-> E, cnt |-> m + n]
    <3>1. b' = [buf |-> s + (t - s), ebuf |-> E, cnt |-> m + n]
      BY <2>4, <2>6
    <3>2. s + (t - s) = t
      OBVIOUS
    <3> QED
      BY <3>1, <3>2
  <2>8. str = [i \in 0..(Room - 1) |-> IF i < s THEN Printout(c)[i + 1] ELSE "before"]
    BY <1>3, <2>3, Zenon DEF ToBuffer
  <2>9. str' = [i \in 0..(Room - 1) |-> IF i < t THEN Printout(c)[i + 1] ELSE "before"]
    <3>1. DOMAIN str = 0..(Room - 1) /\ \A i \in 0..(Room - 1) : str[i] = IF i < s THEN Printout(c)[i + 1] ELSE "before"
      BY <2>8
    <3>2. ASSUME NEW i \in 0..(Room - 1)
          PROVE  (IF i \in s..(s + (t - s) - 1) THEN x[i - s + 1] ELSE str[i])
                     = IF i < t THEN Printout(c)[i + 1] ELSE "before"
      <4>1. i \in Nat /\ s <= t /\ s + (t - s) - 1 = t - 1
        BY <2>2, <2>3
      <4>2. CASE i \in s..(t - 1)
        <5>1. i >= s /\ i < t
          BY <4>2
        <5>2. i - s + 1 \in 1..n /\ s = m
          BY <2>3, <4>1, <5>1
        <5>3. x[i - s + 1] = Printout(c)[m + (i - s + 1)]
          BY <1>1, <5>2
        <5>4. m + (i - s + 1) = i + 1
          BY <5>2
        <5> QED
          BY <4>1, <4>2, <5>1, <5>3, <5>4
      <4>3. CASE i \notin s..(t - 1)
        <5>1. (i < s) <=> (i < t)
          BY <4>1, <4>3
        <5> QED
          BY <3>1, <4>1, <4>3, <5>1
      <4> QED
        BY <4>2, <4>3
    <3> QED
      BY <2>6, <3>1, <3>2, Zenon
  <2> QED
    <3>1. /\ c.to # "NULL" /\ c.size # 0 /\ shown' = << >>
      BY <1>3, <2>6 DEF ToBuffer
    <3>2. ToBuffer(c, m + n)'
      BY <2>3, <2>7, <2>9, <3>1, Zenon DEF ToBuffer
    <3> QED
      BY <1>1, <1>3, <3>2, Zenon DEF Output
<1> QED
  BY <1>2, <1>3 DEF Output

(* What a call prints is a sequence. *)
LEMMA TextIsSeq == ASSUME NEW c \in Calls PROVE IsSeq(Printout(c)) /\ Len(Printout(c)) \in Nat
<1>1. IsSeq(FlattenSeq(TextsOf(c))) /\ IsSeq(c.after)
  BY LayoutsAre, LegalCall DEF Layout
<1>2. Printout(c) = FlattenSeq(TextsOf(c)) \o c.after
  BY DEF Printout
<1>3. IsSeq(Printout(c))
  BY <1>1, <1>2, JoinIs DEF Joined
<1>4. PICK S : Printout(c) \in Seq(S)
  BY <1>3 DEF IsSeq
<1> QED
  BY <1>3, <1>4, LenProperties

(* A sequence is the function of its elements. *)
LEMMA SeqIsFunction == ASSUME NEW s, IsSeq(s) PROVE s = [i \in 1..Len(s) |-> s[i]] /\ DOMAIN s = 1..Len(s)
<1>1. PICK S : s \in Seq(S)
  BY DEF IsSeq
<1> QED
  BY <1>1, LenProperties

(* A sequence of one character. *)
LEMMA OneCharacter == ASSUME NEW x PROVE IsSeq(<< x >>) /\ Len(<< x >>) = 1 /\ << x >>[1] = x
<1>1. << x >> \in Seq({x})
  OBVIOUS
<1> QED
  BY <1>1 DEF IsSeq

(* What a step reads. *)
LEMMA ReadsHere == ASSUME NEW c, call = c PROVE ch = Character(c, at) /\ arg = Argument(c, ap)
  BY Zenon DEF ch, Fmt, Character, arg, Args, Argument, ArgumentsOf

(* What a step leaves alone stays printed. *)
LEMMA OutputKept == ASSUME NEW c, NEW m, Output(c, m), UNCHANGED output PROVE Output(c, m)'
  BY DEF Output, ToConsole, ToBuffer, output

(* The buffer is within its bounds. *)
LEMMA OutputBounds ==
    ASSUME NEW c \in Calls, NEW m \in Nat, Output(c, m)
    PROVE  b.buf \in 0..b.ebuf /\ b.ebuf \in {0, c.size - 1} /\ b.cnt \in Nat
<1>1. CASE c.function = "vcprintf" /\ ToConsole(c, m)
  BY <1>1 DEF ToConsole
<1>2. CASE c.function = "vsnprintf" /\ ToBuffer(c, m)
  <2>1. PICK z \in Nat : z = c.size /\ z # 0
    BY <1>2, LegalCall DEF ToBuffer
  <2>2. Stored(c, m) \in 0..(z - 1)
    BY <2>1 DEF Stored
  <2>3. b.buf = Stored(c, m) /\ b.ebuf = z - 1 /\ b.cnt = m
    BY <1>2, <2>1 DEF ToBuffer
  <2> QED
    BY <2>1, <2>2, <2>3
<1> QED
  BY <1>1, <1>2 DEF Output

(* The end of the format ends the call: the console has the whole text, or the
   buffer as much of it as fits, with a Nul behind it. *)
LEMMA EndReturns ==
    ASSUME NEW c \in Calls, call = c, FormatCall(c), Output(c, Len(Printout(c))), end, Bounds(c)
    PROVE  Done(c)'
<1>1. /\ str' = IF c.function = "vsnprintf" THEN [str EXCEPT ![b.buf] = Nul] ELSE str
      /\ pc' = "returned" /\ value' = Number(b.cnt)
      /\ UNCHANGED <<call, at, directive, ap, b, shown>>
  BY Zenon DEF end, Returned, Number
<1>2. Bounds(c)'
  BY <1>1 DEF Bounds, Settings, directive
<1>3. PICK n \in Nat : n = Len(Printout(c)) /\ Printout(c) = [i \in 1..n |-> Printout(c)[i]]
  BY TextIsSeq, SeqIsFunction
<1>4. CASE c.function = "vcprintf" /\ ToConsole(c, n)
  <2>1. shown' = Printout(c)
    BY <1>1, <1>3, <1>4 DEF ToConsole, Beginning
  <2>2. str' = Untouched /\ value' = Number(n)
    BY <1>1, <1>4 DEF ToConsole
  <2> QED
    BY <1>1, <1>2, <1>3, <1>4, <2>1, <2>2 DEF Done, Results
<1>5. CASE c.function = "vsnprintf" /\ ToBuffer(c, n)
  <2>1. PICK z \in Nat : z = c.size /\ z # 0 /\ z < Room /\ Room \in Nat
    BY <1>5, LegalCall DEF ToBuffer
  <2>2. PICK s \in Nat : s = Stored(c, n) /\ s < z
    <3>1. Stored(c, n) \in Nat /\ Stored(c, n) < z
      BY <2>1 DEF Stored
    <3> QED
      BY <3>1
  <2>3. b.buf = s /\ b.cnt = n /\ shown = << >> /\ str = [i \in 0..(Room - 1) |-> IF i < s THEN Printout(c)[i + 1] ELSE "before"]
    BY <1>5, <2>2 DEF ToBuffer
  <2>4. str' = [i \in 0..(Room - 1) |-> IF i < s THEN Printout(c)[i + 1] ELSE IF i = s THEN Nul ELSE "before"]
    <3>1. str' = [str EXCEPT ![s] = Nul]
      BY <1>1, <1>5, <2>3
    <3>2. DOMAIN str = 0..(Room - 1)
      BY <2>3
    <3>3. str' = [i \in 0..(Room - 1) |-> IF i = s THEN Nul ELSE str[i]]
      BY <3>1, <3>2
    <3>4. \A i \in 0..(Room - 1) : (IF i = s THEN Nul ELSE str[i])
                                       = IF i < s THEN Printout(c)[i + 1] ELSE IF i = s THEN Nul ELSE "before"
      BY <2>3
    <3> QED
      BY <3>3, <3>4, Zenon
  <2>5. str' = Buffer(c)
    BY <1>3, <2>2, <2>4, Zenon DEF Buffer
  <2>6. ~NoRoom(c) /\ shown' = << >> /\ value' = Number(n)
    BY <1>1, <1>5, <2>3 DEF ToBuffer, NoRoom
  <2> QED
    BY <1>1, <1>2, <1>3, <1>5, <2>5, <2>6, Zenon DEF Done, Results
<1> QED
  BY <1>3, <1>4, <1>5 DEF Output

(* A call that is between two directives, or within one, is within its bounds. *)
LEMMA TextBounds ==
    ASSUME NEW c \in Calls, NEW k \in 1..(Count(c) + 1), InText(c, k)
    PROVE  Bounds(c)
<1>1. PICK r \in Nat : Plain(c, k, r) /\ at = Place(c, k) - r /\ Output(c, Said(c, k) - r)
  BY DEF InText
<1>2. Settings /\ ap = ArgAt(c)[k - 1] + 1
  BY DEF InText
<1>3. LiesBefore(c, k)
  BY CallLies
<1>4. PICK p \in Nat, q \in Nat, l \in Nat, a \in Nat, la \in Nat :
          /\ p = Place(c, k) /\ q = Said(c, k) /\ l = Len(Spelled(c)) /\ a = ArgAt(c)[k - 1]
          /\ la = Len(FlattenSeq(ArgumentsOf(c))) /\ r < p /\ r <= q /\ p <= l + 1 /\ a <= la
  BY <1>1, <1>3 DEF LiesBefore, Plain
<1>5. q - r \in Nat /\ p - r \in 1..(l + 2) /\ a + 1 \in 1..(la + 1)
  <2>1. r < p /\ r <= q /\ p <= l + 1 /\ a <= la
    BY <1>4, Zenon
  <2> QED
    BY <2>1
<1>6. b.buf \in 0..b.ebuf /\ b.ebuf \in {0, c.size - 1} /\ b.cnt \in Nat
  BY <1>1, <1>4, <1>5, OutputBounds
<1> QED
  BY <1>1, <1>2, <1>4, <1>5, <1>6, Zenon DEF Bounds

(* The reader of a directive stays inside the format. *)
LEMMA ReaderInside ==
    ASSUME NEW f \in Nat, NEW e \in Nat, NEW w \in Nat, NEW l \in Nat, e <= w, (f + 1) + w - 1 <= l, NEW i \in 0..e
    PROVE  (f + 1) + i \in 1..(l + 2)
  OBVIOUS

(* The end of a directive before its conversion is behind its %, and not behind
   its conversion. *)
LEMMA EndOfLongs ==
    ASSUME NEW f \in Nat, NEW w \in Nat, NEW p \in Nat, NEW l \in 0..2, NEW m \in 0..1
    PROVE  /\ 1 + f + w + p + l \in Nat /\ 1 + f + w + p + l >= 1
           /\ 1 + f + w + p + l + m \in Nat /\ 1 + f + w + p + l <= 1 + f + w + p + l + m
  OBVIOUS

(* A reader inside its directive is within the bounds of the state. *)
LEMMA AtBounds ==
    ASSUME NEW c \in Calls, NEW k \in 1..Count(c), NEW d, d = c.directives[k],
           NEW off \in 0..LongsEnd(d), NEW wide \in Int, NEW exact \in Int, NEW longs \in 0..2,
           NEW taken \in 0..Len(d.stars), At(c, k, off, wide, exact, longs, taken),
           padc \in {Blank, "-", "0"}, altflag \in 0..1
    PROVE  Bounds(c)
<1>1. PICK n \in Nat : n = Count(c)
  BY LegalCall
<1>2. k \in 1..(n + 1)
  BY <1>1
<1>3. LiesBefore(c, k) /\ LiesBehind(c, k, d) /\ LegalDirective(d)
  BY <1>1, <1>2, CallLies, LegalCall
<1>4. PICK p \in Nat, q \in Nat, l \in Nat, a \in Nat, la \in Nat, f \in Nat :
          /\ p = Place(c, k) /\ q = Said(c, k) /\ l = Len(Spelled(c)) /\ a = ArgAt(c)[k - 1]
          /\ la = Len(FlattenSeq(ArgumentsOf(c)))
          /\ f = FmtAt(c)[k - 1] + Len(Before(c, k)) /\ p = f + 1
  <2>1. PICK f0 \in Nat, t0 \in Nat, m \in Nat : f0 = FmtAt(c)[k - 1] /\ t0 = TxtAt(c)[k - 1] /\ m = Len(Before(c, k))
    BY <1>3, Zenon DEF LiesBefore
  <2>2. PICK f \in Nat, q \in Nat : f = f0 + m /\ q = t0 + m
    OBVIOUS
  <2>3. PICK p \in Nat : p = f + 1
    OBVIOUS
  <2>4. p = Place(c, k) /\ q = Said(c, k)
    BY <2>1, <2>2, <2>3, Zenon DEF Place, Said
  <2>5. ArgAt(c)[k - 1] \in Nat /\ Len(Spelled(c)) \in Nat /\ Len(FlattenSeq(ArgumentsOf(c))) \in Nat
    BY <1>3, Zenon DEF LiesBefore
  <2> QED
    BY <2>1, <2>2, <2>3, <2>4, <2>5, Zenon
<1>5. PICK e \in Nat, w \in Nat : e = LongsEnd(d) /\ w = Len(Written(d)) /\ e <= w /\ p + w - 1 <= l /\ e >= 1
  <2>1. SpelledSo(Written(d), d)
    BY <1>3, WrittenIs
  <2>2. PICK nf \in Nat, nw \in Nat, np \in Nat, nl \in 0..2, nc \in 0..1 :
            /\ nf = Len(d.flags) /\ nw = Len(WidthField(d)) /\ np = Len(PrecisionField(d)) /\ nl = d.longs
            /\ nc = Len(d.conv)
    BY <2>1 DEF SpelledSo
  <2>3. LongsEnd(d) = 1 + nf + nw + np + nl /\ Len(Written(d)) = 1 + nf + nw + np + nl + nc
    BY <2>1, <2>2 DEF SpelledSo, FlagsEnd, WidthEnd, PrecisionEnd, LongsEnd
  <2>4. /\ LongsEnd(d) \in Nat /\ LongsEnd(d) >= 1
        /\ Len(Written(d)) \in Nat /\ LongsEnd(d) <= Len(Written(d))
    <3>1. /\ 1 + nf + nw + np + nl \in Nat /\ 1 + nf + nw + np + nl >= 1
          /\ 1 + nf + nw + np + nl + nc \in Nat
          /\ 1 + nf + nw + np + nl <= 1 + nf + nw + np + nl + nc
      BY EndOfLongs
    <3> QED
      BY <2>3, <3>1, Zenon
  <2>5. PICK e \in Nat, w \in Nat : e = LongsEnd(d) /\ w = Len(Written(d)) /\ e <= w /\ e >= 1
    BY <2>4, Zenon
  <2>6. p + w - 1 <= l
    BY <1>3, <1>4, <2>5, Zenon DEF LiesBehind
  <2> QED
    BY <2>5, <2>6
<1>6. PICK s \in Nat : s = Len(d.stars) /\ a + s <= la
  <2>1. PICK s \in Nat, z \in Nat : s = Len(d.stars) /\ z = Len(Arguments(d)) /\ s <= z
    <3>1. /\ Len(Arguments(d)) = Len(d.stars) + (IF TakesOne(d) THEN 1 ELSE 0)
          /\ Len(d.stars) \in 0..2
      BY <1>3, ArgumentsAre, StarsAre
    <3>2. PICK s \in Nat : s = Len(d.stars)
      BY <3>1
    <3>3. PICK z \in Nat : z = s + (IF TakesOne(d) THEN 1 ELSE 0)
      OBVIOUS
    <3>4. s <= z
      BY <3>3
    <3>5. z = Len(Arguments(d))
      BY <3>1, <3>2, <3>3, Zenon
    <3> QED
      BY <3>2, <3>4, <3>5
  <2>2. a + z <= la
    BY <1>3, <1>4, <2>1, Zenon DEF LiesBehind
  <2>2a. s <= z
    BY <2>1
  <2>3. a + s <= la
    BY <2>2, <2>2a
  <2> QED
    BY <2>1, <2>3
<1>7. at = p + off /\ ap = a + 1 + taken /\ Output(c, q) /\ width \in Int /\ precision \in Int /\ lflag \in 0..2
  BY <1>4 DEF At
<1>8. at \in 1..(l + 2) /\ ap \in 1..(la + 1)
  <2>1. off \in 0..e /\ taken \in 0..s
    BY <1>5, <1>6
  <2>2. p + off \in 1..(l + 2)
    <3>1. e <= w /\ (f + 1) + w - 1 <= l /\ p = f + 1
      BY <1>4, <1>5, Zenon
    <3>2. (f + 1) + off \in 1..(l + 2)
      BY <2>1, <3>1, ReaderInside, Zenon
    <3> QED
      BY <3>1, <3>2, Zenon
  <2>3. a + 1 + taken \in 1..(la + 1)
    <3>1. a + s <= la
      BY <1>6, Zenon
    <3> QED
      BY <2>1, <3>1
  <2> QED
    BY <1>7, <2>2, <2>3
<1>9. b.buf \in 0..b.ebuf /\ b.ebuf \in {0, c.size - 1} /\ b.cnt \in Nat
  BY <1>7, OutputBounds
<1> QED
  BY <1>4, <1>7, <1>8, <1>9, Zenon DEF Bounds, Settings

(* A step between two directives. *)
LEMMA PercentSets ==
    ASSUME percent
    PROVE  /\ padc' = Blank /\ width' = -1 /\ precision' = -1 /\ lflag' = 0 /\ altflag' = 0
           /\ at' = at + 1 /\ pc' = "reswitch" /\ UNCHANGED <<call, ap, output>>
  BY Zenon DEF percent, Reset, Blank

(* A step over text between two directives, to the next one or to the end, keeps the
   state. *)
LEMMA TextStep ==
    ASSUME NEW c \in Calls, call = c, FormatCall(c), NEW k \in 1..(Count(c) + 1), InText(c, k), FormatNext
    PROVE  State(c)' /\ UNCHANGED call
<1>1. PICK r \in Nat : Plain(c, k, r) /\ at = Place(c, k) - r /\ Output(c, Said(c, k) - r)
  BY DEF InText
<1>2. Settings /\ ap = ArgAt(c)[k - 1] + 1 /\ pc = "text"
  BY DEF InText
<1>3. PICK n \in Nat : n = Count(c)
  BY LegalCall
<1>4. LiesBefore(c, k)
  BY CallLies
<1>5. PICK p \in Nat, q \in Nat : p = Place(c, k) /\ q = Said(c, k)
  BY <1>1 DEF Plain
<1>6. r < p /\ r <= q
  BY <1>1, <1>5 DEF Plain
<1>7. ch = Character(c, p - r) /\ at = p - r
  BY <1>1, <1>5, ReadsHere
<1>8. CASE r # 0
  <2>1. PICK s \in Nat, m \in Nat : s = r - 1 /\ m = q - r
    BY <1>6, <1>8
  <2>2. Character(c, p - r) = Printout(c)[q - r + 1] /\ Character(c, p - r) \notin {"%", Nul}
    <3>1. r \in 1..r
      BY <1>8
    <3> QED
      BY <1>1, <1>5, <3>1 DEF Plain
  <2>3. text
    BY <1>2, <1>7, <2>2, Dispatch
  <2>4. putch(<< ch >>) /\ at' = at + 1 /\ UNCHANGED <<call, pc, directive, ap>>
    BY <2>3 DEF text
  <2>5. Output(c, m + 1)'
    <3>1. IsSeq(<< ch >>) /\ Len(<< ch >>) = 1 /\ << ch >>[1] = ch
      BY OneCharacter
    <3>2. ch = Printout(c)[m + 1]
      BY <1>7, <2>1, <2>2
    <3>3. \A j \in 1..Len(<< ch >>) : << ch >>[j] = Printout(c)[m + j]
      <4>1. \A j \in 1..1 : j = 1
        OBVIOUS
      <4> QED
        BY <3>1, <3>2, <4>1, Zenon
    <3>4. Output(c, m)
      BY <1>1, <1>5, <2>1
    <3>5. Output(c, m + Len(<< ch >>))'
      BY <2>4, <3>1, <3>3, <3>4, Putched
    <3> QED
      BY <3>1, <3>5
  <2>6. Plain(c, k, s)
    <3>1. s < p /\ s <= q /\ \A i \in 1..s : i \in 1..r
      BY <1>6, <2>1
    <3> QED
      BY <1>1, <1>5, <3>1, Zenon DEF Plain
  <2>7. at' = p - s /\ m + 1 = q - s
    BY <1>7, <2>1, <2>4
  <2>8. pc' = "text" /\ Settings' /\ ap' = ArgAt(c)[k - 1] + 1
    BY <1>2, <2>4 DEF Settings, directive
  <2>9. InText(c, k)'
    BY <1>5, <2>5, <2>6, <2>7, <2>8, Zenon DEF InText
  <2> QED
    BY <2>4, <2>9, Zenon DEF State, Writing
<1>9. CASE r = 0 /\ k # n + 1
  <2>1. k \in 1..n
    BY <1>3, <1>9
  <2>2. PICK d : d = c.directives[k] /\ Spells(c, p, d)
    BY <1>3, <1>5, <2>1, DirectiveSpelled
  <2>3. ch = "%" /\ at = p
    <3>1. p - r = p
      BY <1>9
    <3> QED
      BY <1>7, <2>2, <3>1 DEF Spells, SpellsFlags
  <2>4. percent
    BY <1>2, <2>3, Dispatch DEF Nul
  <2>5. /\ padc' = Blank /\ width' = -1 /\ precision' = -1 /\ lflag' = 0 /\ altflag' = 0
        /\ at' = at + 1 /\ pc' = "reswitch" /\ UNCHANGED <<call, ap, output>>
    BY <2>4, PercentSets
  <2>6. MarkedBy(d, 0, padc', altflag')
    BY <2>5, MarkedByNone
  <2>7. Output(c, q)'
    <3>1. q - r = q
      BY <1>9
    <3>2. Output(c, q)
      BY <1>1, <1>5, <3>1
    <3> QED
      BY <2>5, <3>2, OutputKept
  <2>8. At(c, k, 1 + 0, -1, -1, 0, 0)'
    <3>1. at' = p + (1 + 0) /\ ap' = ArgAt(c)[k - 1] + 1 + 0
      <4>1. ArgAt(c)[k - 1] \in Nat
        BY <1>4 DEF LiesBefore
      <4> QED
        BY <1>2, <2>3, <2>5, <4>1
    <3> QED
      BY <1>5, <2>5, <2>7, <3>1 DEF At
  <2>9. 0 \in 0..Len(d.flags)
    BY <2>2 DEF Spells
  <2>10. InFlags(c, k, d)'
    BY <2>5, <2>6, <2>8, <2>9 DEF InFlags
  <2> QED
    BY <1>3, <2>1, <2>2, <2>5, <2>10 DEF State, Writing, InDirective
<1>10. CASE r = 0 /\ k = n + 1
  <2>1. p - r = p /\ q - r = q
    BY <1>10
  <2>2. Character(c, p) = Nul /\ q = Len(Printout(c))
    BY <1>3, <1>4, <1>5, <1>10 DEF LiesBefore
  <2>3. end
    BY <1>2, <1>7, <2>1, <2>2, Dispatch DEF Nul
  <2>4. Output(c, Len(Printout(c)))
    BY <1>1, <1>5, <2>1, <2>2
  <2>5. Bounds(c)
    BY TextBounds
  <2>6. Done(c)'
    BY <2>3, <2>4, <2>5, EndReturns
  <2>7. UNCHANGED call
    BY <2>3 DEF end
  <2> QED
    BY <2>6, <2>7 DEF State
<1> QED
  BY <1>8, <1>9, <1>10

(* What the conversions print, in the terms that they are reasoned about with. *)
LEMMA ConversionsAre ==
    /\ e_error => LET err == IF arg.number < 0 THEN WrapSigned(-arg.number, Word) ELSE arg.number
                  IN Convert("e", 1, ErrorPrinted(err, ((err * 4) % Word) \div 4))
    /\ s_string => Convert("s", 1, StringPrinted(arg.text, width, precision, padc, altflag))
    /\ d_signed => Convert("d", 1, SignedPrinted(getint, width, padc))
<1>1. d_signed => Convert("d", 1, SignedPrinted(getint, width, padc))
  BY Zenon DEF d_signed, SignedPrinted
<1>2. s_string => Convert("s", 1, StringPrinted(arg.text, width, precision, padc, altflag))
  BY Zenon DEF s_string, StringPrinted, Strnlen, Chars, CleanChar, Whole, Blank
<1>3. e_error => LET err == IF arg.number < 0 THEN WrapSigned(-arg.number, Word) ELSE arg.number
                  IN Convert("e", 1, ErrorPrinted(err, ((err * 4) % Word) \div 4))
  BY Zenon DEF e_error, ErrorPrinted, ErrorMark, decimal, SignedPrinted
<1> QED
  BY <1>1, <1>2, <1>3, Zenon

(* A directive's last character: what it stands for is printed, with its own
   settings and its own argument. *)
Set(d) ==
    /\ padc = Pad(d) /\ altflag = Alt(d) /\ width = Columns(d) /\ precision = Precision(d) /\ lflag = d.longs
    /\ TakesOne(d) => arg = Taken(d)

(* Each case of the switch that prints takes the directive's argument and prints its
   text. *)
LEMMA ConversionPrints ==
    ASSUME NEW d, LegalDirective(d), Set(d), pc = "reswitch", ch = Ending(d), FormatNext, ch \in Cases
    PROVE  Convert(ch, IF TakesOne(d) THEN 1 ELSE 0, DirectivePrinted(d))
<1>1. Ending(d) = Conversion(d)
  <2>1. CASE d.conv = << >>
    <3>1. ch = Nul
      BY <2>1 DEF Ending
    <3>2. Nul \notin Cases
      BY DigitsAre DEF Cases, Nul, Marks
    <3> QED
      BY <3>1, <3>2
  <2>2. CASE d.conv # << >>
    BY <2>2 DEF Ending
  <2> QED
    BY <2>1, <2>2
<1>2. ch = Conversion(d) /\ Conversion(d) \notin {"-", "#", ".", "*", "l"} \cup Digits
  BY <1>1 DEF LegalDirective
<1>3. "0" \in Digits /\ \A m \in Marks : m \notin Digits
  BY DigitsAre
<1>4. \/ ch = "c" /\ c_character
      \/ ch = "%" /\ percent_sign
      \/ ch = "e" /\ e_error
      \/ ch = "s" /\ s_string
      \/ ch = "d" /\ d_signed
      \/ ch \in {"u", "o", "x"} /\ uox_unsigned
      \/ ch = "p" /\ p_pointer
  BY <1>2, <1>3, Dispatch
<1>5. Taken(d).number = d.number /\ Taken(d).text = d.text
  BY DEF Taken
<1>6. /\ padc = Pad(d) /\ altflag = Alt(d) /\ width = Columns(d) /\ precision = Precision(d) /\ lflag = d.longs
      /\ TakesOne(d) => arg.number = d.number /\ arg.text = d.text
  BY <1>5 DEF Set
<1>7. d.longs \in 0..2
  BY DEF LegalDirective, DirectiveType
<1>8. CASE ch = "c" /\ c_character
  <2>1. TakesOne(d) /\ DirectivePrinted(d) = d.text
    BY <1>2, <1>8, TextIsBy, PrintedBy DEF TakesOne, Numeric
  <2> QED
    BY <1>6, <1>8, <2>1, Zenon DEF c_character
<1>9. CASE ch = "%" /\ percent_sign
  <2>1. ~TakesOne(d) /\ DirectivePrinted(d) = << "%" >>
    BY <1>2, <1>9, TextIsBy, PrintedBy DEF TakesOne, Numeric
  <2> QED
    BY <1>9, <2>1, Zenon DEF percent_sign
<1>10. CASE ch = "e" /\ e_error
  <2> DEFINE err == IF d.number < 0 THEN WrapSigned(-d.number, Word) ELSE d.number
  <2>1. TakesOne(d) /\ DirectivePrinted(d) = ErrorText(d.number) /\ d.number \in Signed(Word)
    BY <1>2, <1>10, TextIsBy, PrintedBy DEF TakesOne, LegalDirective, Numeric
  <2>2. ErrorText(d.number) = ErrorPrinted(err, ((err * 4) % Word) \div 4)
    BY <2>1, ErrorsPrinted
  <2>3. LET e == IF arg.number < 0 THEN WrapSigned(-arg.number, Word) ELSE arg.number
        IN Convert("e", 1, ErrorPrinted(e, ((e * 4) % Word) \div 4))
    BY <1>10, ConversionsAre, Zenon
  <2>4. Convert("e", 1, ErrorPrinted(err, ((err * 4) % Word) \div 4))
    BY <1>6, <2>1, <2>3, Zenon
  <2> QED
    BY <1>10, <2>1, <2>2, <2>4, Zenon
<1>11. CASE ch = "s" /\ s_string
  <2>1. TakesOne(d) /\ DirectivePrinted(d) = StringText(d)
    BY <1>2, <1>11, TextIsBy, PrintedBy DEF TakesOne, Numeric
  <2>2. Convert("s", 1, StringPrinted(d.text, Columns(d), Precision(d), Pad(d), Alt(d)))
    BY <1>6, <1>11, <2>1, ConversionsAre, Zenon
  <2>3. StringPrinted(d.text, Columns(d), Precision(d), Pad(d), Alt(d)) = StringText(d)
    BY StringsPrinted, Zenon DEF Alt
  <2> QED
    BY <1>11, <2>1, <2>2, <2>3, Zenon
<1>12. CASE ch = "d" /\ d_signed
  <2>1. TakesOne(d) /\ Conversion(d) \in Numeric
    BY <1>2, <1>12 DEF TakesOne, Numeric
  <2>2. DirectivePrinted(d) = SignedPrinted(Rewrapped(d), Columns(d), Pad(d))
    BY <1>2, <1>12, <2>1, PrintedBy
  <2>3. getint = Rewrapped(d)
    <3>1. (lflag >= 2) <=> (d.longs = 2)
      BY <1>6, <1>7
    <3> QED
      BY <1>6, <2>1, <3>1, Zenon DEF getint, Rewrapped, Size
  <2> QED
    BY <1>6, <1>12, <2>1, <2>2, <2>3, ConversionsAre, Zenon
<1>13. CASE ch \in {"u", "o", "x"} /\ uox_unsigned
  <2>1. TakesOne(d) /\ Conversion(d) \in Numeric
    BY <1>2, <1>13 DEF TakesOne, Numeric
  <2>2. DirectivePrinted(d) = printnum(Unwrapped(d), Base(Conversion(d)), Columns(d), Pad(d))
    BY <1>2, <1>13, <2>1, PrintedBy
  <2>3. getuint = Unwrapped(d)
    <3>1. (lflag >= 2) <=> (d.longs = 2)
      BY <1>6, <1>7
    <3> QED
      BY <1>6, <2>1, <3>1, Zenon DEF getuint, Unwrapped, Size
  <2>4. PICK conv \in {"u", "o", "x"} : Convert(conv, 1, printnum(getuint, Base(conv), width, padc))
    BY <1>13, Zenon DEF uox_unsigned
  <2>5. conv = ch
    BY <2>4, Zenon DEF Convert
  <2> QED
    BY <1>2, <1>6, <2>1, <2>2, <2>3, <2>4, <2>5, Zenon
<1>14. CASE ch = "p" /\ p_pointer
  <2>1. TakesOne(d) /\ Conversion(d) \in Numeric
    BY <1>2, <1>14 DEF TakesOne, Numeric
  <2>2. DirectivePrinted(d) = << "0", "x" >> \o printnum(Wrap(d.number, Word), 16, Columns(d), Pad(d))
    BY <1>2, <1>14, <2>1, PrintedBy
  <2> QED
    BY <1>6, <1>14, <2>1, <2>2, Zenon DEF p_pointer
<1> QED
  BY <1>4, <1>8, <1>9, <1>10, <1>11, <1>12, <1>13, <1>14

(* Where a directive ends: its arguments, its text, and the text behind it. *)
EndsAt(c, k, d, p, q, a, e, s, z, o, m) ==
    /\ p = Place(c, k) /\ q = Said(c, k) /\ a = ArgAt(c)[k - 1] /\ e = LongsEnd(d) /\ s = Len(d.stars)
    /\ z = Len(DirectivePrinted(d)) /\ o = (IF TakesOne(d) THEN 1 ELSE 0) /\ m = Len(Before(c, k + 1))
    /\ k + 1 \in 1..(Count(c) + 1) /\ ArgAt(c)[(k + 1) - 1] = a + s + o
    /\ Said(c, k + 1) - m = q + z
    /\ d.conv # << >> => Place(c, k + 1) - m = p + e + 1

(* Where a directive ends, in the format, in the arguments and in the text. *)
LEMMA BehindDirective ==
    ASSUME NEW c \in Calls, NEW k \in 1..Count(c), NEW d, d = c.directives[k]
    PROVE  \E p \in Nat, q \in Nat, a \in Nat, e \in Nat, s \in Nat, z \in Nat, o \in 0..1, m \in Nat :
               EndsAt(c, k, d, p, q, a, e, s, z, o, m)
<1>1. PICK n \in Nat : n = Count(c)
  BY LegalCall
<1>2. k \in 1..(n + 1) /\ k + 1 \in 1..(n + 1) /\ (k + 1) - 1 = k
  BY <1>1
<1>3. LiesBefore(c, k) /\ LiesBefore(c, k + 1) /\ LiesBehind(c, k, d) /\ LegalDirective(d)
  BY <1>1, <1>2, CallLies, LegalCall
<1>4. PICK f0 \in Nat, t0 \in Nat, l0 \in Nat, a \in Nat, m \in Nat :
          /\ f0 = FmtAt(c)[k - 1] /\ t0 = TxtAt(c)[k - 1] /\ l0 = Len(Before(c, k)) /\ a = ArgAt(c)[k - 1]
          /\ m = Len(Before(c, k + 1))
  BY <1>3, Zenon DEF LiesBefore
<1>5. PICK p \in Nat, q \in Nat : p = f0 + l0 + 1 /\ q = t0 + l0
  OBVIOUS
<1>6. p = Place(c, k) /\ q = Said(c, k)
  BY <1>4, <1>5, Zenon DEF Place, Said
<1>7. PICK e \in Nat : e = LongsEnd(d) /\ (d.conv # << >> => Len(Written(d)) = e + 1)
  <2>1. SpelledSo(Written(d), d)
    BY <1>3, WrittenIs
  <2>2. PICK nf \in Nat, nw \in Nat, np \in Nat, nl \in 0..2, nc \in 0..1 :
            /\ nf = Len(d.flags) /\ nw = Len(WidthField(d)) /\ np = Len(PrecisionField(d)) /\ nl = d.longs
            /\ nc = Len(d.conv)
    BY <2>1 DEF SpelledSo
  <2>3. LongsEnd(d) = 1 + nf + nw + np + nl /\ Len(Written(d)) = LongsEnd(d) + nc
    BY <2>1, <2>2 DEF SpelledSo, FlagsEnd, WidthEnd, PrecisionEnd, LongsEnd
  <2>4. PICK e \in Nat : e = 1 + nf + nw + np + nl
    OBVIOUS
  <2>5. e = LongsEnd(d)
    BY <2>3, <2>4
  <2>6. d.conv # << >> => nc = 1
    <3>1. d.conv \in Seq(STRING)
      BY <1>3 DEF LegalDirective, DirectiveType
    <3> QED
      BY <2>2, <3>1, EmptySeq
  <2>7. d.conv # << >> => Len(Written(d)) = e + 1
    BY <2>3, <2>5, <2>6, Zenon
  <2> QED
    BY <2>5, <2>7
<1>8. PICK s \in Nat, o \in 0..1 : s = Len(d.stars) /\ o = (IF TakesOne(d) THEN 1 ELSE 0) /\ Len(Arguments(d)) = s + o
  <2>1. PICK s \in Nat : s = Len(d.stars)
    BY <1>3, StarsAre
  <2>2. PICK o \in 0..1 : o = (IF TakesOne(d) THEN 1 ELSE 0)
    OBVIOUS
  <2>3. Len(Arguments(d)) = s + o
    BY <1>3, <2>1, <2>2, ArgumentsAre, Zenon
  <2> QED
    BY <2>1, <2>2, <2>3
<1>9. ArgAt(c)[k] = a + (s + o)
  BY <1>3, <1>4, <1>8, Zenon DEF LiesBehind
<1>10. PICK z \in Nat : z = Len(DirectivePrinted(d))
  BY <1>3, Zenon DEF LiesBehind
<1>11. TxtAt(c)[k] = q + z
  BY <1>3, <1>6, <1>10, Zenon DEF LiesBehind
<1>12. Said(c, k + 1) = (q + z) + m
  BY <1>2, <1>4, <1>11, Zenon DEF Said
<1>13. d.conv # << >> => Place(c, k + 1) = (p + (e + 1) - 1) + m + 1
  BY <1>2, <1>3, <1>4, <1>6, <1>7, Zenon DEF Place, LiesBehind
<1>14. /\ Said(c, k + 1) - m = q + z
       /\ d.conv # << >> => Place(c, k + 1) - m = p + e + 1
  <2>1. (q + z) + m - m = q + z /\ (p + (e + 1) - 1) + m + 1 - m = p + e + 1
    OBVIOUS
  <2> QED
    BY <1>12, <1>13, <2>1
<1>15. ArgAt(c)[(k + 1) - 1] = a + s + o
  <2>1. a + (s + o) = a + s + o
    OBVIOUS
  <2> QED
    BY <1>2, <1>9, <2>1, Zenon
<1>16. k + 1 \in 1..(Count(c) + 1)
  BY <1>1, <1>2
<1>17. EndsAt(c, k, d, p, q, a, e, s, z, o, m)
  BY <1>4, <1>6, <1>7, <1>8, <1>10, <1>14, <1>15, <1>16, Zenon DEF EndsAt
<1> QED
  BY <1>17

(* An unknown directive is gone back to behind its %. *)
LEMMA DefaultAgain ==
    ASSUME NEW c, call = c, NEW p \in Nat, NEW d, Spells(c, p, d), NEW e \in Nat, e = LongsEnd(d), p >= 1, e >= 1,
           at = p + e, default
    PROVE  at' = p + 1
<1>1. at' = CHOOSE i \in 2..at : Fmt[i - 1] = "%" /\ \A j \in i..(at - 1) : Fmt[j] # "%"
  BY Zenon DEF default
<1>2. \A i : Fmt[i] = Character(c, i)
  BY Zenon DEF Fmt, Character
<1>3. Character(c, p) = "%" /\ \A j \in 1..(e - 1) : Character(c, p + j) # "%"
  BY DEF Spells, SpellsFlags
<1>4. \A j \in (p + 1)..(p + e - 1) : Fmt[j] # "%"
  <2> TAKE j \in (p + 1)..(p + e - 1)
  <2>1. PICK i \in 1..(e - 1) : i = j - p /\ p + i = j
    OBVIOUS
  <2> QED
    BY <1>2, <1>3, <2>1, Zenon
<1>5. Fmt[p] = "%"
  BY <1>2, <1>3
<1>6. p + 1 \in 2..at /\ (p + 1) - 1 = p /\ at - 1 = p + e - 1
  OBVIOUS
<1>7. ASSUME NEW i \in 2..at, Fmt[i - 1] = "%", \A j \in i..(at - 1) : Fmt[j] # "%"
      PROVE  i = p + 1
  <2>1. i - 1 \notin (p + 1)..(p + e - 1)
    BY <1>4, <1>7
  <2>2. p \notin i..(at - 1)
    BY <1>5, <1>7
  <2> QED
    BY <2>1, <2>2
<1> QED
  BY <1>1, <1>4, <1>5, <1>6, <1>7

(* A step among the longs of a directive, and its last one. *)
LEMMA ConvertStep ==
    ASSUME NEW c \in Calls, call = c, FormatCall(c), NEW k \in 1..Count(c), NEW d, d = c.directives[k],
           at = Place(c, k) + LongsEnd(d), ap = ArgAt(c)[k - 1] + 1 + Len(d.stars), Settings,
           Output(c, Said(c, k)), d.conv # << >>,
           Convert(ch, IF TakesOne(d) THEN 1 ELSE 0, DirectivePrinted(d))
    PROVE  State(c)' /\ UNCHANGED call
<1>1. PICK p \in Nat, q \in Nat, a \in Nat, e \in Nat, s \in Nat, z \in Nat, o \in 0..1, m \in Nat :
          EndsAt(c, k, d, p, q, a, e, s, z, o, m)
  BY BehindDirective
<1>2. /\ p = Place(c, k) /\ q = Said(c, k) /\ a = ArgAt(c)[k - 1] /\ e = LongsEnd(d) /\ s = Len(d.stars)
      /\ z = Len(DirectivePrinted(d)) /\ o = (IF TakesOne(d) THEN 1 ELSE 0) /\ m = Len(Before(c, k + 1))
      /\ k + 1 \in 1..(Count(c) + 1) /\ ArgAt(c)[(k + 1) - 1] = a + s + o
      /\ Said(c, k + 1) - m = q + z /\ Place(c, k + 1) - m = p + e + 1
  BY <1>1, Zenon DEF EndsAt
<1>3. /\ putch(DirectivePrinted(d)) /\ at' = at + 1 /\ ap' = ap + o /\ pc' = "text"
      /\ UNCHANGED <<call, directive>>
  BY <1>2, Zenon DEF Convert
<1>4. at' = p + e + 1 /\ ap' = (a + s + o) + 1
  <2>1. at = p + e /\ ap = a + 1 + s
    BY <1>2, Zenon
  <2>2. at' = at + 1 /\ ap' = ap + o
    BY <1>3
  <2>3. (p + e) + 1 = p + e + 1 /\ (a + 1 + s) + o = (a + s + o) + 1
    OBVIOUS
  <2> QED
    BY <2>1, <2>2, <2>3, Zenon
<1>5. Output(c, q + z)'
  <2>1. IsSeq(DirectivePrinted(d)) /\ \A j \in 1..z : DirectivePrinted(d)[j] = Printout(c)[q + j]
    <3>1. LegalDirective(d) /\ LiesBehind(c, k, d)
      BY LegalCall, CallLies
    <3>2. \A j \in 1..z : DirectivePrinted(d)[j] = Printout(c)[q + j]
      BY <1>2, <3>1, Zenon DEF LiesBehind
    <3> QED
      BY <3>1, <3>2, DirectivePrintedIsSeq
  <2>2. Output(c, q)
    BY <1>2, Zenon
  <2>3. \A j \in 1..Len(DirectivePrinted(d)) : DirectivePrinted(d)[j] = Printout(c)[q + j]
    BY <1>2, <2>1, Zenon
  <2>4. Output(c, q + Len(DirectivePrinted(d)))'
    BY <1>3, <2>1, <2>2, <2>3, Putched
  <2> QED
    BY <1>2, <2>4, Zenon
<1>6. Plain(c, k + 1, m)
  BY <1>2, PlainBefore, Zenon
<1>7. Settings'
  BY <1>3 DEF Settings, directive
<1>8. ap' = ArgAt(c)[(k + 1) - 1] + 1 /\ at' = Place(c, k + 1) - m /\ Output(c, Said(c, k + 1) - m)'
  BY <1>2, <1>4, <1>5, Zenon
<1>9. InText(c, k + 1)'
  BY <1>3, <1>6, <1>7, <1>8, Zenon DEF InText
<1> QED
  BY <1>2, <1>3, <1>9, Zenon DEF State, Writing

(* An unknown conversion sends the reader back behind its %, with the % printed. *)
LEMMA DefaultStep ==
    ASSUME NEW c \in Calls, call = c, FormatCall(c), NEW k \in 1..Count(c), NEW d, d = c.directives[k],
           at = Place(c, k) + LongsEnd(d), ap = ArgAt(c)[k - 1] + 1 + Len(d.stars), Settings,
           Output(c, Said(c, k)), Ending(d) \notin Cases, default
    PROVE  State(c)' /\ UNCHANGED call
<1>1. PICK p \in Nat, q \in Nat, a \in Nat, e \in Nat, s \in Nat, z \in Nat, o \in 0..1, m \in Nat :
          EndsAt(c, k, d, p, q, a, e, s, z, o, m)
  BY BehindDirective
<1>2. /\ p = Place(c, k) /\ q = Said(c, k) /\ a = ArgAt(c)[k - 1] /\ e = LongsEnd(d) /\ s = Len(d.stars)
      /\ o = (IF TakesOne(d) THEN 1 ELSE 0)
      /\ k + 1 \in 1..(Count(c) + 1) /\ ArgAt(c)[(k + 1) - 1] = a + s + o
  BY <1>1, Zenon DEF EndsAt
<1>3. PICK r : /\ Plain(c, k + 1, r) /\ Place(c, k + 1) - r = p + 1 /\ Said(c, k + 1) - r = q + 1
               /\ Printout(c)[q + 1] = "%"
  BY <1>2, PlainAgain
<1>4. /\ putch(<< "%" >>) /\ pc' = "text" /\ UNCHANGED <<call, directive, ap, value>>
  BY Zenon DEF default
<1>5. at' = p + 1
  <2>1. Spells(c, p, d)
    BY <1>2, DirectiveSpelled
  <2>2. p >= 1 /\ e >= 1
    <3>1. Plain(c, k + 1, r) /\ r \in Nat
      BY <1>3 DEF Plain
    <3>2. e >= 1
      <4>1. PICK nf \in Nat, nw \in Nat, np \in Nat, nl \in 0..2 :
                nf = Len(d.flags) /\ nw = Len(WidthField(d)) /\ np = Len(PrecisionField(d)) /\ nl = d.longs
        BY <2>1 DEF Spells
      <4>2. LongsEnd(d) = 1 + nf + nw + np + nl
        BY <4>1 DEF FlagsEnd, WidthEnd, PrecisionEnd, LongsEnd
      <4>3. 1 + nf + nw + np + nl >= 1
        OBVIOUS
      <4> QED
        BY <1>2, <4>2, <4>3, Zenon
    <3>3. p >= 1
      <4>1. LiesBefore(c, k)
        <5>1. PICK n \in Nat : n = Count(c)
          BY LegalCall
        <5> QED
          BY <5>1, CallLies
      <4>2. PICK f0 \in Nat, l0 \in Nat : f0 = FmtAt(c)[k - 1] /\ l0 = Len(Before(c, k))
        BY <4>1, Zenon DEF LiesBefore
      <4>3. p = f0 + l0 + 1
        BY <1>2, <4>2, Zenon DEF Place
      <4> QED
        BY <4>3
    <3> QED
      BY <3>2, <3>3
  <2>3. at = p + e
    BY <1>2, Zenon
  <2> QED
    BY <1>2, <2>1, <2>2, <2>3, DefaultAgain
<1>6. Output(c, q + 1)'
  <2> DEFINE x == "%"
  <2>1. IsSeq(<< x >>) /\ Len(<< x >>) = 1 /\ << x >>[1] = x
    BY OneCharacter
  <2>2. putch(<< x >>) /\ Printout(c)[q + 1] = x
    BY <1>3, <1>4
  <2> HIDE DEF x
  <2>3. \A j \in 1..Len(<< x >>) : << x >>[j] = Printout(c)[q + j]
    <3>1. \A j \in 1..1 : j = 1
      OBVIOUS
    <3> QED
      BY <2>1, <2>2, <3>1, Zenon
  <2>4. Output(c, q)
    BY <1>2, Zenon
  <2>5. Output(c, q + Len(<< x >>))'
    BY <2>1, <2>2, <2>3, <2>4, Putched
  <2> QED
    BY <2>1, <2>5
<1>7. o = 0
  <2>1. ~TakesOne(d)
    <3>1. CASE d.conv = << >>
      BY <3>1 DEF TakesOne, Conversion, Numeric
    <3>2. CASE d.conv # << >>
      BY <3>2 DEF TakesOne, Ending, Cases, Numeric
    <3> QED
      BY <3>1, <3>2
  <2> QED
    BY <1>2, <2>1
<1>8. ap' = ArgAt(c)[(k + 1) - 1] + 1
  <2>1. ap = a + 1 + s
    BY <1>2, Zenon
  <2>2. a + 1 + s = (a + s + o) + 1
    BY <1>7
  <2>3. ap' = ap
    BY <1>4
  <2> QED
    BY <1>2, <2>1, <2>2, <2>3, Zenon
<1>9. Settings'
  BY <1>4 DEF Settings, directive
<1>10. at' = Place(c, k + 1) - r /\ Output(c, Said(c, k + 1) - r)' /\ r \in Nat
  <2>1. r \in Nat
    BY <1>3 DEF Plain
  <2> QED
    BY <1>3, <1>5, <1>6, <2>1, Zenon
<1>11. InText(c, k + 1)'
  BY <1>3, <1>4, <1>8, <1>9, <1>10, Zenon DEF InText
<1> QED
  BY <1>2, <1>4, <1>11, Zenon DEF State, Writing

(* Any other character is gone back from. *)
LEMMA UnknownStep == ASSUME pc = "reswitch", ch \notin Cases, FormatNext PROVE default
<1>1. ch \notin {"-", "#", "l", ".", "*", "c", "%", "e", "s", "d", "u", "o", "x", "p"} /\ ch \notin Digits
  BY DEF Cases
<1>2. "0" \in Digits
  BY DigitsAre
<1>3. \/ ch \in {"-", "0"} /\ pad_flag
      \/ ch = "#" /\ alt_flag
      \/ ch = "l" /\ long_flag
      \/ ch = "." /\ point
      \/ ch = "*" /\ star
      \/ ch \in Digits \ {"0"} /\ number_begins
      \/ ch = "c" /\ c_character
      \/ ch = "%" /\ percent_sign
      \/ ch = "e" /\ e_error
      \/ ch = "s" /\ s_string
      \/ ch = "d" /\ d_signed
      \/ ch \in {"u", "o", "x"} /\ uox_unsigned
      \/ ch = "p" /\ p_pointer
      \/ ch \notin Cases /\ default
  BY Dispatch, Zenon
<1> QED
  BY <1>1, <1>2, <1>3

(* A step behind precision and width, over an l or to the conversion, keeps the state. *)
LEMMA LongsStep ==
    ASSUME NEW c \in Calls, call = c, FormatCall(c), NEW k \in 1..Count(c), NEW d, d = c.directives[k],
           InLongs(c, k, d), FormatNext
    PROVE  State(c)' /\ UNCHANGED call
<1>1. /\ LegalDirective(d) /\ LiesBehind(c, k, d) /\ Spells(c, Place(c, k), d)
      /\ d.longs \in 0..2 /\ Width(d) \in Int /\ Precision(d) \in Int /\ Columns(d) \in Int
  BY LegalCall, CallLies, DirectiveSpelled, StarsAre DEF LegalDirective, DirectiveType
<1>2. PICK i \in 0..d.longs : At(c, k, PrecisionEnd(d) + i, Columns(d), Precision(d), i, Len(d.stars))
  BY DEF InLongs
<1>3. pc = "reswitch" /\ Marked(d)
  BY DEF InLongs
<1>4. /\ at = Place(c, k) + (PrecisionEnd(d) + i) /\ ap = ArgAt(c)[k - 1] + 1 + Len(d.stars)
      /\ width = Columns(d) /\ precision = Precision(d) /\ lflag = i /\ Output(c, Said(c, k))
  BY <1>2, Zenon DEF At
<1>5. PICK l \in 0..2 : l = d.longs
  BY <1>1
<1>6. PICK p \in Nat, q \in Nat, a \in Nat, e \in Nat, s \in Nat, z \in Nat, o \in 0..1, m \in Nat :
          EndsAt(c, k, d, p, q, a, e, s, z, o, m)
  BY BehindDirective
<1>7. p = Place(c, k) /\ a = ArgAt(c)[k - 1] /\ e = LongsEnd(d) /\ s = Len(d.stars)
  BY <1>6, Zenon DEF EndsAt
<1>8. PICK pe \in Nat : pe = PrecisionEnd(d) /\ e = pe + l
  <2>1. PICK nf \in Nat, nw \in Nat, np \in Nat :
            nf = Len(d.flags) /\ nw = Len(WidthField(d)) /\ np = Len(PrecisionField(d))
    BY <1>1 DEF Spells
  <2>2. PrecisionEnd(d) = 1 + nf + nw + np
    BY <2>1 DEF FlagsEnd, WidthEnd, PrecisionEnd
  <2>3. PICK pe \in Nat : pe = 1 + nf + nw + np
    OBVIOUS
  <2>4. e = pe + l /\ pe = PrecisionEnd(d)
    BY <1>5, <1>7, <2>2, <2>3, Zenon DEF LongsEnd
  <2> QED
    BY <2>4
<1>9. at = p + (pe + i) /\ ch = Character(c, p + (pe + i))
  <2>1. at = p + (pe + i)
    BY <1>4, <1>7, <1>8, Zenon
  <2> QED
    BY <2>1, ReadsHere
<1>10. CASE i # l
  <2>1. i \in 0..(l - 1)
    BY <1>5, <1>10
  <2>2. ch = "l"
    <3>1. p + (pe + i) = p + pe + i
      OBVIOUS
    <3>2. Character(c, p + pe + i) = "l"
      BY <1>1, <1>5, <1>7, <1>8, <2>1, Zenon DEF Spells, SpellsEnd
    <3> QED
      BY <1>9, <3>1, <3>2
  <2>3. long_flag
    <3>1. "l" \notin Digits
      BY DigitsAre DEF Marks
    <3> QED
      BY <1>3, <2>2, <3>1, Dispatch DEF Cases
  <2>4. at' = at + 1 /\ lflag' = lflag + 1 /\ UNCHANGED <<call, output, pc, padc, width, precision, altflag, ap>>
    BY <2>3 DEF long_flag, Switch
  <2>5. PICK j \in 0..d.longs : j = i + 1
    BY <1>5, <2>1
  <2>6. At(c, k, PrecisionEnd(d) + j, Columns(d), Precision(d), j, Len(d.stars))'
    <3>1. at' = p + (pe + j)
      BY <1>9, <2>4, <2>5
    <3>2. lflag' = j
      BY <1>4, <2>4, <2>5
    <3>3. ap' = ap /\ width' = width /\ precision' = precision /\ UNCHANGED output
      BY <2>4
    <3>4. Output(c, Said(c, k))'
      BY <1>4, <3>3, OutputKept
    <3> QED
      BY <1>4, <1>7, <1>8, <3>1, <3>2, <3>3, <3>4, Zenon DEF At
  <2>7. Marked(d)' /\ pc' = "reswitch"
    BY <1>3, <2>4 DEF Marked
  <2>8. InLongs(c, k, d)'
    BY <2>6, <2>7, Zenon DEF InLongs
  <2> QED
    BY <2>4, <2>8 DEF State, Writing, InDirective
<1>11. CASE i = l
  <2>1. at = p + e /\ ch = Ending(d)
    <3>1. pe + i = e
      BY <1>8, <1>11
    <3>2. Character(c, p + e) = Ending(d)
      BY <1>1, <1>7, Zenon DEF Spells, SpellsEnd
    <3> QED
      BY <1>9, <3>1, <3>2, Zenon
  <2>2. Set(d)
    <3>1. TakesOne(d) => arg = Taken(d)
      <4> SUFFICES ASSUME TakesOne(d) PROVE arg = Taken(d)
        OBVIOUS
      <4>1. arg = Argument(c, a + 1 + s)
        BY <1>4, <1>7, ReadsHere, Zenon
      <4>2. PICK j \in Nat : j = s + 1 /\ a + 1 + s = a + j
        OBVIOUS
      <4>3. Len(Arguments(d)) = s + 1 /\ Arguments(d)[s + 1] = Taken(d)
        BY <1>1, <1>7, ArgumentsAre, Zenon
      <4>4. j \in 1..Len(Arguments(d)) /\ Arguments(d)[j] = Taken(d)
        BY <4>2, <4>3
      <4>5. Argument(c, a + j) = Arguments(d)[j]
        BY <1>1, <1>7, <4>4, Zenon DEF LiesBehind
      <4> QED
        BY <4>1, <4>2, <4>4, <4>5, Zenon
    <3> QED
      BY <1>3, <1>4, <1>5, <1>11, <3>1 DEF Set, Marked
  <2>3. Settings
    <3>1. width \in Int /\ precision \in Int
      BY <1>1, <1>4, Zenon
    <3>2. lflag \in 0..2
      BY <1>4, <1>5, <1>11, Zenon
    <3> QED
      BY <1>3, <3>1, <3>2, Zenon DEF Settings, Marked
  <2>4. at = Place(c, k) + LongsEnd(d)
    BY <1>7, <2>1, Zenon
  <2>5. CASE ch \in Cases
    <3>1. Convert(ch, IF TakesOne(d) THEN 1 ELSE 0, DirectivePrinted(d))
      BY <1>1, <1>3, <2>1, <2>2, <2>5, ConversionPrints
    <3>2. d.conv # << >>
      <4>1. Nul \notin Cases
        BY DigitsAre DEF Cases, Nul, Marks
      <4> QED
        BY <2>1, <2>5, <4>1 DEF Ending
    <3> QED
      BY <1>4, <2>3, <2>4, <3>1, <3>2, ConvertStep
  <2>6. CASE ch \notin Cases
    <3>1. default
      BY <1>3, <2>6, UnknownStep
    <3>2. Ending(d) \notin Cases
      BY <2>1, <2>6
    <3> QED
      BY <1>4, <2>3, <2>4, <3>1, <3>2, DefaultStep
  <2> QED
    BY <2>5, <2>6
<1> QED
  BY <1>10, <1>11

(* Where the fields of a directive end, and what is behind them. *)
LEMMA FieldEnds ==
    ASSUME NEW c, NEW p \in Nat, NEW d, Spells(c, p, d)
    PROVE  /\ FlagsEnd(d) \in Nat /\ WidthEnd(d) \in Nat /\ PrecisionEnd(d) \in Nat /\ d.longs \in 0..2
           /\ Len(d.flags) \in Nat /\ FlagsEnd(d) = 1 + Len(d.flags)
           /\ Character(c, p + PrecisionEnd(d)) \notin Digits
           /\ Character(c, p + WidthEnd(d)) \notin Digits
<1>1. PICK nf \in Nat, nw \in Nat, np \in Nat, l \in 0..2 :
          nf = Len(d.flags) /\ nw = Len(WidthField(d)) /\ np = Len(PrecisionField(d)) /\ l = d.longs
  BY DEF Spells
<1>2. PICK f \in Nat : f = 1 + nf
  OBVIOUS
<1>3. PICK w \in Nat : w = f + nw
  OBVIOUS
<1>4. PICK pe \in Nat : pe = w + np
  OBVIOUS
<1>5. f = FlagsEnd(d) /\ w = WidthEnd(d) /\ pe = PrecisionEnd(d) /\ LongsEnd(d) = pe + l
  BY <1>1, <1>2, <1>3, <1>4, Zenon DEF FlagsEnd, WidthEnd, PrecisionEnd, LongsEnd
<1>6. "l" \notin Digits /\ "." \notin Digits
  BY DigitsAre DEF Marks
<1>7. Character(c, p + pe) \notin Digits
  <2>1. CASE l = 0
    <3>1. pe + l = pe
      BY <2>1
    <3>2. Character(c, p + pe) = Ending(d) /\ Ending(d) \notin Digits
      BY <1>5, <3>1, Zenon DEF Spells, SpellsEnd
    <3> QED
      BY <3>2
  <2>2. CASE l # 0
    <3>1. 0 \in 0..(l - 1) /\ p + pe + 0 = p + pe
      BY <2>2
    <3>2. Character(c, p + pe + 0) = "l"
      BY <1>1, <1>5, <3>1, Zenon DEF Spells, SpellsEnd
    <3> QED
      BY <1>6, <3>1, <3>2
  <2> QED
    BY <2>1, <2>2
<1>8. Character(c, p + w) \notin Digits
  <2>1. CASE d.precision = None
    <3>1. pe = w
      BY <1>5, <2>1, Zenon DEF Spells, SpellsPrecision
    <3> QED
      BY <1>7, <3>1
  <2>2. CASE d.precision # None
    <3>1. Character(c, p + w) = "."
      BY <1>5, <2>2, Zenon DEF Spells, SpellsPrecision
    <3> QED
      BY <1>6, <3>1
  <2> QED
    BY <2>1, <2>2
<1> QED
  BY <1>1, <1>2, <1>5, <1>7, <1>8

(* A step within a number. *)
LEMMA FigureStep ==
    ASSUME NEW c, NEW p \in Nat, NEW n, Numbered(c, p, n), NEW i \in Nat, i < Figured(n), at = p + i,
           ch = Character(c, at), precision = ValueAt(n)[i], number
    PROVE  /\ at' = p + (i + 1) /\ precision' = ValueAt(n)[i + 1]
           /\ UNCHANGED <<call, pc, width, padc, lflag, altflag, ap, output>>
<1>1. PICK l \in Nat : l = Figured(n)
  BY DEF Numbered
<1>2. i + 1 \in 1..l /\ p + (i + 1) - 1 = p + i /\ (i + 1) - 1 = i
  BY <1>1
<1>3. ch \in Digits /\ ValueAt(n)[i + 1] = ValueAt(n)[i] * 10 + Figure(ch)
  <2>1. /\ Character(c, p + (i + 1) - 1) \in Digits
        /\ ValueAt(n)[i + 1] = ValueAt(n)[(i + 1) - 1] * 10 + Figure(Character(c, p + (i + 1) - 1))
    BY <1>1, <1>2, Zenon DEF Numbered
  <2> QED
    BY <1>2, <2>1, Zenon
<1>4. /\ at' = at + 1 /\ precision' = precision * 10 + Figure(ch)
      /\ UNCHANGED <<call, pc, width, padc, lflag, altflag, ap, output>>
  BY <1>3, Zenon DEF number
<1>5. at' = p + (i + 1)
  BY <1>4
<1>6. precision' = ValueAt(n)[i + 1]
  BY <1>3, <1>4, Zenon
<1> QED
  BY <1>4, <1>5, <1>6

(* A step that ends a number. *)
LEMMA NumberEnds ==
    ASSUME ch \notin Digits, number
    PROVE  /\ pc' = "reswitch" /\ process_precision(precision)
           /\ UNCHANGED <<call, at, padc, lflag, altflag, ap, output>>
  BY Zenon DEF number

(* A step within a precision, and its last. *)
LEMMA PrecisionStep ==
    ASSUME NEW c \in Calls, call = c, FormatCall(c), NEW k \in 1..Count(c), NEW d, d = c.directives[k],
           InPrecision(c, k, d), FormatNext
    PROVE  State(c)' /\ UNCHANGED call
<1>1. /\ LegalDirective(d) /\ Spells(c, Place(c, k), d)
      /\ Width(d) \in Int /\ Precision(d) \in Int /\ Columns(d) \in Int
  BY LegalCall, DirectiveSpelled, StarsAre
<1>2. PICK i \in 1..Figured(d.precision) :
          At(c, k, WidthEnd(d) + 1 + i, Columns(d), ValueAt(d.precision)[i], 0, WidthStars(d))
  BY DEF InPrecision
<1>3. pc = "number" /\ d.precision \notin {None, Star} /\ Marked(d)
  BY DEF InPrecision
<1>4. /\ at = Place(c, k) + (WidthEnd(d) + 1 + i) /\ ap = ArgAt(c)[k - 1] + 1 + WidthStars(d)
      /\ width = Columns(d) /\ precision = ValueAt(d.precision)[i] /\ lflag = 0 /\ Output(c, Said(c, k))
  BY <1>2, Zenon DEF At
<1>5. PICK p \in Nat : p = Place(c, k)
  BY BehindDirective DEF EndsAt
<1>6. PICK w \in Nat, pe \in Nat : w = WidthEnd(d) /\ pe = PrecisionEnd(d)
  BY <1>1, <1>5, FieldEnds
<1>7. PICK l \in Nat : l = Figured(d.precision) /\ Numbered(c, p + w + 1, d.precision) /\ pe = w + 1 + l
  <2>1. /\ PrecisionEnd(d) = WidthEnd(d) + 1 + Figured(d.precision)
        /\ Numbered(c, p + WidthEnd(d) + 1, d.precision)
    BY <1>1, <1>3, <1>5, Zenon DEF Spells, SpellsPrecision
  <2>2. Figured(d.precision) \in Nat
    BY <2>1 DEF Numbered
  <2> QED
    BY <1>6, <2>1, <2>2, Zenon
<1>8. number
  BY <1>3, Dispatch
<1>9. i \in 1..l /\ at = (p + w + 1) + i
  <2>1. at = p + (w + 1 + i)
    BY <1>4, <1>5, <1>6, Zenon
  <2> QED
    BY <1>7, <2>1
<1>10. ch = Character(c, at)
  BY ReadsHere
<1>11. CASE i # l
  <2>1. i < l /\ p + w + 1 \in Nat
    BY <1>9, <1>11
  <2>2. /\ at' = (p + w + 1) + (i + 1) /\ precision' = ValueAt(d.precision)[i + 1]
        /\ UNCHANGED <<call, pc, width, padc, lflag, altflag, ap, output>>
    BY <1>4, <1>7, <1>8, <1>9, <1>10, <2>1, FigureStep
  <2>3. PICK j \in 1..Figured(d.precision) : j = i + 1
    BY <1>7, <1>9, <2>1
  <2>4. At(c, k, WidthEnd(d) + 1 + j, Columns(d), ValueAt(d.precision)[j], 0, WidthStars(d))'
    <3>1. at' = p + (w + 1 + j)
      BY <2>2, <2>3
    <3>2. Output(c, Said(c, k))'
      BY <1>4, <2>2, OutputKept
    <3>3. lflag' = 0 /\ width' = Columns(d) /\ ap' = ArgAt(c)[k - 1] + 1 + WidthStars(d)
      BY <1>4, <2>2
    <3> QED
      BY <1>5, <1>6, <2>2, <2>3, <3>1, <3>2, <3>3, Zenon DEF At
  <2>5. Marked(d)' /\ pc' = "number"
    BY <1>3, <2>2 DEF Marked
  <2>6. InPrecision(c, k, d)'
    BY <1>3, <2>4, <2>5, Zenon DEF InPrecision
  <2> QED
    BY <2>2, <2>6 DEF State, Writing, InDirective
<1>12. CASE i = l
  <2>1. at = p + pe
    BY <1>7, <1>9, <1>12
  <2>2. ch \notin Digits
    <3>1. Character(c, p + pe) \notin Digits
      BY <1>1, <1>5, <1>6, FieldEnds
    <3> QED
      BY <1>10, <2>1, <3>1
  <2>3. /\ pc' = "reswitch" /\ process_precision(precision)
        /\ UNCHANGED <<call, at, padc, lflag, altflag, ap, output>>
    BY <1>8, <2>2, NumberEnds
  <2>4. precision = Precision(d)
    <3>1. ValueAt(d.precision)[l] = d.precision
      BY <1>7, Zenon DEF Numbered
    <3> QED
      BY <1>3, <1>4, <1>12, <3>1 DEF Precision
  <2>5. width' = Columns(d) /\ precision' = Precision(d)
    <3>1. Columns(d) >= 0
      BY <1>1, <1>3 DEF Columns
    <3>2. ~(width < 0)
      BY <1>1, <1>4, <3>1
    <3> QED
      BY <1>4, <2>3, <2>4, <3>2 DEF process_precision
  <2>6. Len(d.stars) = WidthStars(d)
    <3>1. Len(d.stars) = (IF d.width = Star THEN 1 ELSE 0) + (IF d.precision = Star THEN 1 ELSE 0)
      BY <1>1, StarsAre
    <3>2. PICK s \in Nat : s = WidthStars(d)
      BY DEF WidthStars
    <3>3. (IF d.precision = Star THEN 1 ELSE 0) = 0
      BY <1>3
    <3>4. s + 0 = s
      OBVIOUS
    <3> QED
      BY <3>1, <3>2, <3>3, <3>4, Zenon DEF WidthStars
  <2>7. At(c, k, PrecisionEnd(d) + 0, Columns(d), Precision(d), 0, Len(d.stars))'
    <3>1. at' = p + (pe + 0)
      BY <2>1, <2>3
    <3>2. Output(c, Said(c, k))'
      BY <1>4, <2>3, OutputKept
    <3>3. lflag' = 0 /\ ap' = ArgAt(c)[k - 1] + 1 + WidthStars(d)
      BY <1>4, <2>3
    <3> QED
      BY <1>5, <1>6, <2>5, <2>6, <3>1, <3>2, <3>3, Zenon DEF At
  <2>8. Marked(d)'
    BY <1>3, <2>3 DEF Marked
  <2>9. 0 \in 0..d.longs
    <3>1. d.longs \in 0..2
      BY <1>1 DEF Spells
    <3> QED
      BY <3>1
  <2>10. InLongs(c, k, d)'
    BY <2>3, <2>7, <2>8, <2>9, Zenon DEF InLongs
  <2> QED
    BY <2>3, <2>10 DEF State, Writing, InDirective
<1> QED
  BY <1>11, <1>12

(* The numbers that a step of a directive is about. *)
Measured(c, k, d, p, a, f, w, pe, s) ==
    /\ p = Place(c, k) /\ a = ArgAt(c)[k - 1] /\ f = FlagsEnd(d) /\ w = WidthEnd(d) /\ pe = PrecisionEnd(d)
    /\ s = WidthStars(d)

(* A directive of a call: its settings, its spelling and its places. *)
LEMMA DirectiveIs ==
    ASSUME NEW c \in Calls, FormatCall(c), NEW k \in 1..Count(c), NEW d, d = c.directives[k]
    PROVE  /\ LegalDirective(d) /\ Spells(c, Place(c, k), d) /\ LiesBehind(c, k, d)
           /\ Width(d) \in Int /\ Precision(d) \in Int /\ Columns(d) \in Int
           /\ \E p \in Nat, a \in Nat, f \in Nat, w \in Nat, pe \in Nat, s \in 0..1 : Measured(c, k, d, p, a, f, w, pe, s)
<1>1. /\ LegalDirective(d) /\ Spells(c, Place(c, k), d) /\ LiesBehind(c, k, d)
      /\ Width(d) \in Int /\ Precision(d) \in Int /\ Columns(d) \in Int
  BY LegalCall, DirectiveSpelled, CallLies, StarsAre
<1>2. PICK p \in Nat, a \in Nat : p = Place(c, k) /\ a = ArgAt(c)[k - 1]
  <2>1. PICK p \in Nat, q \in Nat, a \in Nat, e \in Nat, s \in Nat, z \in Nat, o \in 0..1, m \in Nat :
            EndsAt(c, k, d, p, q, a, e, s, z, o, m)
    BY BehindDirective
  <2>2. p = Place(c, k) /\ a = ArgAt(c)[k - 1]
    BY <2>1, Zenon DEF EndsAt
  <2> QED
    BY <2>2
<1>3. PICK f \in Nat, w \in Nat, pe \in Nat : f = FlagsEnd(d) /\ w = WidthEnd(d) /\ pe = PrecisionEnd(d)
  BY <1>1, <1>2, FieldEnds
<1>4. PICK s \in 0..1 : s = WidthStars(d)
  BY DEF WidthStars
<1>5. Measured(c, k, d, p, a, f, w, pe, s)
  BY <1>2, <1>3, <1>4, Zenon DEF Measured
<1> QED
  BY <1>1, <1>5

(* A step that takes an argument for a width or a precision. *)
LEMMA StarTakes ==
    ASSUME NEW c \in Calls, call = c, FormatCall(c), NEW k \in 1..Count(c), NEW d, d = c.directives[k],
           NEW s \in 0..1, s < Len(d.stars), ap = ArgAt(c)[k - 1] + 1 + s, NEW p \in Nat, at = p, star
    PROVE  /\ process_precision(d.stars[s + 1])
           /\ at' = p + 1 /\ ap' = ArgAt(c)[k - 1] + 1 + (s + 1)
           /\ UNCHANGED <<call, pc, padc, lflag, altflag, output>>
<1>1. LegalDirective(d) /\ LiesBehind(c, k, d)
  BY LegalCall, CallLies
<1>2. PICK a \in Nat : a = ArgAt(c)[k - 1]
  BY BehindDirective DEF EndsAt
<1>3. PICK n \in Nat : n = Len(d.stars) /\ s < n
  BY <1>1, StarsAre
<1>4. PICK j \in 1..n : j = s + 1 /\ a + 1 + s = a + j
  BY <1>3
<1>5. j \in 1..Len(Arguments(d)) /\ Arguments(d)[j].number = d.stars[j]
  <2>1. PICK z \in Nat : z = n + (IF TakesOne(d) THEN 1 ELSE 0)
    OBVIOUS
  <2>2. Len(Arguments(d)) = n + (IF TakesOne(d) THEN 1 ELSE 0) /\ \A i \in 1..n : Arguments(d)[i].number = d.stars[i]
    BY <1>1, <1>3, ArgumentsAre, Zenon
  <2>3. z = Len(Arguments(d))
    BY <2>1, <2>2, Zenon
  <2>4. j \in 1..z
    BY <1>4, <2>1
  <2> QED
    BY <2>2, <2>3, <2>4, Zenon
<1>6. arg.number = d.stars[s + 1]
  <2>1. arg = Argument(c, a + j)
    BY <1>2, <1>4, ReadsHere, Zenon
  <2>2. Argument(c, a + j) = Arguments(d)[j]
    BY <1>1, <1>2, <1>5, Zenon DEF LiesBehind
  <2> QED
    BY <1>4, <1>5, <2>1, <2>2, Zenon
<1>7. /\ process_precision(arg.number) /\ at' = at + 1 /\ ap' = ap + 1
      /\ UNCHANGED <<call, pc, padc, lflag, altflag, output>>
  BY DEF star, Switch
<1>8. ap' = a + 1 + (s + 1)
  <2>1. ap = a + 1 + s /\ ap' = ap + 1
    BY <1>2, <1>7, Zenon
  <2>2. (a + 1 + s) + 1 = a + 1 + (s + 1)
    OBVIOUS
  <2> QED
    BY <2>1, <2>2, Zenon
<1>9. process_precision(d.stars[s + 1])
  BY <1>6, <1>7, Zenon
<1> QED
  BY <1>2, <1>7, <1>8, <1>9, Zenon

(* A step that begins a number: its first figure. *)
LEMMA NumberBegins ==
    ASSUME NEW c, call = c, NEW p \in Nat, NEW n, Numbered(c, p, n), at = p, pc = "reswitch", FormatNext
    PROVE  /\ at' = p + 1 /\ precision' = ValueAt(n)[1] /\ pc' = "number" /\ 1 \in 1..Figured(n)
           /\ UNCHANGED <<call, width, padc, lflag, altflag, ap, output>>
<1>1. PICK l \in Nat : l = Figured(n) /\ l # 0
  BY DEF Numbered
<1>2. 1 \in 1..l /\ p + 1 - 1 = p /\ 1 - 1 = 0
  BY <1>1
<1>3. PICK v : v = ValueAt(n)
  OBVIOUS
<1>4. /\ v[0] = 0 /\ Character(c, p) # "0"
      /\ Character(c, p) \in Digits /\ v[1] = v[0] * 10 + Figure(Character(c, p))
  <2>1. /\ Character(c, p + 1 - 1) \in Digits
        /\ v[1] = v[1 - 1] * 10 + Figure(Character(c, p + 1 - 1))
        /\ v[0] = 0 /\ Character(c, p) # "0"
    BY <1>1, <1>2, <1>3, Zenon DEF Numbered
  <2> QED
    BY <1>2, <2>1, Zenon
<1>5. ch = Character(c, p)
  BY ReadsHere
<1>6. ch \in Digits \ {"0"}
  BY <1>4, <1>5
<1>7. number_begins
  <2>1. \A m \in Marks : m \notin Digits
    BY DigitsAre
  <2>2. ch \notin {"-", "0", "#", ".", "*", "l", "%", "c", "e", "s", "d", "u", "o", "x", "p"}
    BY <1>6, <2>1 DEF Marks
  <2>3. ch \in Cases
    BY <1>6 DEF Cases
  <2> QED
    BY <2>2, <2>3, Dispatch
<1>8. /\ at' = at + 1 /\ precision' = Figure(ch) /\ pc' = "number"
      /\ UNCHANGED <<call, width, padc, lflag, altflag, ap, output>>
  BY <1>7, Zenon DEF number_begins, Switch
<1>9. Figure(ch) = v[1]
  <2>2. Figure(ch) \in 0..36
    BY FigureType
  <2>3. v[1] = 0 * 10 + Figure(ch)
    BY <1>4, <1>5, Zenon
  <2> QED
    BY <2>2, <2>3
<1> QED
  BY <1>1, <1>2, <1>3, <1>8, <1>9

(* The step behind a directive's point. *)
LEMMA PointStep ==
    ASSUME NEW c \in Calls, call = c, FormatCall(c), NEW k \in 1..Count(c), NEW d, d = c.directives[k],
           InPoint(c, k, d), FormatNext
    PROVE  State(c)' /\ UNCHANGED call
<1>1. /\ LegalDirective(d) /\ Spells(c, Place(c, k), d)
      /\ Width(d) \in Int /\ Precision(d) \in Int /\ Columns(d) \in Int
  BY DirectiveIs
<1>2. PICK p \in Nat, a \in Nat, f \in Nat, w \in Nat, pe \in Nat, s \in 0..1 : Measured(c, k, d, p, a, f, w, pe, s)
  BY DirectiveIs
<1>3. /\ p = Place(c, k) /\ a = ArgAt(c)[k - 1] /\ f = FlagsEnd(d) /\ w = WidthEnd(d) /\ pe = PrecisionEnd(d)
      /\ s = WidthStars(d)
  BY <1>2, Zenon DEF Measured
<1>4. pc = "reswitch" /\ d.precision # None /\ Marked(d)
  BY DEF InPoint
<1>5. /\ at = p + (w + 1) /\ ap = a + 1 + s /\ width = Columns(d) /\ precision = -1 /\ lflag = 0
      /\ Output(c, Said(c, k))
  BY <1>3, Zenon DEF InPoint, At
<1>6. PICK x \in Nat : x = p + w + 1 /\ at = x
  BY <1>5
<1>7. Columns(d) >= 0
  BY <1>1, <1>4 DEF Columns
<1>8. CASE d.precision = Star
  <2>1. Character(c, p + w + 1) = "*" /\ pe = w + 2
    BY <1>1, <1>3, <1>8, Zenon DEF Spells, SpellsPrecision
  <2>2. star
    <3>1. ch = "*"
      BY <1>6, <2>1, ReadsHere, Zenon
    <3>2. "*" \notin Digits
      BY DigitsAre DEF Marks
    <3> QED
      BY <1>4, <3>1, <3>2, Dispatch DEF Cases
  <2>3. PICK n \in Nat : n = Len(d.stars) /\ n = s + 1
    <3>1. Len(d.stars) = (IF d.width = Star THEN 1 ELSE 0) + (IF d.precision = Star THEN 1 ELSE 0)
      BY <1>1, StarsAre
    <3>2. (IF d.precision = Star THEN 1 ELSE 0) = 1
      BY <1>8
    <3>3. Len(d.stars) = s + 1
      BY <1>3, <3>1, <3>2, Zenon DEF WidthStars
    <3> QED
      BY <3>3
  <2>4. Precision(d) = d.stars[s + 1]
    <3>1. Precision(d) = d.stars[n]
      BY <1>8, <2>3, Zenon DEF Precision, Last
    <3> QED
      BY <2>3, <3>1, Zenon
  <2>5. /\ process_precision(d.stars[s + 1]) /\ at' = x + 1 /\ ap' = a + 1 + (s + 1)
        /\ UNCHANGED <<call, pc, padc, lflag, altflag, output>>
    <3>1. s < Len(d.stars) /\ ap = ArgAt(c)[k - 1] + 1 + s
      BY <1>3, <1>5, <2>3
    <3>2. /\ process_precision(d.stars[s + 1]) /\ at' = x + 1 /\ ap' = ArgAt(c)[k - 1] + 1 + (s + 1)
          /\ UNCHANGED <<call, pc, padc, lflag, altflag, output>>
      BY <1>6, <2>2, <3>1, StarTakes
    <3> QED
      BY <1>3, <3>2, Zenon
  <2>6. width' = Columns(d) /\ precision' = Precision(d)
    <3>1. ~(width < 0)
      BY <1>1, <1>5, <1>7
    <3>2. width' = width /\ precision' = d.stars[s + 1]
      BY <2>5, <3>1 DEF process_precision
    <3> QED
      BY <1>5, <2>4, <3>2, Zenon
  <2>7. At(c, k, PrecisionEnd(d) + 0, Columns(d), Precision(d), 0, Len(d.stars))'
    <3>1. at' = p + (pe + 0)
      <4>1. pe = w + 2
        BY <2>1
      <4> QED
        BY <1>6, <2>5, <4>1
    <3>2. Output(c, Said(c, k))'
      BY <1>5, <2>5, OutputKept
    <3>3. lflag' = 0
      BY <1>5, <2>5
    <3> QED
      BY <1>3, <2>3, <2>5, <2>6, <3>1, <3>2, <3>3, Zenon DEF At
  <2>8. Marked(d)' /\ pc' = "reswitch"
    BY <1>4, <2>5 DEF Marked
  <2>9. 0 \in 0..d.longs
    <3>1. d.longs \in 0..2
      BY <1>1 DEF Spells
    <3> QED
      BY <3>1
  <2>10. InLongs(c, k, d)'
    BY <2>7, <2>8, <2>9, Zenon DEF InLongs
  <2> QED
    BY <2>5, <2>10 DEF State, Writing, InDirective
<1>9. CASE d.precision # Star
  <2>1. Numbered(c, x, d.precision) /\ d.precision \notin {None, Star}
    <3>1. d.precision \notin {None, Star}
      BY <1>4, <1>9
    <3> QED
      BY <1>1, <1>3, <1>6, <3>1, Zenon DEF Spells, SpellsPrecision
  <2>2. /\ at' = x + 1 /\ precision' = ValueAt(d.precision)[1] /\ pc' = "number" /\ 1 \in 1..Figured(d.precision)
        /\ UNCHANGED <<call, width, padc, lflag, altflag, ap, output>>
    BY <1>4, <1>6, <2>1, NumberBegins
  <2>3. At(c, k, WidthEnd(d) + 1 + 1, Columns(d), ValueAt(d.precision)[1], 0, WidthStars(d))'
    <3>1. at' = p + (w + 1 + 1)
      BY <1>6, <2>2
    <3>2. Output(c, Said(c, k))'
      BY <1>5, <2>2, OutputKept
    <3>3. lflag' = 0 /\ width' = Columns(d) /\ ap' = a + 1 + s
      BY <1>5, <2>2
    <3> QED
      BY <1>3, <2>2, <3>1, <3>2, <3>3, Zenon DEF At
  <2>4. Marked(d)'
    BY <1>4, <2>2 DEF Marked
  <2>5. InPrecision(c, k, d)'
    BY <2>1, <2>2, <2>3, <2>4, Zenon DEF InPrecision
  <2> QED
    BY <2>2, <2>5 DEF State, Writing, InDirective
<1> QED
  BY <1>8, <1>9

(* The step behind a directive's width. *)
LEMMA WideStep ==
    ASSUME NEW c \in Calls, call = c, FormatCall(c), NEW k \in 1..Count(c), NEW d, d = c.directives[k],
           Wide(c, k, d), FormatNext
    PROVE  State(c)' /\ UNCHANGED call
<1>1. /\ LegalDirective(d) /\ Spells(c, Place(c, k), d)
      /\ Width(d) \in Int /\ Precision(d) \in Int /\ Columns(d) \in Int
  BY DirectiveIs
<1>2. PICK p \in Nat, a \in Nat, f \in Nat, w \in Nat, pe \in Nat, s \in 0..1 : Measured(c, k, d, p, a, f, w, pe, s)
  BY DirectiveIs
<1>3. /\ p = Place(c, k) /\ a = ArgAt(c)[k - 1] /\ f = FlagsEnd(d) /\ w = WidthEnd(d) /\ pe = PrecisionEnd(d)
      /\ s = WidthStars(d)
  BY <1>2, Zenon DEF Measured
<1>4. pc = "reswitch" /\ Marked(d)
  BY DEF Wide
<1>5. /\ at = p + w /\ ap = a + 1 + s /\ width = Width(d) /\ precision = -1 /\ lflag = 0
      /\ Output(c, Said(c, k))
  BY <1>3, Zenon DEF Wide, At
<1>6. CASE d.precision = None
  <2>1. pe = w
    BY <1>1, <1>3, <1>6, Zenon DEF Spells, SpellsPrecision
  <2>2. Columns(d) = Width(d) /\ Precision(d) = -1
    BY <1>6 DEF Columns, Precision, None, Star
  <2>3. PICK n \in Nat : n = Len(d.stars) /\ n = s
    <3>1. Len(d.stars) = (IF d.width = Star THEN 1 ELSE 0) + (IF d.precision = Star THEN 1 ELSE 0)
      BY <1>1, StarsAre
    <3>2. (IF d.precision = Star THEN 1 ELSE 0) = 0
      BY <1>6 DEF None, Star
    <3>3. Len(d.stars) = s + 0
      BY <1>3, <3>1, <3>2, Zenon DEF WidthStars
    <3> QED
      BY <3>3
  <2>4. at = p + (pe + 0)
    BY <1>5, <2>1
  <2>5. At(c, k, PrecisionEnd(d) + 0, Columns(d), Precision(d), 0, Len(d.stars))
    BY <1>3, <1>5, <2>2, <2>3, <2>4, Zenon DEF At
  <2>6. 0 \in 0..d.longs
    <3>1. d.longs \in 0..2
      BY <1>1 DEF Spells
    <3> QED
      BY <3>1
  <2>7. InLongs(c, k, d)
    BY <1>4, <2>5, <2>6, Zenon DEF InLongs
  <2> QED
    BY <2>7, LongsStep
<1>7. CASE d.precision # None
  <2>1. Character(c, p + w) = "."
    BY <1>1, <1>3, <1>7, Zenon DEF Spells, SpellsPrecision
  <2>2. ch = "."
    BY <1>5, <2>1, ReadsHere, Zenon
  <2>3. point
    <3>1. "." \notin Digits
      BY DigitsAre DEF Marks
    <3> QED
      BY <1>4, <2>2, <3>1, Dispatch DEF Cases
  <2>4. /\ at' = at + 1 /\ width' = (IF width < 0 THEN 0 ELSE width)
        /\ UNCHANGED <<call, output, pc, padc, precision, lflag, altflag, ap>>
    BY <2>3 DEF point, Switch
  <2>5. width' = Columns(d)
    BY <1>5, <1>7, <2>4, Zenon DEF Columns
  <2>6. At(c, k, WidthEnd(d) + 1, Columns(d), -1, 0, WidthStars(d))'
    <3>1. at' = p + (w + 1)
      BY <1>5, <2>4
    <3>2. Output(c, Said(c, k))'
      BY <1>5, <2>4, OutputKept
    <3>3. lflag' = 0 /\ precision' = -1 /\ ap' = a + 1 + s
      BY <1>5, <2>4
    <3> QED
      BY <1>3, <2>5, <3>1, <3>2, <3>3, Zenon DEF At
  <2>7. Marked(d)' /\ pc' = "reswitch"
    BY <1>4, <2>4 DEF Marked
  <2>8. InPoint(c, k, d)'
    BY <1>7, <2>6, <2>7, Zenon DEF InPoint
  <2> QED
    BY <2>4, <2>8 DEF State, Writing, InDirective
<1> QED
  BY <1>6, <1>7

(* A step within a width, and its last. *)
LEMMA WidthStep ==
    ASSUME NEW c \in Calls, call = c, FormatCall(c), NEW k \in 1..Count(c), NEW d, d = c.directives[k],
           InWidth(c, k, d), FormatNext
    PROVE  State(c)' /\ UNCHANGED call
<1>1. /\ LegalDirective(d) /\ Spells(c, Place(c, k), d)
      /\ Width(d) \in Int /\ Precision(d) \in Int /\ Columns(d) \in Int
  BY DirectiveIs
<1>2. PICK p \in Nat, a \in Nat, f \in Nat, w \in Nat, pe \in Nat, s \in 0..1 : Measured(c, k, d, p, a, f, w, pe, s)
  BY DirectiveIs
<1>3. /\ p = Place(c, k) /\ a = ArgAt(c)[k - 1] /\ f = FlagsEnd(d) /\ w = WidthEnd(d) /\ pe = PrecisionEnd(d)
      /\ s = WidthStars(d)
  BY <1>2, Zenon DEF Measured
<1>4. PICK i \in 1..Figured(d.width) : At(c, k, FlagsEnd(d) + i, -1, ValueAt(d.width)[i], 0, 0)
  BY DEF InWidth
<1>5. pc = "number" /\ d.width \notin {None, Star} /\ Marked(d)
  BY DEF InWidth
<1>6. /\ at = p + (f + i) /\ ap = a + 1 + 0 /\ width = -1 /\ precision = ValueAt(d.width)[i] /\ lflag = 0
      /\ Output(c, Said(c, k))
  BY <1>3, <1>4, Zenon DEF At
<1>7. PICK l \in Nat : l = Figured(d.width) /\ Numbered(c, p + f, d.width) /\ w = f + l
  <2>1. /\ WidthEnd(d) = FlagsEnd(d) + Figured(d.width)
        /\ Numbered(c, p + FlagsEnd(d), d.width)
    BY <1>1, <1>3, <1>5, Zenon DEF Spells, SpellsWidth
  <2>2. Figured(d.width) \in Nat
    BY <2>1 DEF Numbered
  <2> QED
    BY <1>3, <2>1, <2>2, Zenon
<1>8. number
  BY <1>5, Dispatch
<1>9. PICK x \in Nat : x = p + f
  OBVIOUS
<1>10. i \in 1..l /\ at = x + i /\ ch = Character(c, at)
  BY <1>6, <1>7, <1>9, ReadsHere
<1>11. CASE i # l
  <2>1. i < l /\ i \in Nat
    BY <1>10, <1>11
  <2>2. /\ at' = x + (i + 1) /\ precision' = ValueAt(d.width)[i + 1]
        /\ UNCHANGED <<call, pc, width, padc, lflag, altflag, ap, output>>
    BY <1>6, <1>7, <1>8, <1>9, <1>10, <2>1, FigureStep
  <2>3. PICK j \in 1..Figured(d.width) : j = i + 1
    BY <1>7, <1>10, <2>1
  <2>4. At(c, k, FlagsEnd(d) + j, -1, ValueAt(d.width)[j], 0, 0)'
    <3>1. at' = p + (f + j)
      BY <1>9, <2>2, <2>3
    <3>2. Output(c, Said(c, k))'
      BY <1>6, <2>2, OutputKept
    <3>3. lflag' = 0 /\ width' = -1 /\ ap' = a + 1 + 0
      BY <1>6, <2>2
    <3> QED
      BY <1>3, <2>2, <2>3, <3>1, <3>2, <3>3, Zenon DEF At
  <2>5. Marked(d)' /\ pc' = "number"
    BY <1>5, <2>2 DEF Marked
  <2>6. InWidth(c, k, d)'
    BY <1>5, <2>4, <2>5, Zenon DEF InWidth
  <2> QED
    BY <2>2, <2>6 DEF State, Writing, InDirective
<1>12. CASE i = l
  <2>1. at = p + w
    BY <1>7, <1>9, <1>10, <1>12
  <2>2. ch \notin Digits
    <3>1. Character(c, p + w) \notin Digits
      BY <1>1, <1>3, FieldEnds
    <3> QED
      BY <1>10, <2>1, <3>1
  <2>3. /\ pc' = "reswitch" /\ process_precision(precision)
        /\ UNCHANGED <<call, at, padc, lflag, altflag, ap, output>>
    BY <1>8, <2>2, NumberEnds
  <2>4. precision = Width(d)
    <3>1. ValueAt(d.width)[l] = d.width
      BY <1>7, Zenon DEF Numbered
    <3> QED
      BY <1>5, <1>6, <1>12, <3>1 DEF Width
  <2>5. width' = Width(d) /\ precision' = -1
    BY <1>6, <2>3, <2>4 DEF process_precision
  <2>6. WidthStars(d) = 0
    BY <1>5 DEF WidthStars
  <2>7. At(c, k, WidthEnd(d), Width(d), -1, 0, WidthStars(d))'
    <3>1. Output(c, Said(c, k))'
      BY <1>6, <2>3, OutputKept
    <3>2. lflag' = 0 /\ ap' = a + 1 + 0 /\ at' = p + w
      BY <1>6, <2>1, <2>3
    <3> QED
      BY <1>3, <2>5, <2>6, <3>1, <3>2, Zenon DEF At
  <2>8. Marked(d)'
    BY <1>5, <2>3 DEF Marked
  <2>9. Wide(c, k, d)'
    BY <2>3, <2>7, <2>8, Zenon DEF Wide
  <2> QED
    BY <2>3, <2>9 DEF State, Writing, InDirective
<1> QED
  BY <1>11, <1>12

(* A step among the flags of a directive. *)
LEMMA FlagStep ==
    ASSUME NEW c \in Calls, call = c, FormatCall(c), NEW k \in 1..Count(c), NEW d, d = c.directives[k],
           NEW n \in Nat, n = Len(d.flags), NEW i \in 0..(n - 1), MarkedBy(d, i, padc, altflag),
           At(c, k, 1 + i, -1, -1, 0, 0), pc = "reswitch", FormatNext
    PROVE  State(c)' /\ UNCHANGED call
<1>1. LegalDirective(d) /\ Spells(c, Place(c, k), d)
  BY DirectiveIs
<1>2. PICK p \in Nat, a \in Nat, f \in Nat, w \in Nat, pe \in Nat, s \in 0..1 : Measured(c, k, d, p, a, f, w, pe, s)
  BY DirectiveIs
<1>3. p = Place(c, k) /\ a = ArgAt(c)[k - 1]
  BY <1>2, Zenon DEF Measured
<1>4. /\ at = p + (1 + i) /\ ap = a + 1 + 0 /\ width = -1 /\ precision = -1 /\ lflag = 0 /\ Output(c, Said(c, k))
  BY <1>3, Zenon DEF At
<1>5. ch = d.flags[i + 1] /\ ch \in {"-", "0", "#"}
  <2>1. p + (1 + i) = p + 1 + i
    OBVIOUS
  <2>2. Character(c, p + 1 + i) = d.flags[i + 1] /\ d.flags[i + 1] \in {"-", "0", "#"}
    BY <1>1, <1>3, Zenon DEF Spells, SpellsFlags
  <2> QED
    BY <1>4, <2>1, <2>2, ReadsHere, Zenon
<1>6. PICK j \in 0..n : j = i + 1
  OBVIOUS
<1>7. /\ at' = at + 1 /\ UNCHANGED <<call, pc, width, precision, lflag, ap, output>>
      /\ MarkedBy(d, j, padc', altflag')
  <2>1. CASE ch = "#"
    <3>1. alt_flag
      <4>1. "#" \notin Digits
        BY DigitsAre DEF Marks
      <4> QED
        BY <2>1, <4>1, Dispatch DEF Cases
    <3>2. at' = at + 1 /\ altflag' = 1 /\ UNCHANGED <<call, output, pc, padc, width, precision, lflag, ap>>
      BY <3>1 DEF alt_flag, Switch
    <3>3. MarkedBy(d, i + 1, padc, 1)
      <4>1. i \in Nat /\ d.flags[i + 1] = "#"
        BY <1>5, <2>1
      <4> QED
        BY <4>1, MarkedOneMore, Zenon
    <3>4. MarkedBy(d, j, padc', altflag')
      BY <1>6, <3>2, <3>3
    <3> QED
      BY <3>2, <3>4
  <2>2. CASE ch \in {"-", "0"}
    <3>1. pad_flag
      <4>1. "-" \notin Digits /\ "0" \in Digits
        BY DigitsAre DEF Marks
      <4> QED
        BY <2>2, <4>1, Dispatch DEF Cases
    <3>2. at' = at + 1 /\ padc' = ch /\ UNCHANGED <<call, output, pc, altflag, width, precision, lflag, ap>>
      BY <3>1 DEF pad_flag, Switch
    <3>3. MarkedBy(d, i + 1, d.flags[i + 1], altflag)
      <4>1. i \in Nat /\ d.flags[i + 1] # "#"
        BY <1>5, <2>2
      <4> QED
        BY <4>1, MarkedOneMore, Zenon
    <3>4. MarkedBy(d, j, padc', altflag')
      BY <1>5, <1>6, <3>2, <3>3
    <3> QED
      BY <3>2, <3>4
  <2> QED
    BY <1>5, <2>1, <2>2
<1>8. At(c, k, 1 + j, -1, -1, 0, 0)'
  <2>1. at' = p + (1 + j)
    BY <1>4, <1>6, <1>7
  <2>2. Output(c, Said(c, k))'
    BY <1>4, <1>7, OutputKept
  <2>3. lflag' = 0 /\ width' = -1 /\ precision' = -1 /\ ap' = a + 1 + 0
    BY <1>4, <1>7
  <2> QED
    BY <1>3, <2>1, <2>2, <2>3, Zenon DEF At
<1>9. InFlags(c, k, d)'
  <2>1. j \in 0..Len(d.flags) /\ pc' = "reswitch"
    BY <1>7
  <2> QED
    BY <1>7, <1>8, <2>1, Zenon DEF InFlags
<1> QED
  BY <1>7, <1>9 DEF State, Writing, InDirective

(* A step on a directive: among its flags, or behind them. *)
LEMMA FlagsStep ==
    ASSUME NEW c \in Calls, call = c, FormatCall(c), NEW k \in 1..Count(c), NEW d, d = c.directives[k],
           InFlags(c, k, d), FormatNext
    PROVE  State(c)' /\ UNCHANGED call
<1>1. /\ LegalDirective(d) /\ Spells(c, Place(c, k), d)
      /\ Width(d) \in Int /\ Precision(d) \in Int /\ Columns(d) \in Int
  BY DirectiveIs
<1>2. PICK p \in Nat, a \in Nat, f \in Nat, w \in Nat, pe \in Nat, s \in 0..1 : Measured(c, k, d, p, a, f, w, pe, s)
  BY DirectiveIs
<1>3. /\ p = Place(c, k) /\ a = ArgAt(c)[k - 1] /\ f = FlagsEnd(d) /\ w = WidthEnd(d) /\ pe = PrecisionEnd(d)
      /\ s = WidthStars(d)
  BY <1>2, Zenon DEF Measured
<1>4. PICK i \in 0..Len(d.flags) : MarkedBy(d, i, padc, altflag) /\ At(c, k, 1 + i, -1, -1, 0, 0)
  BY DEF InFlags
<1>5. pc = "reswitch"
  BY DEF InFlags
<1>6. PICK n \in Nat : n = Len(d.flags) /\ f = 1 + n
  BY <1>1, <1>3, FieldEnds
<1>7. CASE i # n
  <2>1. i \in 0..(n - 1)
    BY <1>6, <1>7
  <2> QED
    BY <1>4, <1>5, <1>6, <2>1, FlagStep
<1>8. CASE i = n
  <2>1. Marked(d)
    <3>1. MarkedBy(d, Len(d.flags), padc, altflag)
      BY <1>4, <1>6, <1>8
    <3>2. padc = Pad(d) /\ altflag = Alt(d) /\ Pad(d) \in {Blank, "-", "0"} /\ Alt(d) \in 0..1
      BY <1>1, <3>1, MarkedAll
    <3> QED
      BY <3>2 DEF Marked
  <2>2. /\ at = p + f /\ ap = a + 1 + 0 /\ width = -1 /\ precision = -1 /\ lflag = 0 /\ Output(c, Said(c, k))
    <3>1. 1 + i = f
      BY <1>6, <1>8
    <3> QED
      BY <1>3, <1>4, <3>1, Zenon DEF At
  <2>3. CASE d.width = None
    <3>1. WidthEnd(d) = f /\ Width(d) = -1 /\ WidthStars(d) = 0
      <4>1. d.width # Star /\ d.width = -1
        BY <2>3 DEF None, Star
      <4>2. WidthEnd(d) = f
        BY <1>1, <1>3, <2>3, Zenon DEF Spells, SpellsWidth
      <4> QED
        BY <4>1, <4>2, Zenon DEF Width, WidthStars
    <3>2. At(c, k, WidthEnd(d), Width(d), -1, 0, WidthStars(d))
      BY <1>3, <2>2, <3>1, Zenon DEF At
    <3>3. Wide(c, k, d)
      BY <1>5, <2>1, <3>2, Zenon DEF Wide
    <3> QED
      BY <3>3, WideStep
  <2>4. CASE d.width = Star
    <3>1. Character(c, p + f) = "*" /\ w = f + 1
      BY <1>1, <1>3, <2>4, Zenon DEF Spells, SpellsWidth
    <3>2. star
      <4>1. ch = "*"
        BY <2>2, <3>1, ReadsHere, Zenon
      <4>2. "*" \notin Digits
        BY DigitsAre DEF Marks
      <4> QED
        BY <1>5, <4>1, <4>2, Dispatch DEF Cases
    <3>3. PICK z \in Int : z = d.stars[0 + 1] /\ z = Width(d) /\ 0 < Len(d.stars)
      <4>1. Len(d.stars) = (IF d.width = Star THEN 1 ELSE 0) + (IF d.precision = Star THEN 1 ELSE 0)
        BY <1>1, StarsAre
      <4>2. (IF d.width = Star THEN 1 ELSE 0) = 1
        BY <2>4
      <4>3. PICK o \in Nat : o = IF d.precision = Star THEN 1 ELSE 0
        OBVIOUS
      <4>4. 0 < 1 + o /\ 0 + 1 = 1
        OBVIOUS
      <4>5. 0 < Len(d.stars)
        BY <4>1, <4>2, <4>3, <4>4, Zenon
      <4>6. Width(d) = d.stars[0 + 1]
        BY <2>4, <4>4, Zenon DEF Width
      <4> QED
        BY <1>1, <4>5, <4>6
    <3>4. PICK x \in Nat : x = p + f
      OBVIOUS
    <3>5. /\ process_precision(z) /\ at' = x + 1 /\ ap' = a + 1 + (0 + 1)
          /\ UNCHANGED <<call, pc, padc, lflag, altflag, output>>
      <4>1. ap = ArgAt(c)[k - 1] + 1 + 0 /\ at = x /\ 0 \in 0..1
        BY <1>3, <2>2, <3>4
      <4>2. /\ process_precision(d.stars[0 + 1]) /\ at' = x + 1 /\ ap' = ArgAt(c)[k - 1] + 1 + (0 + 1)
            /\ UNCHANGED <<call, pc, padc, lflag, altflag, output>>
        BY <3>2, <3>3, <4>1, StarTakes
      <4> QED
        BY <1>3, <3>3, <4>2, Zenon
    <3>6. width' = z /\ precision' = -1
      BY <2>2, <3>5 DEF process_precision
    <3>7. At(c, k, WidthEnd(d), Width(d), -1, 0, WidthStars(d))'
      <4>1. at' = p + w
        BY <3>1, <3>4, <3>5
      <4>2. Output(c, Said(c, k))'
        BY <2>2, <3>5, OutputKept
      <4>3. WidthStars(d) = 0 + 1
        BY <2>4 DEF WidthStars
      <4>4. lflag' = 0
        BY <2>2, <3>5
      <4> QED
        BY <1>3, <3>3, <3>5, <3>6, <4>1, <4>2, <4>3, <4>4, Zenon DEF At
    <3>8. Marked(d)' /\ pc' = "reswitch"
      BY <1>5, <2>1, <3>5 DEF Marked
    <3>9. Wide(c, k, d)'
      BY <3>7, <3>8, Zenon DEF Wide
    <3> QED
      BY <3>5, <3>9 DEF State, Writing, InDirective
  <2>5. CASE d.width \notin {None, Star}
    <3>1. PICK x \in Nat : x = p + f /\ at = x
      BY <2>2
    <3>2. Numbered(c, x, d.width)
      BY <1>1, <1>3, <2>5, <3>1, Zenon DEF Spells, SpellsWidth
    <3>3. /\ at' = x + 1 /\ precision' = ValueAt(d.width)[1] /\ pc' = "number" /\ 1 \in 1..Figured(d.width)
          /\ UNCHANGED <<call, width, padc, lflag, altflag, ap, output>>
      BY <1>5, <3>1, <3>2, NumberBegins
    <3>4. At(c, k, FlagsEnd(d) + 1, -1, ValueAt(d.width)[1], 0, 0)'
      <4>1. at' = p + (f + 1)
        BY <3>1, <3>3
      <4>2. Output(c, Said(c, k))'
        BY <2>2, <3>3, OutputKept
      <4>3. lflag' = 0 /\ width' = -1 /\ ap' = a + 1 + 0
        BY <2>2, <3>3
      <4> QED
        BY <1>3, <3>3, <4>1, <4>2, <4>3, Zenon DEF At
    <3>5. Marked(d)'
      BY <2>1, <3>3 DEF Marked
    <3>6. InWidth(c, k, d)'
      BY <2>5, <3>3, <3>4, <3>5, Zenon DEF InWidth
    <3> QED
      BY <3>3, <3>6 DEF State, Writing, InDirective
  <2> QED
    BY <2>3, <2>4, <2>5
<1> QED
  BY <1>7, <1>8

(* A step of a call that is writing. *)
LEMMA WritingStep ==
    ASSUME NEW c \in Calls, call = c, Writing(c), FormatNext
    PROVE  State(c)' /\ UNCHANGED call
<1>1. FormatCall(c)
  BY DEF Writing
<1>2. CASE \E k \in 1..(Count(c) + 1) : InText(c, k)
  BY <1>1, <1>2, TextStep
<1>3. CASE \E k \in 1..Count(c) : InDirective(c, k, c.directives[k])
  <2>1. PICK k \in 1..Count(c) : InDirective(c, k, c.directives[k])
    BY <1>3
  <2>2. PICK d : d = c.directives[k] /\ InDirective(c, k, d)
    BY <2>1
  <2> QED
    BY <1>1, <2>2, FlagsStep, WidthStep, WideStep, PointStep, PrecisionStep, LongsStep DEF InDirective
<1> QED
  BY <1>2, <1>3 DEF Writing

(* Where a call's format begins. *)
LEMMA FirstText ==
    ASSUME NEW c \in Calls
    PROVE  /\ \E n \in Nat, r \in Nat :
                  /\ n = Count(c) /\ r = Len(Before(c, 1)) /\ 1 \in 1..(n + 1)
                  /\ Place(c, 1) = r + 1 /\ Said(c, 1) = r /\ Place(c, 1) - r = 1 /\ Said(c, 1) - r = 0
           /\ FmtAt(c)[1 - 1] = 0 /\ TxtAt(c)[1 - 1] = 0 /\ ArgAt(c)[1 - 1] = 0
           /\ LiesBefore(c, 1)
<1>1. PICK n \in Nat : n = Count(c) /\ 1 \in 1..(n + 1)
  BY LegalCall
<1>2. LiesBefore(c, 1)
  BY <1>1, CallLies
<1>3. FmtAt(c)[0] = 0 /\ TxtAt(c)[0] = 0 /\ ArgAt(c)[0] = 0
  BY LayoutsAre DEF Layout
<1>4. PICK r \in Nat : r = Len(Before(c, 1))
  BY <1>2 DEF LiesBefore
<1>5. 1 - 1 = 0 /\ 0 + r + 1 = r + 1 /\ 0 + r = r /\ (r + 1) - r = 1 /\ r - r = 0
  OBVIOUS
<1>6. Place(c, 1) = r + 1 /\ Said(c, 1) = r
  BY <1>3, <1>4, <1>5, Zenon DEF Place, Said
<1>7. FmtAt(c)[1 - 1] = 0 /\ TxtAt(c)[1 - 1] = 0 /\ ArgAt(c)[1 - 1] = 0
  BY <1>3, <1>5, Zenon
<1>8. n = Count(c) /\ r = Len(Before(c, 1)) /\ Place(c, 1) - r = 1 /\ Said(c, 1) - r = 0
  BY <1>1, <1>4, <1>5, <1>6, Zenon
<1> QED
  BY <1>1, <1>2, <1>6, <1>7, <1>8, Zenon

(* A call that has been made, cputs before its end included, is within its
   bounds. *)
LEMMA BegunBounds ==
    ASSUME NEW c \in Calls, Begun(c)
    PROVE  Bounds(c)
<1>1. PICK l \in Nat, la \in Nat : l = Len(Spelled(c)) /\ la = Len(FlattenSeq(ArgumentsOf(c)))
  BY FirstText DEF LiesBefore
<1>2. at \in 1..(l + 2) /\ b.buf = 0 /\ b.ebuf = 0 /\ b.cnt \in Nat
  <2>1. CASE c.function # "cputs"
    BY <2>1 DEF Begun
  <2>2. CASE c.function = "cputs"
    <3>1. PICK j \in 0..Len(c.after) : at = j + 1 /\ b = [buf |-> 0, ebuf |-> 0, cnt |-> j]
      BY <2>2 DEF Begun
    <3>2. PICK m \in Nat : m = Len(c.after)
      BY LegalCall
    <3>3. m + 1 <= l + 1
      <4>1. Place(c, 1) <= l + 1
        BY <1>1, FirstText DEF LiesBefore
      <4>2. Count(c) = 0
        BY <2>2, LegalCall DEF FormatCall
      <4>3. Before(c, 1) = c.after
        BY <4>2 DEF Before
      <4>4. Place(c, 1) = m + 1
        BY <3>2, <4>3, FirstText
      <4> QED
        BY <4>1, <4>4
    <3>4. j \in 0..m
      BY <3>1, <3>2
    <3> QED
      BY <3>1, <3>3, <3>4
  <2> QED
    BY <2>1, <2>2
<1>3. Settings
  BY DEF Begun, Settings
<1>4. ap \in 1..(la + 1)
  <2>1. ap = 1
    BY DEF Begun
  <2> QED
    BY <2>1
<1>5. b.buf \in 0..b.ebuf /\ b.ebuf \in {0, c.size - 1}
  BY <1>2
<1> QED
  BY <1>1, <1>2, <1>3, <1>4, <1>5, Zenon DEF Bounds

(* A call that prints nothing more begins with nothing printed. *)
LEMMA NothingPrinted ==
    ASSUME NEW c \in Calls
    PROVE  /\ Beginning(c, 0) = << >>
           /\ \A i \in Nat : ~(i < 0)
           /\ c.size # 0 => Stored(c, 0) = 0
<1>1. Beginning(c, 0) = << >>
  BY DEF Beginning
<1>2. c.size # 0 => Stored(c, 0) = 0
  <2>1. PICK z \in Nat : z = c.size
    BY LegalCall
  <2> QED
    BY <2>1 DEF Stored
<1> QED
  BY <1>1, <1>2

(* vsnprintf and vcprintf begin with the text before the first directive. *)
LEMMA FormatBegins ==
    ASSUME NEW c \in Calls, FormatCall(c), Output(c, 0)', pc' = "text", Settings', at' = 1, ap' = 1
    PROVE  Writing(c)'
<1>1. PICK n \in Nat, r \in Nat :
          /\ n = Count(c) /\ r = Len(Before(c, 1)) /\ 1 \in 1..(n + 1)
          /\ Place(c, 1) - r = 1 /\ Said(c, 1) - r = 0
  BY FirstText
<1>2. ArgAt(c)[1 - 1] = 0 /\ 0 + 1 = 1
  BY FirstText
<1>3. 1 \in 1..(Count(c) + 1)
  BY <1>1
<1>4. Plain(c, 1, r)
  BY <1>1, <1>3, PlainBefore
<1>5. InText(c, 1)'
  BY <1>1, <1>2, <1>4, Zenon DEF InText
<1> QED
  BY <1>3, <1>5 DEF Writing

(* vsnprintf begins a call, or refuses it. *)
LEMMA VsnprintfStep ==
    ASSUME NEW c \in Calls, call = c, Begun(c), vsnprintf
    PROVE  State(c)' /\ UNCHANGED call
<1>1. /\ c.function = "vsnprintf"
      /\ IF NoRoom(c) THEN pc' = "returned" /\ value' = Number(-E_INVAL) /\ UNCHANGED b
         ELSE pc' = "text" /\ b' = [b EXCEPT !.ebuf = c.size - 1]
      /\ UNCHANGED <<call, at, directive, ap, str, shown>>
  BY Zenon DEF vsnprintf, Returned, Number, NoRoom
<1>2. /\ str = Untouched /\ ap = 1 /\ at = 1 /\ shown = << >> /\ b = [buf |-> 0, ebuf |-> 0, cnt |-> 0] /\ Settings
  BY <1>1 DEF Begun, Settings
<1>3. CASE NoRoom(c)
  <2>1. Bounds(c)'
    <3>1. Bounds(c)
      BY BegunBounds
    <3> QED
      BY <1>1, <1>3, <3>1 DEF Bounds, Settings, directive
  <2>2. Results(c)'
    BY <1>1, <1>2, <1>3 DEF Results
  <2> QED
    BY <1>1, <1>3, <2>1, <2>2 DEF State, Done
<1>4. CASE ~NoRoom(c)
  <2>1. c.to # "NULL" /\ c.size # 0
    BY <1>4 DEF NoRoom
  <2>2. b' = [buf |-> 0, ebuf |-> c.size - 1, cnt |-> 0] /\ pc' = "text" /\ str' = Untouched /\ shown' = << >>
    BY <1>1, <1>2, <1>4
  <2>3. Stored(c, 0) = 0
    BY <2>1, NothingPrinted
  <2>4. str' = [i \in 0..(Room - 1) |-> IF i < 0 THEN Printout(c)[i + 1] ELSE "before"]
    <3>1. \A i \in 0..(Room - 1) : "before" = IF i < 0 THEN Printout(c)[i + 1] ELSE "before"
      OBVIOUS
    <3> QED
      BY <2>2, <3>1, Zenon DEF Untouched
  <2>5. Output(c, 0)'
    BY <1>1, <2>1, <2>2, <2>3, <2>4, Zenon DEF Output, ToBuffer
  <2>6. Settings' /\ at' = 1 /\ ap' = 1
    BY <1>1, <1>2 DEF Settings, directive
  <2>7. FormatCall(c)
    BY <1>1 DEF FormatCall
  <2> QED
    BY <1>1, <2>2, <2>5, <2>6, <2>7, FormatBegins DEF State
<1> QED
  BY <1>3, <1>4

(* vcprintf begins a call. *)
LEMMA VcprintfStep ==
    ASSUME NEW c \in Calls, call = c, Begun(c), vcprintf
    PROVE  State(c)' /\ UNCHANGED call
<1>1. c.function = "vcprintf" /\ pc' = "text" /\ UNCHANGED <<call, at, directive, ap, output>>
  BY Zenon DEF vcprintf
<1>2. /\ str = Untouched /\ ap = 1 /\ at = 1 /\ shown = << >> /\ b = [buf |-> 0, ebuf |-> 0, cnt |-> 0] /\ Settings
  BY <1>1 DEF Begun, Settings
<1>3. Output(c, 0)'
  <2>1. Output(c, 0)
    BY <1>1, <1>2, NothingPrinted, Zenon DEF Output, ToConsole
  <2> QED
    BY <1>1, <2>1, OutputKept
<1>4. Settings' /\ at' = 1 /\ ap' = 1
  BY <1>1, <1>2 DEF Settings, directive
<1>5. FormatCall(c)
  BY <1>1 DEF FormatCall
<1> QED
  BY <1>1, <1>3, <1>4, <1>5, FormatBegins DEF State

(* strtol is done in one step. *)
LEMMA StrtolStep ==
    ASSUME NEW c \in Calls, call = c, Begun(c), strtol_call
    PROVE  State(c)' /\ UNCHANGED call
<1>1. /\ c.function = "strtol" /\ pc' = "returned" /\ value' = strtol(c.after \o << Nul >>, c.base)
      /\ UNCHANGED <<call, at, directive, ap, output>>
  BY Zenon DEF strtol_call
<1>2. str = Untouched /\ shown = << >>
  BY <1>1 DEF Begun
<1>3. value' = strtol(c.after \o << Nul >>, c.base)
  BY <1>1
<1>4. Bounds(c)'
  <2>1. Bounds(c)
    BY BegunBounds
  <2> QED
    BY <1>1, <2>1 DEF Bounds, Settings, directive, output
<1>5. Results(c)'
  BY <1>1, <1>2, <1>3, Zenon DEF Results, output
<1> QED
  BY <1>1, <1>4, <1>5 DEF State, Done

(* cputs shows one character more, or the end of the line behind the last. *)
LEMMA CputsStep ==
    ASSUME NEW c \in Calls, call = c, Begun(c), cputs
    PROVE  State(c)' /\ UNCHANGED call
<1> DEFINE line == "\n"
<1>1. /\ c.function = "cputs" /\ at' = at + 1 /\ UNCHANGED <<call, directive, ap>> /\ pc = "called"
      /\ IF ch = Nul THEN cputch(<< line >>) /\ pc' = "returned" /\ value' = Number(b.cnt + 1)
         ELSE cputch(<< ch >>) /\ UNCHANGED <<pc, value>>
  BY Zenon DEF cputs, Returned, Number
<1>2. Results(c)' <=> \/ /\ c.function = "vsnprintf" /\ NoRoom(c)
                         /\ value' = Number(-E_INVAL) /\ str' = Untouched /\ shown' = << >>
                      \/ /\ c.function = "vsnprintf" /\ ~NoRoom(c)
                         /\ value' = Number(Len(Printout(c))) /\ str' = Buffer(c) /\ shown' = << >>
                      \/ /\ c.function = "vcprintf"
                         /\ value' = Number(Len(Printout(c))) /\ str' = Untouched /\ shown' = Printout(c)
                      \/ /\ c.function = "cputs"
                         /\ value' = Number(Len(c.after \o << line >>)) /\ str' = Untouched
                         /\ shown' = c.after \o << line >>
                      \/ /\ c.function = "strtol"
                         /\ value' = strtol(c.after \o << Nul >>, c.base) /\ str' = Untouched /\ shown' = << >>
  BY Zenon DEF Results
<1> HIDE DEF line
<1>11. PICK s : \E m \in Nat : /\ s = c.after /\ m = Len(s) /\ IsSeq(s) /\ \A i \in 1..m : s[i] # Nul
  BY LegalCall
<1>3. PICK m \in Nat : s = c.after /\ m = Len(s) /\ IsSeq(s) /\ \A i \in 1..m : s[i] # Nul
  BY <1>11
<1>4. PICK j \in 0..m : at = j + 1 /\ shown = [i \in 1..j |-> s[i]] /\ b = [buf |-> 0, ebuf |-> 0, cnt |-> j]
  BY <1>1, <1>3 DEF Begun
<1>5. /\ str = Untouched /\ padc = Blank /\ width = -1 /\ precision = -1 /\ lflag = 0 /\ altflag = 0 /\ ap = 1
  BY DEF Begun
<1>6. /\ \A i \in 1..m : Character(c, i) = s[i]
      /\ Character(c, m + 1) = Nul /\ Len(Spelled(c)) = m
  <2>1. Count(c) = 0 /\ Before(c, 1) = s /\ 1 = Count(c) + 1
    <3>1. Count(c) = 0
      BY <1>1, LegalCall DEF FormatCall
    <3> QED
      BY <1>3, <3>1 DEF Before
  <2>2. Place(c, 1) = m + 1 /\ FmtAt(c)[1 - 1] = 0 /\ LiesBefore(c, 1)
    BY <1>3, <2>1, FirstText
  <2>3. \A i \in 1..m : Character(c, 0 + i) = s[i]
    BY <1>3, <2>1, <2>2, Zenon DEF LiesBefore
  <2>4. Character(c, m + 1) = Nul /\ m + 1 = Len(Spelled(c)) + 1 /\ Len(Spelled(c)) \in Nat
    BY <2>1, <2>2, Zenon DEF LiesBefore
  <2> QED
    BY <2>3, <2>4
<1>7. ch = Character(c, j + 1)
  BY <1>4, ReadsHere
<1>8. CASE j # m
  <2>1. j + 1 \in 1..m
    BY <1>8
  <2>2. ch = s[j + 1] /\ ch # Nul
    BY <1>3, <1>6, <1>7, <2>1
  <2>3. cputch(<< ch >>) /\ UNCHANGED pc
    BY <1>1, <2>2
  <2>4. /\ shown' = shown \o << ch >> /\ b' = [buf |-> 0, ebuf |-> 0, cnt |-> j + 1] /\ UNCHANGED str
    BY <1>4, <2>3 DEF cputch
  <2>5. shown' = [i \in 1..(j + 1) |-> s[i]]
    <3>1. IsSeq(<< ch >>) /\ Len(<< ch >>) = 1 /\ << ch >>[1] = ch
      BY OneCharacter
    <3>2. \A i \in 1..Len(<< ch >>) : << ch >>[i] = s[j + i]
      <4>1. \A i \in 1..1 : i = 1
        OBVIOUS
      <4> QED
        BY <2>2, <3>1, <4>1, Zenon
    <3>3. [i \in 1..j |-> s[i]] \o << ch >> = [i \in 1..(j + Len(<< ch >>)) |-> s[i]]
      BY <3>1, <3>2, ShownMore
    <3> QED
      BY <1>4, <2>4, <3>1, <3>3, Zenon
  <2>6. at' = (j + 1) + 1 /\ pc' = "called" /\ j + 1 \in 0..Len(c.after)
    BY <1>1, <1>3, <1>4, <2>1, <2>3
  <2>7. /\ padc' = Blank /\ width' = -1 /\ precision' = -1 /\ lflag' = 0 /\ altflag' = 0 /\ ap' = 1 /\ str' = Untouched
    BY <1>1, <1>5, <2>4 DEF directive
  <2>8. Begun(c)'
    BY <1>1, <1>3, <2>4, <2>5, <2>6, <2>7, Zenon DEF Begun
  <2> QED
    BY <1>1, <2>8 DEF State
<1>9. CASE j = m
  <2>1. ch = Nul
    BY <1>6, <1>7, <1>9
  <2>2. cputch(<< line >>) /\ pc' = "returned" /\ value' = Number(b.cnt + 1)
    BY <1>1, <2>1
  <2>3. shown' = shown \o << line >> /\ b' = [buf |-> 0, ebuf |-> 0, cnt |-> m + 1] /\ UNCHANGED str
    <3>1. Len(<< line >>) = 1
      BY OneCharacter
    <3> QED
      BY <1>4, <1>9, <2>2, <3>1 DEF cputch
  <2>4. shown = s
    BY <1>3, <1>4, <1>9, SeqIsFunction
  <2>5. Len(s \o << line >>) = m + 1
    <3>1. IsSeq(<< line >>) /\ Len(<< line >>) = 1
      BY OneCharacter
    <3>2. Joined(s, << line >>)
      BY <1>3, <3>1, JoinIs
    <3> QED
      BY <1>3, <3>1, <3>2 DEF Joined
  <2>6. value' = Number(Len(c.after \o << line >>)) /\ shown' = c.after \o << line >> /\ str' = Untouched
    <3>1. b.cnt = m
      BY <1>4, <1>9
    <3> QED
      BY <1>3, <1>5, <2>2, <2>3, <2>4, <2>5, <3>1, Zenon
  <2>7. Results(c)'
    BY <1>1, <1>2, <2>6, Zenon
  <2>8. Bounds(c)'
    <3>1. Bounds(c)
      BY BegunBounds
    <3>2. at' \in 1..(Len(Spelled(c)) + 2)
      BY <1>1, <1>4, <1>6, <1>9
    <3>3. Settings' /\ ap' \in 1..(Len(FlattenSeq(ArgumentsOf(c))) + 1)
      BY <1>1, <3>1 DEF Bounds, Settings, directive
    <3>4. b'.buf \in 0..b'.ebuf /\ b'.ebuf \in {0, c.size - 1} /\ b'.cnt \in Nat
      BY <2>3
    <3> QED
      BY <3>2, <3>3, <3>4, Zenon DEF Bounds
  <2> QED
    BY <1>1, <2>2, <2>7, <2>8 DEF State, Done
<1> QED
  BY <1>8, <1>9

-----------------------------------------------------------------------------
(* Every call begins with nothing printed. *)
LEMMA FormatInitBegins == ASSUME FormatInit PROVE Inv
<1>1. /\ call \in Calls /\ pc = "called" /\ str = Untouched /\ shown = << >>
      /\ at = 1 /\ ap = 1 /\ width = -1 /\ precision = -1 /\ lflag = 0 /\ altflag = 0
      /\ b = [buf |-> 0, ebuf |-> 0, cnt |-> 0]
  BY Zenon DEF FormatInit, Init
<1>2. padc = Blank
  BY Zenon DEF FormatInit, Blank
<1>3. PICK c \in Calls : c = call
  BY <1>1
<1>4. 0 \in 0..Len(c.after) /\ at = 0 + 1 /\ shown = [i \in 1..0 |-> c.after[i]]
  <2>1. Len(c.after) \in Nat
    BY LegalCall
  <2>2. [i \in 1..0 |-> c.after[i]] = << >>
    OBVIOUS
  <2> QED
    BY <1>1, <2>1, <2>2
<1>5. Begun(c)
  BY <1>1, <1>2, <1>4, Zenon DEF Begun
<1> QED
  BY <1>1, <1>3, <1>5 DEF Inv, State

(* A step keeps the invariant, and the call. *)
LEMMA StepKeeps == ASSUME Inv, FormatNext PROVE Inv' /\ UNCHANGED call
<1>1. PICK c \in Calls : c = call /\ State(c)
  BY DEF Inv
<1>2. State(c)' /\ UNCHANGED call
  <2>1. CASE Begun(c)
    <3>1. vsnprintf \/ vcprintf \/ cputs \/ strtol_call
      BY <2>1, Dispatch DEF Begun
    <3> QED
      BY <1>1, <2>1, <3>1, VsnprintfStep, VcprintfStep, CputsStep, StrtolStep
  <2>2. CASE Writing(c)
    BY <1>1, <2>2, WritingStep
  <2>3. CASE Done(c)
    BY <2>3, Dispatch DEF Done
  <2> QED
    BY <1>1, <2>1, <2>2, <2>3 DEF State
<1>3. State(call)'
  BY <1>1, <1>2, Zenon
<1> QED
  BY <1>1, <1>2, <1>3 DEF Inv

(* The fields of a directive follow each other. *)
LEMMA FieldsFollow ==
    ASSUME NEW c \in Calls, FormatCall(c), NEW k \in 1..Count(c), NEW d, d = c.directives[k]
    PROVE  /\ \A i \in 0..Len(d.flags) : 1 + i \in 0..LongsEnd(d)
           /\ d.width \notin {None, Star}
                => \A i \in 1..Figured(d.width) : FlagsEnd(d) + i \in 0..LongsEnd(d) /\ ValueAt(d.width)[i] \in Int
           /\ WidthEnd(d) \in 0..LongsEnd(d)
           /\ d.precision # None => WidthEnd(d) + 1 \in 0..LongsEnd(d)
           /\ d.precision \notin {None, Star}
                => \A i \in 1..Figured(d.precision) :
                       WidthEnd(d) + 1 + i \in 0..LongsEnd(d) /\ ValueAt(d.precision)[i] \in Int
           /\ \A i \in 0..d.longs : PrecisionEnd(d) + i \in 0..LongsEnd(d) /\ i \in 0..2
           /\ 0 \in 0..Len(d.stars) /\ WidthStars(d) \in 0..Len(d.stars) /\ Len(d.stars) \in 0..Len(d.stars)
<1>1. LegalDirective(d) /\ Spells(c, Place(c, k), d)
  BY DirectiveIs
<1>2. PICK p \in Nat, a \in Nat, f \in Nat, w \in Nat, pe \in Nat, s \in 0..1 : Measured(c, k, d, p, a, f, w, pe, s)
  BY DirectiveIs
<1>3. /\ p = Place(c, k) /\ a = ArgAt(c)[k - 1] /\ f = FlagsEnd(d) /\ w = WidthEnd(d) /\ pe = PrecisionEnd(d)
      /\ s = WidthStars(d)
  BY <1>2, Zenon DEF Measured
<1>4. PICK nf \in Nat, nw \in Nat, np \in Nat, l \in 0..2 :
          nf = Len(d.flags) /\ nw = Len(WidthField(d)) /\ np = Len(PrecisionField(d)) /\ l = d.longs
  BY <1>1 DEF Spells
<1>5. f = 1 + nf /\ w = f + nw /\ pe = w + np /\ LongsEnd(d) = pe + l
  BY <1>3, <1>4, Zenon DEF FlagsEnd, WidthEnd, PrecisionEnd, LongsEnd
<1>6. PICK e \in Nat : e = LongsEnd(d) /\ e = pe + l
  BY <1>5
<1>7. f <= w /\ w <= pe /\ pe <= e /\ f = 1 + nf
  BY <1>5, <1>6
<1>8. \A i \in 0..nf : 1 + i \in 0..e
  BY <1>7
<1>9. ASSUME d.width \notin {None, Star}, NEW i \in 1..Figured(d.width)
      PROVE  f + i \in 0..e /\ ValueAt(d.width)[i] \in Int
  <2>1. w = f + Figured(d.width) /\ Numbered(c, p + f, d.width)
    BY <1>1, <1>3, <1>9, Zenon DEF Spells, SpellsWidth
  <2>2. PICK m \in Nat : m = Figured(d.width) /\ ValueAt(d.width) \in [0..m -> Nat] /\ w = f + m
    BY <2>1 DEF Numbered
  <2>3. i \in 1..m /\ i \in 0..m /\ w = f + m
    BY <2>2
  <2>4. f + i \in 0..e
    BY <1>7, <2>3
  <2>5. ValueAt(d.width)[i] \in Nat
    BY <2>2, <2>3
  <2> QED
    BY <2>4, <2>5
<1>10. w \in 0..e
  BY <1>7
<1>11. ASSUME d.precision = Star PROVE w + 1 \in 0..e
  <2>1. pe = w + 2
    BY <1>1, <1>3, <1>11, Zenon DEF Spells, SpellsPrecision, None, Star
  <2> QED
    BY <1>7, <2>1
<1>12. ASSUME d.precision \notin {None, Star}
       PROVE  /\ w + 1 \in 0..e
              /\ \A i \in 1..Figured(d.precision) : w + 1 + i \in 0..e /\ ValueAt(d.precision)[i] \in Int
  <2>1. pe = w + 1 + Figured(d.precision) /\ Numbered(c, p + w + 1, d.precision)
    BY <1>1, <1>3, <1>12, Zenon DEF Spells, SpellsPrecision
  <2>2. PICK m \in Nat : m = Figured(d.precision) /\ ValueAt(d.precision) \in [0..m -> Nat] /\ pe = w + 1 + m
    BY <2>1 DEF Numbered
  <2>3. pe = w + 1 + m
    BY <2>2
  <2>4. w + 1 \in 0..e /\ \A i \in 1..m : w + 1 + i \in 0..e
    BY <1>7, <2>3
  <2>5. \A i \in 1..m : ValueAt(d.precision)[i] \in Int
    <3>1. \A i \in 1..m : i \in 0..m
      OBVIOUS
    <3> QED
      BY <2>2, <3>1
  <2> QED
    BY <2>2, <2>4, <2>5
<1>13. \A i \in 0..l : pe + i \in 0..e /\ i \in 0..2
  BY <1>6
<1>14. PICK n \in Nat : n = Len(d.stars) /\ s <= n
  <2>1. Len(d.stars) = (IF d.width = Star THEN 1 ELSE 0) + (IF d.precision = Star THEN 1 ELSE 0)
    BY <1>1, StarsAre
  <2>2. PICK o \in Nat : o = IF d.precision = Star THEN 1 ELSE 0
    OBVIOUS
  <2>3. Len(d.stars) = s + o
    BY <1>3, <2>1, <2>2, Zenon DEF WidthStars
  <2>4. s + o \in Nat /\ s <= s + o
    OBVIOUS
  <2> QED
    BY <2>3, <2>4
<1>15. 0 \in 0..n /\ s \in 0..n /\ n \in 0..n
  BY <1>14
<1>16. d.precision # None => w + 1 \in 0..e
  BY <1>11, <1>12
<1> QED
  BY <1>3, <1>4, <1>6, <1>8, <1>9, <1>10, <1>12, <1>13, <1>14, <1>15, <1>16, Zenon

(* A call that is writing is within its bounds. *)
LEMMA WritingBounds ==
    ASSUME NEW c \in Calls, Writing(c)
    PROVE  Bounds(c)
<1>1. FormatCall(c)
  BY DEF Writing
<1>2. CASE \E k \in 1..(Count(c) + 1) : InText(c, k)
  BY <1>2, TextBounds
<1>3. CASE \E k \in 1..Count(c) : InDirective(c, k, c.directives[k])
  <2>1. PICK k \in 1..Count(c) : InDirective(c, k, c.directives[k])
    BY <1>3
  <2>2. PICK d : d = c.directives[k] /\ InDirective(c, k, d)
    BY <2>1
  <2>3. LegalDirective(d) /\ Width(d) \in Int /\ Precision(d) \in Int /\ Columns(d) \in Int
    BY <1>1, <2>2, DirectiveIs
  <2>4. -1 \in Int /\ 0 \in 0..2
    OBVIOUS
  <2>5. CASE InFlags(c, k, d)
    <3>1. PICK i \in 0..Len(d.flags) : MarkedBy(d, i, padc, altflag) /\ At(c, k, 1 + i, -1, -1, 0, 0)
      BY <2>5 DEF InFlags
    <3>2. padc \in {Blank, "-", "0"} /\ altflag \in 0..1
      BY <2>3, <3>1, MarkedType
    <3>3. 1 + i \in 0..LongsEnd(d) /\ 0 \in 0..Len(d.stars)
      BY <1>1, <2>2, <3>1, FieldsFollow
    <3> QED
      BY <2>2, <2>4, <3>1, <3>2, <3>3, AtBounds
  <2>6. ASSUME Marked(d) PROVE padc \in {Blank, "-", "0"} /\ altflag \in 0..1
    BY <2>6 DEF Marked
  <2>7. CASE InWidth(c, k, d)
    <3>1. PICK i \in 1..Figured(d.width) : At(c, k, FlagsEnd(d) + i, -1, ValueAt(d.width)[i], 0, 0)
      BY <2>7 DEF InWidth
    <3>2. d.width \notin {None, Star} /\ Marked(d)
      BY <2>7 DEF InWidth
    <3>3. FlagsEnd(d) + i \in 0..LongsEnd(d) /\ ValueAt(d.width)[i] \in Int /\ 0 \in 0..Len(d.stars)
      BY <1>1, <2>2, <3>1, <3>2, FieldsFollow
    <3> QED
      BY <2>2, <2>4, <2>6, <3>1, <3>2, <3>3, AtBounds
  <2>8. CASE Wide(c, k, d)
    <3>1. At(c, k, WidthEnd(d), Width(d), -1, 0, WidthStars(d)) /\ Marked(d)
      BY <2>8 DEF Wide
    <3>2. WidthEnd(d) \in 0..LongsEnd(d) /\ WidthStars(d) \in 0..Len(d.stars)
      BY <1>1, <2>2, FieldsFollow
    <3> QED
      BY <2>2, <2>3, <2>4, <2>6, <3>1, <3>2, AtBounds
  <2>9. CASE InPoint(c, k, d)
    <3>1. At(c, k, WidthEnd(d) + 1, Columns(d), -1, 0, WidthStars(d)) /\ Marked(d) /\ d.precision # None
      BY <2>9 DEF InPoint
    <3>2. WidthEnd(d) + 1 \in 0..LongsEnd(d) /\ WidthStars(d) \in 0..Len(d.stars)
      BY <1>1, <2>2, <3>1, FieldsFollow
    <3> QED
      BY <2>2, <2>3, <2>4, <2>6, <3>1, <3>2, AtBounds
  <2>10. CASE InPrecision(c, k, d)
    <3>1. PICK i \in 1..Figured(d.precision) :
              At(c, k, WidthEnd(d) + 1 + i, Columns(d), ValueAt(d.precision)[i], 0, WidthStars(d))
      BY <2>10 DEF InPrecision
    <3>2. d.precision \notin {None, Star} /\ Marked(d)
      BY <2>10 DEF InPrecision
    <3>3. /\ WidthEnd(d) + 1 + i \in 0..LongsEnd(d) /\ ValueAt(d.precision)[i] \in Int
          /\ WidthStars(d) \in 0..Len(d.stars)
      BY <1>1, <2>2, <3>1, <3>2, FieldsFollow
    <3> QED
      BY <2>2, <2>3, <2>4, <2>6, <3>1, <3>2, <3>3, AtBounds
  <2>11. CASE InLongs(c, k, d)
    <3>1. PICK i \in 0..d.longs : At(c, k, PrecisionEnd(d) + i, Columns(d), Precision(d), i, Len(d.stars))
      BY <2>11 DEF InLongs
    <3>2. Marked(d)
      BY <2>11 DEF InLongs
    <3>3. PrecisionEnd(d) + i \in 0..LongsEnd(d) /\ i \in 0..2 /\ Len(d.stars) \in 0..Len(d.stars)
      BY <1>1, <2>2, <3>1, FieldsFollow
    <3> QED
      BY <2>2, <2>3, <2>4, <2>6, <3>1, <3>2, <3>3, AtBounds
  <2> QED
    BY <2>2, <2>5, <2>7, <2>8, <2>9, <2>10, <2>11 DEF InDirective
<1> QED
  BY <1>2, <1>3 DEF Writing

(* What a call that is writing has printed is a beginning of its text. *)
LEMMA WritingOutput ==
    ASSUME NEW c \in Calls, Writing(c)
    PROVE  \E m \in Nat : Output(c, m)
<1>1. FormatCall(c)
  BY DEF Writing
<1>2. PICK n \in Nat : n = Count(c)
  BY LegalCall
<1>3. CASE \E k \in 1..(Count(c) + 1) : InText(c, k)
  <2>1. PICK k \in 1..(Count(c) + 1) : InText(c, k)
    BY <1>3
  <2>2. PICK r \in Nat : Plain(c, k, r) /\ at = Place(c, k) - r /\ Output(c, Said(c, k) - r)
    BY <2>1 DEF InText
  <2>3. PICK q \in Nat : q = Said(c, k) /\ r <= q
    BY <2>2 DEF Plain
  <2>4. q - r \in Nat
    BY <2>3
  <2> QED
    BY <2>2, <2>3, <2>4, Zenon
<1>4. CASE \E k \in 1..Count(c) : InDirective(c, k, c.directives[k])
  <2>1. PICK k \in 1..Count(c) : InDirective(c, k, c.directives[k])
    BY <1>4
  <2>2. Output(c, Said(c, k))
    BY <2>1, Zenon DEF InDirective, InFlags, InWidth, Wide, InPoint, InPrecision, InLongs, At
  <2>3. Said(c, k) \in Nat
    <3>1. PICK p \in Nat, q \in Nat, a \in Nat, e \in Nat, s \in Nat, z \in Nat, o \in 0..1, m \in Nat :
              EndsAt(c, k, c.directives[k], p, q, a, e, s, z, o, m)
      BY BehindDirective
    <3>2. q = Said(c, k)
      BY <3>1, Zenon DEF EndsAt
    <3> QED
      BY <3>2
  <2> QED
    BY <2>2, <2>3
<1> QED
  BY <1>3, <1>4 DEF Writing

(* Behind the buffer nothing has been written. *)
LEMMA NothingBehind ==
    ASSUME NEW c \in Calls, State(c)
    PROVE  \A i \in c.size..(Room - 1) : str[i] = "before"
<1>1. PICK z \in Nat : z = c.size /\ Room \in Nat /\ z < Room
  BY LegalCall
<1>2. CASE str = Untouched
  BY <1>1, <1>2 DEF Untouched
<1>3. ASSUME NEW m \in Nat, z # 0
      PROVE  \A i \in z..(Room - 1) : ~(i < Stored(c, m)) /\ ~(i = Stored(c, m)) /\ i \in 0..(Room - 1)
  <2>1. Stored(c, m) \in 0..(z - 1)
    BY <1>1, <1>3 DEF Stored
  <2> QED
    BY <1>1, <2>1
<1>4. CASE Begun(c)
  BY <1>2, <1>4 DEF Begun
<1>5. CASE Writing(c)
  <2>1. PICK m \in Nat : Output(c, m)
    BY <1>5, WritingOutput
  <2>2. CASE ToConsole(c, m)
    BY <1>2, <2>2 DEF ToConsole
  <2>3. CASE ToBuffer(c, m)
    <3>1. str = [i \in 0..(Room - 1) |-> IF i < Stored(c, m) THEN Printout(c)[i + 1] ELSE "before"] /\ z # 0
      BY <1>1, <2>3 DEF ToBuffer
    <3> QED
      BY <1>1, <1>3, <3>1
  <2> QED
    BY <2>1, <2>2, <2>3 DEF Output
<1>6. CASE Done(c)
  <2>1. PICK m \in Nat : m = Len(Printout(c))
    BY TextIsSeq
  <2>2. CASE str = Buffer(c) /\ ~NoRoom(c)
    <3>1. z # 0
      BY <1>1, <2>2 DEF NoRoom
    <3>2. str = [i \in 0..(Room - 1) |-> IF i < Stored(c, m) THEN Printout(c)[i + 1]
                                         ELSE IF i = Stored(c, m) THEN Nul ELSE "before"]
      BY <2>1, <2>2, Zenon DEF Buffer
    <3> QED
      BY <1>1, <1>3, <3>1, <3>2
  <2>3. str = Untouched \/ (str = Buffer(c) /\ ~NoRoom(c))
    BY <1>6, Zenon DEF Done, Results
  <2> QED
    BY <1>2, <2>2, <2>3
<1> QED
  BY <1>4, <1>5, <1>6 DEF State

(* The invariant implies the types. *)
LEMMA InvTypes == ASSUME Inv PROVE TypeOK
<1>1. PICK c \in Calls : c = call /\ State(c)
  BY DEF Inv
<1>2. Bounds(c)
  BY <1>1, BegunBounds, WritingBounds DEF State, Done
<1>3. pc \in {"called", "text", "reswitch", "number", "returned"}
  <2>1. CASE Begun(c)
    BY <2>1 DEF Begun
  <2>2. CASE Writing(c)
    BY <2>2, Zenon DEF Writing, InText, InDirective, InFlags, InWidth, Wide, InPoint, InPrecision, InLongs
  <2>3. CASE Done(c)
    BY <2>3 DEF Done
  <2> QED
    BY <1>1, <2>1, <2>2, <2>3 DEF State
<1>4. \A i \in c.size..(Room - 1) : str[i] = "before"
  BY <1>1, NothingBehind
<1>5. at \in 1..(Len(Fmt) + 1) /\ ap \in 1..(Len(Args) + 1)
  <2>1. PICK l \in Nat : l = Len(Spelled(c)) /\ at \in 1..(l + 2)
    BY <1>2, FirstText DEF Bounds, LiesBefore
  <2>2. Len(Fmt) = l + 1
    <3>1. IsSeq(Spelled(c))
      <4>1. IsSeq(FlattenSeq(SpellingsOf(c))) /\ IsSeq(c.after)
        BY LayoutsAre, LegalCall DEF Layout
      <4>2. Spelled(c) = FlattenSeq(SpellingsOf(c)) \o c.after
        BY DEF Spelled, SpellingsOf
      <4> QED
        BY <4>1, <4>2, JoinIs DEF Joined
    <3>2. IsSeq(<< Nul >>) /\ Len(<< Nul >>) = 1
      BY OneCharacter
    <3>3. Joined(Spelled(c), << Nul >>)
      BY <3>1, <3>2, JoinIs
    <3>4. Fmt = Spelled(c) \o << Nul >>
      BY <1>1, Zenon DEF Fmt
    <3> QED
      BY <2>1, <3>2, <3>3, <3>4 DEF Joined
  <2>3. Args = FlattenSeq(ArgumentsOf(c))
    BY <1>1, Zenon DEF Args, ArgumentsOf
  <2>4. at \in 1..(Len(Fmt) + 1)
    BY <2>1, <2>2
  <2>5. ap \in 1..(Len(FlattenSeq(ArgumentsOf(c))) + 1)
    BY <1>2, Zenon DEF Bounds
  <2> QED
    BY <2>3, <2>4, <2>5, Zenon
<1>6. padc \in {" ", "-", "0"} /\ width \in Int /\ precision \in Int /\ lflag \in 0..2 /\ altflag \in 0..1
  BY <1>2, Zenon DEF Bounds, Settings, Blank
<1>7. b.buf \in 0..b.ebuf /\ b.ebuf \in {0, call.size - 1} /\ b.cnt \in Nat
  BY <1>1, <1>2, Zenon DEF Bounds
<1> QED
  BY <1>1, <1>3, <1>4, <1>5, <1>6, <1>7, Zenon DEF TypeOK

(* What is not touched stays as it is. *)
LEMMA NothingDone == ASSUME Inv, UNCHANGED formatVars PROVE Inv'
<1>1. PICK c \in Calls : c = call /\ State(c)
  BY DEF Inv
<1>2. /\ UNCHANGED <<call, pc, at, padc, width, precision, lflag, altflag, ap, str, b, shown, value>>
      /\ UNCHANGED output
  BY DEF formatVars, directive, output
<1>3. \A m : Output(c, m) => Output(c, m)'
  BY <1>2, OutputKept
<1>4. \A k, off, wide, exact, longs, taken :
          At(c, k, off, wide, exact, longs, taken) => At(c, k, off, wide, exact, longs, taken)'
  BY <1>2, <1>3 DEF At
<1>5. \A d, i : /\ MarkedBy(d, i, padc, altflag) => MarkedBy(d, i, padc', altflag')
              /\ Marked(d) => Marked(d)'
  BY <1>2 DEF Marked
<1>6. Begun(c) => Begun(c)'
  BY <1>2 DEF Begun
<1>7. Writing(c) => Writing(c)'
  <2>1. \A k : InText(c, k) => InText(c, k)'
    BY <1>2, <1>3 DEF InText, Settings
  <2>2. \A k, d : InFlags(c, k, d) => InFlags(c, k, d)'
    BY <1>2, <1>4, <1>5 DEF InFlags
  <2>3. \A k, d : InWidth(c, k, d) => InWidth(c, k, d)'
    BY <1>2, <1>4, <1>5 DEF InWidth
  <2>4. \A k, d : Wide(c, k, d) => Wide(c, k, d)'
    BY <1>2, <1>4, <1>5 DEF Wide
  <2>5. \A k, d : InPoint(c, k, d) => InPoint(c, k, d)'
    BY <1>2, <1>4, <1>5 DEF InPoint
  <2>6. \A k, d : InPrecision(c, k, d) => InPrecision(c, k, d)'
    BY <1>2, <1>4, <1>5 DEF InPrecision
  <2>7. \A k, d : InLongs(c, k, d) => InLongs(c, k, d)'
    BY <1>2, <1>4, <1>5 DEF InLongs
  <2>8. \A k, d : InDirective(c, k, d) => InDirective(c, k, d)'
    BY <2>2, <2>3, <2>4, <2>5, <2>6, <2>7, Zenon DEF InDirective
  <2> QED
    BY <2>1, <2>8, Zenon DEF Writing
<1>8. Done(c) => Done(c)'
  <2>1. Bounds(c) => Bounds(c)'
    BY <1>2 DEF Bounds, Settings
  <2>2. Results(c) => Results(c)'
    BY <1>2, Zenon DEF Results
  <2> QED
    BY <1>2, <2>1, <2>2 DEF Done
<1>9. State(c)' /\ c = call'
  BY <1>1, <1>2, <1>6, <1>7, <1>8 DEF State
<1>10. State(call)'
  BY <1>9, Zenon
<1> QED
  BY <1>1, <1>9, <1>10 DEF Inv

(* For all calls, and however long a run gets: FormatSpec keeps TypeOK. *)
THEOREM FormatTypeCorrect == FormatSpec => []TypeOK
<1>1. Inv /\ [FormatNext]_formatVars => Inv'
  BY StepKeeps, NothingDone
<1> QED
  BY <1>1, FormatInitBegins, InvTypes, PTL DEF FormatSpec

-----------------------------------------------------------------------------
(* A step returns what the call promises, or no value at all. *)
LEMMA Outcome ==
    ASSUME Inv, FormatNext
    PROVE  /\ pc # "returned" /\ UNCHANGED call
           /\ \/ pc' = "returned" /\ Results(call)'
              \/ pc' # "returned" /\ UNCHANGED value
<1>1. pc # "returned" /\ UNCHANGED call /\ Inv'
  BY Dispatch, StepKeeps
<1>2. pc' = "returned" => Results(call)'
  <2> SUFFICES ASSUME pc' = "returned" PROVE Results(call)'
    OBVIOUS
  <2>1. Begun(call)' \/ Writing(call)' \/ Done(call)'
    BY <1>1 DEF Inv, State
  <2>2. ~Begun(call)'
    BY DEF Begun
  <2>3. ~Writing(call)'
    BY Zenon DEF Writing, InText, InDirective, InFlags, InWidth, Wide, InPoint, InPrecision, InLongs
  <2> QED
    BY <2>1, <2>2, <2>3, Zenon DEF Done
<1>3. pc' = "returned" \/ UNCHANGED value
  <2>1. CASE vsnprintf \/ vcprintf \/ cputs \/ strtol_call
    BY <2>1, Zenon DEF vsnprintf, vcprintf, cputs, strtol_call
  <2>2. CASE text \/ percent \/ end
    BY <2>2, Zenon DEF text, percent, end
  <2>3. CASE pad_flag \/ alt_flag \/ long_flag \/ point \/ star \/ number_begins \/ number
    BY <2>3, Zenon DEF pad_flag, alt_flag, long_flag, point, star, number_begins, number, Switch
  <2>4. ASSUME NEW conv, NEW n, NEW x, Convert(conv, n, x) PROVE UNCHANGED value
    BY <2>4, Zenon DEF Convert
  <2>5. CASE c_character \/ percent_sign \/ e_error \/ s_string \/ d_signed \/ uox_unsigned \/ p_pointer
    BY <2>4, <2>5, Zenon DEF c_character, percent_sign, e_error, s_string, d_signed, uox_unsigned, p_pointer
  <2>6. CASE default
    BY <2>6, Zenon DEF default
  <2> QED
    BY <2>1, <2>2, <2>3, <2>5, <2>6, Zenon DEF FormatNext, vprintfmt
<1> QED
  BY <1>1, <1>2, <1>3

(* The promise is made in the same words: the operators of its instance are
   those of FormatCalls. *)
LEMMA SameNumeral == \A n, base : Promise!Numeral(n, base) = Numeral(n, base)
  BY Zenon DEF Numeral, Promise!Numeral, Lower, Promise!Lower, Power, Promise!Power

(* The settings of a directive are those that MeansWhatItSays' instance gives it. *)
LEMMA SameSettings ==
    ASSUME NEW d
    PROVE  /\ Promise!Width(d) = Width(d) /\ Promise!Precision(d) = Precision(d) /\ Promise!Pad(d) = Pad(d)
           /\ Promise!Conversion(d) = Conversion(d)
<1>1. Promise!Width(d) = Width(d)
  BY Zenon DEF Width, Promise!Width, Star, Promise!Star
<1>2. Promise!Precision(d) = Precision(d)
  BY Zenon DEF Precision, Promise!Precision, Star, Promise!Star, Last, Promise!Last
<1>3. Promise!Pad(d) = Pad(d)
  BY Zenon DEF Pad, Promise!Pad
<1>4. Promise!Conversion(d) = Conversion(d)
  BY Zenon DEF Conversion, Promise!Conversion
<1> QED
  BY <1>1, <1>2, <1>3, <1>4

(* The operators that texts are made with are those of the instance. *)
LEMMA SamePieces ==
    /\ \A c, n : Promise!Repeated(c, n) = Repeated(c, n)
    /\ \A x, w : Promise!Wrap(x, w) = Wrap(x, w) /\ Promise!WrapSigned(x, w) = WrapSigned(x, w)
    /\ \A longs : Promise!Size(longs) = Size(longs)
    /\ \A conv : Promise!Base(conv) = Base(conv)
    /\ \A seqs : Promise!FlattenSeq(seqs) = FlattenSeq(seqs)
<1>1. \A c, n : Promise!Repeated(c, n) = Repeated(c, n)
  BY Zenon DEF Repeated, Promise!Repeated
<1>2. \A x, w : Promise!Wrap(x, w) = Wrap(x, w) /\ Promise!WrapSigned(x, w) = WrapSigned(x, w)
  BY Zenon DEF Wrap, Promise!Wrap, WrapSigned, Promise!WrapSigned
<1>3. \A longs : Promise!Size(longs) = Size(longs)
  BY Zenon DEF Size, Promise!Size
<1>4. \A conv : Promise!Base(conv) = Base(conv)
  BY Zenon DEF Base, Promise!Base
<1>5. \A seqs : Promise!FlattenSeq(seqs) = FlattenSeq(seqs)
  BY Zenon DEF FlattenSeq, Promise!FlattenSeq
<1> QED
  BY <1>1, <1>2, <1>3, <1>4, <1>5

(* A directive is spelled the same in the instance. *)
LEMMA SameWritten == ASSUME NEW d PROVE Promise!Written(d) = Written(d)
<1>1. \A n : Promise!Field(n) = Field(n)
  BY SameNumeral, Zenon DEF Field, Promise!Field, Star, Promise!Star
<1>2. \A c, n : Promise!Repeated(c, n) = Repeated(c, n)
  BY SamePieces
<1> QED
  BY <1>1, <1>2, Zenon DEF Written, Promise!Written, None, Promise!None

(* Characters are padded the same in the instance. *)
LEMMA SamePadded == ASSUME NEW d, NEW chars PROVE Promise!Padded(d, chars) = Padded(d, chars)
<1> DEFINE space == Width(d) - Len(chars)
           Pspace == Promise!Width(d) - Len(chars)
<1>1. Padded(d, chars)
          = IF Pad(d) = "-" THEN chars \o Repeated(Blank, space) ELSE Repeated(Pad(d), space) \o chars
  BY Zenon DEF Padded, Blank
<1>2. Promise!Padded(d, chars)
          = IF Promise!Pad(d) = "-" THEN chars \o Promise!Repeated(Blank, Pspace)
            ELSE Promise!Repeated(Promise!Pad(d), Pspace) \o chars
  BY Zenon DEF Promise!Padded, Blank
<1>3. Promise!Width(d) = Width(d) /\ Promise!Pad(d) = Pad(d)
  BY SameSettings
<1>4. Pspace = space
  BY <1>3, Zenon
<1> HIDE DEF space, Pspace
<1>5. \A c : Promise!Repeated(c, space) = Repeated(c, space)
  BY SamePieces, Zenon
<1>6. Promise!Repeated(Blank, space) = Repeated(Blank, space) /\ Promise!Repeated(Pad(d), space) = Repeated(Pad(d), space)
  BY <1>5
<1>7. Promise!Padded(d, chars)
          = IF Pad(d) = "-" THEN chars \o Promise!Repeated(Blank, space)
            ELSE Promise!Repeated(Pad(d), space) \o chars
  BY <1>2, <1>3, <1>4, Zenon
<1>8. PICK x, y : x = Repeated(Blank, space) /\ y = Repeated(Pad(d), space)
  OBVIOUS
<1>9. Padded(d, chars) = IF Pad(d) = "-" THEN chars \o x ELSE y \o chars
  BY <1>1, <1>8, Zenon
<1>10. Promise!Padded(d, chars) = IF Pad(d) = "-" THEN chars \o x ELSE y \o chars
  BY <1>6, <1>7, <1>8, Zenon
<1> QED
  BY <1>9, <1>10, Zenon

(* A string argument has the same text in the instance. *)
LEMMA SameString == ASSUME NEW d PROVE Promise!StringText(d) = StringText(d)
<1> DEFINE whole == IF d.text = NULL THEN << "(", "n", "u", "l", "l", ")" >> ELSE d.text
           kept  == IF Precision(d) \in 0..(Len(whole) - 1) THEN SubSeq(whole, 1, Precision(d)) ELSE whole
           clean == [i \in DOMAIN kept |->
                        IF Contains(d.flags, "#") /\ kept[i] \in Unprintable THEN "?" ELSE kept[i]]
<1>1. StringText(d) = Padded(d, clean)
  BY Zenon DEF StringText
<1>2. Promise!StringText(d) = Promise!Padded(d, clean)
  BY Zenon DEF Promise!StringText, NULL, Promise!NULL, Contains, Promise!Contains, Unprintable,
     Promise!Unprintable, Precision, Promise!Precision, Star, Promise!Star, Last, Promise!Last
<1> HIDE DEF clean
<1> QED
  BY <1>1, <1>2, SamePadded, Zenon

(* An error has the same text in the instance. *)
LEMMA SameError == \A n : Promise!ErrorText(n) = ErrorText(n)
<1>1. \A n : Promise!IntegerText(n) = IntegerText(n)
  BY SameNumeral, Zenon DEF IntegerText, Promise!IntegerText
<1> QED
  BY <1>1, Zenon DEF ErrorText, Promise!ErrorText, WrapSigned, Promise!WrapSigned, MAXERROR, Promise!MAXERROR,
     error_string, Promise!error_string

(* A directive has the same text in the instance. *)
LEMMA SameDirective == \A d : Promise!DirectiveText(d) = DirectiveText(d)
<1> SUFFICES ASSUME NEW d PROVE Promise!DirectiveText(d) = DirectiveText(d)
  OBVIOUS
<1>1. /\ \A x, w : Promise!Wrap(x, w) = Wrap(x, w) /\ Promise!WrapSigned(x, w) = WrapSigned(x, w)
      /\ \A longs : Promise!Size(longs) = Size(longs)
      /\ \A conv : Promise!Base(conv) = Base(conv)
  BY SamePieces
<1>2. Promise!Conversion(d) = Conversion(d)
  BY SameSettings
<1>3. \A n, base : Promise!Numeral(n, base) = Numeral(n, base)
  BY SameNumeral
<1>4. \A figures : Promise!Padded(d, figures) = Padded(d, figures)
  BY SamePadded
<1>5. Promise!StringText(d) = StringText(d) /\ Promise!Written(d) = Written(d)
  BY SameString, SameWritten
<1>6. \A n : Promise!ErrorText(n) = ErrorText(n)
  BY SameError
<1> DEFINE By(conv, m, minus, pointer, plain, written, error, string) ==
               CASE conv = "c" -> d.text
                 [] conv = "s" -> string
                 [] conv = "e" -> error
                 [] conv = "d" /\ m < 0 -> << "-" >> \o minus
                 [] conv = "p" -> << "0", "x" >> \o pointer
                 [] conv \in {"d", "u", "o", "x"} /\ ~(conv = "d" /\ m < 0) -> plain
                 [] conv = "%" -> << "%" >>
                 [] OTHER -> written
           sign == WrapSigned(d.number, Size(d.longs))
           rest == Wrap(d.number, Size(d.longs))
           Psign == Promise!WrapSigned(d.number, Promise!Size(d.longs))
           Prest == Promise!Wrap(d.number, Promise!Size(d.longs))
<1>7. DirectiveText(d) = By(Conversion(d), sign, Padded(d, Numeral(-sign, 10)), Padded(d, Numeral(Wrap(d.number, Word), 16)),
                            Padded(d, Numeral(rest, Base(Conversion(d)))), Written(d), ErrorText(d.number), StringText(d))
  BY Zenon DEF DirectiveText
<1>8. Promise!DirectiveText(d)
          = By(Promise!Conversion(d), Psign, Promise!Padded(d, Promise!Numeral(-Psign, 10)),
               Promise!Padded(d, Promise!Numeral(Promise!Wrap(d.number, Word), 16)),
               Promise!Padded(d, Promise!Numeral(Prest, Promise!Base(Promise!Conversion(d)))),
               Promise!Written(d), Promise!ErrorText(d.number), Promise!StringText(d))
  BY Zenon DEF Promise!DirectiveText
<1> HIDE DEF By
<1>9. Psign = sign /\ Prest = rest
  BY <1>1, Zenon
<1> HIDE DEF sign, rest, Psign, Prest
<1>10. /\ Promise!Padded(d, Promise!Numeral(-Psign, 10)) = Padded(d, Numeral(-sign, 10))
       /\ Promise!Padded(d, Promise!Numeral(Promise!Wrap(d.number, Word), 16)) = Padded(d, Numeral(Wrap(d.number, Word), 16))
       /\ Promise!Padded(d, Promise!Numeral(Prest, Promise!Base(Promise!Conversion(d))))
              = Padded(d, Numeral(rest, Base(Conversion(d))))
  BY <1>1, <1>2, <1>3, <1>4, <1>9, Zenon
<1> QED
  BY <1>2, <1>5, <1>6, <1>7, <1>8, <1>9, <1>10, Zenon

(* A call has the same text in the instance. *)
LEMMA SameText == ASSUME NEW c PROVE Promise!Text(c) = Text(c)
<1>1. [i \in DOMAIN c.directives |-> c.directives[i].before \o Promise!DirectiveText(c.directives[i])]
          = [i \in DOMAIN c.directives |-> c.directives[i].before \o DirectiveText(c.directives[i])]
  BY SameDirective, Zenon
<1>2. \A seqs : Promise!FlattenSeq(seqs) = FlattenSeq(seqs)
  BY SamePieces
<1> QED
  BY <1>1, <1>2, Zenon DEF Text, Promise!Text

(* A text is worth the same number in the instance. *)
LEMMA SameMeaning == ASSUME NEW s, NEW base PROVE Promise!Meaning(s, base) = Meaning(s, base)
<1>1. /\ \A x, w : Promise!WrapSigned(x, w) = WrapSigned(x, w)
      /\ Promise!Nul = Nul /\ Promise!Blanks = Blanks
  BY SamePieces, Zenon DEF Nul, Promise!Nul, Blanks, Promise!Blanks
<1>2. \A n : Promise!Figure(n) = Figure(n)
  BY Zenon DEF Figure, Promise!Figure, Lower, Promise!Lower, Upper, Promise!Upper
<1>3. \A x, n : Promise!Power(x, n) = Power(x, n)
  BY Zenon DEF Power, Promise!Power
<1> DEFINE Char(i)  == IF i \in DOMAIN s THEN s[i] ELSE Nul
           begin  == CHOOSE i \in 1..(Len(s) + 1) : Char(i) \notin Blanks /\ \A j \in 1..(i - 1) : s[j] \in Blanks
           signed == begin + (IF Char(begin) \in {"+", "-"} THEN 1 ELSE 0)
           hex    == /\ base \in {0, 16} /\ Char(signed) = "0"
                     /\ Char(signed + 1) = "x" \/ (base = 16 /\ Char(signed + 1) = "X")
           radix  == IF base # 0 THEN base ELSE IF hex THEN 16 ELSE IF Char(signed) = "0" THEN 8 ELSE 10
           first  == signed + (IF hex THEN 2 ELSE 0)
           Stop1(from, r) == CHOOSE i \in from..(Len(s) + 1) :
                         ~(Figure(Char(i)) < r) /\ \A j \in from..(i - 1) : Figure(s[j]) < r
           stop   == Stop1(first, radix)
           PChar(i)  == IF i \in DOMAIN s THEN s[i] ELSE Promise!Nul
           Pbegin  == CHOOSE i \in 1..(Len(s) + 1) :
                          PChar(i) \notin Promise!Blanks /\ \A j \in 1..(i - 1) : s[j] \in Promise!Blanks
           Psigned == Pbegin + (IF PChar(Pbegin) \in {"+", "-"} THEN 1 ELSE 0)
           Phex    == /\ base \in {0, 16} /\ PChar(Psigned) = "0"
                      /\ PChar(Psigned + 1) = "x" \/ (base = 16 /\ PChar(Psigned + 1) = "X")
           Pradix  == IF base # 0 THEN base ELSE IF Phex THEN 16 ELSE IF PChar(Psigned) = "0" THEN 8 ELSE 10
           Pfirst  == Psigned + (IF Phex THEN 2 ELSE 0)
           PStop1(from, r) == CHOOSE i \in from..(Len(s) + 1) :
                         ~(Promise!Figure(PChar(i)) < r) /\ \A j \in from..(i - 1) : Promise!Figure(s[j]) < r
           Pstop   == PStop1(Pfirst, Pradix)
           Sum(e, r) == CHOOSE f : f = [k \in Nat |-> IF k = 0 THEN 0 ELSE f[k - 1] + Figure(s[e - k]) * Power(r, k - 1)]
           PSum(e, r) == CHOOSE f : f = [k \in Nat |-> IF k = 0 THEN 0
                                          ELSE f[k - 1] + Promise!Figure(s[e - k]) * Promise!Power(r, k - 1)]
           Read(neg, total, e) == [value |-> WrapSigned(IF neg THEN -total ELSE total, Word), end |-> e]
           PRead(neg, total, e) == [value |-> Promise!WrapSigned(IF neg THEN -total ELSE total, Word), end |-> e]
<1>4. Meaning(s, base) = Read(Char(begin) = "-", Sum(stop, radix)[stop - first], stop)
  BY Zenon DEF Meaning
<1>5. Promise!Meaning(s, base) = PRead(PChar(Pbegin) = "-", PSum(Pstop, Pradix)[Pstop - Pfirst], Pstop)
  BY Zenon DEF Promise!Meaning
<1>6. \A i : PChar(i) = Char(i)
  BY <1>1, Zenon
<1>7. Pbegin = begin
  BY Zenon DEF Nul, Promise!Nul, Blanks, Promise!Blanks
<1>8. \A from, r : PStop1(from, r) = Stop1(from, r)
  BY Zenon DEF Nul, Promise!Nul, Figure, Promise!Figure, Lower, Promise!Lower, Upper, Promise!Upper
<1>9. \A e, r : PSum(e, r) = Sum(e, r)
  BY Zenon DEF Figure, Promise!Figure, Lower, Promise!Lower, Upper, Promise!Upper, Power, Promise!Power
<1>10. \A neg, total, e : PRead(neg, total, e) = Read(neg, total, e)
  BY <1>1, Zenon
<1> HIDE DEF Char, PChar, Pbegin, begin, Stop1, PStop1, Sum, PSum, Read, PRead
<1>11. Psigned = signed /\ (PChar(Pbegin) = "-") = (Char(begin) = "-")
  BY <1>6, <1>7, Zenon
<1> HIDE DEF Psigned, signed
<1>12. Phex <=> hex
  BY <1>6, <1>11, Zenon
<1> HIDE DEF Phex, hex
<1>13. Pradix = radix /\ Pfirst = first
  BY <1>6, <1>11, <1>12, Zenon
<1> HIDE DEF Pradix, radix, Pfirst, first
<1>14. Pstop = stop
  BY <1>8, <1>13, Zenon
<1> HIDE DEF Pstop, stop
<1>15. PSum(Pstop, Pradix)[Pstop - Pfirst] = Sum(stop, radix)[stop - first]
  BY <1>9, <1>13, <1>14, Zenon
<1> QED
  BY <1>4, <1>5, <1>10, <1>11, <1>14, <1>15, Zenon

(* What is promised is seen when the call returns. *)
pcSeen    == IF pc = "returned" THEN pc ELSE "called"
strSeen   == IF pc = "returned" THEN str ELSE Untouched
shownSeen == IF pc = "returned" THEN shown ELSE << >>

(* The machine begins where the promise begins. *)
LEMMA InitPromised == ASSUME FormatInit PROVE Promise!Init
<1>1. call \in Calls /\ pc = "called" /\ value = NoValue
  BY Zenon DEF FormatInit, Init
<1>2. pc # "returned"
  BY <1>1
<1> QED
  BY <1>1, <1>2, Zenon DEF Promise!Init, Untouched, Promise!Untouched, NoValue, Promise!NoValue

(* A call returns what it promises. *)
LEMMA ReturnPromised ==
    ASSUME Inv, AsDocumented(call), pc # "returned", UNCHANGED call, pc' = "returned", Results(call)'
    PROVE  Promise!Returns
<1>1. PICK c \in Calls : c = call /\ c = call' /\ Results(c)'
  <2>1. call \in Calls
    BY DEF Inv
  <2>2. PICK c \in Calls : c = call
    BY <2>1
  <2>3. c = call'
    BY <2>2
  <2> QED
    BY <2>2, <2>3, Zenon
<1>2. /\ pcSeen = "called" /\ pcSeen' = "returned" /\ strSeen = Untouched /\ strSeen' = str'
      /\ shownSeen = << >> /\ shownSeen' = shown'
  BY DEF pcSeen, strSeen, shownSeen
<1>3. Promise!Text(c) = Text(c) /\ \A s, base : Promise!Meaning(s, base) = Meaning(s, base)
  BY SameText, SameMeaning
<1>4. \A n : Promise!Returned(n) <=> value' = Number(n)
  BY Zenon DEF Promise!Returned, Number
<1>5. Promise!Returns
          <=> /\ pcSeen = "called" /\ pcSeen' = "returned" /\ UNCHANGED call
              /\ \/ call.function = "vsnprintf" /\ Promise!Stores(Promise!Text(call)) /\ UNCHANGED shownSeen
                 \/ call.function = "vcprintf" /\ Promise!Shows(Promise!Text(call))
                 \/ call.function = "cputs" /\ Promise!Shows(call.after \o << "\n" >>)
                 \/ call.function = "strtol" /\ value' = Promise!Meaning(call.after, call.base)
                    /\ UNCHANGED <<strSeen, shownSeen>>
  BY Zenon DEF Promise!Returns, pcSeen, strSeen, shownSeen
<1>6. \A x : Promise!Shows(x) <=> shownSeen' = x /\ Promise!Returned(Len(x)) /\ UNCHANGED strSeen
  BY Zenon DEF Promise!Shows, strSeen, shownSeen
<1>7. \A x : Promise!Stores(x)
                <=> IF call.size = 0 \/ call.to = "NULL"
                    THEN Promise!Returned(-E_INVAL) /\ UNCHANGED strSeen
                    ELSE /\ strSeen' = [i \in DOMAIN strSeen |->
                                IF i < (IF Len(x) < call.size THEN Len(x) ELSE call.size - 1) THEN x[i + 1]
                                ELSE IF i = (IF Len(x) < call.size THEN Len(x) ELSE call.size - 1) THEN Nul
                                ELSE strSeen[i]]
                         /\ Promise!Returned(Len(x))
  BY Zenon DEF Promise!Stores, strSeen, E_INVAL, Promise!E_INVAL, Nul, Promise!Nul
<1> DEFINE line == "\n"
<1>15. Printout(c) = Text(c)
  BY <1>1, PrintoutIsText
<1>8. \/ /\ c.function = "vsnprintf" /\ NoRoom(c)
         /\ value' = Number(-E_INVAL) /\ str' = Untouched /\ shown' = << >>
      \/ /\ c.function = "vsnprintf" /\ ~NoRoom(c)
         /\ value' = Number(Len(Text(c))) /\ str' = Buffer(c) /\ shown' = << >>
      \/ /\ c.function = "vcprintf"
         /\ value' = Number(Len(Text(c))) /\ str' = Untouched /\ shown' = Text(c)
      \/ /\ c.function = "cputs"
         /\ value' = Number(Len(c.after \o << line >>)) /\ str' = Untouched /\ shown' = c.after \o << line >>
      \/ /\ c.function = "strtol"
         /\ value' = Meaning(c.after, c.base) /\ str' = Untouched /\ shown' = << >>
  <2>1. \/ /\ c.function = "vsnprintf" /\ NoRoom(c)
           /\ value' = Number(-E_INVAL) /\ str' = Untouched /\ shown' = << >>
        \/ /\ c.function = "vsnprintf" /\ ~NoRoom(c)
           /\ value' = Number(Len(Printout(c))) /\ str' = Buffer(c) /\ shown' = << >>
        \/ /\ c.function = "vcprintf"
           /\ value' = Number(Len(Printout(c))) /\ str' = Untouched /\ shown' = Printout(c)
        \/ /\ c.function = "cputs"
           /\ value' = Number(Len(c.after \o << line >>)) /\ str' = Untouched /\ shown' = c.after \o << line >>
        \/ /\ c.function = "strtol"
           /\ value' = strtol(c.after \o << Nul >>, c.base) /\ str' = Untouched /\ shown' = << >>
    BY <1>1, Zenon DEF Results
  <2>2. c.function = "strtol" => strtol(c.after \o << Nul >>, c.base) = Meaning(c.after, c.base)
    <3>1. IsSeq(c.after) /\ c.base \in {0} \cup 2..36
      BY LegalCall
    <3>2. c.function = "strtol" => (c.base = 16 => NoCapitalPrefix(c.after))
      BY <1>1, Zenon DEF AsDocumented
    <3> QED
      BY <3>1, <3>2, StrtolMeans
  <2> QED
    BY <1>15, <2>1, <2>2, Zenon
<1>9. Promise!Returns
          <=> \/ c.function = "vsnprintf" /\ Promise!Stores(Text(c)) /\ UNCHANGED shownSeen
              \/ c.function = "vcprintf" /\ Promise!Shows(Text(c))
              \/ c.function = "cputs" /\ Promise!Shows(c.after \o << line >>)
              \/ c.function = "strtol" /\ value' = Meaning(c.after, c.base) /\ UNCHANGED <<strSeen, shownSeen>>
  BY <1>1, <1>2, <1>3, <1>5, Zenon
<1> HIDE DEF line
<1>10. CASE c.function = "vsnprintf" /\ NoRoom(c) /\ value' = Number(-E_INVAL) /\ str' = Untouched /\ shown' = << >>
  <2>1. Promise!Stores(Text(c))
    BY <1>1, <1>2, <1>4, <1>7, <1>10, Zenon DEF NoRoom
  <2>2. UNCHANGED shownSeen
    BY <1>2, <1>10, Zenon
  <2> QED
    BY <1>9, <1>10, <2>1, <2>2, Zenon
<1>11. CASE /\ c.function = "vsnprintf" /\ ~NoRoom(c)
            /\ value' = Number(Len(Text(c))) /\ str' = Buffer(c) /\ shown' = << >>
  <2>1. PICK m : m = Len(Text(c))
    OBVIOUS
  <2>2. PICK x : x = Text(c)
    OBVIOUS
  <2>3. strSeen' = [i \in DOMAIN strSeen |->
                        IF i < (IF m < c.size THEN m ELSE c.size - 1) THEN x[i + 1]
                        ELSE IF i = (IF m < c.size THEN m ELSE c.size - 1) THEN Nul ELSE strSeen[i]]
    <3>1. PICK z \in Nat, n \in Nat : z = c.size /\ n = m
      BY <1>1, <1>15, <2>1, LegalCall, TextIsSeq
    <3>2. Stored(c, m) = IF n < z THEN n ELSE z - 1
      <4>1. Stored(c, m) = IF n < z - 1 THEN n ELSE z - 1
        BY <3>1, Zenon DEF Stored
      <4>2. (IF n < z - 1 THEN n ELSE z - 1) = IF n < z THEN n ELSE z - 1
        OBVIOUS
      <4> QED
        BY <4>1, <4>2, Zenon
    <3>3. PICK kept : kept = IF n < z THEN n ELSE z - 1
      OBVIOUS
    <3>4. strSeen' = [i \in 0..(Room - 1) |-> IF i < kept THEN x[i + 1] ELSE IF i = kept THEN Nul ELSE "before"]
      BY <1>2, <1>11, <1>15, <2>1, <2>2, <3>2, <3>3, Zenon DEF Buffer
    <3>5. DOMAIN strSeen = 0..(Room - 1) /\ \A i \in 0..(Room - 1) : strSeen[i] = "before"
      BY <1>2 DEF Untouched
    <3>6. strSeen' = [i \in DOMAIN strSeen |-> IF i < kept THEN x[i + 1] ELSE IF i = kept THEN Nul ELSE strSeen[i]]
      BY <3>4, <3>5
    <3>7. kept = IF m < c.size THEN m ELSE c.size - 1
      BY <3>1, <3>3, Zenon
    <3> QED
      BY <3>6, <3>7, Zenon
  <2>4. c.size # 0 /\ c.to # "NULL"
    BY <1>11 DEF NoRoom
  <2>5. Promise!Returned(Len(x))
    BY <1>4, <1>11, <2>2, Zenon
  <2>6. Promise!Stores(x)
    BY <1>1, <1>7, <2>1, <2>2, <2>3, <2>4, <2>5, Zenon
  <2>7. UNCHANGED shownSeen
    BY <1>2, <1>11, Zenon
  <2> QED
    BY <1>9, <1>11, <2>2, <2>6, <2>7, Zenon
<1>12. CASE /\ c.function = "vcprintf"
            /\ value' = Number(Len(Text(c))) /\ str' = Untouched /\ shown' = Text(c)
  BY <1>2, <1>4, <1>6, <1>9, <1>12, Zenon
<1>13. CASE /\ c.function = "cputs"
            /\ value' = Number(Len(c.after \o << line >>)) /\ str' = Untouched /\ shown' = c.after \o << line >>
  BY <1>2, <1>4, <1>6, <1>9, <1>13, Zenon
<1>14. CASE /\ c.function = "strtol"
            /\ value' = Meaning(c.after, c.base) /\ str' = Untouched /\ shown' = << >>
  BY <1>2, <1>9, <1>14, Zenon
<1> QED
  BY <1>8, <1>10, <1>11, <1>12, <1>13, <1>14, Zenon

(* Each step is the promised one, or is not seen. *)
LEMMA StepPromised ==
    ASSUME Inv, AsDocumented(call), [FormatNext]_formatVars
    PROVE  [Promise!Returns]_<<call, pcSeen, strSeen, shownSeen, value>>
<1>1. CASE FormatNext /\ pc' = "returned"
  BY <1>1, Outcome, ReturnPromised
<1>2. CASE FormatNext /\ pc' # "returned"
  <2>1. pc # "returned" /\ UNCHANGED <<call, value>>
    BY <1>2, Outcome
  <2> QED
    BY <1>2, <2>1, Zenon DEF pcSeen, strSeen, shownSeen, Untouched
<1>3. CASE UNCHANGED formatVars
  <2>1. UNCHANGED <<call, pc, str, shown, value>>
    BY <1>3 DEF formatVars, output
  <2> QED
    BY <2>1, Zenon DEF pcSeen, strSeen, shownSeen, Untouched
<1> QED
  BY <1>1, <1>2, <1>3

(* A call stays the one that it is, and keeps to what the comments say if it did. *)
LEMMA StaysDocumented ==
    ASSUME AsDocumented(call), Inv, [FormatNext]_formatVars
    PROVE  AsDocumented(call)'
<1>1. UNCHANGED call
  <2>1. CASE FormatNext
    BY <2>1, Outcome
  <2>2. CASE UNCHANGED formatVars
    BY <2>2 DEF formatVars, output
  <2> QED
    BY <2>1, <2>2
<1> QED
  BY <1>1, Zenon DEF AsDocumented, NoCapitalPrefix

(* For every call that keeps to what the comments say: printfmt, vsnprintf, vcprintf,
   cputs and strtol do what the abstract specification promises. *)
THEOREM FormatMeans == FormatSpec /\ AsDocumented(call) => MeansWhatItSays
<1>1. FormatInit => Inv /\ Promise!Init
  BY FormatInitBegins, InitPromised
<1>2. Inv /\ [FormatNext]_formatVars => Inv'
  BY StepKeeps, NothingDone
<1>3. Inv /\ AsDocumented(call) /\ [FormatNext]_formatVars
        => [Promise!Returns]_<<call, pcSeen, strSeen, shownSeen, value>>
  BY StepPromised
<1>4. Inv /\ AsDocumented(call) /\ [FormatNext]_formatVars => AsDocumented(call)'
  BY StaysDocumented
<1> QED
  BY <1>1, <1>2, <1>3, <1>4, PTL DEF FormatSpec, MeansWhatItSays, Promise!Spec, pcSeen, strSeen, shownSeen

-----------------------------------------------------------------------------
(* What a call prints that has one directive, and nothing else. *)
LEMMA OneDirective ==
    ASSUME NEW c \in Calls, Count(c) = 1, NEW d, d = c.directives[1], d.before = << >>, c.after = << >>
    PROVE  Printout(c) = DirectivePrinted(d)
<1>1. PICK off : Layout(off, TextsOf(c), 1)
  BY LayoutsAre
<1>2. LegalDirective(d) /\ IsSeq(DirectivePrinted(d))
  <2>1. LegalDirective(d)
    <3>1. 1 \in 1..Count(c)
      OBVIOUS
    <3> QED
      BY <3>1, LegalCall
  <2> QED
    BY <2>1, DirectivePrintedIsSeq
<1> DEFINE F == FlattenSeq(TextsOf(c))  t == DirectivePrinted(d)
<1>3. TextsOf(c)[1] = t
  <2>1. TextsOf(c)[1] = << >> \o t
    <3>1. 1 \in 1..Count(c)
      OBVIOUS
    <3>2. TextsOf(c)[1] = c.directives[1].before \o DirectivePrinted(c.directives[1])
      BY <3>1, LayoutsAre
    <3> QED
      BY <3>2
  <2> QED
    BY <1>2, <2>1, MarksAre
<1>4. /\ IsSeq(F) /\ off[0] = 0 /\ off[1] = Len(F) /\ off[1] = off[0] + Len(t)
      /\ \A j \in 1..Len(t) : F[off[0] + j] = t[j]
  <2>1. 1 \in 1..1 /\ 1 - 1 = 0
    OBVIOUS
  <2> HIDE DEF F, t
  <2> QED
    BY <1>1, <1>3, <2>1 DEF Layout, F
<1>5. Printout(c) = F
  <2>1. Printout(c) = F \o << >>
    BY DEF Printout
  <2>2. PICK S : F \in Seq(S)
    BY <1>4 DEF IsSeq
  <2> HIDE DEF F
  <2> QED
    BY <2>1, <2>2, ConcatEmptySeq
<1> HIDE DEF F, t
<1>6. PICK m \in Nat : m = Len(t)
  <2>1. PICK S : t \in Seq(S)
    BY <1>2 DEF IsSeq, t
  <2> QED
    BY <2>1, LenProperties
<1>7. Len(F) = m /\ \A j \in 1..m : F[j] = t[j]
  BY <1>4, <1>6
<1>8. F = [j \in 1..m |-> F[j]] /\ t = [j \in 1..m |-> t[j]]
  BY <1>2, <1>4, <1>6, <1>7, SeqIsFunction DEF t
<1>9. F = t
  BY <1>7, <1>8
<1> QED
  BY <1>5, <1>9 DEF t

(* What the console shows when a format returns is what the format prints. *)
LEMMA ShownIs ==
    ASSUME Inv, pc = "returned", call.function = "vcprintf"
    PROVE  call \in Calls /\ shown = Printout(call)
<1>1. call \in Calls /\ (Begun(call) \/ Writing(call) \/ Done(call))
  BY DEF Inv, State
<1>2. ~Begun(call)
  BY DEF Begun
<1>3. ~Writing(call)
  BY Zenon DEF Writing, InText, InDirective, InFlags, InWidth, Wide, InPoint, InPrecision, InLongs
<1>4. Results(call)
  BY <1>1, <1>2, <1>3, Zenon DEF Done
<1> QED
  BY <1>1, <1>4 DEF Results

(* The invariant tells what is shown, and the pure theorem how strtol reads it. *)
LEMMA InvReadsBack == ASSUME Inv PROVE NumbersReadBack
<1> SUFFICES ASSUME NEW d \in Range(call.directives),
                    pc = "returned", call.function = "vcprintf",
                    Conversion(d) \in Numeric, Len(shown) > 0,
                    Len(call.directives) = 1, d.before = << >>, call.after = << >>,
                    Pad(d) # "-",
                    Pad(d) = Blank /\ shown[1] \in {"-", "0"} => Width(d) <= 1
             PROVE  IsReadAs(shown, Base(Conversion(d)), d.number)
  BY Zenon DEF NumbersReadBack, Blank, IsReadAs
<1>1. call \in Calls /\ shown = Printout(call)
  BY ShownIs
<1>2. Count(call) = 1 /\ DOMAIN call.directives = 1..1
  BY <1>1, LegalCall DEF Count
<1>3. d = call.directives[1]
  <2>1. PICK k \in DOMAIN call.directives : d = call.directives[k]
    BY DEF Range
  <2> QED
    BY <1>2, <2>1
<1>4. LegalDirective(d)
  <2>1. 1 \in 1..Count(call)
    BY <1>2
  <2> QED
    BY <1>1, <1>3, <2>1, LegalCall
<1>5. shown = DirectiveText(d)
  <2>1. shown = DirectivePrinted(d)
    BY <1>1, <1>2, <1>3, OneDirective, Zenon
  <2>2. DirectivePrinted(d) = DirectiveText(d)
    BY <1>4, PrintedAsText
  <2> QED
    BY <2>1, <2>2
<1>6. Pad(d) = Blank /\ DirectiveText(d)[1] \in {"-", "0"} => Width(d) <= 1
  BY <1>5, Zenon
<1> QED
  BY <1>4, <1>5, <1>6, NumbersAreRead, Zenon

(* For all calls: what a format printed of one number, strtol reads back. *)
THEOREM FormatReadsBack == FormatSpec => []NumbersReadBack
<1>1. Inv /\ [FormatNext]_formatVars => Inv'
  BY StepKeeps, NothingDone
<1> QED
  BY <1>1, FormatInitBegins, InvReadsBack, PTL DEF FormatSpec
=============================================================================
