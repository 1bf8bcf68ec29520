------------------------------ MODULE MCFormat ------------------------------
(* Instances of Format for TLC: words of six bits. *)
EXTENDS Format

Dir(before, flags, wide, exact, longs, conv, stars, n, string) ==
    [before |-> before, flags |-> flags, width |-> wide, precision |-> exact, longs |-> longs,
     conv |-> << conv >>, stars |-> stars, number |-> n, text |-> string]

MadeCall(function, to, size, directives, after, base) ==
    [function |-> function, to |-> to, size |-> size, directives |-> directives, after |-> after, base |-> base]

Shown(directives, after) == MadeCall("vcprintf", "str", 0, directives, after, 0)

(* Numbers at the edges of a word and of two, in every conversion. *)
Numbers ==
    {Dir(<< >>, flags, wide, None, longs, conv, << >>, n, << >>) :
        flags \in {<< >>, << "0" >>}, wide \in {None, 4}, longs \in {0, 1}, conv \in Numeric,
        n \in {0, 7, 10, 31, 63, -1, -32}}
    \cup {Dir(<< >>, << >>, None, None, 2, conv, << >>, n, << >>) :
             conv \in Numeric \ {"p"}, n \in {64, 640, 999, 1000, 2047, 4095, -1, -65, -2048}}
    \cup {Dir(<< >>, flags, wide, 3, 0, "d", << >>, -5, << >>) : flags \in {<< >>, << "0" >>}, wide \in {4, 12}}

Strings ==
    {Dir(<< >>, flags, wide, exact, 0, "s", << >>, 0, string) :
        flags \in {<< >>, << "-" >>, << "0", "-" >>, << "#" >>, << "0", "#" >>}, wide \in {None, 3, 5}, exact \in {None, 2},
        string \in {NULL, << >>, << "a", "\n", "high", "d" >>}}
    \cup {Dir(<< >>, << "#" >>, Star, Star, 0, "s", << i, j >>, 0, << "a", "\t", "c" >>) :
             i \in {-4, 0, 4}, j \in {-1, 0, 2}}
    \cup {Dir(<< >>, << >>, None, Star, 0, "s", << 1 >>, 0, << "a", "b" >>)}

Others ==
    {Dir(<< >>, << >>, None, None, 0, "e", << >>, n, << >>) : n \in {-32, -31, -7, -6, -1, 0, 4, 7}}
    \cup {Dir(<< "x" >>, << "0" >>, 15, None, 0, conv, << >>, 5, << "y" >>) : conv \in {"q", "%", "c"}}
    \cup {Dir(<< >>, << "#" >>, 9, Star, 1, "d", << 3 >>, 5, << >>)}

Ends == {[Dir(<< >>, flags, wide, None, 1, "", << >>, 0, << >>) EXCEPT !.conv = << >>] :
            flags \in {<< >>, << "0" >>}, wide \in {None, 7}}

(* Settings and arguments that a second directive must not see. *)
Pairs ==
    {<< Dir(<< "a" >>, << "0", "#" >>, Star, 1, 2, conv, << 3 >>, 70, << "t", "u" >>),
        Dir(<< "b" >>, << >>, None, None, 0, "s", << >>, 6, << "v", "\n" >>),
        Dir(<< >>, << >>, None, None, 0, "d", << >>, -8, << "w" >>) >> : conv \in {"s", "x", "%", "c"}}

Texts ==
    {<< >>, << "7" >>, << "-", "0", "x", "1", "f" >>, << " ", "\t", "+", "0", "1", "8" >>,
     << "0", "x" >>, << "z", "2" >>, << "-", "1", "Z", "-" >>, << " ", "-", " ", "1" >>, << "0", "X", "1" >>}

(* Numbers with the flag -. *)
MCLeft ==
    {Shown(<< Dir(<< >>, << "-" >>, wide, None, 0, conv, << >>, 5, << >>) >>, << >>) :
        wide \in {None, 1, 4}, conv \in Numeric}

MCCalls ==
    {Shown(<< d >>, << >>) : d \in Numbers \cup Strings \cup Ends}
    \cup {Shown(<< d >>, << "5", "d" >>) : d \in Others}
    \cup {Shown(p, << "." >>) : p \in Pairs}
    \cup {MadeCall("vsnprintf", to, size, p, << "." >>, 0) : to \in {"str", "NULL"}, size \in {0, 1, 2, 5, 7, 15}, p \in Pairs}
    \cup {MadeCall("cputs", "str", 0, << >>, string, 0) : string \in {<< >>, << "a", "%" >>}}
    \cup {c \in {MadeCall("strtol", "str", 0, << >>, string, base) : string \in Texts, base \in {0, 2, 8, 10, 16, 36}} :
             AsDocumented(c)}
=============================================================================
