----------------------------- MODULE MCStringOps -----------------------------
(* Instances of StringLoops, and of StringOps in it, for TLC. *)
EXTENDS StringLoops

(* Bytes that differ everywhere, strings that agree at first and then in part,
   end apart, or differ in a byte above 127. *)
MCContents ==
    {[a \in Address |-> << 1, 2, 3, 4, 5, 6, 7 >>[a + 1]],
     [a \in Address |-> << 65, 66, 0, 65, 200, 0, 9 >>[a + 1]],
     [a \in Address |-> << 65, 0, 65, 66, 0, 65, 0 >>[a + 1]]}

Made(function, dst, src, n, c) == [function |-> function, dst |-> dst, src |-> src, n |-> n, c |-> c]

(* memmove between all places, of every length that memory has room for: up to
   a word and three bytes; and some calls of the others. *)
MCCalls ==
    {Made("memmove", dst, src, n, 0) : dst \in 0..3, src \in 0..3, n \in 0..7}
    \cup {Made("memcpy", 0, 3, n, 0) : n \in {0, 2}}
    \cup {Made("memset", 1, 0, n, 255) : n \in {0, 5}}
    \cup {Made("strcpy", dst, src, 0, 0) : dst \in {0, 4}, src \in {0, 2}}
    \cup {Made("strcmp", s, t, 0, 0) : s \in {0, 5}, t \in {0, 2, 3}}
    \cup {Made("strlen", s, 0, 0, 0) : s \in {0, 5}} \cup {Made("strnlen", 3, 0, n, 0) : n \in {0, 2, 4}}
    \cup {Made(function, s, 0, 0, c) : function \in {"strchr", "strfind"}, s \in {0, 3}, c \in {0, 66, 200}}
    \cup {Made(function, 0, t, n, 0) : function \in {"strncmp", "memcmp"}, t \in {2, 3}, n \in {0, 1, 2, 4}}
    \cup {Made("strncpy", 0, t, n, 0) : t \in {2, 4}, n \in {0, 1, 2, 4}}
=============================================================================
