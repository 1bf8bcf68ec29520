----------------------------- MODULE LineEditor -----------------------------
(***************************************************************************)
(* What readline promises: a line of at most Length characters, edited     *)
(* with the backspace, and given to the caller when it is entered.         *)
(***************************************************************************)
EXTENDS Naturals, Sequences

CONSTANTS Length, Typed      \* the characters that may come from the keyboard

VARIABLES editing, line      \* whether a line is being read, and its text

lineVars == <<editing, line>>

Init == editing = 0 /\ line = << >>

Begin == editing = 0 /\ editing' = 1 /\ line' = << >>

(* The end of a line that is too long is discarded, as are control characters. *)
Type(c) ==
    /\ editing = 1
    /\ IF c >= 32 /\ Len(line) < Length THEN line' = Append(line, c)
       ELSE IF c = 8 /\ line # << >> THEN line' = SubSeq(line, 1, Len(line) - 1)
       ELSE UNCHANGED line
    /\ editing' = IF c \in {10, 13} THEN 0 ELSE 1

Next == Begin \/ \E c \in Typed : Type(c)

Spec == Init /\ [][Next]_lineVars
=============================================================================
