------------------------------ MODULE MCTyping ------------------------------
(* Instances of Typing for TLC. *)
EXTENDS Typing

(* Both keys of Shift and of Ctrl, one of them prefixed, Alt, Caps Lock, a
   letter, the two Delete keys, whose codes differ by a prefix, Print Screen,
   which sends a fake Shift, and Pause, whose sequence holds the code of Ctrl. *)
MCKeys == {"LShift", "RShift", "LCtrl", "RCtrl", "LAlt", "CapsLock", "A",
           "Delete", "KpDelete", "PrtSc", "Pause"}
=============================================================================
