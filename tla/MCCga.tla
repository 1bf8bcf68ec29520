------------------------------- MODULE MCCga -------------------------------
(* Instances of Readline, and of Cga in it, for TLC: a screen of three rows by
   two columns, and cursor registers of four values, so that positions need both
   registers; lines of four characters at most, so that they wrap twice. *)
EXTENDS Readline

MCBiosCell == Cell(66, 7)
MCPrompts  == {<< >>, << 65 >>}
=============================================================================
