----------------------------- MODULE MCConsole -----------------------------
(* Instances of Console for TLC. *)
EXTENDS Console

MCDrivers   == {IRQ_KBD, IRQ_COM1}
MCBiosMasks == {Bit}

(* A DEL, which becomes a backspace. *)
MCSerialBytes == {127}
(* Ctrl, Alt, prefix and Delete, the codes of the reboot chord: the first three
   give a 0, which is never stored, and without the prefix the last is a keypad
   key, which makes a character. *)
MCScanCodes   == {29, 56, 83, E0}
=============================================================================
