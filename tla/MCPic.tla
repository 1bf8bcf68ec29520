------------------------------- MODULE MCPic -------------------------------
(* Instances of Pic for TLC. *)
EXTENDS Pic

(* IRQ_TIMER, IRQ_KBD, IRQ_COM1, and IRQ_IDE1 for a line of the slave. *)
MCDrivers   == {0, 1, 4, 14}
(* A BIOS may leave everything open, everything closed, or something between. *)
MCBiosMasks == {{}, Bit, Bit \ {0, 1, IRQ_SLAVE}}
=============================================================================
