------------------------------- MODULE MCTrap -------------------------------
(* Instances of Trap for TLC. *)
EXTENDS Trap
=============================================================================
