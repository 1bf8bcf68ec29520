---------------------------- MODULE Interrupted ----------------------------
(***************************************************************************)
(* What a trap is to the program that it interrupts: the program goes on   *)
(* with all its registers and its stack, at the instruction where it was;  *)
(* only the two switches change its mode.                                  *)
(***************************************************************************)
EXTENDS TrapDefs

VARIABLES
    context,     \* the program's registers
    stack,       \* the words of its stack, from esp up
    trap         \* the trap under way, or -1

programVars == <<context, stack, trap>>

NoTrap == -1

(* The selectors and the I/O privilege level are no business of the program. *)
Privilege(c) == <<c.cs, c.ds, c.es, c.fs, c.gs, c.ss, IOPL(c.eflags)>>

Init == trap = NoTrap /\ CPL(context.cs) = 0

Program ==
    /\ trap = NoTrap /\ trap' = NoTrap
    /\ Privilege(context') = Privilege(context)

(* A trap; the int instruction leaves the program at the next instruction. *)
Trapped ==
    /\ trap = NoTrap /\ trap' \in Nat
    /\ \E next \in {context.eip, context'.eip} : context' = [context EXCEPT !.eip = next]
    /\ UNCHANGED stack

ToUser(c) ==
    [c EXCEPT !.cs = USER_CS, !.ds = USER_DS, !.es = USER_DS, !.ss = USER_DS,
              !.fs = Usable(c.fs), !.gs = Usable(c.gs),
              !.eflags = WithIOPL(c.eflags)]

ToKernel(c) ==
    [c EXCEPT !.cs = KERNEL_CS, !.ds = KERNEL_DS, !.es = KERNEL_DS, !.ss = KERNEL_DS,
              !.eflags = WithoutIOPL(c.eflags)]

After(c, t) ==
    IF t = T_SWITCH_TOU /\ c.cs # USER_CS THEN ToUser(c)
    ELSE IF t = T_SWITCH_TOK /\ c.cs # KERNEL_CS THEN ToKernel(c)
    ELSE c

Resumed ==
    /\ trap # NoTrap /\ trap' = NoTrap
    /\ context' = After(context, trap)
    /\ UNCHANGED stack

Next == Program \/ Trapped \/ Resumed

Spec == Init /\ [][Next]_programVars
=============================================================================
