------------------------------ MODULE TrapDefs ------------------------------
(***************************************************************************)
(* Trap numbers, selectors and flags of include/200trap.h and 102mmu.h.    *)
(***************************************************************************)
EXTENDS Integers

T_SWITCH_TOU == 120
T_SWITCH_TOK == 121
T_GPFLT      == 13
IRQ_OFFSET   == 32
IRQ_TIMER    == 0
IRQ_KBD      == 1
IRQ_COM1     == 4

(* Selectors: the descriptor's number times 8, and the privilege level. *)
KERNEL_CS == 8
KERNEL_DS == 16
USER_CS   == 24 + 3
USER_DS   == 32 + 3
CPL(selector) == selector % 4
User == 3

(* Of eflags, the I/O privilege level and the interrupt flag: 2 * IOPL + IF. *)
IF_(eflags)         == eflags % 2
IOPL(eflags)        == eflags \div 2
Eflags              == 0..7
FL_IOPL_MASK        == 6
WithIOPL(eflags)    == FL_IOPL_MASK + IF_(eflags)      \* eflags | FL_IOPL_MASK
WithoutIOPL(eflags) == IF_(eflags)                     \* eflags & ~FL_IOPL_MASK

(* The processor does not let a user keep a kernel data segment. *)
Usable(selector) == IF CPL(selector) = User THEN selector ELSE 0
=============================================================================
