-------------------------------- MODULE Trap --------------------------------
(***************************************************************************)
(* 103idt.c, tools/vector.py, 102trapentry.S and 101trap.c: a trap from    *)
(* the processor's first push to iret, over a memory of words.  The        *)
(* general registers, saved by one pushal, are one word.  The processor    *)
(* and the interrupted program are modelled as far as the frame shows      *)
(* them.  The gates are interrupt gates, so a trap is not interrupted.     *)
(***************************************************************************)
EXTENDS TrapDefs, Sequences

CONSTANTS
    TrapStack,       \* the words of the stack that the TSS names for traps
    ProgramStack,    \* the words of the stack that the program uses
    Exceptions,      \* the exceptions that may happen
    Irqs,            \* the interrupt lines that are open
    EipCount,        \* how many instructions the program has
    Depth,           \* how many words the program pushes
    TickWrap,        \* 2^32, where ticks wraps
    MaxTraps         \* how many traps there are

(* struct trapframe, in words.  The last two are there if the trap crossed rings. *)
REGS   == 0
GS     == 1
FS     == 2
ES     == 3
DS     == 4
TRAPNO == 5
ERR    == 6
EIP    == 7
CS     == 8
EFLAGS == 9
ESP    == 10
SS     == 11
SIZEOF == 12

esp0      == TrapStack + 1                     \* of the TSS
StackTop  == TrapStack + ProgramStack + 1      \* the program's esp with an empty stack
switchk2u == StackTop                          \* struct trapframe switchk2u
Address   == 1..(StackTop + SIZEOF - 1)

Selectors == {0, KERNEL_CS, KERNEL_DS, USER_CS, USER_DS}
Context   == [regs : Int, eip : 0..(EipCount - 1), eflags : Eflags, esp : Int,
              cs : Selectors, ss : Selectors, ds : Selectors, es : Selectors, fs : Selectors, gs : Selectors]

ASSUME TrapAssumption ==
    /\ TrapStack \in Nat /\ ProgramStack \in Nat /\ TickWrap \in Nat \ {0} /\ EipCount \in Nat \ {0}
    /\ Depth \in Nat /\ MaxTraps \in Nat
    /\ TrapStack >= SIZEOF + 2 /\ ProgramStack >= SIZEOF + Depth
    /\ Exceptions \subseteq 0..31 \ {9}               \* vector9 pushes one word too few
    /\ Irqs \subseteq 0..15

VARIABLES
    cpu,         \* the processor's registers
    memory,
    pc,          \* "program", or where the trap is
    vector,      \* the vector that the processor took last, -1 before any
    ticks,       \* volatile size_t ticks
    traps,       \* history: how many traps there were
    before       \* history: the program's context and stack when it was interrupted

vars == <<cpu, memory, pc, vector, ticks, traps, before>>

(* The program's stack, as far as it is in use. *)
InUse(m, esp) == [a \in esp..(StackTop - 1) |-> m[a]]

Init ==
    /\ \E i \in {0, 1} :
           cpu = [regs |-> 0, eip |-> 0, eflags |-> i, esp |-> StackTop,
                  cs |-> KERNEL_CS, ss |-> KERNEL_DS, ds |-> KERNEL_DS, es |-> KERNEL_DS,
                  fs |-> KERNEL_DS, gs |-> KERNEL_DS]
    /\ memory = [a \in Address |-> 0]
    /\ pc = "program" /\ vector = -1 /\ ticks = 0 /\ traps = 0
    /\ before = [context |-> cpu, stack |-> InUse(memory, StackTop)]

(* Memory after a sequence of pushes; the first word is pushed first. *)
Pushed(m, esp, words) ==
    [a \in Address |-> IF a \in (esp - Len(words))..(esp - 1) THEN words[esp - a] ELSE m[a]]

(* The instruction after an instruction; the program is a loop of EipCount. *)
Following(eip) == (eip + 1) % EipCount

(* The program that is interrupted: it computes, pushes, pops, and turns
   interrupts on and off where it may. *)
Compute ==
    /\ pc = "program"
    /\ cpu' = [cpu EXCEPT !.regs = cpu.eip, !.eip = Following(@)]
    /\ UNCHANGED <<memory, pc, vector, ticks, traps, before>>

Push ==
    /\ pc = "program" /\ cpu.esp > StackTop - Depth
    /\ memory' = Pushed(memory, cpu.esp, << cpu.regs >>)
    /\ cpu' = [cpu EXCEPT !.esp = @ - 1]
    /\ UNCHANGED <<pc, vector, ticks, traps, before>>

Pop ==
    /\ pc = "program" /\ cpu.esp < StackTop
    /\ cpu' = [cpu EXCEPT !.regs = memory[cpu.esp], !.esp = @ + 1]
    /\ UNCHANGED <<memory, pc, vector, ticks, traps, before>>

StiCli ==
    /\ pc = "program" /\ CPL(cpu.cs) <= IOPL(cpu.eflags)
    /\ cpu' = [cpu EXCEPT !.eflags = 2 * IOPL(@) + (1 - IF_(@))]
    /\ UNCHANGED <<memory, pc, vector, ticks, traps, before>>

(* idt_init: the privilege that an int instruction needs for a vector's gate. *)
idt_dpl(v) == IF v = T_SWITCH_TOK THEN User ELSE 0

(* The exceptions for which the processor pushes an error code. *)
ErrorCodes == {8, 10, 11, 12, 13, 14, 17}

(* The processor takes a vector: the stack, if rings are crossed, and what it
   pushes there.  An int instruction is over when it traps, so next is eip + 1. *)
Take(v, next, error) ==
    LET crosses == CPL(cpu.cs) = User
        top     == IF crosses THEN esp0 ELSE cpu.esp
        words   == (IF crosses THEN << cpu.ss, cpu.esp >> ELSE << >>)
                     \o << cpu.eflags, cpu.cs, next >>
                     \o (IF error THEN << 0 >> ELSE << >>)
    IN /\ pc = "program" /\ pc' = "vector" /\ vector' = v
       /\ traps < MaxTraps /\ traps' = traps + 1
       /\ memory' = Pushed(memory, top, words)
       /\ cpu' = [cpu EXCEPT !.cs = KERNEL_CS, !.ss = IF crosses THEN KERNEL_DS ELSE @,
                             !.esp = top - Len(words), !.eflags = 2 * IOPL(@)]
       /\ before' = [context |-> [cpu EXCEPT !.eip = next], stack |-> InUse(memory, cpu.esp)]
       /\ UNCHANGED ticks

Exception(v) == Take(v, cpu.eip, v \in ErrorCodes)

Interrupt(irq) == IF_(cpu.eflags) = 1 /\ Take(IRQ_OFFSET + irq, cpu.eip, FALSE)

(* int: a gate that needs more privilege gives a protection fault instead. *)
SoftwareInt(v) ==
    IF CPL(cpu.cs) <= idt_dpl(v)
    THEN Take(v, Following(cpu.eip), FALSE)
    ELSE Take(T_GPFLT, cpu.eip, TRUE)

(* Faulty: the alignment check's error code is forgotten. *)
PushesZero_Align(i) == i < 8 \/ i > 14

(* tools/vector.py: for which vectors a 0 takes the place of the error code. *)
PushesZero(i) == i < 8 \/ (i > 14 /\ i # 17)

vector_i ==
    /\ pc = "vector" /\ pc' = "__alltraps"
    /\ LET words == (IF PushesZero(vector) THEN << 0 >> ELSE << >>) \o << vector >> IN
       /\ memory' = Pushed(memory, cpu.esp, words)
       /\ cpu' = [cpu EXCEPT !.esp = @ - Len(words)]
    /\ UNCHANGED <<vector, ticks, traps, before>>

(* The registers, the pointer to the frame, and call's return address. *)
__alltraps ==
    /\ pc = "__alltraps" /\ pc' = "trap"
    /\ LET tf == cpu.esp - 5 IN
       /\ memory' = Pushed(memory, cpu.esp, << cpu.ds, cpu.es, cpu.fs, cpu.gs, cpu.regs, tf, 0 >>)
       /\ cpu' = [cpu EXCEPT !.ds = KERNEL_DS, !.es = KERNEL_DS, !.regs = KERNEL_DS, !.esp = tf - 2]
    /\ UNCHANGED <<vector, ticks, traps, before>>

(* trap(tf) returns: registers are whatever C left in them. *)
tf     == memory[cpu.esp + 1]
trapno == memory[tf + TRAPNO]

Return ==
    /\ pc = "trap" /\ pc' = "__trapret"
    /\ cpu' = [cpu EXCEPT !.esp = @ + 1, !.regs = -1]
    /\ UNCHANGED <<vector, traps, before>>

trap_timer ==
    /\ trapno = IRQ_OFFSET + IRQ_TIMER
    /\ ticks' = (ticks + 1) % TickWrap
    /\ Return /\ UNCHANGED memory

(* The first n words of the frame at t. *)
Frame(t, n) == [f \in 0..(n - 1) |-> memory[t + f]]

(* Faulty: the words of the outer stack are counted to the frame. *)
ToUserFrame_Esp(t) ==
    [Frame(t, SIZEOF) EXCEPT ![CS] = USER_CS, ![DS] = USER_DS, ![ES] = USER_DS, ![SS] = USER_DS,
                             ![ESP] = t + SIZEOF, ![EFLAGS] = WithIOPL(@)]

(* T_SWITCH_TOU: the frame at t has no esp and ss yet. *)
ToUserFrame(t) ==
    [Frame(t, SIZEOF) EXCEPT ![CS] = USER_CS, ![DS] = USER_DS, ![ES] = USER_DS, ![SS] = USER_DS,
                             ![ESP] = t + SIZEOF - 2, ![EFLAGS] = WithIOPL(@)]

(* Memory with n words of a frame at an address. *)
Placed(m, at, frame, n) ==
    [a \in Address |-> IF a \in at..(at + n - 1) THEN frame[a - at] ELSE m[a]]

(* Faulty: __trapret still finds the frame it pushed. *)
Redirected_Not(m, t, at) == m

(* The pointer below the frame, which __trapret pops, leads to another frame. *)
Redirected(m, t, at) == [m EXCEPT ![t - 1] = at]

trap_switch_tou ==
    /\ trapno = T_SWITCH_TOU
    /\ memory' = IF memory[tf + CS] = USER_CS THEN memory
                 ELSE Redirected(Placed(memory, switchk2u, ToUserFrame(tf), SIZEOF), tf, switchk2u)
    /\ Return /\ UNCHANGED ticks

(* Faulty: the user's I/O privilege stays. *)
ToKernelFrame_IOPL(t) ==
    [Frame(t, SIZEOF - 2) EXCEPT ![CS] = KERNEL_CS, ![DS] = KERNEL_DS, ![ES] = KERNEL_DS]

(* T_SWITCH_TOK: the frame ends without esp and ss. *)
ToKernelFrame(t) ==
    [Frame(t, SIZEOF - 2) EXCEPT ![CS] = KERNEL_CS, ![DS] = KERNEL_DS, ![ES] = KERNEL_DS,
                                 ![EFLAGS] = WithoutIOPL(@)]

(* Changed in place, then copied to the user's stack, below esp. *)
trap_switch_tok ==
    /\ trapno = T_SWITCH_TOK
    /\ memory' = IF memory[tf + CS] = KERNEL_CS THEN memory ELSE
           LET n         == SIZEOF - 2
               switchu2k == memory[tf + ESP] - n
               frame     == ToKernelFrame(tf)
           IN Redirected(Placed(Placed(memory, tf, frame, n), switchu2k, frame, n), tf, switchu2k)
    /\ Return /\ UNCHANGED ticks

(* The keyboard and the serial line: what cons_getc does to the buffer is in
   Console, where the trap is one more caller, and what is printed in Format. *)
trap_console ==
    /\ trapno \in {IRQ_OFFSET + IRQ_COM1, IRQ_OFFSET + IRQ_KBD}
    /\ Return /\ UNCHANGED <<memory, ticks>>

(* The disks and all others: what they print leaves no trace here. *)
trap_other ==
    /\ trapno \notin {IRQ_OFFSET + IRQ_TIMER, IRQ_OFFSET + IRQ_COM1, IRQ_OFFSET + IRQ_KBD,
                      T_SWITCH_TOU, T_SWITCH_TOK}
    /\ Return /\ UNCHANGED <<memory, ticks>>

trap_dispatch == trap_timer \/ trap_console \/ trap_switch_tou \/ trap_switch_tok \/ trap_other

(* popl %esp: the frame, or the one that was put in its place; then the
   registers, and past the trap number and the error code. *)
__trapret ==
    /\ pc = "__trapret" /\ pc' = "iret"
    /\ LET f == memory[cpu.esp] IN
       cpu' = [cpu EXCEPT !.regs = memory[f + REGS], !.gs = memory[f + GS], !.fs = memory[f + FS],
                          !.es = memory[f + ES], !.ds = memory[f + DS], !.esp = f + EIP]
    /\ UNCHANGED <<memory, vector, ticks, traps, before>>

(* To an outer ring esp and ss are popped too. *)
iret ==
    /\ pc = "iret" /\ pc' = "program"
    /\ LET to == memory[cpu.esp + 1]
           inner == [cpu EXCEPT !.eip = memory[cpu.esp], !.cs = to, !.eflags = memory[cpu.esp + 2],
                                !.esp = @ + 3]
       IN cpu' = IF CPL(to) # User THEN inner
                 ELSE [inner EXCEPT !.esp = memory[cpu.esp + 3], !.ss = memory[cpu.esp + 4],
                                    !.ds = Usable(@), !.es = Usable(@), !.fs = Usable(@), !.gs = Usable(@)]
    /\ UNCHANGED <<memory, vector, ticks, traps, before>>

Traps ==
    \/ \E v \in Exceptions : Exception(v)
    \/ \E irq \in Irqs : Interrupt(irq)
    \/ \E v \in {T_SWITCH_TOU, T_SWITCH_TOK} : SoftwareInt(v)

Next ==
    \/ Compute \/ Push \/ Pop \/ StiCli
    \/ Traps
    \/ vector_i \/ __alltraps \/ trap_dispatch \/ __trapret \/ iret

Spec == Init /\ [][Next]_vars
-----------------------------------------------------------------------------
(* The type invariant.  While the program runs esp is on its own stack. *)
TypeOK ==
    /\ cpu \in Context
    /\ memory \in [Address -> Int]
    /\ pc \in {"program", "vector", "__alltraps", "trap", "__trapret", "iret"}
    /\ vector \in -1..255 /\ ticks \in 0..(TickWrap - 1) /\ traps \in 0..MaxTraps
    /\ cpu.esp \in IF pc = "program" THEN (StackTop - Depth)..StackTop ELSE Address

(* The program has I/O privilege and user selectors in user mode, and neither
   in kernel mode. *)
PrivilegeAgrees ==
    pc = "program" =>
        IF CPL(cpu.cs) = User
        THEN IOPL(cpu.eflags) = 3 /\ cpu.ss = USER_DS /\ cpu.ds = USER_DS /\ cpu.es = USER_DS
        ELSE IOPL(cpu.eflags) = 0 /\ cpu.ss = KERNEL_DS /\ cpu.ds = KERNEL_DS /\ cpu.es = KERNEL_DS

(* "Make the stack look like a struct trapframe" (102trapentry.S:8): when trap
   runs, each word of the frame is where its field says, for every vector, with
   the processor's error code or without. *)
FrameBuilt ==
    pc = "trap" =>
        LET c == before.context IN
        /\ tf = cpu.esp + 2
        /\ trapno = vector
        /\ memory[tf + EIP] = c.eip /\ memory[tf + CS] = c.cs /\ memory[tf + EFLAGS] = c.eflags
        /\ memory[tf + REGS] = c.regs /\ memory[tf + DS] = c.ds /\ memory[tf + ES] = c.es
        /\ memory[tf + FS] = c.fs /\ memory[tf + GS] = c.gs
        /\ CPL(c.cs) = User => memory[tf + ESP] = c.esp /\ memory[tf + SS] = c.ss

Running == pc = "program"

Promise == INSTANCE Interrupted WITH
    context <- IF Running THEN cpu ELSE before.context,
    stack   <- IF Running THEN InUse(memory, cpu.esp) ELSE before.stack,
    trap    <- IF Running THEN -1 ELSE vector

(* Whatever the trap, the interrupted program goes on with the registers, the
   stack and the instruction it had; T_SWITCH_TOU and T_SWITCH_TOK change its mode
   and its selectors and nothing else. *)
ProgramGoesOn == Promise!Spec
=============================================================================
