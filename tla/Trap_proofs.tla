----------------------------- MODULE Trap_proofs -----------------------------
(***************************************************************************)
(* Proofs about Trap, for every size of both stacks, every set of          *)
(* exceptions and interrupt lines, and any number of traps.                *)
(***************************************************************************)
EXTENDS Trap, SequenceTheorems, TLAPS

Crosses(c) == CPL(c.cs) = User

(* Where the frame of a trap that interrupts context c lies. *)
FrameOf(c) == IF Crosses(c) THEN esp0 - SIZEOF ELSE c.esp - (SIZEOF - 2)

(* A context that the program may have. *)
ProgramContext(c) ==
    /\ c \in Context /\ c.esp \in (StackTop - Depth)..StackTop
    /\ IF Crosses(c)
       THEN /\ c.cs = USER_CS /\ IOPL(c.eflags) = 3
            /\ c.ss = USER_DS /\ c.ds = USER_DS /\ c.es = USER_DS
            /\ Usable(c.fs) = c.fs /\ Usable(c.gs) = c.gs
       ELSE /\ c.cs = KERNEL_CS /\ IOPL(c.eflags) = 0
            /\ c.ss = KERNEL_DS /\ c.ds = KERNEL_DS /\ c.es = KERNEL_DS

(* The upper part of the frame at t, which the processor pushes and iret pops ... *)
Upper(m, t, c) ==
    /\ m[t + EIP] = c.eip /\ m[t + CS] = c.cs /\ m[t + EFLAGS] = c.eflags
    /\ Crosses(c) => m[t + ESP] = c.esp /\ m[t + SS] = c.ss

(* ... and the lower one, which __alltraps pushes and __trapret pops. *)
Lower(m, t, c) ==
    /\ m[t + REGS] = c.regs /\ m[t + DS] = c.ds /\ m[t + ES] = c.es
    /\ m[t + FS] = c.fs /\ m[t + GS] = c.gs

(* What iret needs to leave the program with context c, the registers being
   those of r: a kernel's stack goes on behind the frame, a user's segment
   registers are cut to usable ones. *)
Leads(m, t, r, c) ==
    /\ Upper(m, t, c) /\ r.regs = c.regs
    /\ IF Crosses(c)
       THEN Usable(r.ds) = c.ds /\ Usable(r.es) = c.es /\ Usable(r.fs) = c.fs /\ Usable(r.gs) = c.gs
       ELSE /\ r.ds = c.ds /\ r.es = c.es /\ r.fs = c.fs /\ r.gs = c.gs
            /\ c.ss = KERNEL_DS /\ t + (SIZEOF - 2) = c.esp

(* The registers that a frame holds. *)
Saved(m, t) ==
    [regs |-> m[t + REGS], gs |-> m[t + GS], fs |-> m[t + FS], es |-> m[t + ES], ds |-> m[t + DS]]

Frames == 1..StackTop       \* where frames start

AtVector ==
    pc = "vector" =>
        LET c == before.context IN
        /\ Upper(memory, FrameOf(c), c)
        /\ cpu.esp = FrameOf(c) + (IF vector \in ErrorCodes THEN ERR ELSE EIP)
        /\ cpu.regs = c.regs /\ cpu.ds = c.ds /\ cpu.es = c.es /\ cpu.fs = c.fs /\ cpu.gs = c.gs

AtAlltraps ==
    pc = "__alltraps" =>
        LET c == before.context IN
        /\ Upper(memory, FrameOf(c), c)
        /\ cpu.esp = FrameOf(c) + TRAPNO /\ memory[FrameOf(c) + TRAPNO] = vector
        /\ cpu.regs = c.regs /\ cpu.ds = c.ds /\ cpu.es = c.es /\ cpu.fs = c.fs /\ cpu.gs = c.gs

AtTrap ==
    pc = "trap" =>
        LET c == before.context IN
        /\ Upper(memory, FrameOf(c), c) /\ Lower(memory, FrameOf(c), c)
        /\ memory[FrameOf(c) + TRAPNO] = vector
        /\ cpu.esp = FrameOf(c) - 2 /\ memory[FrameOf(c) - 1] = FrameOf(c)

AtTrapret ==
    pc = "__trapret" =>
        LET f == memory[cpu.esp] IN
        /\ f \in Frames /\ Leads(memory, f, Saved(memory, f), Promise!After(before.context, vector))
        /\ \A r \in {GS, FS, ES, DS} : memory[f + r] \in Selectors

AtIret ==
    pc = "iret" =>
        /\ cpu.esp - EIP \in Frames
        /\ Leads(memory, cpu.esp - EIP, cpu, Promise!After(before.context, vector))

(* While a trap is handled: what the program was, and that its stack is left
   alone. *)
Trapped ==
    pc # "program" =>
        /\ ProgramContext(before.context)
        /\ before.stack = InUse(memory, before.context.esp)
        /\ vector \in 0..255 /\ vector # 9
        /\ cpu.cs = KERNEL_CS /\ cpu.ss = KERNEL_DS

TrapInv ==
    /\ TypeOK
    /\ pc = "program" => ProgramContext(cpu)
    /\ Trapped
    /\ AtVector /\ AtAlltraps /\ AtTrap /\ AtTrapret /\ AtIret

-----------------------------------------------------------------------------
(* Facts about selectors, flags and addresses. *)

(* The privilege levels of the selectors, and which of them user mode may keep. *)
LEMMA SelectorFacts ==
    /\ CPL(0) = 0 /\ CPL(KERNEL_CS) = 0 /\ CPL(KERNEL_DS) = 0 /\ CPL(USER_CS) = User /\ CPL(USER_DS) = User
    /\ USER_CS # KERNEL_CS
    /\ Usable(USER_DS) = USER_DS /\ Usable(KERNEL_DS) = 0 /\ Usable(0) = 0
    /\ \A s \in Selectors : Usable(s) \in Selectors /\ Usable(Usable(s)) = Usable(s) /\ s \in Int
<1>1. CPL(0) = 0 /\ CPL(KERNEL_CS) = 0 /\ CPL(KERNEL_DS) = 0 /\ CPL(USER_CS) = 3 /\ CPL(USER_DS) = 3
  BY DEF CPL, KERNEL_CS, KERNEL_DS, USER_CS, USER_DS
<1>2. \A s \in Selectors : Usable(s) \in Selectors /\ Usable(Usable(s)) = Usable(s) /\ s \in Int
  BY <1>1 DEF Selectors, Usable, KERNEL_CS, KERNEL_DS, USER_CS, USER_DS
<1> QED
  BY <1>1, <1>2 DEF User, Usable, KERNEL_CS, USER_CS

(* Setting and clearing IOPL leave the interrupt flag alone, and the flags flags. *)
LEMMA FlagFacts ==
    ASSUME NEW e \in Eflags
    PROVE  /\ e \in Int /\ IOPL(e) \in 0..3 /\ IF_(e) \in 0..1
           /\ 2 * IOPL(e) \in Eflags /\ IOPL(2 * IOPL(e)) = IOPL(e)
           /\ 2 * IOPL(e) + (1 - IF_(e)) \in Eflags /\ IOPL(2 * IOPL(e) + (1 - IF_(e))) = IOPL(e)
           /\ WithIOPL(e) \in Eflags /\ IOPL(WithIOPL(e)) = 3
           /\ WithoutIOPL(e) \in Eflags /\ IOPL(WithoutIOPL(e)) = 0
<1>1. e \in {0, 1, 2, 3, 4, 5, 6, 7}
  BY DEF Eflags
<1> QED
  BY <1>1 DEF Eflags, IOPL, IF_, WithIOPL, WithoutIOPL, FL_IOPL_MASK

(* Both stacks have room for a frame, and they are apart. *)
LEMMA StackFacts ==
    /\ esp0 \in Int /\ StackTop \in Int /\ Depth \in Nat
    /\ esp0 >= SIZEOF + 3 /\ esp0 + SIZEOF <= StackTop - Depth
    /\ Address = 1..(StackTop + 11)
BY TrapAssumption DEF esp0, StackTop, SIZEOF, Address

(* A frame, and what __alltraps pushes below it, lies in memory, below the words
   that the program has on its stack. *)
LEMMA FrameFacts ==
    ASSUME NEW c, ProgramContext(c)
    PROVE  /\ FrameOf(c) \in Int /\ FrameOf(c) >= 3 /\ FrameOf(c) + SIZEOF <= StackTop + 2 /\ c.esp \in Int
           /\ c.esp <= StackTop /\ c.esp >= esp0 + SIZEOF
           /\ Crosses(c) => FrameOf(c) + SIZEOF = esp0
           /\ ~Crosses(c) => FrameOf(c) + (SIZEOF - 2) = c.esp
BY StackFacts DEF ProgramContext, FrameOf, SIZEOF

(* Words pushed lie below the stack pointer, the first on top, and change nothing else. *)
LEMMA PushedIs ==
    ASSUME NEW m \in [Address -> Int], NEW esp \in Int, NEW words \in Seq(Int),
           esp - Len(words) >= 1, esp <= StackTop + 12
    PROVE  /\ Pushed(m, esp, words) \in [Address -> Int]
           /\ \A j \in 1..Len(words) : Pushed(m, esp, words)[esp - j] = words[j]
           /\ \A a \in Address : a >= esp \/ a < esp - Len(words) => Pushed(m, esp, words)[a] = m[a]
<1> DEFINE len == Len(words)
<1>1. len \in Nat /\ StackTop \in Int /\ Address = 1..(StackTop + 11)
  BY StackFacts
<1>2. \A j \in 1..len : words[j] \in Int
  OBVIOUS
<1> HIDE DEF len
<1>3. \A a \in Address : Pushed(m, esp, words)[a] = IF a \in (esp - len)..(esp - 1) THEN words[esp - a] ELSE m[a]
  BY DEF Pushed, len
<1>4. \A a \in (esp - len)..(esp - 1) : esp - a \in 1..len /\ a \in Address
  BY <1>1 DEF len
<1>5. \A a \in Address : Pushed(m, esp, words)[a] \in Int
  BY <1>2, <1>3, <1>4
<1>6. Pushed(m, esp, words) = [a \in Address |-> Pushed(m, esp, words)[a]]
  BY DEF Pushed
<1>7. Pushed(m, esp, words) \in [Address -> Int]
  BY <1>5, <1>6
<1>8. ASSUME NEW j \in 1..len PROVE Pushed(m, esp, words)[esp - j] = words[j]
  <2>1. esp - j \in (esp - len)..(esp - 1) /\ esp - (esp - j) = j
    BY <1>1
  <2> QED
    BY <1>3, <1>4, <2>1
<1>9. ASSUME NEW a \in Address, a >= esp \/ a < esp - len PROVE Pushed(m, esp, words)[a] = m[a]
  <2>1. a \notin (esp - len)..(esp - 1)
    BY <1>1, <1>9
  <2> QED
    BY <1>3, <2>1
<1> QED
  BY <1>7, <1>8, <1>9 DEF len

(* The words that the processor pushes. *)
CpuWords(c, next, error) ==
    (IF Crosses(c) THEN << c.ss, c.esp >> ELSE << >>)
      \o << c.eflags, c.cs, next >> \o (IF error THEN << 0 >> ELSE << >>)

CpuLength(c, error) == (IF Crosses(c) THEN 5 ELSE 3) + (IF error THEN 1 ELSE 0)

(* Where the words of two sequences lie in their concatenation. *)
LEMMA TwoParts ==
    ASSUME NEW a \in Seq(Int), NEW b \in Seq(Int)
    PROVE  /\ a \o b \in Seq(Int) /\ Len(a \o b) = Len(a) + Len(b)
           /\ \A j \in 1..Len(a) : (a \o b)[j] = a[j]
           /\ \A j \in 1..Len(b) : (a \o b)[Len(a) + j] = b[j]
<1> DEFINE w == a \o b
           l == Len(a)
           n == Len(b)
<1>1. /\ w \in Seq(Int) /\ Len(w) = l + n
      /\ \A j \in 1..(l + n) : w[j] = IF j <= l THEN a[j] ELSE b[j - l]
  BY ConcatProperties
<1>2. l \in Nat /\ n \in Nat
  OBVIOUS
<1> HIDE DEF w, l, n
<1>3. \A j \in 1..l : w[j] = a[j]
  BY <1>1, <1>2
<1>4. ASSUME NEW j \in 1..n PROVE w[l + j] = b[j]
  <2>1. l + j \in 1..(l + n) /\ ~(l + j <= l) /\ (l + j) - l = j
    BY <1>2
  <2> QED
    BY <1>1, <2>1
<1> QED
  BY <1>1, <1>3, <1>4 DEF w, l, n

(* Where the words of three sequences lie in their concatenation. *)
LEMMA ThreeParts ==
    ASSUME NEW a \in Seq(Int), NEW b \in Seq(Int), NEW d \in Seq(Int)
    PROVE  /\ a \o b \o d \in Seq(Int) /\ Len(a \o b \o d) = Len(a) + Len(b) + Len(d)
           /\ \A j \in 1..Len(a) : (a \o b \o d)[j] = a[j]
           /\ \A j \in 1..Len(b) : (a \o b \o d)[Len(a) + j] = b[j]
<1> DEFINE ab == a \o b
           w  == ab \o d
           l  == Len(a)
           n  == Len(b)
           r  == Len(d)
           ln == Len(ab)
<1>1. /\ ab \in Seq(Int) /\ ln = l + n
      /\ \A j \in 1..l : ab[j] = a[j]
      /\ \A j \in 1..n : ab[l + j] = b[j]
  BY TwoParts
<1>2. ab \in Seq(Int)
  BY <1>1
<1> HIDE DEF ab
<1>3. /\ w \in Seq(Int) /\ Len(w) = ln + r
      /\ \A j \in 1..ln : w[j] = ab[j]
  BY <1>2, TwoParts
<1>4. l \in Nat /\ n \in Nat /\ r \in Nat
  OBVIOUS
<1> HIDE DEF w, l, n, r, ln
<1>5. \A j \in 1..l : w[j] = a[j]
  BY <1>1, <1>3, <1>4
<1>6. \A j \in 1..n : w[l + j] = b[j]
  BY <1>1, <1>3, <1>4
<1>7. w \in Seq(Int) /\ Len(w) = l + n + r
  BY <1>1, <1>3
<1> QED
  BY <1>5, <1>6, <1>7 DEF w, ab, l, n, r

(* What the processor pushes, from either mode. *)
LEMMA CpuWordsAre ==
    ASSUME NEW c \in Context, NEW next \in Int, NEW error \in BOOLEAN
    PROVE  LET w == CpuWords(c, next, error)
               n == IF Crosses(c) THEN 2 ELSE 0
           IN /\ w \in Seq(Int) /\ Len(w) = CpuLength(c, error)
              /\ Crosses(c) => w[1] = c.ss /\ w[2] = c.esp
              /\ w[n + 1] = c.eflags /\ w[n + 2] = c.cs /\ w[n + 3] = next
<1>1. c.ss \in Int /\ c.esp \in Int /\ c.eflags \in Int /\ c.cs \in Int
  BY SelectorFacts, FlagFacts DEF Context
<1> DEFINE a == IF Crosses(c) THEN << c.ss, c.esp >> ELSE << >>
           b == << c.eflags, c.cs, next >>
           d == IF error THEN << 0 >> ELSE << >>
           w == CpuWords(c, next, error)
           n == IF Crosses(c) THEN 2 ELSE 0
<1>2. /\ a \in Seq(Int) /\ Len(a) = n /\ n \in Nat
      /\ Crosses(c) => n = 2 /\ a[1] = c.ss /\ a[2] = c.esp
  BY <1>1
<1>3. b \in Seq(Int) /\ Len(b) = 3 /\ b[1] = c.eflags /\ b[2] = c.cs /\ b[3] = next
  BY <1>1
<1>4. d \in Seq(Int) /\ Len(d) = IF error THEN 1 ELSE 0
  OBVIOUS
<1>5. w = a \o b \o d
  BY DEF CpuWords
<1>6. n = IF Crosses(c) THEN 2 ELSE 0
  OBVIOUS
<1> HIDE DEF a, b, d, w, n
<1>7. /\ w \in Seq(Int) /\ Len(w) = Len(a) + Len(b) + Len(d)
      /\ \A j \in 1..Len(a) : w[j] = a[j]
      /\ \A j \in 1..Len(b) : w[Len(a) + j] = b[j]
  <2>1. a \in Seq(Int) /\ b \in Seq(Int) /\ d \in Seq(Int)
    BY <1>2, <1>3, <1>4
  <2> QED
    BY <1>5, <2>1, ThreeParts
<1>8. w[n + 1] = c.eflags /\ w[n + 2] = c.cs /\ w[n + 3] = next
  BY <1>2, <1>3, <1>7
<1>9. Crosses(c) => w[1] = c.ss /\ w[2] = c.esp
  BY <1>2, <1>7
<1>10. Len(w) = CpuLength(c, error)
  BY <1>2, <1>3, <1>4, <1>6, <1>7 DEF CpuLength
<1> QED
  BY <1>7, <1>8, <1>9, <1>10 DEF w, n

(* The program's stack is the same in two memories that agree above its esp. *)
LEMMA SameStack ==
    ASSUME NEW m, NEW m2, NEW esp \in Int, \A a \in esp..(StackTop - 1) : m2[a] = m[a]
    PROVE  InUse(m2, esp) = InUse(m, esp)
BY DEF InUse

-----------------------------------------------------------------------------
(* What the switches make of a context. *)

UserOf(c) ==
    [c EXCEPT !.cs = USER_CS, !.ds = USER_DS, !.es = USER_DS, !.ss = USER_DS,
              !.fs = Usable(c.fs), !.gs = Usable(c.gs), !.eflags = WithIOPL(c.eflags)]

KernelOf(c) ==
    [c EXCEPT !.cs = KERNEL_CS, !.ds = KERNEL_DS, !.es = KERNEL_DS, !.ss = KERNEL_DS,
              !.eflags = WithoutIOPL(c.eflags)]

(* The promise's context after a trap, in the operators of this module. *)
LEMMA AfterIs ==
    ASSUME NEW c, NEW v
    PROVE  Promise!After(c, v) = IF v = T_SWITCH_TOU /\ c.cs # USER_CS THEN UserOf(c)
                                 ELSE IF v = T_SWITCH_TOK /\ c.cs # KERNEL_CS THEN KernelOf(c) ELSE c
BY DEF Promise!After, Promise!ToUser, Promise!ToKernel, Promise!Usable, Promise!CPL, Promise!User,
       Promise!WithIOPL, Promise!WithoutIOPL, Promise!IF_, Promise!FL_IOPL_MASK, Promise!USER_CS, Promise!USER_DS,
       Promise!KERNEL_CS, Promise!KERNEL_DS, Promise!T_SWITCH_TOU, Promise!T_SWITCH_TOK,
       UserOf, KernelOf, Usable, CPL, User, WithIOPL, WithoutIOPL, IF_, FL_IOPL_MASK, USER_CS, USER_DS,
       KERNEL_CS, KERNEL_DS, T_SWITCH_TOU, T_SWITCH_TOK

(* The context in user mode that a switch asks for. *)
LEMMA UserOfIs ==
    ASSUME NEW c \in Context
    PROVE  LET u == UserOf(c) IN
           /\ u \in Context /\ u.regs = c.regs /\ u.eip = c.eip /\ u.esp = c.esp
           /\ u.eflags = WithIOPL(c.eflags) /\ u.cs = USER_CS
           /\ u.ss = USER_DS /\ u.ds = USER_DS /\ u.es = USER_DS
           /\ u.fs = Usable(c.fs) /\ u.gs = Usable(c.gs)
<1>1. WithIOPL(c.eflags) \in Eflags /\ Usable(c.fs) \in Selectors /\ Usable(c.gs) \in Selectors
  BY FlagFacts, SelectorFacts DEF Context
<1>2. USER_CS \in Selectors /\ USER_DS \in Selectors
  BY DEF Selectors
<1> QED
  BY <1>1, <1>2 DEF UserOf, Context

(* The context in kernel mode that a switch asks for. *)
LEMMA KernelOfIs ==
    ASSUME NEW c \in Context
    PROVE  LET u == KernelOf(c) IN
           /\ u \in Context /\ u.regs = c.regs /\ u.eip = c.eip /\ u.esp = c.esp
           /\ u.eflags = WithoutIOPL(c.eflags) /\ u.cs = KERNEL_CS
           /\ u.ss = KERNEL_DS /\ u.ds = KERNEL_DS /\ u.es = KERNEL_DS
           /\ u.fs = c.fs /\ u.gs = c.gs
<1>1. WithoutIOPL(c.eflags) \in Eflags
  BY FlagFacts DEF Context
<1>2. KERNEL_CS \in Selectors /\ KERNEL_DS \in Selectors
  BY DEF Selectors
<1> QED
  BY <1>1, <1>2 DEF KernelOf, Context

(* After a trap the program has a context again, on the same stack. *)
LEMMA AfterContext ==
    ASSUME NEW c, ProgramContext(c), NEW v
    PROVE  ProgramContext(Promise!After(c, v)) /\ Promise!After(c, v).esp = c.esp
<1>1. c \in Context /\ c.eflags \in Eflags /\ c.fs \in Selectors /\ c.gs \in Selectors
  BY DEF ProgramContext, Context
<1>2. ProgramContext(UserOf(c)) /\ UserOf(c).esp = c.esp
  <2> DEFINE u == UserOf(c)
  <2>1. /\ u \in Context /\ u.esp = c.esp /\ u.eflags = WithIOPL(c.eflags) /\ u.cs = USER_CS
        /\ u.ss = USER_DS /\ u.ds = USER_DS /\ u.es = USER_DS /\ u.fs = Usable(c.fs) /\ u.gs = Usable(c.gs)
    BY <1>1, UserOfIs
  <2>2. u.esp \in (StackTop - Depth)..StackTop
    BY <2>1 DEF ProgramContext
  <2> HIDE DEF u
  <2>3. Crosses(u)
    BY <2>1, SelectorFacts DEF Crosses
  <2>4. IOPL(u.eflags) = 3
    BY <1>1, <2>1, FlagFacts
  <2>5. Usable(u.fs) = u.fs /\ Usable(u.gs) = u.gs
    BY <1>1, <2>1, SelectorFacts
  <2>6. ProgramContext(u)
    BY <2>1, <2>2, <2>3, <2>4, <2>5 DEF ProgramContext
  <2> QED
    BY <2>1, <2>6 DEF u
<1>3. ProgramContext(KernelOf(c)) /\ KernelOf(c).esp = c.esp
  <2> DEFINE u == KernelOf(c)
  <2>1. /\ u \in Context /\ u.esp = c.esp /\ u.eflags = WithoutIOPL(c.eflags) /\ u.cs = KERNEL_CS
        /\ u.ss = KERNEL_DS /\ u.ds = KERNEL_DS /\ u.es = KERNEL_DS
    BY <1>1, KernelOfIs
  <2>2. u.esp \in (StackTop - Depth)..StackTop
    BY <2>1 DEF ProgramContext
  <2> HIDE DEF u
  <2>3. ~Crosses(u)
    BY <2>1, SelectorFacts DEF Crosses, User
  <2>4. IOPL(u.eflags) = 0
    BY <1>1, <2>1, FlagFacts
  <2>6. ProgramContext(u)
    BY <2>1, <2>2, <2>3, <2>4 DEF ProgramContext
  <2> QED
    BY <2>1, <2>6 DEF u
<1> QED
  BY <1>2, <1>3, AfterIs, Zenon

-----------------------------------------------------------------------------
(* The program's own steps. *)

(* A step of the program itself is the promise's, and keeps the invariant. *)
LEMMA ProgramStep ==
    ASSUME TrapInv, pc = "program", pc' = "program", ProgramContext(cpu'),
           memory' \in [Address -> Int], UNCHANGED <<vector, ticks, traps, before>>,
           cpu' = [cpu EXCEPT !.regs = cpu'.regs, !.eip = cpu'.eip, !.esp = cpu'.esp, !.eflags = cpu'.eflags],
           IOPL(cpu'.eflags) = IOPL(cpu.eflags)
    PROVE  TrapInv' /\ [Promise!Next]_(Promise!programVars)
<1>1. TypeOK'
  BY DEF TrapInv, TypeOK, ProgramContext
<1>2. TrapInv'
  BY <1>1 DEF TrapInv, Trapped, AtVector, AtAlltraps, AtTrap, AtTrapret, AtIret
<1>3. /\ cpu \in Context /\ cpu' \in Context
  BY DEF TrapInv, TypeOK, ProgramContext
<1>4. /\ cpu'.cs = cpu.cs /\ cpu'.ds = cpu.ds /\ cpu'.es = cpu.es /\ cpu'.fs = cpu.fs
      /\ cpu'.gs = cpu.gs /\ cpu'.ss = cpu.ss
  BY <1>3 DEF Context
<1>5. Promise!Program
  BY <1>4 DEF Promise!Program, Promise!Privilege, Promise!IOPL, Promise!NoTrap, IOPL, Running
<1> QED
  BY <1>2, <1>5 DEF Promise!Next

(* A computation of the program keeps the invariant and the promise. *)
LEMMA ComputeStep == TrapInv /\ Compute => TrapInv' /\ [Promise!Next]_(Promise!programVars)
<1> SUFFICES ASSUME TrapInv, Compute PROVE TrapInv' /\ [Promise!Next]_(Promise!programVars)
  OBVIOUS
<1>1. /\ pc = "program" /\ cpu' = [cpu EXCEPT !.regs = cpu.eip, !.eip = Following(cpu.eip)]
      /\ UNCHANGED <<memory, pc, vector, ticks, traps, before>>
  BY DEF Compute
<1>2. cpu \in Context /\ ProgramContext(cpu) /\ cpu.eip \in 0..(EipCount - 1)
  BY <1>1 DEF TrapInv, TypeOK, Context
<1>3. Following(cpu.eip) \in 0..(EipCount - 1) /\ cpu.eip \in Int
  BY <1>2, TrapAssumption DEF Following
<1>4. /\ cpu' \in Context /\ cpu'.regs = cpu.eip /\ cpu'.eip = Following(cpu.eip) /\ cpu'.esp = cpu.esp
      /\ cpu'.eflags = cpu.eflags /\ cpu'.cs = cpu.cs /\ cpu'.ds = cpu.ds /\ cpu'.es = cpu.es
      /\ cpu'.fs = cpu.fs /\ cpu'.gs = cpu.gs /\ cpu'.ss = cpu.ss
  BY <1>1, <1>2, <1>3 DEF Context
<1>5. ProgramContext(cpu')
  BY <1>2, <1>4 DEF ProgramContext, Crosses
<1>6. cpu' = [cpu EXCEPT !.regs = cpu'.regs, !.eip = cpu'.eip, !.esp = cpu'.esp, !.eflags = cpu'.eflags]
  BY <1>1, <1>2, <1>4 DEF Context
<1> QED
  BY <1>1, <1>4, <1>5, <1>6, ProgramStep DEF TrapInv, TypeOK

(* A push of the program keeps the invariant and the promise. *)
LEMMA PushStep == TrapInv /\ Push => TrapInv' /\ [Promise!Next]_(Promise!programVars)
<1> SUFFICES ASSUME TrapInv, Push PROVE TrapInv' /\ [Promise!Next]_(Promise!programVars)
  OBVIOUS
<1>1. /\ pc = "program" /\ cpu' = [cpu EXCEPT !.esp = cpu.esp - 1] /\ cpu.esp > StackTop - Depth
      /\ memory' = Pushed(memory, cpu.esp, << cpu.regs >>)
      /\ UNCHANGED <<pc, vector, ticks, traps, before>>
  BY DEF Push
<1>2. cpu \in Context /\ ProgramContext(cpu) /\ memory \in [Address -> Int] /\ cpu.regs \in Int
  BY <1>1 DEF TrapInv, TypeOK, Context
<1>3. /\ cpu.esp - 1 \in (StackTop - Depth)..StackTop /\ cpu.esp - 1 >= 1 /\ cpu.esp <= StackTop + 12
      /\ cpu.esp \in Int
  BY <1>1, <1>2, StackFacts DEF ProgramContext, SIZEOF
<1>4. memory' \in [Address -> Int]
  <2>1. << cpu.regs >> \in Seq(Int) /\ Len(<< cpu.regs >>) = 1
    BY <1>2
  <2> QED
    BY <1>1, <1>2, <1>3, <2>1, PushedIs
<1>5. /\ cpu' \in Context /\ cpu'.regs = cpu.regs /\ cpu'.eip = cpu.eip /\ cpu'.esp = cpu.esp - 1
      /\ cpu'.eflags = cpu.eflags /\ cpu'.cs = cpu.cs /\ cpu'.ds = cpu.ds /\ cpu'.es = cpu.es
      /\ cpu'.fs = cpu.fs /\ cpu'.gs = cpu.gs /\ cpu'.ss = cpu.ss
  BY <1>1, <1>2, <1>3 DEF Context
<1>6. ProgramContext(cpu')
  BY <1>2, <1>3, <1>5 DEF ProgramContext, Crosses
<1>7. cpu' = [cpu EXCEPT !.regs = cpu'.regs, !.eip = cpu'.eip, !.esp = cpu'.esp, !.eflags = cpu'.eflags]
  BY <1>1, <1>2, <1>5 DEF Context
<1> QED
  BY <1>1, <1>4, <1>5, <1>6, <1>7, ProgramStep

(* A pop of the program keeps the invariant and the promise. *)
LEMMA PopStep == TrapInv /\ Pop => TrapInv' /\ [Promise!Next]_(Promise!programVars)
<1> SUFFICES ASSUME TrapInv, Pop PROVE TrapInv' /\ [Promise!Next]_(Promise!programVars)
  OBVIOUS
<1>1. /\ pc = "program" /\ cpu' = [cpu EXCEPT !.regs = memory[cpu.esp], !.esp = cpu.esp + 1]
      /\ cpu.esp < StackTop /\ UNCHANGED <<memory, pc, vector, ticks, traps, before>>
  BY DEF Pop
<1>2. cpu \in Context /\ ProgramContext(cpu) /\ memory \in [Address -> Int]
  BY <1>1 DEF TrapInv, TypeOK
<1>3. cpu.esp + 1 \in (StackTop - Depth)..StackTop /\ cpu.esp \in Address /\ cpu.esp + 1 \in Int
  BY <1>1, <1>2, StackFacts DEF ProgramContext, SIZEOF
<1>4. memory[cpu.esp] \in Int
  BY <1>2, <1>3
<1>5. /\ cpu' \in Context /\ cpu'.regs = memory[cpu.esp] /\ cpu'.eip = cpu.eip /\ cpu'.esp = cpu.esp + 1
      /\ cpu'.eflags = cpu.eflags /\ cpu'.cs = cpu.cs /\ cpu'.ds = cpu.ds /\ cpu'.es = cpu.es
      /\ cpu'.fs = cpu.fs /\ cpu'.gs = cpu.gs /\ cpu'.ss = cpu.ss
  BY <1>1, <1>2, <1>3, <1>4 DEF Context
<1>6. ProgramContext(cpu')
  BY <1>2, <1>3, <1>5 DEF ProgramContext, Crosses
<1>7. cpu' = [cpu EXCEPT !.regs = cpu'.regs, !.eip = cpu'.eip, !.esp = cpu'.esp, !.eflags = cpu'.eflags]
  BY <1>1, <1>2, <1>5 DEF Context
<1> QED
  BY <1>1, <1>2, <1>5, <1>6, <1>7, ProgramStep

(* sti and cli keep the invariant and the promise. *)
LEMMA StiCliStep == TrapInv /\ StiCli => TrapInv' /\ [Promise!Next]_(Promise!programVars)
<1> SUFFICES ASSUME TrapInv, StiCli PROVE TrapInv' /\ [Promise!Next]_(Promise!programVars)
  OBVIOUS
<1> DEFINE flags == 2 * IOPL(cpu.eflags) + (1 - IF_(cpu.eflags))
<1>1. /\ pc = "program" /\ cpu' = [cpu EXCEPT !.eflags = flags]
      /\ UNCHANGED <<memory, pc, vector, ticks, traps, before>>
  BY DEF StiCli
<1>2. cpu \in Context /\ ProgramContext(cpu) /\ memory \in [Address -> Int] /\ cpu.eflags \in Eflags
  BY <1>1 DEF TrapInv, TypeOK, Context
<1>3. flags \in Eflags /\ IOPL(flags) = IOPL(cpu.eflags)
  BY <1>2, FlagFacts
<1> HIDE DEF flags
<1>4. /\ cpu' \in Context /\ cpu'.regs = cpu.regs /\ cpu'.eip = cpu.eip /\ cpu'.esp = cpu.esp
      /\ cpu'.eflags = flags /\ cpu'.cs = cpu.cs /\ cpu'.ds = cpu.ds /\ cpu'.es = cpu.es
      /\ cpu'.fs = cpu.fs /\ cpu'.gs = cpu.gs /\ cpu'.ss = cpu.ss
  BY <1>1, <1>2, <1>3 DEF Context
<1>5. ProgramContext(cpu')
  BY <1>2, <1>3, <1>4 DEF ProgramContext, Crosses
<1>6. cpu' = [cpu EXCEPT !.regs = cpu'.regs, !.eip = cpu'.eip, !.esp = cpu'.esp, !.eflags = cpu'.eflags]
  BY <1>1, <1>2, <1>4 DEF Context
<1> QED
  BY <1>1, <1>2, <1>3, <1>4, <1>5, <1>6, ProgramStep

-----------------------------------------------------------------------------
(* The processor takes a trap. *)

(* Where it pushes. *)
Top(c) == IF Crosses(c) THEN esp0 ELSE c.esp

(* Memory m2, as the processor leaves it to the vector, with esp at low. *)
ProcessorPart(m2, low, m, c, next, error) ==
    /\ m2 \in [Address -> Int]
    /\ low = FrameOf(c) + (IF error THEN ERR ELSE EIP)
    /\ m2[FrameOf(c) + EIP] = next /\ m2[FrameOf(c) + CS] = c.cs /\ m2[FrameOf(c) + EFLAGS] = c.eflags
    /\ Crosses(c) => m2[FrameOf(c) + ESP] = c.esp /\ m2[FrameOf(c) + SS] = c.ss
    /\ \A a \in c.esp..(StackTop - 1) : m2[a] = m[a]

(* The processor's part of a trap leaves its words on the stack of the new mode. *)
LEMMA CpuPushes ==
    ASSUME NEW c, ProgramContext(c), NEW next \in Int, NEW error \in BOOLEAN, NEW m \in [Address -> Int]
    PROVE  ProcessorPart(Pushed(m, Top(c), CpuWords(c, next, error)), Top(c) - Len(CpuWords(c, next, error)),
                         m, c, next, error)
<1> DEFINE top == Top(c)
           w   == CpuWords(c, next, error)
           m2  == Pushed(m, top, w)
           t   == FrameOf(c)
           l   == Len(w)
           n   == IF Crosses(c) THEN 2 ELSE 0
<1>1. c \in Context /\ StackTop \in Int /\ esp0 \in Int
  BY StackFacts DEF ProgramContext
<1>2. /\ w \in Seq(Int) /\ l = n + 3 + (IF error THEN 1 ELSE 0)
      /\ Crosses(c) => w[1] = c.ss /\ w[2] = c.esp
      /\ w[n + 1] = c.eflags /\ w[n + 2] = c.cs /\ w[n + 3] = next
  BY <1>1, CpuWordsAre DEF CpuLength
<1>3. /\ t \in Int /\ t >= 3 /\ t + SIZEOF <= StackTop + 2 /\ top = t + 10 + n /\ top \in Int /\ top <= StackTop
      /\ n \in 0..2
  BY <1>1, FrameFacts, StackFacts DEF SIZEOF, Top
<1>4. n = 2 <=> Crosses(c)
  OBVIOUS
<1> HIDE DEF w, t, n, l, top
<1>5. top - l >= 1 /\ top <= StackTop + 12 /\ l \in Nat /\ l >= n + 3
  BY <1>1, <1>2, <1>3 DEF SIZEOF
<1>6. /\ m2 \in [Address -> Int] /\ \A j \in 1..l : m2[top - j] = w[j]
      /\ \A a \in Address : a >= top \/ a < top - l => m2[a] = m[a]
  BY <1>2, <1>3, <1>5, PushedIs DEF l
<1> HIDE DEF m2
<1>7. top - (n + 1) = t + EFLAGS /\ top - (n + 2) = t + CS /\ top - (n + 3) = t + EIP
  BY <1>3 DEF EFLAGS, CS, EIP
<1>8. n + 1 \in 1..l /\ n + 2 \in 1..l /\ n + 3 \in 1..l
  BY <1>3, <1>5
<1>9. m2[t + EIP] = next /\ m2[t + CS] = c.cs /\ m2[t + EFLAGS] = c.eflags
  BY <1>2, <1>6, <1>7, <1>8
<1>10. Crosses(c) => m2[t + ESP] = c.esp /\ m2[t + SS] = c.ss
  <2> SUFFICES ASSUME Crosses(c) PROVE m2[t + ESP] = c.esp /\ m2[t + SS] = c.ss
    OBVIOUS
  <2>1. top - 1 = t + SS /\ top - 2 = t + ESP /\ 1 \in 1..l /\ 2 \in 1..l
    BY <1>3, <1>4, <1>5 DEF SS, ESP
  <2> QED
    BY <1>2, <1>6, <2>1
<1>11. top - l = t + (IF error THEN ERR ELSE EIP)
  BY <1>2, <1>3 DEF ERR, EIP
<1>12. c.esp \in Int /\ c.esp >= top /\ c.esp >= 1 /\ StackTop - 1 <= StackTop + 11
  <2>1. c.esp \in Int /\ c.esp >= esp0 + 12 /\ esp0 >= 15
    BY FrameFacts, StackFacts DEF SIZEOF
  <2>2. top = esp0 \/ top = c.esp
    BY DEF top, Top
  <2> QED
    BY <1>1, <2>1, <2>2
<1>13. \A a \in c.esp..(StackTop - 1) : m2[a] = m[a]
  <2> SUFFICES ASSUME NEW a \in c.esp..(StackTop - 1) PROVE m2[a] = m[a]
    OBVIOUS
  <2>1. a \in Address /\ a >= top
    BY <1>1, <1>3, <1>12, StackFacts
  <2> QED
    BY <1>6, <2>1
<1> QED
  BY <1>6, <1>9, <1>10, <1>11, <1>13 DEF m2, w, t, l, top, ProcessorPart

(* A trap taken keeps the invariant, and is nothing to the program. *)
LEMMA TakeStep ==
    ASSUME TrapInv, NEW v \in 0..255, v # 9, NEW next \in {cpu.eip, Following(cpu.eip)},
           NEW error \in BOOLEAN, error <=> v \in ErrorCodes, Take(v, next, error)
    PROVE  TrapInv' /\ [Promise!Next]_(Promise!programVars)
<1> DEFINE top == Top(cpu)
           w   == CpuWords(cpu, next, error)
           c   == [cpu EXCEPT !.eip = next]
<1>1. /\ pc = "program" /\ pc' = "vector" /\ vector' = v /\ ticks' = ticks
      /\ traps < MaxTraps /\ traps' = traps + 1
      /\ memory' = Pushed(memory, top, w)
      /\ cpu' = [cpu EXCEPT !.cs = KERNEL_CS, !.ss = IF Crosses(cpu) THEN KERNEL_DS ELSE cpu.ss,
                            !.esp = top - Len(w), !.eflags = 2 * IOPL(cpu.eflags)]
      /\ before' = [context |-> c, stack |-> InUse(memory, cpu.esp)]
  BY DEF Take, CpuWords, Crosses, Top
<1>2. /\ cpu \in Context /\ ProgramContext(cpu) /\ memory \in [Address -> Int] /\ cpu.eip \in 0..(EipCount - 1)
      /\ cpu.eflags \in Eflags /\ traps \in 0..MaxTraps /\ ticks \in 0..(TickWrap - 1)
  BY <1>1 DEF TrapInv, TypeOK, Context
<1>3. Following(cpu.eip) \in 0..(EipCount - 1) /\ next \in 0..(EipCount - 1) /\ next \in Int
  BY <1>2, TrapAssumption DEF Following
<1>4. /\ c \in Context /\ c.regs = cpu.regs /\ c.eip = next /\ c.esp = cpu.esp
      /\ c.eflags = cpu.eflags /\ c.cs = cpu.cs /\ c.ds = cpu.ds /\ c.es = cpu.es
      /\ c.fs = cpu.fs /\ c.gs = cpu.gs /\ c.ss = cpu.ss
  BY <1>2, <1>3 DEF Context
<1>5. before'.context = c /\ before'.stack = InUse(memory, cpu.esp)
  BY <1>1
<1>6. (Crosses(c) <=> Crosses(cpu)) /\ FrameOf(c) = FrameOf(cpu)
  BY <1>4 DEF Crosses, FrameOf
<1>7. ProgramContext(c)
  BY <1>2, <1>4, <1>6 DEF ProgramContext
<1>8. /\ memory' \in [Address -> Int]
      /\ top - Len(w) = FrameOf(cpu) + (IF error THEN ERR ELSE EIP)
      /\ memory'[FrameOf(cpu) + EIP] = next /\ memory'[FrameOf(cpu) + CS] = cpu.cs
      /\ memory'[FrameOf(cpu) + EFLAGS] = cpu.eflags
      /\ Crosses(cpu) => memory'[FrameOf(cpu) + ESP] = cpu.esp /\ memory'[FrameOf(cpu) + SS] = cpu.ss
      /\ \A a \in cpu.esp..(StackTop - 1) : memory'[a] = memory[a]
  <2>1. ProcessorPart(memory', top - Len(w), memory, cpu, next, error)
    BY <1>1, <1>2, <1>3, CpuPushes
  <2> QED
    BY <2>1 DEF ProcessorPart
<1> DEFINE low == top - Len(w)
           flags == 2 * IOPL(cpu.eflags)
           ss == IF Crosses(cpu) THEN KERNEL_DS ELSE cpu.ss
<1>9. flags \in Eflags /\ KERNEL_CS \in Selectors /\ ss = KERNEL_DS /\ ss \in Selectors
  BY <1>2, FlagFacts DEF ProgramContext, Selectors
<1>10. low \in Int /\ low \in Address
  <2> DEFINE t == FrameOf(cpu)
  <2>1. t \in Int /\ t >= 3 /\ t + 12 <= StackTop + 2 /\ StackTop \in Int /\ Address = 1..(StackTop + 11)
    BY <1>2, FrameFacts, StackFacts DEF SIZEOF
  <2>2. low = t + (IF error THEN 6 ELSE 7)
    BY <1>8 DEF ERR, EIP
  <2> HIDE DEF t, low
  <2> QED
    BY <2>1, <2>2
<1>11. cpu' = [cpu EXCEPT !.cs = KERNEL_CS, !.ss = ss, !.esp = low, !.eflags = flags]
  BY <1>1
<1>12. low = FrameOf(cpu) + (IF error THEN ERR ELSE EIP)
  BY <1>8
<1> HIDE DEF low, flags, ss, c
<1>13. /\ cpu' \in Context /\ cpu'.regs = cpu.regs /\ cpu'.esp = low /\ cpu'.cs = KERNEL_CS
       /\ cpu'.ss = KERNEL_DS /\ cpu'.ds = cpu.ds /\ cpu'.es = cpu.es /\ cpu'.fs = cpu.fs /\ cpu'.gs = cpu.gs
  BY <1>2, <1>9, <1>10, <1>11 DEF Context
<1>14. TypeOK'
  <2>1. vector' \in -1..255 /\ traps' \in 0..MaxTraps /\ ticks' \in 0..(TickWrap - 1)
    BY <1>1, <1>2, TrapAssumption
  <2> QED
    BY <1>1, <1>8, <1>10, <1>13, <2>1 DEF TypeOK
<1>15. Trapped'
  <2>1. cpu.esp \in Int
    BY <1>2, FrameFacts
  <2>2. InUse(memory', cpu.esp) = InUse(memory, cpu.esp)
    BY <1>8, <2>1, SameStack
  <2>3. ProgramContext(before.context)' /\ (before.stack = InUse(memory, before.context.esp))'
    BY <1>4, <1>5, <1>7, <2>2 DEF ProgramContext
  <2> QED
    BY <1>1, <1>13, <2>3 DEF Trapped
<1>16. Upper(memory', FrameOf(c), c)
  BY <1>4, <1>6, <1>8 DEF Upper
<1>17. AtVector'
  BY <1>1, <1>4, <1>5, <1>6, <1>12, <1>13, <1>16 DEF AtVector
<1>18. TrapInv'
  BY <1>1, <1>14, <1>15, <1>17 DEF TrapInv, AtAlltraps, AtTrap, AtTrapret, AtIret
<1>19. Promise!Trapped
  BY <1>1, <1>4, <1>5 DEF Promise!Trapped, Promise!NoTrap, Running, c
<1> QED
  BY <1>18, <1>19 DEF Promise!Next

(* Whatever trap is taken, the invariant and the promise are kept. *)
LEMMA TrapsStep == TrapInv /\ Traps => TrapInv' /\ [Promise!Next]_(Promise!programVars)
<1> SUFFICES ASSUME TrapInv, Traps PROVE TrapInv' /\ [Promise!Next]_(Promise!programVars)
  OBVIOUS
<1>1. ASSUME NEW v \in Exceptions, Exception(v) PROVE TrapInv' /\ [Promise!Next]_(Promise!programVars)
  <2>1. v \in 0..255 /\ v # 9
    BY TrapAssumption
  <2>2. Take(v, cpu.eip, v \in ErrorCodes)
    BY <1>1 DEF Exception
  <2> DEFINE error == v \in ErrorCodes
  <2>3. error \in BOOLEAN /\ (error <=> v \in ErrorCodes) /\ Take(v, cpu.eip, error)
    BY <2>2
  <2> HIDE DEF error
  <2> QED
    BY <2>1, <2>3, TakeStep
<1>2. ASSUME NEW irq \in Irqs, Interrupt(irq) PROVE TrapInv' /\ [Promise!Next]_(Promise!programVars)
  <2> DEFINE v == IRQ_OFFSET + irq
  <2>1. v \in 0..255 /\ v # 9 /\ v \notin ErrorCodes
    BY TrapAssumption DEF IRQ_OFFSET, ErrorCodes
  <2>2. Take(v, cpu.eip, FALSE)
    BY <1>2 DEF Interrupt
  <2> HIDE DEF v
  <2> QED
    BY <2>1, <2>2, TakeStep
<1>3. ASSUME NEW v \in {T_SWITCH_TOU, T_SWITCH_TOK}, SoftwareInt(v)
      PROVE  TrapInv' /\ [Promise!Next]_(Promise!programVars)
  <2>1. CASE CPL(cpu.cs) <= idt_dpl(v)
    <3>1. v \in 0..255 /\ v # 9 /\ v \notin ErrorCodes
      BY DEF T_SWITCH_TOU, T_SWITCH_TOK, ErrorCodes
    <3>2. Take(v, Following(cpu.eip), FALSE)
      BY <1>3, <2>1 DEF SoftwareInt
    <3> QED
      BY <3>1, <3>2, TakeStep
  <2>2. CASE ~(CPL(cpu.cs) <= idt_dpl(v))
    <3>1. T_GPFLT \in 0..255 /\ T_GPFLT # 9 /\ T_GPFLT \in ErrorCodes
      BY DEF T_GPFLT, ErrorCodes
    <3>2. Take(T_GPFLT, cpu.eip, TRUE)
      BY <1>3, <2>2 DEF SoftwareInt
    <3> QED
      BY <3>1, <3>2, TakeStep
  <2> QED
    BY <2>1, <2>2
<1> QED
  BY <1>1, <1>2, <1>3 DEF Traps

-----------------------------------------------------------------------------
(* The frame is completed. *)

(* What lies behind the lower part of the frame of context c is kept. *)
LEMMA Kept ==
    ASSUME NEW c, ProgramContext(c), NEW m, NEW m2,
           \A a \in Address : a >= FrameOf(c) + EIP => m2[a] = m[a]
    PROVE  (Upper(m, FrameOf(c), c) => Upper(m2, FrameOf(c), c)) /\ InUse(m2, c.esp) = InUse(m, c.esp)
<1> DEFINE t == FrameOf(c)
<1>1. /\ t \in Int /\ t >= 3 /\ t + 12 <= StackTop + 2 /\ StackTop \in Int /\ Address = 1..(StackTop + 11)
      /\ c.esp \in Int /\ c.esp >= t + 10
  BY FrameFacts, StackFacts DEF SIZEOF
<1>2. \A a \in Address : a >= t + 7 => m2[a] = m[a]
  BY DEF EIP
<1> HIDE DEF t
<1>3. \A r \in 7..11 : t + r \in Address /\ t + r >= t + 7
  BY <1>1
<1>4. \A r \in 7..11 : m2[t + r] = m[t + r]
  BY <1>2, <1>3
<1>5. Upper(m, t, c) => Upper(m2, t, c)
  BY <1>4 DEF Upper, EIP, CS, EFLAGS, ESP, SS
<1>6. \A a \in c.esp..(StackTop - 1) : m2[a] = m[a]
  <2> SUFFICES ASSUME NEW a \in c.esp..(StackTop - 1) PROVE m2[a] = m[a]
    OBVIOUS
  <2>1. a \in Address /\ a >= t + 7
    BY <1>1
  <2> QED
    BY <1>2, <2>1
<1>7. InUse(m2, c.esp) = InUse(m, c.esp)
  BY <1>1, <1>6, SameStack
<1> QED
  BY <1>5, <1>7 DEF t

(* As long as the trap is handled, the program does not change. *)
LEMMA HandlerStep ==
    ASSUME TrapInv, pc # "program", pc' # "program", UNCHANGED <<vector, traps, before>>,
           cpu' \in Context, cpu'.esp \in Address, cpu'.cs = cpu.cs, cpu'.ss = cpu.ss,
           memory' \in [Address -> Int], InUse(memory', before.context.esp) = InUse(memory, before.context.esp),
           pc' \in {"vector", "__alltraps", "trap", "__trapret", "iret"}, ticks' \in 0..(TickWrap - 1)
    PROVE  TypeOK' /\ Trapped' /\ UNCHANGED Promise!programVars
BY DEF TrapInv, TypeOK, Trapped, Promise!programVars, Running

(* tools/vector.py pushes a 0 for exactly the vectors without an error code. *)
LEMMA PushesZeroIs ==
    ASSUME NEW v \in 0..255, v # 9
    PROVE  PushesZero(v) <=> v \notin ErrorCodes
BY DEF PushesZero, ErrorCodes

(* The words that vector_i pushes. *)
VectorWords(zero, v) == (IF zero THEN << 0 >> ELSE << >>) \o << v >>

(* What a vector pushes: the number, above it a zero if there is no error code. *)
LEMMA VectorWordsAre ==
    ASSUME NEW zero \in BOOLEAN, NEW v \in Int
    PROVE  /\ VectorWords(zero, v) \in Seq(Int) /\ Len(VectorWords(zero, v)) = (IF zero THEN 2 ELSE 1)
           /\ VectorWords(zero, v)[IF zero THEN 2 ELSE 1] = v
<1> DEFINE a == IF zero THEN << 0 >> ELSE << >>
           b == << v >>
           n == IF zero THEN 1 ELSE 0
<1>1. a \in Seq(Int) /\ Len(a) = n /\ n \in 0..1 /\ n + 1 = (IF zero THEN 2 ELSE 1)
  OBVIOUS
<1>2. b \in Seq(Int) /\ Len(b) = 1 /\ b[1] = v
  OBVIOUS
<1> HIDE DEF a, b, n
<1>3. /\ a \o b \in Seq(Int) /\ Len(a \o b) = Len(a) + Len(b)
      /\ \A j \in 1..Len(b) : (a \o b)[Len(a) + j] = b[j]
  BY <1>1, <1>2, TwoParts
<1>4. (a \o b)[n + 1] = v /\ Len(a \o b) = n + 1
  BY <1>1, <1>2, <1>3
<1> QED
  BY <1>1, <1>3, <1>4 DEF VectorWords, a, b

(* The vector's pushes keep the invariant and the promise. *)
LEMMA VectorStep == TrapInv /\ vector_i => TrapInv' /\ [Promise!Next]_(Promise!programVars)
<1> SUFFICES ASSUME TrapInv, vector_i PROVE TrapInv' /\ [Promise!Next]_(Promise!programVars)
  OBVIOUS
<1> DEFINE words == (IF PushesZero(vector) THEN << 0 >> ELSE << >>) \o << vector >>
           c     == before.context
           t     == FrameOf(c)
           l     == Len(words)
<1>1. /\ pc = "vector" /\ pc' = "__alltraps" /\ memory' = Pushed(memory, cpu.esp, words)
      /\ cpu' = [cpu EXCEPT !.esp = cpu.esp - l]
      /\ UNCHANGED <<vector, ticks, traps, before>>
  BY DEF vector_i
<1>2. /\ cpu \in Context /\ ProgramContext(c) /\ memory \in [Address -> Int] /\ vector \in 0..255 /\ vector # 9
      /\ ticks \in 0..(TickWrap - 1)
      /\ Upper(memory, t, c) /\ cpu.esp = t + (IF vector \in ErrorCodes THEN ERR ELSE EIP)
      /\ cpu.regs = c.regs /\ cpu.ds = c.ds /\ cpu.es = c.es /\ cpu.fs = c.fs /\ cpu.gs = c.gs
  BY <1>1 DEF TrapInv, TypeOK, Trapped, AtVector
<1>3. /\ t \in Int /\ t >= 3 /\ t + 12 <= StackTop + 2 /\ StackTop \in Int /\ Address = 1..(StackTop + 11)
  BY <1>2, FrameFacts, StackFacts DEF SIZEOF
<1>4. words \in Seq(Int) /\ l = (IF vector \in ErrorCodes THEN 1 ELSE 2) /\ words[l] = vector
  <2>1. PushesZero(vector) <=> vector \notin ErrorCodes
    BY <1>2, PushesZeroIs
  <2> DEFINE zero == PushesZero(vector)
  <2>2. zero \in BOOLEAN /\ vector \in Int
    BY <1>2 DEF PushesZero
  <2>3. zero <=> vector \notin ErrorCodes
    BY <2>1
  <2> HIDE DEF zero
  <2>4. VectorWords(zero, vector) \in Seq(Int) /\ Len(VectorWords(zero, vector)) = (IF zero THEN 2 ELSE 1)
        /\ VectorWords(zero, vector)[IF zero THEN 2 ELSE 1] = vector
    BY <2>2, VectorWordsAre
  <2>5. words = VectorWords(zero, vector)
    BY DEF VectorWords, zero
  <2> HIDE DEF words
  <2> QED
    BY <2>3, <2>4, <2>5
<1> HIDE DEF words, t, l
<1>5. cpu.esp \in Int /\ l \in 1..2 /\ cpu.esp - l = t + 5 /\ cpu.esp <= t + 7
  <2>1. cpu.esp = t + (IF vector \in ErrorCodes THEN 6 ELSE 7)
    BY <1>2 DEF ERR, EIP
  <2>2. CASE vector \in ErrorCodes
    BY <1>3, <1>4, <2>1, <2>2
  <2>3. CASE vector \notin ErrorCodes
    BY <1>3, <1>4, <2>1, <2>3
  <2> QED
    BY <2>2, <2>3
<1>6. /\ memory' \in [Address -> Int] /\ memory'[cpu.esp - l] = vector
      /\ \A a \in Address : a >= cpu.esp => memory'[a] = memory[a]
  <2>1. /\ memory' \in [Address -> Int] /\ \A j \in 1..l : memory'[cpu.esp - j] = words[j]
        /\ \A a \in Address : a >= cpu.esp \/ a < cpu.esp - l => memory'[a] = memory[a]
    <3>1. Len(words) = l /\ cpu.esp - Len(words) >= 1 /\ cpu.esp <= StackTop + 12
      BY <1>3, <1>5 DEF l
    <3>2. /\ Pushed(memory, cpu.esp, words) \in [Address -> Int]
          /\ \A j \in 1..Len(words) : Pushed(memory, cpu.esp, words)[cpu.esp - j] = words[j]
          /\ \A a \in Address : a >= cpu.esp \/ a < cpu.esp - Len(words)
               => Pushed(memory, cpu.esp, words)[a] = memory[a]
      BY <1>2, <1>4, <1>5, <3>1, PushedIs
    <3> QED
      BY <1>1, <3>1, <3>2
  <2> QED
    BY <1>4, <1>5, <2>1
<1>7. \A a \in Address : a >= t + EIP => memory'[a] = memory[a]
  BY <1>3, <1>5, <1>6 DEF EIP
<1>8. Upper(memory', t, c) /\ InUse(memory', c.esp) = InUse(memory, c.esp)
  BY <1>2, <1>7, Kept DEF t
<1>9. /\ cpu' \in Context /\ cpu'.esp = t + 5 /\ cpu'.regs = cpu.regs /\ cpu'.cs = cpu.cs /\ cpu'.ss = cpu.ss
      /\ cpu'.ds = cpu.ds /\ cpu'.es = cpu.es /\ cpu'.fs = cpu.fs /\ cpu'.gs = cpu.gs
  <2> DEFINE low == cpu.esp - l
  <2>1. cpu' = [cpu EXCEPT !.esp = low] /\ low = t + 5 /\ low \in Int
    BY <1>1, <1>3, <1>5
  <2> HIDE DEF low
  <2> QED
    BY <1>2, <2>1 DEF Context
<1>10. t + 5 \in Address
  BY <1>3
<1>11. TypeOK' /\ Trapped' /\ UNCHANGED Promise!programVars
  BY <1>1, <1>2, <1>6, <1>8, <1>9, <1>10, HandlerStep
<1>12. AtAlltraps'
  BY <1>1, <1>2, <1>5, <1>6, <1>8, <1>9 DEF AtAlltraps, TRAPNO, t
<1> QED
  BY <1>1, <1>11, <1>12 DEF TrapInv, AtVector, AtTrap, AtTrapret, AtIret

(* The pushes of __alltraps keep the invariant and the promise. *)
LEMMA AlltrapsStep == TrapInv /\ __alltraps => TrapInv' /\ [Promise!Next]_(Promise!programVars)
<1> SUFFICES ASSUME TrapInv, __alltraps PROVE TrapInv' /\ [Promise!Next]_(Promise!programVars)
  OBVIOUS
<1> DEFINE c == before.context
           t == FrameOf(c)
           words == << cpu.ds, cpu.es, cpu.fs, cpu.gs, cpu.regs, t, 0 >>
<1>1. /\ pc = "__alltraps" /\ pc' = "trap" /\ UNCHANGED <<vector, ticks, traps, before>>
      /\ memory' = Pushed(memory, cpu.esp, << cpu.ds, cpu.es, cpu.fs, cpu.gs, cpu.regs, cpu.esp - 5, 0 >>)
      /\ cpu' = [cpu EXCEPT !.ds = KERNEL_DS, !.es = KERNEL_DS, !.regs = KERNEL_DS, !.esp = cpu.esp - 5 - 2]
  BY DEF __alltraps
<1>2. /\ cpu \in Context /\ ProgramContext(c) /\ memory \in [Address -> Int] /\ vector \in 0..255
      /\ ticks \in 0..(TickWrap - 1)
      /\ Upper(memory, t, c) /\ cpu.esp = t + 5 /\ memory[t + 5] = vector
      /\ cpu.regs = c.regs /\ cpu.ds = c.ds /\ cpu.es = c.es /\ cpu.fs = c.fs /\ cpu.gs = c.gs
  BY <1>1 DEF TrapInv, TypeOK, Trapped, AtAlltraps, TRAPNO
<1>3. /\ t \in Int /\ t >= 3 /\ t + 12 <= StackTop + 2 /\ StackTop \in Int /\ Address = 1..(StackTop + 11)
  BY <1>2, FrameFacts, StackFacts DEF SIZEOF
<1> HIDE DEF t
<1>4. cpu.esp - 5 = t /\ cpu.esp - 5 - 2 = t - 2 /\ cpu.esp \in Int
  BY <1>2, <1>3
<1>5. /\ words \in Seq(Int) /\ Len(words) = 7
      /\ words[1] = cpu.ds /\ words[2] = cpu.es /\ words[3] = cpu.fs /\ words[4] = cpu.gs
      /\ words[5] = cpu.regs /\ words[6] = t
  <2>1. cpu.ds \in Int /\ cpu.es \in Int /\ cpu.fs \in Int /\ cpu.gs \in Int /\ cpu.regs \in Int
    BY <1>2, SelectorFacts DEF Context
  <2> QED
    BY <1>3, <2>1
<1>6. memory' = Pushed(memory, cpu.esp, words)
  BY <1>1, <1>4
<1> HIDE DEF words
<1>7. /\ memory' \in [Address -> Int] /\ \A j \in 1..7 : memory'[cpu.esp - j] = words[j]
      /\ \A a \in Address : a >= cpu.esp => memory'[a] = memory[a]
  <2>1. cpu.esp - Len(words) >= 1 /\ cpu.esp <= StackTop + 12
    BY <1>2, <1>3, <1>5
  <2>2. /\ Pushed(memory, cpu.esp, words) \in [Address -> Int]
        /\ \A j \in 1..Len(words) : Pushed(memory, cpu.esp, words)[cpu.esp - j] = words[j]
        /\ \A a \in Address : a >= cpu.esp \/ a < cpu.esp - Len(words)
             => Pushed(memory, cpu.esp, words)[a] = memory[a]
    BY <1>2, <1>4, <1>5, <2>1, PushedIs
  <2> QED
    BY <1>5, <1>6, <2>2
<1>8. /\ memory'[t + 4] = cpu.ds /\ memory'[t + 3] = cpu.es /\ memory'[t + 2] = cpu.fs
      /\ memory'[t + 1] = cpu.gs /\ memory'[t] = cpu.regs /\ memory'[t - 1] = t
  <2>1. /\ cpu.esp - 1 = t + 4 /\ cpu.esp - 2 = t + 3 /\ cpu.esp - 3 = t + 2 /\ cpu.esp - 4 = t + 1
        /\ cpu.esp - 5 = t /\ cpu.esp - 6 = t - 1
    BY <1>2, <1>3
  <2>2. 1 \in 1..7 /\ 2 \in 1..7 /\ 3 \in 1..7 /\ 4 \in 1..7 /\ 5 \in 1..7 /\ 6 \in 1..7
    OBVIOUS
  <2> QED
    BY <1>5, <1>7, <2>1, <2>2
<1>9. Lower(memory', t, c)
  BY <1>2, <1>3, <1>8 DEF Lower, REGS, DS, ES, FS, GS
<1>10. memory'[t + TRAPNO] = vector
  <2>1. t + 5 \in Address
    BY <1>3
  <2> QED
    BY <1>2, <1>3, <1>7, <2>1 DEF TRAPNO
<1>11. \A a \in Address : a >= t + EIP => memory'[a] = memory[a]
  BY <1>2, <1>3, <1>7 DEF EIP
<1>12. Upper(memory', t, c) /\ InUse(memory', c.esp) = InUse(memory, c.esp)
  BY <1>2, <1>11, Kept DEF t
<1>13. cpu' \in Context /\ cpu'.esp = t - 2 /\ cpu'.cs = cpu.cs /\ cpu'.ss = cpu.ss
  <2> DEFINE low == cpu.esp - 5 - 2
  <2>1. low = t - 2 /\ low \in Int /\ KERNEL_DS \in Selectors /\ KERNEL_DS \in Int
    BY <1>3, <1>4, SelectorFacts DEF Selectors
  <2>2. cpu' = [cpu EXCEPT !.ds = KERNEL_DS, !.es = KERNEL_DS, !.regs = KERNEL_DS, !.esp = low]
    BY <1>1
  <2> HIDE DEF low
  <2> QED
    BY <1>2, <2>1, <2>2 DEF Context
<1>14. t - 2 \in Address
  BY <1>3
<1>15. TypeOK' /\ Trapped' /\ UNCHANGED Promise!programVars
  BY <1>1, <1>2, <1>7, <1>12, <1>13, <1>14, HandlerStep
<1>16. AtTrap'
  BY <1>1, <1>8, <1>9, <1>10, <1>12, <1>13 DEF AtTrap, t
<1> QED
  BY <1>1, <1>15, <1>16 DEF TrapInv, AtVector, AtAlltraps, AtTrapret, AtIret

-----------------------------------------------------------------------------
(* trap handles the trap, and returns. *)

(* What every case of trap_dispatch starts from. *)
LEMMA AtTrapFacts ==
    ASSUME TrapInv, pc = "trap"
    PROVE  LET c == before.context
               t == FrameOf(c)
           IN /\ cpu \in Context /\ ProgramContext(c) /\ memory \in [Address -> Int]
              /\ t \in Int /\ t >= 3 /\ t + 12 <= StackTop + 2 /\ StackTop \in Int /\ Address = 1..(StackTop + 11)
              /\ cpu.esp = t - 2 /\ tf = t /\ trapno = vector /\ memory[t - 1] = t
              /\ Upper(memory, t, c) /\ Lower(memory, t, c) /\ vector \in 0..255
              /\ ticks \in 0..(TickWrap - 1)
<1> DEFINE c == before.context
           t == FrameOf(c)
<1>1. /\ cpu \in Context /\ ProgramContext(c) /\ memory \in [Address -> Int] /\ vector \in 0..255
      /\ ticks \in 0..(TickWrap - 1)
      /\ Upper(memory, t, c) /\ Lower(memory, t, c) /\ memory[t + TRAPNO] = vector
      /\ cpu.esp = t - 2 /\ memory[t - 1] = t
  BY DEF TrapInv, TypeOK, Trapped, AtTrap
<1>2. t \in Int /\ t >= 3 /\ t + 12 <= StackTop + 2 /\ StackTop \in Int /\ Address = 1..(StackTop + 11)
  BY <1>1, FrameFacts, StackFacts DEF SIZEOF
<1> HIDE DEF t
<1>3. cpu.esp + 1 = t - 1
  BY <1>1, <1>2
<1>4. tf = t /\ trapno = vector
  BY <1>1, <1>3 DEF tf, trapno
<1> QED
  BY <1>1, <1>2, <1>4 DEF t

(* That trap returns to a frame that leads where the promise says. *)
LEMMA ReturnStep ==
    ASSUME TrapInv, pc = "trap", Return, memory' \in [Address -> Int], ticks' \in 0..(TickWrap - 1),
           InUse(memory', before.context.esp) = InUse(memory, before.context.esp),
           NEW f \in Frames, memory'[FrameOf(before.context) - 1] = f,
           Leads(memory', f, Saved(memory', f), Promise!After(before.context, vector)),
           \A r \in {GS, FS, ES, DS} : memory'[f + r] \in Selectors
    PROVE  TrapInv' /\ [Promise!Next]_(Promise!programVars)
<1> DEFINE t == FrameOf(before.context)
           low == cpu.esp + 1
<1>1. /\ cpu \in Context /\ t \in Int /\ t >= 3 /\ t + 12 <= StackTop + 2 /\ StackTop \in Int
      /\ Address = 1..(StackTop + 11) /\ cpu.esp = t - 2
  BY AtTrapFacts
<1>2. memory'[t - 1] = f
  OBVIOUS
<1> HIDE DEF t
<1>3. low = t - 1 /\ low \in Address /\ low \in Int
  BY <1>1
<1>4. cpu' = [cpu EXCEPT !.esp = low, !.regs = -1] /\ pc' = "__trapret" /\ UNCHANGED <<vector, traps, before>>
  BY DEF Return
<1> HIDE DEF low
<1>5. cpu' \in Context /\ cpu'.esp = low /\ cpu'.cs = cpu.cs /\ cpu'.ss = cpu.ss
  <2> DEFINE left == -1
  <2>1. left \in Int /\ cpu' = [cpu EXCEPT !.esp = low, !.regs = left]
    BY <1>4
  <2> HIDE DEF left
  <2> QED
    BY <1>1, <1>3, <2>1 DEF Context
<1>6. TypeOK' /\ Trapped' /\ UNCHANGED Promise!programVars
  BY <1>3, <1>4, <1>5, HandlerStep
<1>7. memory'[cpu'.esp] = f
  BY <1>2, <1>3, <1>5
<1>8. vector' = vector /\ before' = before
  BY <1>4
<1>9. Promise!After(before.context, vector)' = Promise!After(before.context, vector)
  BY <1>8
<1>10. AtTrapret'
  BY <1>7, <1>9, Zenon DEF AtTrapret
<1> QED
  BY <1>4, <1>6, <1>10 DEF TrapInv, AtVector, AtAlltraps, AtTrap, AtIret

(* The frame that __alltraps built leads to the context that was interrupted. *)
LEMMA SameFrame ==
    ASSUME NEW c, ProgramContext(c), NEW m, Upper(m, FrameOf(c), c), Lower(m, FrameOf(c), c)
    PROVE  /\ Leads(m, FrameOf(c), Saved(m, FrameOf(c)), c)
           /\ \A r \in {GS, FS, ES, DS} : m[FrameOf(c) + r] \in Selectors
<1> DEFINE t == FrameOf(c)
           r == Saved(m, t)
<1>1. r.regs = c.regs /\ r.ds = c.ds /\ r.es = c.es /\ r.fs = c.fs /\ r.gs = c.gs
  BY DEF Saved, Lower
<1>2. Crosses(c) => Usable(c.ds) = c.ds /\ Usable(c.es) = c.es /\ Usable(c.fs) = c.fs /\ Usable(c.gs) = c.gs
  BY SelectorFacts DEF ProgramContext
<1>3. ~Crosses(c) => c.ss = KERNEL_DS /\ t + (SIZEOF - 2) = c.esp
  BY FrameFacts DEF ProgramContext
<1>4. c.ds \in Selectors /\ c.es \in Selectors /\ c.fs \in Selectors /\ c.gs \in Selectors
  BY DEF ProgramContext, Context
<1>5. \A s \in {GS, FS, ES, DS} : m[t + s] \in Selectors
  BY <1>4 DEF Lower
<1> HIDE DEF t, r
<1>6. Upper(m, t, c)
  BY DEF t
<1>7. Leads(m, t, r, c)
  BY <1>1, <1>2, <1>3, <1>6 DEF Leads
<1> QED
  BY <1>5, <1>7 DEF t, r

(* The cases that leave memory alone: the program's context is to be the same. *)
LEMMA PlainStep ==
    ASSUME TrapInv, pc = "trap", Return, memory' = memory, ticks' \in 0..(TickWrap - 1),
           Promise!After(before.context, vector) = before.context
    PROVE  TrapInv' /\ [Promise!Next]_(Promise!programVars)
<1> DEFINE c == before.context
           t == FrameOf(c)
<1>1. /\ ProgramContext(c) /\ memory \in [Address -> Int] /\ t \in Int /\ t >= 3 /\ t + 12 <= StackTop + 2
      /\ StackTop \in Int /\ memory[t - 1] = t /\ Upper(memory, t, c) /\ Lower(memory, t, c)
  BY AtTrapFacts
<1>2. t \in Frames
  BY <1>1 DEF Frames
<1>3. Leads(memory, t, Saved(memory, t), c) /\ \A r \in {GS, FS, ES, DS} : memory[t + r] \in Selectors
  BY <1>1, SameFrame
<1>4. memory'[t - 1] = t /\ memory' \in [Address -> Int] /\ InUse(memory', c.esp) = InUse(memory, c.esp)
  BY <1>1
<1>5. Leads(memory', t, Saved(memory', t), Promise!After(before.context, vector))
  BY <1>3
<1>6. \A r \in {GS, FS, ES, DS} : memory'[t + r] \in Selectors
  BY <1>3
<1> HIDE DEF t
<1> QED
  BY <1>2, <1>4, <1>5, <1>6, ReturnStep DEF t

(* Memory m2 is m, but for the first n words of a frame. *)
Holds(m2, m, at, frame, n) ==
    /\ m2 \in [Address -> Int]
    /\ \A r \in 0..(n - 1) : at + r \in Address => m2[at + r] = frame[r]
    /\ \A a \in Address : a < at \/ a >= at + n => m2[a] = m[a]

(* A frame placed in memory holds its words, and the rest of memory is as it was. *)
LEMMA PlacedIs ==
    ASSUME NEW m \in [Address -> Int], NEW n \in Nat, NEW frame \in [0..(n - 1) -> Int], NEW at \in Int
    PROVE  Holds(Placed(m, at, frame, n), m, at, frame, n)
<1> DEFINE p == Placed(m, at, frame, n)
<1>1. StackTop \in Int /\ Address = 1..(StackTop + 11)
  BY StackFacts
<1>2. p = [a \in Address |-> IF a \in at..(at + n - 1) THEN frame[a - at] ELSE m[a]]
  BY DEF Placed
<1>3. \A a \in at..(at + n - 1) : a - at \in 0..(n - 1) /\ frame[a - at] \in Int
  OBVIOUS
<1>4. p \in [Address -> Int]
  BY <1>2, <1>3
<1> HIDE DEF p
<1>5. ASSUME NEW r \in 0..(n - 1), at + r \in Address PROVE p[at + r] = frame[r]
  <2>1. at + r \in at..(at + n - 1) /\ (at + r) - at = r
    OBVIOUS
  <2> QED
    BY <1>2, <1>5, <2>1
<1>6. ASSUME NEW a \in Address, a < at \/ a >= at + n PROVE p[a] = m[a]
  <2>1. a \notin at..(at + n - 1)
    BY <1>1, <1>6
  <2> QED
    BY <1>2, <2>1
<1> QED
  BY <1>4, <1>5, <1>6 DEF p, Holds

-----------------------------------------------------------------------------
(* The switches. *)

(* The words of the frame that trap_switch_tou makes. *)
LEMMA UserFrameIs ==
    ASSUME memory \in [Address -> Int], NEW t \in Int, t >= 1, t + 12 <= StackTop + 2,
           memory[t + EFLAGS] \in Eflags
    PROVE  LET u == ToUserFrame(t) IN
           /\ u \in [0..11 -> Int]
           /\ u[EIP] = memory[t + EIP] /\ u[REGS] = memory[t + REGS]
           /\ u[FS] = memory[t + FS] /\ u[GS] = memory[t + GS]
           /\ u[CS] = USER_CS /\ u[DS] = USER_DS /\ u[ES] = USER_DS /\ u[SS] = USER_DS
           /\ u[ESP] = t + 10 /\ u[EFLAGS] = WithIOPL(memory[t + EFLAGS])
<1> DEFINE frame == [f \in 0..11 |-> memory[t + f]]
           flags == WithIOPL(memory[t + EFLAGS])
           esp   == t + 10
           u     == [frame EXCEPT ![CS] = USER_CS, ![DS] = USER_DS, ![ES] = USER_DS, ![SS] = USER_DS,
                                  ![ESP] = esp, ![EFLAGS] = flags]
<1>1. flags \in Int /\ USER_CS \in Int /\ USER_DS \in Int /\ esp \in Int
  BY FlagFacts, SelectorFacts DEF Selectors
<1>2. \A f \in 0..11 : t + f \in Address
  BY StackFacts
<1>3. frame \in [0..11 -> Int] /\ \A f \in 0..11 : frame[f] = memory[t + f]
  BY <1>2
<1>4. Frame(t, SIZEOF) = frame
  BY DEF Frame, SIZEOF
<1>5. frame[9] = memory[t + EFLAGS]
  BY <1>3 DEF EFLAGS
<1>6. ToUserFrame(t) = u
  <2>1. t + SIZEOF - 2 = esp
    BY DEF SIZEOF
  <2>2. WithIOPL(frame[EFLAGS]) = flags
    BY <1>5 DEF EFLAGS
  <2> HIDE DEF frame, flags, esp
  <2>3. ToUserFrame(t) = [frame EXCEPT ![CS] = USER_CS, ![DS] = USER_DS, ![ES] = USER_DS, ![SS] = USER_DS,
                                       ![ESP] = t + SIZEOF - 2, ![EFLAGS] = WithIOPL(@)]
    BY <1>4 DEF ToUserFrame
  <2> QED
    BY <1>3, <2>1, <2>2, <2>3 DEF CS, DS, ES, SS, ESP, EFLAGS
<1> HIDE DEF frame, flags, esp
<1>7. u \in [0..11 -> Int]
  BY <1>1, <1>3 DEF CS, DS, ES, SS, ESP, EFLAGS
<1>8. /\ u[7] = frame[7] /\ u[0] = frame[0] /\ u[1] = frame[1] /\ u[2] = frame[2]
      /\ u[8] = USER_CS /\ u[4] = USER_DS /\ u[3] = USER_DS /\ u[11] = USER_DS /\ u[10] = esp /\ u[9] = flags
  BY <1>3 DEF CS, DS, ES, SS, ESP, EFLAGS
<1> HIDE DEF u
<1> QED
  BY <1>3, <1>6, <1>7, <1>8 DEF EIP, REGS, FS, GS, CS, DS, ES, SS, ESP, EFLAGS, esp, flags

(* The words of the frame that trap_switch_tok makes. *)
LEMMA KernelFrameIs ==
    ASSUME memory \in [Address -> Int], NEW t \in Int, t >= 1, t + 12 <= StackTop + 2,
           memory[t + EFLAGS] \in Eflags
    PROVE  LET u == ToKernelFrame(t) IN
           /\ u \in [0..9 -> Int]
           /\ u[EIP] = memory[t + EIP] /\ u[REGS] = memory[t + REGS]
           /\ u[FS] = memory[t + FS] /\ u[GS] = memory[t + GS]
           /\ u[CS] = KERNEL_CS /\ u[DS] = KERNEL_DS /\ u[ES] = KERNEL_DS
           /\ u[EFLAGS] = WithoutIOPL(memory[t + EFLAGS])
<1> DEFINE frame == [f \in 0..9 |-> memory[t + f]]
           flags == WithoutIOPL(memory[t + EFLAGS])
           u     == [frame EXCEPT ![CS] = KERNEL_CS, ![DS] = KERNEL_DS, ![ES] = KERNEL_DS, ![EFLAGS] = flags]
<1>1. flags \in Int /\ KERNEL_CS \in Int /\ KERNEL_DS \in Int
  BY FlagFacts, SelectorFacts DEF Selectors
<1>2. \A f \in 0..9 : t + f \in Address
  BY StackFacts
<1>3. frame \in [0..9 -> Int] /\ \A f \in 0..9 : frame[f] = memory[t + f]
  BY <1>2
<1>4. Frame(t, SIZEOF - 2) = frame
  <2>1. (SIZEOF - 2) - 1 = 9
    BY DEF SIZEOF
  <2> QED
    BY <2>1 DEF Frame
<1>5. frame[9] = memory[t + EFLAGS]
  BY <1>3 DEF EFLAGS
<1>6. ToKernelFrame(t) = u
  <2>2. WithoutIOPL(frame[EFLAGS]) = flags
    BY <1>5 DEF EFLAGS
  <2> HIDE DEF frame, flags
  <2>3. ToKernelFrame(t) = [frame EXCEPT ![CS] = KERNEL_CS, ![DS] = KERNEL_DS, ![ES] = KERNEL_DS,
                                         ![EFLAGS] = WithoutIOPL(@)]
    BY <1>4 DEF ToKernelFrame
  <2> QED
    BY <1>3, <2>2, <2>3 DEF CS, DS, ES, EFLAGS
<1> HIDE DEF frame, flags
<1>7. u \in [0..9 -> Int]
  BY <1>1, <1>3 DEF CS, DS, ES, EFLAGS
<1>8. /\ u[7] = frame[7] /\ u[0] = frame[0] /\ u[1] = frame[1] /\ u[2] = frame[2]
      /\ u[8] = KERNEL_CS /\ u[4] = KERNEL_DS /\ u[3] = KERNEL_DS /\ u[9] = flags
  BY <1>3 DEF CS, DS, ES, EFLAGS
<1> HIDE DEF u
<1> QED
  BY <1>3, <1>6, <1>7, <1>8 DEF EIP, REGS, FS, GS, CS, DS, ES, EFLAGS, flags

(* The pointer below the frame at t leads to another frame; all else is kept. *)
LeadsTo(m2, m, t, at) ==
    /\ m2 \in [Address -> Int] /\ m2[t - 1] = at
    /\ \A a \in Address : a # t - 1 => m2[a] = m[a]

(* A redirection changes the word below the frame and no other. *)
LEMMA RedirectedIs ==
    ASSUME NEW m \in [Address -> Int], NEW t \in Int, NEW at \in Int, t - 1 \in Address
    PROVE  LeadsTo(Redirected(m, t, at), m, t, at)
BY DEF Redirected, LeadsTo

(* A context of the program, by its mode. *)
LEMMA ModeOf ==
    ASSUME NEW c, ProgramContext(c)
    PROVE  /\ c.cs = USER_CS <=> Crosses(c)
           /\ c.cs = KERNEL_CS <=> ~Crosses(c)
BY SelectorFacts DEF ProgramContext

(* The switch to user mode keeps the invariant and the promise. *)
LEMMA SwitchToUserStep == TrapInv /\ pc = "trap" /\ trap_switch_tou => TrapInv' /\ [Promise!Next]_(Promise!programVars)
<1> SUFFICES ASSUME TrapInv, pc = "trap", trap_switch_tou PROVE TrapInv' /\ [Promise!Next]_(Promise!programVars)
  OBVIOUS
<1> DEFINE c     == before.context
           t     == FrameOf(c)
           frame == ToUserFrame(t)
           u     == UserOf(c)
           at    == StackTop
           m1    == Placed(memory, at, frame, SIZEOF)
<1>1. /\ cpu \in Context /\ ProgramContext(c) /\ memory \in [Address -> Int]
      /\ t \in Int /\ t >= 3 /\ t + 12 <= StackTop + 2 /\ StackTop \in Int /\ Address = 1..(StackTop + 11)
      /\ cpu.esp = t - 2 /\ tf = t /\ trapno = vector /\ memory[t - 1] = t
      /\ Upper(memory, t, c) /\ Lower(memory, t, c) /\ vector \in 0..255
      /\ ticks \in 0..(TickWrap - 1)
  BY AtTrapFacts
<1>2. /\ vector = T_SWITCH_TOU /\ Return /\ ticks' = ticks
      /\ memory' = IF c.cs = USER_CS THEN memory ELSE Redirected(m1, t, at)
  BY <1>1 DEF trap_switch_tou, Upper, switchk2u
<1>3. CASE c.cs = USER_CS
  <2>1. Promise!After(c, vector) = c
    BY <1>2, <1>3, AfterIs DEF T_SWITCH_TOU, T_SWITCH_TOK
  <2>2. memory' = memory
    BY <1>2, <1>3
  <2> HIDE DEF c, t
  <2> QED
    BY <1>1, <1>2, <2>1, <2>2, PlainStep DEF c
<1>4. CASE c.cs # USER_CS
  <2>1. /\ c \in Context /\ ~Crosses(c) /\ c.ds = KERNEL_DS /\ c.es = KERNEL_DS /\ c.esp = t + 10
        /\ c.fs \in Selectors /\ c.gs \in Selectors /\ c.eflags \in Eflags /\ c.esp \in Int
    <3>1. c \in Context /\ ~Crosses(c) /\ c.ds = KERNEL_DS /\ c.es = KERNEL_DS
      BY <1>1, <1>4, ModeOf DEF ProgramContext
    <3>2. c.fs \in Selectors /\ c.gs \in Selectors /\ c.eflags \in Eflags
      BY <3>1 DEF Context
    <3>3. c.esp = t + 10 /\ c.esp \in Int
      <4>1. c.esp \in Int /\ t + (SIZEOF - 2) = c.esp
        BY <1>1, <3>1, FrameFacts
      <4> HIDE DEF t, c
      <4> QED
        BY <1>1, <4>1 DEF SIZEOF
    <3> QED
      BY <3>1, <3>2, <3>3
  <2>2. Promise!After(c, vector) = u
    BY <1>2, <1>4, AfterIs
  <2>3. /\ u \in Context /\ u.regs = c.regs /\ u.eip = c.eip /\ u.esp = c.esp
        /\ u.eflags = WithIOPL(c.eflags) /\ u.cs = USER_CS
        /\ u.ss = USER_DS /\ u.ds = USER_DS /\ u.es = USER_DS
        /\ u.fs = Usable(c.fs) /\ u.gs = Usable(c.gs)
    BY <2>1, UserOfIs
  <2>4. /\ memory[t + EFLAGS] = c.eflags /\ memory[t + EIP] = c.eip /\ memory[t + REGS] = c.regs
        /\ memory[t + FS] = c.fs /\ memory[t + GS] = c.gs
    BY <1>1 DEF Upper, Lower
  <2>5. /\ frame \in [0..11 -> Int]
        /\ frame[EIP] = c.eip /\ frame[REGS] = c.regs /\ frame[FS] = c.fs /\ frame[GS] = c.gs
        /\ frame[CS] = USER_CS /\ frame[DS] = USER_DS /\ frame[ES] = USER_DS /\ frame[SS] = USER_DS
        /\ frame[ESP] = t + 10 /\ frame[EFLAGS] = WithIOPL(c.eflags)
    <3>1. t >= 1 /\ memory[t + EFLAGS] \in Eflags
      BY <1>1, <2>1, <2>4
    <3> HIDE DEF t, c
    <3> QED
      BY <1>1, <2>4, <3>1, UserFrameIs
  <2>7. t - 1 \in Address /\ t - 1 < at /\ at \in Int /\ at = StackTop /\ at \in Frames
    <3> HIDE DEF t
    <3> QED
      BY <1>1 DEF Frames
  <2> HIDE DEF frame, t, u, c, m1, at
  <2>6. /\ m1 \in [Address -> Int]
        /\ \A r \in 0..11 : m1[at + r] = frame[r]
        /\ \A a \in Address : a < at => m1[a] = memory[a]
    <3>1. \A r \in 0..11 : at + r \in Address
      BY <1>1, <2>7
    <3>2. frame \in [0..(12 - 1) -> Int] /\ 12 \in Nat
      BY <2>5
    <3>3. Holds(Placed(memory, at, frame, 12), memory, at, frame, 12)
      BY <1>1, <2>7, <3>2, PlacedIs
    <3>4. m1 = Placed(memory, at, frame, 12)
      BY DEF m1, SIZEOF
    <3> QED
      BY <3>1, <3>3, <3>4 DEF Holds
  <2>8. memory' = Redirected(m1, t, at)
    BY <1>2, <1>4
  <2>9. /\ memory' \in [Address -> Int] /\ memory'[t - 1] = at
        /\ \A a \in Address : a # t - 1 => memory'[a] = m1[a]
    <3>1. LeadsTo(Redirected(m1, t, at), m1, t, at)
      BY <1>1, <2>6, <2>7, RedirectedIs
    <3> QED
      BY <2>8, <3>1 DEF LeadsTo
  <2>10. \A r \in 0..11 : memory'[at + r] = frame[r]
    <3> SUFFICES ASSUME NEW r \in 0..11 PROVE memory'[at + r] = frame[r]
      OBVIOUS
    <3>1. at + r \in Address /\ at + r # t - 1
      BY <1>1, <2>7
    <3> QED
      BY <2>6, <2>9, <3>1
  <2>11. InUse(memory', c.esp) = InUse(memory, c.esp)
    <3> SUFFICES ASSUME NEW a \in c.esp..(StackTop - 1) PROVE memory'[a] = memory[a]
      BY <2>1, SameStack
    <3>1. a \in Address /\ a < at /\ a # t - 1
      BY <1>1, <2>1, <2>7
    <3> QED
      BY <2>6, <2>9, <3>1
  <2>12. /\ memory'[at + EIP] = c.eip /\ memory'[at + REGS] = c.regs /\ memory'[at + FS] = c.fs
         /\ memory'[at + GS] = c.gs /\ memory'[at + CS] = USER_CS /\ memory'[at + DS] = USER_DS
         /\ memory'[at + ES] = USER_DS /\ memory'[at + SS] = USER_DS /\ memory'[at + ESP] = c.esp
         /\ memory'[at + EFLAGS] = WithIOPL(c.eflags)
    BY <2>1, <2>5, <2>10 DEF EIP, REGS, FS, GS, CS, DS, ES, SS, ESP, EFLAGS
  <2>13. Crosses(u)
    BY <2>3, SelectorFacts DEF Crosses
  <2>14. Upper(memory', at, u)
    BY <2>3, <2>12 DEF Upper
  <2>15. Leads(memory', at, Saved(memory', at), u)
    <3> DEFINE r == Saved(memory', at)
    <3>1. r.regs = c.regs /\ r.ds = USER_DS /\ r.es = USER_DS /\ r.fs = c.fs /\ r.gs = c.gs
      BY <2>12 DEF Saved
    <3> HIDE DEF r
    <3>2. Leads(memory', at, r, u)
      BY <2>3, <2>13, <2>14, <3>1, SelectorFacts DEF Leads
    <3> QED
      BY <3>2 DEF r
  <2>16. \A r \in {GS, FS, ES, DS} : memory'[at + r] \in Selectors
    BY <2>1, <2>12 DEF Selectors
  <2> QED
    BY <1>1, <1>2, <2>2, <2>9, <2>11, <2>15, <2>16, <2>7, ReturnStep DEF c, t
<1> QED
  BY <1>3, <1>4

(* The switch to kernel mode keeps the invariant and the promise. *)
LEMMA SwitchToKernelStep ==
    TrapInv /\ pc = "trap" /\ trap_switch_tok => TrapInv' /\ [Promise!Next]_(Promise!programVars)
<1> SUFFICES ASSUME TrapInv, pc = "trap", trap_switch_tok PROVE TrapInv' /\ [Promise!Next]_(Promise!programVars)
  OBVIOUS
<1> DEFINE c     == before.context
           t     == FrameOf(c)
           frame == ToKernelFrame(t)
           u     == KernelOf(c)
           at    == memory[t + ESP] - (SIZEOF - 2)
           m1    == Placed(memory, t, frame, SIZEOF - 2)
           m2    == Placed(m1, at, frame, SIZEOF - 2)
<1>1. /\ cpu \in Context /\ ProgramContext(c) /\ memory \in [Address -> Int]
      /\ t \in Int /\ t >= 3 /\ t + 12 <= StackTop + 2 /\ StackTop \in Int /\ Address = 1..(StackTop + 11)
      /\ cpu.esp = t - 2 /\ tf = t /\ trapno = vector /\ memory[t - 1] = t
      /\ Upper(memory, t, c) /\ Lower(memory, t, c) /\ vector \in 0..255
      /\ ticks \in 0..(TickWrap - 1)
  BY AtTrapFacts
<1>2. /\ vector = T_SWITCH_TOK /\ Return /\ ticks' = ticks
      /\ memory' = IF c.cs = KERNEL_CS THEN memory ELSE Redirected(m2, t, at)
  BY <1>1 DEF trap_switch_tok, Upper
<1>3. CASE c.cs = KERNEL_CS
  <2>1. Promise!After(c, vector) = c
    BY <1>2, <1>3, AfterIs DEF T_SWITCH_TOU, T_SWITCH_TOK
  <2>2. memory' = memory
    BY <1>2, <1>3
  <2> HIDE DEF c, t
  <2> QED
    BY <1>1, <1>2, <2>1, <2>2, PlainStep DEF c
<1>4. CASE c.cs # KERNEL_CS
  <2>1. /\ c \in Context /\ Crosses(c) /\ c.fs \in Selectors /\ c.gs \in Selectors /\ c.eflags \in Eflags
        /\ c.ds = USER_DS /\ c.es = USER_DS
        /\ t + 12 = esp0 /\ c.esp \in Int /\ c.esp >= esp0 + 12 /\ c.esp <= StackTop /\ esp0 \in Int
    <3>1. c \in Context /\ Crosses(c) /\ c.ds = USER_DS /\ c.es = USER_DS
      BY <1>1, <1>4, ModeOf DEF ProgramContext
    <3>2. c.fs \in Selectors /\ c.gs \in Selectors /\ c.eflags \in Eflags
      BY <3>1 DEF Context
    <3>3. t + 12 = esp0 /\ c.esp \in Int /\ c.esp >= esp0 + 12 /\ c.esp <= StackTop /\ esp0 \in Int
      BY <1>1, <3>1, FrameFacts, StackFacts DEF SIZEOF
    <3> QED
      BY <3>1, <3>2, <3>3
  <2>2. Promise!After(c, vector) = u
    BY <1>2, <1>4, AfterIs DEF T_SWITCH_TOU, T_SWITCH_TOK
  <2>3. /\ u \in Context /\ u.regs = c.regs /\ u.eip = c.eip /\ u.esp = c.esp
        /\ u.eflags = WithoutIOPL(c.eflags) /\ u.cs = KERNEL_CS
        /\ u.ss = KERNEL_DS /\ u.ds = KERNEL_DS /\ u.es = KERNEL_DS
        /\ u.fs = c.fs /\ u.gs = c.gs
    BY <2>1, KernelOfIs
  <2>4. /\ memory[t + EFLAGS] = c.eflags /\ memory[t + EIP] = c.eip /\ memory[t + REGS] = c.regs
        /\ memory[t + FS] = c.fs /\ memory[t + GS] = c.gs /\ memory[t + ESP] = c.esp
    BY <1>1, <2>1 DEF Upper, Lower
  <2>5. /\ frame \in [0..9 -> Int]
        /\ frame[EIP] = c.eip /\ frame[REGS] = c.regs /\ frame[FS] = c.fs /\ frame[GS] = c.gs
        /\ frame[CS] = KERNEL_CS /\ frame[DS] = KERNEL_DS /\ frame[ES] = KERNEL_DS
        /\ frame[EFLAGS] = WithoutIOPL(c.eflags)
    <3>1. t >= 1 /\ memory[t + EFLAGS] \in Eflags
      BY <1>1, <2>1, <2>4
    <3> HIDE DEF t, c
    <3> QED
      BY <1>1, <2>4, <3>1, KernelFrameIs
  <2>6. at = c.esp - 10
    BY <2>4 DEF SIZEOF
  <2> HIDE DEF frame, t, u, c, m1, m2, at
  <2>7. /\ t - 1 \in Address /\ at \in Int /\ at > t + 11 /\ at + 10 = c.esp /\ c.esp <= StackTop /\ at \in Frames
    <3> DEFINE esp == c.esp
    <3>1. /\ t \in Int /\ t >= 3 /\ StackTop \in Int /\ esp \in Int /\ esp >= t + 24 /\ esp <= StackTop
          /\ at = esp - 10 /\ Address = 1..(StackTop + 11)
      BY <1>1, <2>1, <2>6
    <3> HIDE DEF esp
    <3>2. /\ t - 1 \in Address /\ at \in Int /\ at > t + 11 /\ at + 10 = esp /\ esp <= StackTop
          /\ at \in 1..StackTop
      BY <3>1
    <3> QED
      BY <3>2 DEF Frames, esp
  <2>8. Holds(m1, memory, t, frame, 10) /\ Holds(m2, m1, at, frame, 10)
    <3>1. frame \in [0..(10 - 1) -> Int] /\ 10 \in Nat
      BY <2>5
    <3>2. m1 = Placed(memory, t, frame, 10) /\ m2 = Placed(m1, at, frame, 10)
      BY DEF m1, m2, SIZEOF
    <3>3. Holds(m1, memory, t, frame, 10)
      BY <1>1, <3>1, <3>2, PlacedIs
    <3>4. m1 \in [Address -> Int]
      BY <3>3 DEF Holds
    <3>5. Holds(m2, m1, at, frame, 10)
      BY <2>7, <3>1, <3>2, <3>4, PlacedIs
    <3> QED
      BY <3>3, <3>5
  <2>9. LeadsTo(memory', m2, t, at)
    <3>1. memory' = Redirected(m2, t, at)
      BY <1>2, <1>4
    <3>2. m2 \in [Address -> Int]
      BY <2>8 DEF Holds
    <3> QED
      BY <1>1, <2>7, <3>1, <3>2, RedirectedIs
  <2>10. \A r \in 0..9 : memory'[at + r] = frame[r]
    <3> SUFFICES ASSUME NEW r \in 0..9 PROVE memory'[at + r] = frame[r]
      OBVIOUS
    <3>1. at + r \in Address /\ at + r # t - 1 /\ r \in 0..(10 - 1)
      BY <1>1, <2>7
    <3> QED
      BY <2>8, <2>9, <3>1 DEF Holds, LeadsTo
  <2>11. InUse(memory', c.esp) = InUse(memory, c.esp)
    <3> SUFFICES ASSUME NEW a \in c.esp..(StackTop - 1) PROVE memory'[a] = memory[a]
      BY <2>1, SameStack
    <3>1. a \in Address /\ a # t - 1 /\ a >= at + 10 /\ a >= t + 10
      BY <1>1, <2>1, <2>7
    <3> QED
      BY <2>8, <2>9, <3>1 DEF Holds, LeadsTo
  <2>12. /\ memory'[at + EIP] = c.eip /\ memory'[at + REGS] = c.regs /\ memory'[at + FS] = c.fs
         /\ memory'[at + GS] = c.gs /\ memory'[at + CS] = KERNEL_CS /\ memory'[at + DS] = KERNEL_DS
         /\ memory'[at + ES] = KERNEL_DS /\ memory'[at + EFLAGS] = WithoutIOPL(c.eflags)
    BY <2>5, <2>10 DEF EIP, REGS, FS, GS, CS, DS, ES, EFLAGS
  <2>13. ~Crosses(u)
    BY <2>3, SelectorFacts DEF Crosses, User
  <2>14. Upper(memory', at, u)
    BY <2>3, <2>12, <2>13 DEF Upper
  <2>15. Leads(memory', at, Saved(memory', at), u)
    <3> DEFINE r == Saved(memory', at)
    <3>1. r.regs = c.regs /\ r.ds = KERNEL_DS /\ r.es = KERNEL_DS /\ r.fs = c.fs /\ r.gs = c.gs
      BY <2>12 DEF Saved
    <3>2. at + (SIZEOF - 2) = u.esp
      BY <2>3, <2>7 DEF SIZEOF
    <3> HIDE DEF r
    <3>3. Leads(memory', at, r, u)
      BY <2>3, <2>13, <2>14, <3>1, <3>2 DEF Leads
    <3> QED
      BY <3>3 DEF r
  <2>16. \A r \in {GS, FS, ES, DS} : memory'[at + r] \in Selectors
    BY <2>1, <2>12 DEF Selectors
  <2>17. memory' \in [Address -> Int] /\ memory'[t - 1] = at
    BY <2>9 DEF LeadsTo
  <2> QED
    BY <1>1, <1>2, <2>2, <2>7, <2>11, <2>15, <2>16, <2>17, ReturnStep DEF c, t
<1> QED
  BY <1>3, <1>4

(* trap_dispatch keeps the invariant and the promise, in every case. *)
LEMMA DispatchStep == TrapInv /\ trap_dispatch => TrapInv' /\ [Promise!Next]_(Promise!programVars)
<1> SUFFICES ASSUME TrapInv, trap_dispatch PROVE TrapInv' /\ [Promise!Next]_(Promise!programVars)
  OBVIOUS
<1> USE DEF IRQ_OFFSET, IRQ_TIMER, IRQ_COM1, IRQ_KBD, T_SWITCH_TOU, T_SWITCH_TOK
<1>1. pc = "trap"
  BY DEF trap_dispatch, trap_timer, trap_console, trap_switch_tou, trap_switch_tok, trap_other, Return
<1>2. trapno = vector /\ ticks \in 0..(TickWrap - 1)
  BY <1>1, AtTrapFacts
<1>3. ASSUME vector # T_SWITCH_TOU, vector # T_SWITCH_TOK
      PROVE  Promise!After(before.context, vector) = before.context
  BY <1>3, AfterIs
<1>4. CASE trap_timer
  <2>1. vector = 32 /\ Return /\ memory' = memory /\ ticks' = (ticks + 1) % TickWrap
    BY <1>2, <1>4 DEF trap_timer
  <2>2. ticks' \in 0..(TickWrap - 1)
    BY <1>2, <2>1, TrapAssumption
  <2> QED
    BY <1>1, <1>3, <2>1, <2>2, PlainStep
<1>5. CASE trap_console
  <2>1. vector \in {36, 33} /\ Return /\ memory' = memory /\ ticks' = ticks
    BY <1>2, <1>5 DEF trap_console
  <2> QED
    BY <1>1, <1>2, <1>3, <2>1, PlainStep
<1>6. CASE trap_other
  <2>1. vector # T_SWITCH_TOU /\ vector # T_SWITCH_TOK /\ Return /\ memory' = memory /\ ticks' = ticks
    BY <1>2, <1>6 DEF trap_other
  <2> QED
    BY <1>1, <1>2, <1>3, <2>1, PlainStep
<1> QED
  BY <1>1, <1>4, <1>5, <1>6, SwitchToUserStep, SwitchToKernelStep DEF trap_dispatch

-----------------------------------------------------------------------------
(* Back to the program. *)

(* The pops of __trapret keep the invariant and the promise. *)
LEMMA TrapretStep == TrapInv /\ __trapret => TrapInv' /\ [Promise!Next]_(Promise!programVars)
<1> SUFFICES ASSUME TrapInv, __trapret PROVE TrapInv' /\ [Promise!Next]_(Promise!programVars)
  OBVIOUS
<1> DEFINE f == memory[cpu.esp]
           r == Saved(memory, f)
           d == Promise!After(before.context, vector)
<1>1. /\ pc = "__trapret" /\ pc' = "iret" /\ UNCHANGED <<memory, vector, ticks, traps, before>>
      /\ cpu' = [cpu EXCEPT !.regs = memory[f + REGS], !.gs = memory[f + GS], !.fs = memory[f + FS],
                            !.es = memory[f + ES], !.ds = memory[f + DS], !.esp = f + EIP]
  BY DEF __trapret
<1>2. /\ cpu \in Context /\ memory \in [Address -> Int] /\ ticks \in 0..(TickWrap - 1)
      /\ f \in Frames /\ Leads(memory, f, r, d)
      /\ memory[f + GS] \in Selectors /\ memory[f + FS] \in Selectors
      /\ memory[f + ES] \in Selectors /\ memory[f + DS] \in Selectors
  BY <1>1 DEF TrapInv, TypeOK, AtTrapret
<1>3. /\ r.regs = memory[f + REGS] /\ r.ds = memory[f + DS] /\ r.es = memory[f + ES]
      /\ r.fs = memory[f + FS] /\ r.gs = memory[f + GS]
  BY DEF Saved
<1> HIDE DEF f, r, d
<1>4. f \in Int /\ f \in Address /\ f + EIP \in Address /\ f + EIP \in Int /\ f + EIP - EIP = f /\ f + REGS = f
  BY <1>2, StackFacts DEF Frames, EIP, REGS
<1>5. memory[f + REGS] \in Int
  BY <1>2, <1>4
<1>6. /\ cpu' \in Context /\ cpu'.esp = f + EIP /\ cpu'.cs = cpu.cs /\ cpu'.ss = cpu.ss
      /\ cpu'.regs = r.regs /\ cpu'.ds = r.ds /\ cpu'.es = r.es /\ cpu'.fs = r.fs /\ cpu'.gs = r.gs
  BY <1>1, <1>2, <1>3, <1>4, <1>5 DEF Context
<1>7. TypeOK' /\ Trapped' /\ UNCHANGED Promise!programVars
  <2>1. memory' \in [Address -> Int] /\ ticks' \in 0..(TickWrap - 1)
        /\ InUse(memory', before.context.esp) = InUse(memory, before.context.esp)
    BY <1>1, <1>2
  <2>2. cpu'.esp \in Address /\ pc' \in {"vector", "__alltraps", "trap", "__trapret", "iret"}
    BY <1>1, <1>4, <1>6
  <2> QED
    BY <1>1, <1>6, <2>1, <2>2, HandlerStep
<1>8. Leads(memory', f, cpu', d)
  BY <1>1, <1>2, <1>6 DEF Leads, Upper
<1>9. Promise!After(before.context, vector)' = d
  BY <1>1 DEF d
<1>10. (cpu.esp - EIP)' = f
  <2>1. cpu'.esp - 7 = f
    BY <1>4, <1>6 DEF EIP
  <2> QED
    BY <2>1 DEF EIP
<1>11. AtIret'
  <2>1. (cpu.esp - EIP)' \in Frames
    BY <1>2, <1>10
  <2>2. Leads(memory', (cpu.esp - EIP)', cpu', Promise!After(before.context, vector)')
    BY <1>8, <1>9, <1>10
  <2> QED
    BY <2>1, <2>2, Zenon DEF AtIret, Frames
<1> QED
  BY <1>1, <1>7, <1>11 DEF TrapInv, AtVector, AtAlltraps, AtTrap, AtTrapret

(* A context is its registers. *)
LEMMA SameContext ==
    ASSUME NEW c \in Context, NEW d \in Context,
           c.regs = d.regs, c.eip = d.eip, c.eflags = d.eflags, c.esp = d.esp, c.cs = d.cs, c.ss = d.ss,
           c.ds = d.ds, c.es = d.es, c.fs = d.fs, c.gs = d.gs
    PROVE  c = d
BY DEF Context

(* iret is the promise's step: the program goes on. *)
LEMMA IretStep == TrapInv /\ iret => TrapInv' /\ [Promise!Next]_(Promise!programVars)
<1> SUFFICES ASSUME TrapInv, iret PROVE TrapInv' /\ [Promise!Next]_(Promise!programVars)
  OBVIOUS
<1> DEFINE c == before.context
           d == Promise!After(c, vector)
           f == cpu.esp - EIP
           to == memory[cpu.esp + 1]
           inner == [cpu EXCEPT !.eip = memory[cpu.esp], !.cs = to, !.eflags = memory[cpu.esp + 2],
                                !.esp = cpu.esp + 3]
           outer == [inner EXCEPT !.esp = memory[cpu.esp + 3], !.ss = memory[cpu.esp + 4],
                                  !.ds = Usable(inner.ds), !.es = Usable(inner.es),
                                  !.fs = Usable(inner.fs), !.gs = Usable(inner.gs)]
<1>1. /\ pc = "iret" /\ pc' = "program" /\ UNCHANGED <<memory, vector, ticks, traps, before>>
      /\ cpu' = IF CPL(to) # User THEN inner ELSE outer
  BY DEF iret
<1>2. /\ cpu \in Context /\ memory \in [Address -> Int] /\ ProgramContext(c) /\ f \in Frames
      /\ Leads(memory, f, cpu, d) /\ cpu.ss = KERNEL_DS /\ vector \in 0..255
      /\ before.stack = InUse(memory, c.esp)
  BY <1>1 DEF TrapInv, TypeOK, Trapped, AtIret
<1>3. ProgramContext(d) /\ d.esp = c.esp
  BY <1>2, AfterContext
<1>4. d \in Context /\ (d.eflags \in Eflags) /\ d.cs \in Selectors /\ d.ss \in Selectors
  BY <1>3 DEF ProgramContext, Context
<1> HIDE DEF d
<1>5. /\ cpu.esp = f + EIP /\ cpu.esp + 1 = f + CS /\ cpu.esp + 2 = f + EFLAGS /\ cpu.esp + 3 = f + ESP
      /\ cpu.esp + 4 = f + SS /\ cpu.esp + 3 = f + (SIZEOF - 2) /\ cpu.esp \in Int /\ cpu.esp + 3 \in Int
  <2>1. cpu.esp \in Int
    BY <1>2 DEF Context
  <2> QED
    BY <2>1 DEF EIP, CS, EFLAGS, ESP, SS, SIZEOF
<1> HIDE DEF f
<1>6. memory[cpu.esp] = d.eip /\ to = d.cs /\ memory[cpu.esp + 2] = d.eflags
  BY <1>2, <1>5 DEF Leads, Upper
<1>7. (CPL(to) = User <=> Crosses(d)) /\ cpu.regs = d.regs
  BY <1>2, <1>6 DEF Crosses, Leads
<1> HIDE DEF to
<1>8. /\ inner \in Context /\ inner.regs = cpu.regs /\ inner.eip = d.eip /\ inner.cs = d.cs
      /\ inner.eflags = d.eflags /\ inner.esp = cpu.esp + 3 /\ inner.ss = cpu.ss
      /\ inner.ds = cpu.ds /\ inner.es = cpu.es /\ inner.fs = cpu.fs /\ inner.gs = cpu.gs
  <2>1. d.eip \in 0..(EipCount - 1)
    BY <1>4 DEF Context
  <2> QED
    BY <1>2, <1>4, <1>5, <1>6, <2>1 DEF Context
<1> HIDE DEF inner
<1>9. cpu' = d
  <2>1. CASE Crosses(d)
    <3>1. /\ memory[cpu.esp + 3] = d.esp /\ memory[cpu.esp + 4] = d.ss
          /\ Usable(inner.ds) = d.ds /\ Usable(inner.es) = d.es /\ Usable(inner.fs) = d.fs
          /\ Usable(inner.gs) = d.gs
      BY <1>2, <1>5, <1>8, <2>1 DEF Leads, Upper
    <3>2. outer = [inner EXCEPT !.esp = d.esp, !.ss = d.ss, !.ds = d.ds, !.es = d.es, !.fs = d.fs, !.gs = d.gs]
      BY <3>1
    <3> HIDE DEF outer
    <3>3. cpu' = outer
      BY <1>1, <1>7, <2>1
    <3> QED
      BY <1>4, <1>7, <1>8, <3>2, <3>3 DEF Context
  <2>2. CASE ~Crosses(d)
    <3>1. /\ cpu.ds = d.ds /\ cpu.es = d.es /\ cpu.fs = d.fs /\ cpu.gs = d.gs /\ cpu.ss = d.ss
          /\ cpu.esp + 3 = d.esp
      BY <1>2, <1>5, <2>2 DEF Leads
    <3>2. cpu' = inner
      BY <1>1, <1>7, <2>2
    <3> QED
      BY <1>4, <1>7, <1>8, <3>1, <3>2, SameContext
  <2> QED
    BY <2>1, <2>2
<1>10. TypeOK'
  BY <1>1, <1>3, <1>4, <1>9 DEF TrapInv, TypeOK, ProgramContext
<1>11. TrapInv'
  BY <1>1, <1>3, <1>9, <1>10 DEF TrapInv, Trapped, AtVector, AtAlltraps, AtTrap, AtTrapret, AtIret
<1>12. Promise!Resumed
  <2>1. InUse(memory, cpu.esp)' = before.stack
    BY <1>1, <1>2, <1>3, <1>9
  <2> QED
    BY <1>1, <1>2, <1>9, <2>1 DEF Promise!Resumed, Promise!NoTrap, Running, d
<1> QED
  BY <1>11, <1>12 DEF Promise!Next

(* Trap begins within the invariant, where the promise begins. *)
LEMMA TrapInit == Init => TrapInv /\ Promise!Init
<1> SUFFICES ASSUME Init PROVE TrapInv /\ Promise!Init
  OBVIOUS
<1>1. /\ memory = [a \in Address |-> 0] /\ pc = "program" /\ vector = -1 /\ ticks = 0 /\ traps = 0
  BY DEF Init
<1>2. PICK i \in {0, 1} :
          cpu = [regs |-> 0, eip |-> 0, eflags |-> i, esp |-> StackTop,
                 cs |-> KERNEL_CS, ss |-> KERNEL_DS, ds |-> KERNEL_DS, es |-> KERNEL_DS,
                 fs |-> KERNEL_DS, gs |-> KERNEL_DS]
  BY DEF Init
<1>3. IOPL(i) = 0 /\ i \in Eflags
  BY DEF IOPL, Eflags
<1>4. StackTop \in (StackTop - Depth)..StackTop /\ StackTop \in Int
  BY StackFacts
<1>5. KERNEL_CS \in Selectors /\ KERNEL_DS \in Selectors /\ 0 \in 0..(EipCount - 1)
  BY TrapAssumption DEF Selectors
<1>6. cpu \in Context /\ ProgramContext(cpu) /\ CPL(cpu.cs) = 0
  <2>1. cpu \in Context
    BY <1>2, <1>3, <1>4, <1>5 DEF Context
  <2>2. CPL(cpu.cs) = 0 /\ ~Crosses(cpu)
    BY <1>2, SelectorFacts DEF Crosses, User
  <2> QED
    BY <1>2, <1>3, <1>4, <2>1, <2>2 DEF ProgramContext
<1>7. memory \in [Address -> Int]
  BY <1>1
<1>8. TypeOK
  BY <1>1, <1>6, <1>7, TrapAssumption DEF TypeOK, ProgramContext
<1>9. TrapInv
  BY <1>1, <1>6, <1>8 DEF TrapInv, Trapped, AtVector, AtAlltraps, AtTrap, AtTrapret, AtIret
<1> QED
  BY <1>1, <1>6, <1>9 DEF Promise!Init, Promise!NoTrap, Promise!CPL, CPL, Running

(* Every step keeps the invariant, and is one of the promise or none. *)
LEMMA TrapStep == TrapInv /\ [Next]_vars => TrapInv' /\ [Promise!Next]_(Promise!programVars)
<1> SUFFICES ASSUME TrapInv, [Next]_vars PROVE TrapInv' /\ [Promise!Next]_(Promise!programVars)
  OBVIOUS
<1>1. CASE UNCHANGED vars
  <2>1. TrapInv'
    BY <1>1 DEF vars, TrapInv, TypeOK, Trapped, AtVector, AtAlltraps, AtTrap, AtTrapret, AtIret
  <2>2. UNCHANGED Promise!programVars
    BY <1>1 DEF vars, Promise!programVars, Running, InUse
  <2> QED
    BY <2>1, <2>2
<1> QED
  BY <1>1, ComputeStep, PushStep, PopStep, StiCliStep, TrapsStep, VectorStep, AlltrapsStep, DispatchStep,
     TrapretStep, IretStep DEF Next

-----------------------------------------------------------------------------
(* The theorems. *)

(* The invariant always holds. *)
LEMMA TrapInvariant == Spec => []TrapInv
<1>1. Init => TrapInv
  BY TrapInit
<1>2. TrapInv /\ [Next]_vars => TrapInv'
  BY TrapStep
<1> QED
  BY <1>1, <1>2, PTL DEF Spec

(* Every variable of the trap path keeps its type; esp stays in memory while a
   trap is handled, and on the program's stack while the program runs
   (102trapentry.S, 101trap.c). *)
THEOREM TrapTypeCorrect == Spec => []TypeOK
<1>1. TrapInv => TypeOK
  BY DEF TrapInv
<1> QED
  BY <1>1, TrapInvariant, PTL

(* After any number of traps and switches the program has I/O privilege and user
   selectors in user mode and neither in kernel mode (101trap.c, trap_dispatch). *)
THEOREM PrivilegeIsRight == Spec => []PrivilegeAgrees
<1>1. TrapInv => PrivilegeAgrees
  BY DEF TrapInv, ProgramContext, PrivilegeAgrees, Crosses
<1> QED
  BY <1>1, TrapInvariant, PTL

(* When trap runs, every field of struct trapframe holds the program's register,
   for every vector, with the processor's error code or the stub's 0
   (102trapentry.S, tools/vector.py). *)
THEOREM FrameIsBuilt == Spec => []FrameBuilt
<1>1. TrapInv => FrameBuilt
  <2> SUFFICES ASSUME TrapInv, pc = "trap" PROVE FrameBuilt
    BY DEF FrameBuilt
  <2> DEFINE t == FrameOf(before.context)
  <2>1. /\ t \in Int /\ cpu.esp = t - 2 /\ tf = t /\ trapno = vector
        /\ Upper(memory, t, before.context) /\ Lower(memory, t, before.context)
    BY AtTrapFacts
  <2> HIDE DEF t
  <2>2. t = cpu.esp + 2
    BY <2>1
  <2> QED
    BY <2>1, <2>2 DEF FrameBuilt, Upper, Lower, Crosses
<1> QED
  BY <1>1, TrapInvariant, PTL

(* Refinement: whatever the trap, the program goes on with the registers, the
   stack and the instruction it had; the two switches change its mode only
   (101trap.c:179-204, 102trapentry.S). *)
THEOREM ProgramIsResumed == Spec => ProgramGoesOn
<1>1. Init => Promise!Init
  BY TrapInit
<1>2. TrapInv /\ [Next]_vars => [Promise!Next]_(Promise!programVars)
  BY TrapStep
<1> QED
  BY <1>1, <1>2, TrapInvariant, PTL DEF Spec, ProgramGoesOn, Promise!Spec
=============================================================================
