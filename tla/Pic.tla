-------------------------------- MODULE Pic --------------------------------
(***************************************************************************)
(* 106picirq.c: the software IRQ mask, the deferred loading of it, and the *)
(* programming of the two cascaded 8259A interrupt controllers, one outb   *)
(* at a time.  A byte is the set of its one bits, so a 16-bit mask is a    *)
(* subset of Lines and the masks of the code are set differences.          *)
(*                                                                         *)
(* The callers are the kernel's own start-up code, which runs with         *)
(* interrupts off: drivers call pic_enable, before or after the one call   *)
(* of pic_init, and each call runs to its end.                             *)
(***************************************************************************)
EXTENDS Naturals, Sequences

CONSTANTS
    Drivers,          \* the lines that drivers enable: the timer, the keyboard, COM1
    BiosMasks,        \* the interrupt masks the BIOS may have left in a chip
    DidInitAtBoot     \* the values static did_init may hold when the kernel starts

Bit       == 0..7     \* the bits of a byte, and the inputs of one 8259A
Lines     == 0..15    \* the sixteen IRQ lines
IRQ_SLAVE == 2        \* the master's input the slave is wired to

ASSUME PicAssumption ==
    /\ Drivers \subseteq Lines
    /\ BiosMasks \subseteq SUBSET Bit
    /\ DidInitAtBoot \subseteq BOOLEAN

VARIABLES
    irq_mask,     \* static uint16_t irq_mask: the lines that are masked
    did_init,     \* static bool did_init
    out,          \* the port writes that the call under way has still to do
    master,       \* the 8259A at IO_PIC1
    slave,        \* the 8259A at IO_PIC2
    enabled,      \* history: the lines pic_enable was called for
    phase         \* history: pic_init was not called, is under way, or has ended

picVars == <<irq_mask, did_init, out, master, slave, enabled, phase>>

-----------------------------------------------------------------------------
(* The 8259A.  "icw" is the initialisation word the chip waits for on its   *)
(* data port, or "none" when the data port is the mask register.           *)

Chip == [imr : SUBSET Bit, icw : {"none", "ICW2", "ICW3", "ICW4"}, base : SUBSET Bit,
         wiring : SUBSET Bit, aeoi : BOOLEAN, x86 : BOOLEAN, smm : BOOLEAN]

(* A chip as a BIOS leaves it: initialised for vectors 8 to 15 or 112 to 119,
   with normal end of interrupt. *)
BiosChip(mask, vectors, wires) ==
    [imr |-> mask, icw |-> "none", base |-> vectors, wiring |-> wires,
     aeoi |-> FALSE, x86 |-> TRUE, smm |-> FALSE]

(* A write to the command port: bit 4 marks ICW1, which starts the
   initialisation and clears the mask; bit 3 alone marks OCW3.  ICW1 is always
   written here with ICW4 announced and a cascade (bit 0 set, bit 1 clear). *)
Command(chip, b) ==
    IF 4 \in b THEN [chip EXCEPT !.imr = {}, !.icw = "ICW2", !.smm = FALSE]
    ELSE IF {3, 6} \subseteq b THEN [chip EXCEPT !.smm = 5 \in b]
    ELSE chip

(* A write to the data port. *)
Data(chip, b) ==
    IF chip.icw = "ICW2" THEN [chip EXCEPT !.icw = "ICW3", !.base = b]
    ELSE IF chip.icw = "ICW3" THEN [chip EXCEPT !.icw = "ICW4", !.wiring = b]
    ELSE IF chip.icw = "ICW4" THEN [chip EXCEPT !.icw = "none", !.aeoi = 1 \in b, !.x86 = 0 \in b]
    ELSE [chip EXCEPT !.imr = b]

-----------------------------------------------------------------------------
(* The driver. *)

Write(port, b) == [port |-> port, byte |-> b]

(* Faulty: the mask is not cut to a byte. *)
Low_Uncut(mask) == mask

Low(mask)  == mask \cap Bit                            \* (uint8_t) mask
High(mask) == {k \in Bit : k + 8 \in mask}             \* mask >> 8

(* The two port writes of pic_setmask. *)
MaskWrites(mask) == << Write("PIC1+1", Low(mask)), Write("PIC2+1", High(mask)) >>

(* Faulty: the slave's ICW3 is forgotten. *)
InitWrites_NoSlaveICW3 ==
    << Write("PIC1+1", Bit), Write("PIC2+1", Bit),
       Write("PIC1", {0, 4}), Write("PIC1+1", {5}), Write("PIC1+1", {IRQ_SLAVE}),
       Write("PIC1+1", {0, 1}),
       Write("PIC2", {0, 4}), Write("PIC2+1", {3, 5}), Write("PIC2+1", {0, 1}),
       Write("PIC1", {3, 5, 6}), Write("PIC1", {1, 3}),
       Write("PIC2", {3, 5, 6}), Write("PIC2", {1, 3}) >>

(* The port writes of pic_init before its last statement. *)
InitWrites ==
    << Write("PIC1+1", Bit),            \* mask all interrupts
       Write("PIC2+1", Bit),
       Write("PIC1",   {0, 4}),         \* ICW1 0x11: cascade, ICW4 follows
       Write("PIC1+1", {5}),            \* ICW2 IRQ_OFFSET, 32
       Write("PIC1+1", {IRQ_SLAVE}),    \* ICW3 1 << IRQ_SLAVE
       Write("PIC1+1", {0, 1}),         \* ICW4 0x3: automatic EOI, x86
       Write("PIC2",   {0, 4}),         \* ICW1 0x11
       Write("PIC2+1", {3, 5}),         \* ICW2 IRQ_OFFSET + 8
       Write("PIC2+1", {1}),            \* ICW3 IRQ_SLAVE, the number 2
       Write("PIC2+1", {0, 1}),         \* ICW4 0x3
       Write("PIC1",   {3, 5, 6}),      \* OCW3 0x68
       Write("PIC1",   {1, 3}),         \* OCW3 0x0a
       Write("PIC2",   {3, 5, 6}),
       Write("PIC2",   {1, 3}) >>

(* irq_mask starts with every line masked but the slave's. *)
InitialMask == Lines \ {IRQ_SLAVE}

PicInit ==
    /\ irq_mask = InitialMask
    /\ did_init \in DidInitAtBoot
    /\ out = << >>
    /\ \E m \in BiosMasks : master = BiosChip(m, {3}, {IRQ_SLAVE})
    /\ \E m \in BiosMasks : slave = BiosChip(m, {4, 5, 6}, {1})
    /\ enabled = {}
    /\ phase = "before"

(* Faulty: a mask set before pic_init is not remembered. *)
pic_setmask_Forgets(mask) ==
    /\ irq_mask' = IF did_init THEN mask ELSE irq_mask
    /\ out' = IF did_init THEN MaskWrites(mask) ELSE << >>

(* pic_setmask: remember the mask; write it out only once did_init is set. *)
pic_setmask(mask) ==
    /\ irq_mask' = mask
    /\ out' = IF did_init THEN MaskWrites(mask) ELSE << >>

(* Faulty: the new line replaces the others. *)
pic_enable_Replaces(irq) ==
    /\ out = << >>
    /\ pic_setmask(InitialMask \ {irq})
    /\ enabled' = enabled \cup {irq}
    /\ UNCHANGED <<did_init, master, slave, phase>>

pic_enable(irq) ==
    /\ out = << >>
    /\ pic_setmask(irq_mask \ {irq})
    /\ enabled' = enabled \cup {irq}
    /\ UNCHANGED <<did_init, master, slave, phase>>

(* Faulty: the mask noted so far is never written. *)
pic_init_NoMask ==
    /\ out = << >>
    /\ phase = "before"
    /\ did_init' = TRUE
    /\ phase' = "init"
    /\ out' = InitWrites
    /\ UNCHANGED <<irq_mask, master, slave, enabled>>

(* pic_init ends with pic_setmask(irq_mask), unless every line is masked. *)
pic_init ==
    /\ out = << >>
    /\ phase = "before"
    /\ did_init' = TRUE
    /\ phase' = "init"
    /\ out' = InitWrites \o (IF irq_mask # Lines THEN MaskWrites(irq_mask) ELSE << >>)
    /\ UNCHANGED <<irq_mask, master, slave, enabled>>

(* One outb of the call under way. *)
outb ==
    /\ out # << >>
    /\ LET w == Head(out) IN
       /\ master' = IF w.port = "PIC1" THEN Command(master, w.byte)
                     ELSE IF w.port = "PIC1+1" THEN Data(master, w.byte)
                     ELSE master
       /\ slave'  = IF w.port = "PIC2" THEN Command(slave, w.byte)
                     ELSE IF w.port = "PIC2+1" THEN Data(slave, w.byte)
                     ELSE slave
    /\ out' = Tail(out)
    /\ phase' = IF phase = "init" /\ Len(out) = 1 THEN "ready" ELSE phase
    /\ UNCHANGED <<irq_mask, did_init, enabled>>

PicNext ==
    \/ \E irq \in Drivers : pic_enable(irq)
    \/ pic_init
    \/ outb

(* A call, once made, runs to its end: nothing preempts it. *)
PicSpec == PicInit /\ [][PicNext]_picVars /\ WF_picVars(outb)

-----------------------------------------------------------------------------
PicTypeOK ==
    /\ irq_mask \subseteq Lines
    /\ did_init \in BOOLEAN
    /\ out \in Seq([port : {"PIC1", "PIC1+1", "PIC2", "PIC2+1"}, byte : SUBSET Bit])
    /\ master \in Chip
    /\ slave \in Chip
    /\ enabled \subseteq Lines
    /\ phase \in {"before", "init", "ready"}

(* The lines that can reach the CPU: open at the master, or open at a slave
   whose own line at the master is open. *)
OpenLines ==
    (Bit \ (master.imr \cup {IRQ_SLAVE}))
      \cup {k \in 8..15 : k - 8 \notin slave.imr /\ IRQ_SLAVE \notin master.imr}

(* pic_init has ended and no call is under way. *)
Ready == phase = "ready" /\ out = << >>

(* Once pic_init is done, and between any two later calls, exactly the lines
   that drivers enabled are open, whether they were enabled before pic_init
   (when 106picirq.c only notes them in irq_mask) or after it.  A lost early
   request, a line left open by ICW1 or a masked cascade line breaks it. *)
ExactlyEnabled == Ready => OpenLines = enabled \ {IRQ_SLAVE}

(* Once pic_init is done both chips have taken all of their initialisation
   words, each word in its own register: vectors 32 to 39 and 40 to 47, clear
   of the CPU's exceptions, the cascade wired at input 2, and automatic end of
   interrupt, which trap_dispatch relies on as it never sends an EOI. *)
ChipsProgrammed ==
    Ready =>
        /\ \A chip \in {master, slave} : chip.icw = "none" /\ chip.aeoi /\ chip.x86
        /\ master.base = {5} /\ slave.base = {3, 5}
        /\ master.wiring = {IRQ_SLAVE} /\ slave.wiring = {1}

(* After pic_init, no step closes a line that was open: enabling one device
   never shuts off another, not even between the two writes of a new mask. *)
EnableOnlyOpens == [][phase = "ready" => OpenLines \subseteq OpenLines']_picVars

(* A line that is enabled becomes open, once pic_init has been called. *)
EnabledBecomesOpen ==
    \A irq \in Drivers \ {IRQ_SLAVE} :
        (phase # "before" /\ irq \in enabled) ~> (irq \in OpenLines)

-----------------------------------------------------------------------------
(* What a comment of the repository says. *)

(* 106picirq.c:82 calls the OCW3 byte 0x68 "clear specific mask", and lines
   78 to 81 give the code for that: special mask mode is off after pic_init. *)
SpecialMaskCleared == Ready => ~master.smm /\ ~slave.smm
=============================================================================
