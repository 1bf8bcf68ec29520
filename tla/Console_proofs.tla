---------------------------- MODULE Console_proofs ----------------------------
(***************************************************************************)
(* Proofs about Console, for every size of the buffer, every set of device *)
(* bytes and every bound on what is outstanding, and about the interrupt   *)
(* controllers under it, for every set of drivers, whatever masks the BIOS *)
(* left behind and whatever did_init holds at the start.                   *)
(***************************************************************************)
EXTENDS Console, SequenceTheorems, TLAPS

-----------------------------------------------------------------------------
(* The characters that kbd_intr takes from kbd_proc_data. *)

(* The three maps take a byte to a byte. *)
LEMMA MapsHoldBytes ==
    \A data \in Byte : normalmap[data] \in Byte /\ shiftmap[data] \in Byte /\ ctlmap[data] \in Byte
<1>1. \A k \in 1..55 : NormalRows[k] \in Byte /\ ShiftRows[k] \in Byte /\ CtlRows[k] \in Byte
  <2>1. \A k \in 1..55 : NormalRows[k] \in Byte
    BY DEF NormalRows, NO, Byte
  <2>2. \A k \in 1..55 : ShiftRows[k] \in Byte
    BY DEF ShiftRows, NO, Byte
  <2>3. \A k \in 1..55 : CtlRows[k] \in Byte
    BY DEF CtlRows, NO, Byte
  <2> QED
    BY <2>1, <2>2, <2>3
<1>2. (\A k \in 1..29 : Keypad[k] \in Byte) /\ \A k \in 1..13 : Navigation[k] \in Byte
  BY DEF Keypad, Navigation, NO, KEY_DEL, Byte
<1>3. ASSUME NEW data \in Byte
      PROVE  /\ data < 55 => data + 1 \in 1..55
             /\ data >= 55 /\ data < 84 => Keypad[data - 54] \in Byte
             /\ data \in 199..211 => Navigation[data - 198] \in Byte
  <2>1. data >= 55 /\ data < 84 => data - 54 \in 1..29
    BY DEF Byte
  <2>2. data \in 199..211 => data - 198 \in 1..13
    BY DEF Byte
  <2> QED
    BY <1>2, <2>1, <2>2 DEF Byte
<1>4. ASSUME NEW rows, \A k \in 1..55 : rows[k] \in Byte, NEW data \in Byte PROVE CharMap(rows)[data] \in Byte
  <2>1. NO \in Byte /\ 10 \in Byte /\ 47 \in Byte /\ data \in Int
    BY DEF NO, Byte
  <2> QED
    BY <1>3, <1>4, <2>1 DEF CharMap
<1>5. ASSUME NEW data \in Byte PROVE ctlmap[data] \in Byte
  <2>1. NO \in Byte /\ 224 \in Byte /\ 239 \in Byte /\ 200..211 \subseteq 199..211
    BY DEF NO, Byte
  <2> QED
    BY <1>1, <1>3, <2>1 DEF ctlmap
<1> QED
  BY <1>1, <1>4, <1>5 DEF normalmap, shiftmap

(* kbd_proc_data returns a byte, and keeps shift a set of flags. *)
LEMMA KeyIsByte ==
    ASSUME NEW s, s \subseteq Flags, NEW data \in Byte
    PROVE  kbd_proc_data(s, data).shift \subseteq Flags /\ kbd_proc_data(s, data).c \in Byte
<1> DEFINE code  == IF "E0ESC" \in s THEN Extended(data) ELSE data
           flags == SymmetricDifference((s \ {"E0ESC"}) \cup shiftcode(code), togglecode(code))
           char  == charcode(flags)[code]
           c     == IF "CAPSLOCK" \in flags THEN flipcase(char) ELSE char
<1>1. code \in Byte /\ shiftcode(code) \subseteq Flags /\ togglecode(code) \subseteq Flags
  BY DEF Extended, Byte, shiftcode, togglecode, Flags, Modifiers, Locks
<1>2. CASE data = E0 \/ data >= 128
  BY <1>2 DEF kbd_proc_data, Prefix, Release, Flags, NO, Byte
<1>3. CASE data # E0 /\ data < 128
  <2>1. kbd_proc_data(s, data).shift = flags /\ kbd_proc_data(s, data).c = c
    BY <1>3 DEF kbd_proc_data, Press, Byte
  <2> HIDE DEF code
  <2>2. flags \subseteq Flags
    BY <1>1 DEF SymmetricDifference
  <2> HIDE DEF flags
  <2>3. char \in Byte
    BY <1>1, MapsHoldBytes DEF charcode
  <2> QED
    BY <2>1, <2>2, <2>3 DEF flipcase, Byte
<1> QED
  BY <1>2, <1>3 DEF Byte

-----------------------------------------------------------------------------
(* The interrupt controllers. *)

-----------------------------------------------------------------------------
(* What the writes of pic_init do to the chips. *)

Script(mask) == InitWrites \o MaskWrites(mask)

PortWrite == [port : {"PIC1", "PIC1+1", "PIC2", "PIC2+1"}, byte : SUBSET Bit]

(* A chip whose first initialisation word was the given one of the script, after n writes. *)
Waits(chip, first, n) ==
    chip.icw = IF n = first THEN "ICW2" ELSE IF n = first + 1 THEN "ICW3"
               ELSE IF n = first + 2 THEN "ICW4" ELSE "none"

Taken(chip, first, n, vectors, wires) ==
    /\ n > first => chip.base = vectors
    /\ n > first + 1 => chip.wiring = wires
    /\ n > first + 2 => chip.aeoi /\ chip.x86

ChipsAt(n) ==
    /\ Waits(master, 3, n) /\ Taken(master, 3, n, {5}, {IRQ_SLAVE})
    /\ Waits(slave, 7, n)  /\ Taken(slave, 7, n, {3, 5}, {1})
    /\ n > 14 => master.imr = Low(irq_mask)
    /\ n > 15 => slave.imr = High(irq_mask)

LeftAt(n) == Len(out) = 16 - n /\ \A j \in 1..(16 - n) : out[j] = Script(irq_mask)[n + j]

Programming(n) == LeftAt(n) /\ ChipsAt(n)

(* Between the calls, and within one that changes the mask: the writes that are
   left, and what the masks in the chips may lag behind. *)
MaskLeft == << Write("PIC2+1", High(irq_mask)) >>

Settled == master.icw = "none" /\ slave.icw = "none" /\ out \in {<< >>, MaskLeft, MaskWrites(irq_mask)}

Programmed ==
    /\ master.aeoi /\ master.x86 /\ slave.aeoi /\ slave.x86
    /\ master.base = {5} /\ slave.base = {3, 5}
    /\ master.wiring = {IRQ_SLAVE} /\ slave.wiring = {1}

Opened ==
    /\ IRQ_SLAVE \notin master.imr
    /\ Low(irq_mask) \subseteq master.imr /\ High(irq_mask) \subseteq slave.imr
    /\ out # MaskWrites(irq_mask) => master.imr = Low(irq_mask)
    /\ out = << >> => slave.imr = High(irq_mask)

PicInv ==
    /\ PicTypeOK
    /\ irq_mask = InitialMask \ enabled
    /\ phase # "init" => Settled
    /\ phase = "init" => did_init /\ \E n \in 0..15 : Programming(n)
    /\ phase = "ready" => did_init /\ Programmed /\ Opened

-----------------------------------------------------------------------------

(* Both halves of a mask are bytes. *)
LEMMA MaskBytes == ASSUME NEW mask \in SUBSET Lines PROVE Low(mask) \in SUBSET Bit /\ High(mask) \in SUBSET Bit
BY DEF Low, High

(* pic_setmask's two writes: the low half to the master, the high half to the slave. *)
LEMMA MaskWritesAre ==
    ASSUME NEW mask \in SUBSET Lines
    PROVE  /\ MaskWrites(mask) \in Seq(PortWrite) /\ Len(MaskWrites(mask)) = 2
           /\ MaskWrites(mask)[1] = Write("PIC1+1", Low(mask))
           /\ MaskWrites(mask)[2] = Write("PIC2+1", High(mask))
           /\ Tail(MaskWrites(mask)) = << Write("PIC2+1", High(mask)) >>
<1>1. Write("PIC1+1", Low(mask)) \in PortWrite /\ Write("PIC2+1", High(mask)) \in PortWrite
  BY MaskBytes DEF Write, PortWrite
<1> QED
  BY <1>1 DEF MaskWrites

(* pic_init writes fourteen bytes before the mask. *)
LEMMA InitWritesAre == InitWrites \in Seq(PortWrite) /\ Len(InitWrites) = 14
<1>1. \A a \in {"PIC1", "PIC1+1", "PIC2", "PIC2+1"}, b \in SUBSET Bit : Write(a, b) \in PortWrite
  BY DEF Write, PortWrite
<1>2. /\ Bit \in SUBSET Bit /\ {0, 4} \in SUBSET Bit /\ {5} \in SUBSET Bit /\ {IRQ_SLAVE} \in SUBSET Bit
      /\ {0, 1} \in SUBSET Bit /\ {3, 5} \in SUBSET Bit /\ {1} \in SUBSET Bit
      /\ {3, 5, 6} \in SUBSET Bit /\ {1, 3} \in SUBSET Bit
  BY DEF Bit, IRQ_SLAVE
<1> QED
  BY <1>1, <1>2 DEF InitWrites

(* pic_init's writes: the fourteen and the two of the mask. *)
LEMMA ScriptIs ==
    ASSUME NEW mask \in SUBSET Lines
    PROVE  /\ Script(mask) \in Seq(PortWrite) /\ Len(Script(mask)) = 16
           /\ \A j \in 1..14 : Script(mask)[j] = InitWrites[j]
           /\ Script(mask)[15] = Write("PIC1+1", Low(mask))
           /\ Script(mask)[16] = Write("PIC2+1", High(mask))
<1> DEFINE a == InitWrites
           b == MaskWrites(mask)
<1>1. a \in Seq(PortWrite) /\ Len(a) = 14
  BY InitWritesAre
<1>2. /\ b \in Seq(PortWrite) /\ Len(b) = 2
      /\ b[1] = Write("PIC1+1", Low(mask)) /\ b[2] = Write("PIC2+1", High(mask))
  BY MaskWritesAre
<1> DEFINE c == a \o b
<1>3. Script(mask) = c
  BY DEF Script
<1> HIDE DEF a, b
<1>4. /\ c \in Seq(PortWrite) /\ Len(c) = Len(a) + Len(b)
      /\ \A i \in 1..(Len(a) + Len(b)) : c[i] = IF i <= Len(a) THEN a[i] ELSE b[i - Len(a)]
  BY <1>1, <1>2, ConcatProperties
<1> HIDE DEF c
<1>5. Len(c) = 16 /\ \A i \in 1..16 : c[i] = IF i <= 14 THEN a[i] ELSE b[i - 14]
  BY <1>1, <1>2, <1>4
<1>6. c[15] = b[1] /\ c[16] = b[2] /\ \A j \in 1..14 : c[j] = a[j]
  BY <1>5
<1> QED
  BY <1>2, <1>3, <1>4, <1>5, <1>6 DEF a

(* The fourteen writes one by one. *)
LEMMA InitWriteIs ==
    /\ InitWrites[1] = Write("PIC1+1", Bit)
    /\ InitWrites[2] = Write("PIC2+1", Bit)
    /\ InitWrites[3] = Write("PIC1", {0, 4})
    /\ InitWrites[4] = Write("PIC1+1", {5})
    /\ InitWrites[5] = Write("PIC1+1", {IRQ_SLAVE})
    /\ InitWrites[6] = Write("PIC1+1", {0, 1})
    /\ InitWrites[7] = Write("PIC2", {0, 4})
    /\ InitWrites[8] = Write("PIC2+1", {3, 5})
    /\ InitWrites[9] = Write("PIC2+1", {1})
    /\ InitWrites[10] = Write("PIC2+1", {0, 1})
    /\ InitWrites[11] = Write("PIC1", {3, 5, 6})
    /\ InitWrites[12] = Write("PIC1", {1, 3})
    /\ InitWrites[13] = Write("PIC2", {3, 5, 6})
    /\ InitWrites[14] = Write("PIC2", {1, 3})
BY DEF InitWrites

(* All sixteen writes one by one. *)
LEMMA ScriptWrites ==
    ASSUME NEW mask \in SUBSET Lines
    PROVE  /\ Script(mask)[1] = Write("PIC1+1", Bit)
           /\ Script(mask)[2] = Write("PIC2+1", Bit)
           /\ Script(mask)[3] = Write("PIC1", {0, 4})
           /\ Script(mask)[4] = Write("PIC1+1", {5})
           /\ Script(mask)[5] = Write("PIC1+1", {IRQ_SLAVE})
           /\ Script(mask)[6] = Write("PIC1+1", {0, 1})
           /\ Script(mask)[7] = Write("PIC2", {0, 4})
           /\ Script(mask)[8] = Write("PIC2+1", {3, 5})
           /\ Script(mask)[9] = Write("PIC2+1", {1})
           /\ Script(mask)[10] = Write("PIC2+1", {0, 1})
           /\ Script(mask)[11] = Write("PIC1", {3, 5, 6})
           /\ Script(mask)[12] = Write("PIC1", {1, 3})
           /\ Script(mask)[13] = Write("PIC2", {3, 5, 6})
           /\ Script(mask)[14] = Write("PIC2", {1, 3})
           /\ Script(mask)[15] = Write("PIC1+1", Low(mask))
           /\ Script(mask)[16] = Write("PIC2+1", High(mask))
<1>1. /\ Script(mask)[1] = InitWrites[1]
      /\ Script(mask)[2] = InitWrites[2]
      /\ Script(mask)[3] = InitWrites[3]
      /\ Script(mask)[4] = InitWrites[4]
      /\ Script(mask)[5] = InitWrites[5]
      /\ Script(mask)[6] = InitWrites[6]
      /\ Script(mask)[7] = InitWrites[7]
      /\ Script(mask)[8] = InitWrites[8]
      /\ Script(mask)[9] = InitWrites[9]
      /\ Script(mask)[10] = InitWrites[10]
      /\ Script(mask)[11] = InitWrites[11]
      /\ Script(mask)[12] = InitWrites[12]
      /\ Script(mask)[13] = InitWrites[13]
      /\ Script(mask)[14] = InitWrites[14]
  BY ScriptIs
<1> QED
  BY <1>1, ScriptIs, InitWriteIs

(* A chip stays a chip, whatever byte it is written. *)
LEMMA ChipTyped ==
    ASSUME NEW chip \in Chip, NEW b \in SUBSET Bit
    PROVE  Command(chip, b) \in Chip /\ Data(chip, b) \in Chip
<1>1. ASSUME NEW x \in BOOLEAN, NEW y \in BOOLEAN
      PROVE  [chip EXCEPT !.smm = x] \in Chip /\ [chip EXCEPT !.icw = "none", !.aeoi = x, !.x86 = y] \in Chip
  BY DEF Chip
<1>2. (5 \in b) \in BOOLEAN /\ (1 \in b) \in BOOLEAN /\ (0 \in b) \in BOOLEAN
  OBVIOUS
<1>3. [chip EXCEPT !.smm = 5 \in b] \in Chip
  <2> DEFINE x == 5 \in b
  <2>1. x \in BOOLEAN
    BY <1>2
  <2> HIDE DEF x
  <2>2. [chip EXCEPT !.smm = x] \in Chip
    BY <1>1, <2>1
  <2> QED
    BY <2>2 DEF x
<1>4. [chip EXCEPT !.icw = "none", !.aeoi = 1 \in b, !.x86 = 0 \in b] \in Chip
  <2> DEFINE x == 1 \in b
             y == 0 \in b
  <2>1. x \in BOOLEAN /\ y \in BOOLEAN
    BY <1>2
  <2> HIDE DEF x, y
  <2>2. [chip EXCEPT !.icw = "none", !.aeoi = x, !.x86 = y] \in Chip
    BY <1>1, <2>1
  <2> QED
    BY <2>2 DEF x, y
<1>5. [chip EXCEPT !.imr = {}, !.icw = "ICW2", !.smm = FALSE] \in Chip /\ [chip EXCEPT !.imr = b] \in Chip
  BY DEF Chip
<1>6. [chip EXCEPT !.icw = "ICW3", !.base = b] \in Chip /\ [chip EXCEPT !.icw = "ICW4", !.wiring = b] \in Chip
  BY DEF Chip
<1>7. Command(chip, b) \in Chip
  BY <1>3, <1>5, Zenon DEF Command
<1>8. Data(chip, b) \in Chip
  BY <1>4, <1>5, <1>6, Zenon DEF Data
<1> QED
  BY <1>7, <1>8

(* Command ports: the first initialisation word, and the ones that set no register of interest. *)
LEMMA CommandDoes ==
    ASSUME NEW chip \in Chip
    PROVE  /\ Command(chip, {0, 4}).icw = "ICW2"
           /\ \A b \in {{3, 5, 6}, {1, 3}} :
                 /\ Command(chip, b).icw = chip.icw /\ Command(chip, b).imr = chip.imr
                 /\ Command(chip, b).base = chip.base /\ Command(chip, b).wiring = chip.wiring
                 /\ Command(chip, b).aeoi = chip.aeoi /\ Command(chip, b).x86 = chip.x86
<1>1. Command(chip, {0, 4}).icw = "ICW2"
  BY DEF Chip, Command
<1>2. ASSUME NEW b \in {{3, 5, 6}, {1, 3}}
      PROVE  /\ Command(chip, b).icw = chip.icw /\ Command(chip, b).imr = chip.imr
             /\ Command(chip, b).base = chip.base /\ Command(chip, b).wiring = chip.wiring
             /\ Command(chip, b).aeoi = chip.aeoi /\ Command(chip, b).x86 = chip.x86
  <2>1. 4 \notin b
    OBVIOUS
  <2> QED
    BY <2>1 DEF Chip, Command
<1> QED
  BY <1>1, <1>2

(* Data ports: the word that the chip waits for, or else its mask. *)
LEMMA DataDoes ==
    ASSUME NEW chip \in Chip, NEW b \in SUBSET Bit
    PROVE  LET after == Data(chip, b) IN
           /\ chip.icw = "none" =>
                 /\ after.imr = b /\ after.icw = "none" /\ after.base = chip.base
                 /\ after.wiring = chip.wiring /\ after.aeoi = chip.aeoi /\ after.x86 = chip.x86
           /\ chip.icw = "ICW2" => after.icw = "ICW3" /\ after.base = b
           /\ chip.icw = "ICW3" => after.icw = "ICW4" /\ after.wiring = b /\ after.base = chip.base
           /\ chip.icw = "ICW4" =>
                 /\ after.icw = "none" /\ after.base = chip.base /\ after.wiring = chip.wiring
                 /\ after.aeoi = (1 \in b) /\ after.x86 = (0 \in b)
BY DEF Chip, Data

(* The first of the writes that are left, and those behind it. *)
LEMMA OutTyped == PicTypeOK /\ out # << >> => /\ out \in Seq(PortWrite) /\ Head(out) \in PortWrite
                                              /\ Head(out) = out[1] /\ Tail(out) \in Seq(PortWrite)
                                              /\ Len(Tail(out)) = Len(out) - 1 /\ Len(out) >= 1
                                              /\ \A j \in 1..(Len(out) - 1) : Tail(out)[j] = out[j + 1]
<1> SUFFICES ASSUME PicTypeOK, out # << >>
             PROVE  /\ out \in Seq(PortWrite) /\ Head(out) \in PortWrite
                    /\ Head(out) = out[1] /\ Tail(out) \in Seq(PortWrite)
                    /\ Len(Tail(out)) = Len(out) - 1 /\ Len(out) >= 1
                    /\ \A j \in 1..(Len(out) - 1) : Tail(out)[j] = out[j + 1]
  OBVIOUS
<1>1. out \in Seq(PortWrite)
  BY DEF PicTypeOK, PortWrite
<1>2. /\ Head(out) \in PortWrite /\ Tail(out) \in Seq(PortWrite) /\ Len(Tail(out)) = Len(out) - 1
      /\ \A i \in 1..Len(Tail(out)) : Tail(out)[i] = out[i + 1]
  BY <1>1, HeadTailProperties
<1>3. Head(out) = out[1] /\ Len(out) >= 1
  BY <1>1
<1> QED
  BY <1>1, <1>2, <1>3

(* The word that ends the initialisation: automatic end of interrupt, x86. *)
LEMMA LastWordDoes == ASSUME NEW chip \in Chip, chip.icw = "ICW4"
                      PROVE  Data(chip, {0, 1}).aeoi /\ Data(chip, {0, 1}).x86
<1>1. Data(chip, {0, 1}).aeoi = (1 \in {0, 1}) /\ Data(chip, {0, 1}).x86 = (0 \in {0, 1})
  BY DEF Chip, Data
<1>2. (1 \in {0, 1}) = TRUE /\ (0 \in {0, 1}) = TRUE
  OBVIOUS
<1> QED
  BY <1>1, <1>2

(* What one outb does to the chips, by its port. *)
LEMMA OutbDoes ==
    ASSUME PicTypeOK, outb
    PROVE  /\ PicTypeOK' /\ out # << >> /\ UNCHANGED <<irq_mask, did_init, enabled>>
           /\ \A b \in SUBSET Bit :
                 /\ out[1] = Write("PIC1", b) => master' = Command(master, b) /\ slave' = slave
                 /\ out[1] = Write("PIC1+1", b) => master' = Data(master, b) /\ slave' = slave
                 /\ out[1] = Write("PIC2", b) => slave' = Command(slave, b) /\ master' = master
                 /\ out[1] = Write("PIC2+1", b) => slave' = Data(slave, b) /\ master' = master
<1>1. out # << >> /\ Head(out) \in PortWrite /\ Head(out) = out[1] /\ Tail(out) \in Seq(PortWrite)
  BY OutTyped DEF outb
<1> DEFINE w == Head(out)
<1>2. w \in PortWrite /\ w.port \in {"PIC1", "PIC1+1", "PIC2", "PIC2+1"} /\ w.byte \in SUBSET Bit
  BY <1>1 DEF PortWrite
<1>3. /\ master' = IF w.port = "PIC1" THEN Command(master, w.byte)
                   ELSE IF w.port = "PIC1+1" THEN Data(master, w.byte) ELSE master
      /\ slave'  = IF w.port = "PIC2" THEN Command(slave, w.byte)
                   ELSE IF w.port = "PIC2+1" THEN Data(slave, w.byte) ELSE slave
      /\ out' = Tail(out) /\ phase' \in {phase, "ready"}
      /\ UNCHANGED <<irq_mask, did_init, enabled>>
  BY DEF outb
<1>4. ASSUME NEW b \in SUBSET Bit, NEW r \in {"PIC1", "PIC1+1", "PIC2", "PIC2+1"}, out[1] = Write(r, b)
      PROVE  w.port = r /\ w.byte = b
  BY <1>1, <1>4 DEF Write
<1> HIDE DEF w
<1>5. master' \in Chip /\ slave' \in Chip
  BY <1>2, <1>3, ChipTyped DEF PicTypeOK
<1>6. PicTypeOK'
  BY <1>1, <1>3, <1>5 DEF PicTypeOK, PortWrite
<1> QED
  BY <1>1, <1>3, <1>4, <1>6

(* Each write of pic_init takes the chips one word further. *)
LEMMA ChipsProceed ==
    ASSUME PicTypeOK, NEW n \in 0..15, Programming(n), outb
    PROVE  ChipsAt(n + 1)'
<1>1. /\ master \in Chip /\ slave \in Chip /\ irq_mask \in SUBSET Lines /\ irq_mask' = irq_mask
  BY OutbDoes DEF PicTypeOK
<1>2. out[1] = Script(irq_mask)[n + 1]
  BY DEF Programming, LeftAt
<1>3. ChipsAt(n)
  BY DEF Programming
<1>4. Low(irq_mask) \in SUBSET Bit /\ High(irq_mask) \in SUBSET Bit
  BY <1>1, MaskBytes
<1>5. /\ Bit \in SUBSET Bit /\ {0, 4} \in SUBSET Bit /\ {5} \in SUBSET Bit /\ {IRQ_SLAVE} \in SUBSET Bit
      /\ {0, 1} \in SUBSET Bit /\ {3, 5} \in SUBSET Bit /\ {1} \in SUBSET Bit
      /\ {3, 5, 6} \in SUBSET Bit /\ {1, 3} \in SUBSET Bit
  BY DEF Bit, IRQ_SLAVE
<1>6. Low(irq_mask') = Low(irq_mask) /\ High(irq_mask') = High(irq_mask)
  BY <1>1
<1> SUFFICES /\ Waits(master', 3, n + 1) /\ Taken(master', 3, n + 1, {5}, {IRQ_SLAVE})
             /\ Waits(slave', 7, n + 1)  /\ Taken(slave', 7, n + 1, {3, 5}, {1})
             /\ n + 1 > 14 => master'.imr = Low(irq_mask)
             /\ n + 1 > 15 => slave'.imr = High(irq_mask)
  BY <1>6 DEF ChipsAt, Waits, Taken
<1>7. CASE n = 0
  <2>0. out[1] = Script(irq_mask)[1]
    BY <1>2, <1>7
  <2>1. out[1] = Write("PIC1+1", Bit)
    BY <1>1, <2>0, ScriptWrites
  <2>2. master' = Data(master, Bit) /\ slave' = slave
    BY <1>4, <1>5, <2>1, OutbDoes
  <2> QED
    BY <1>1, <1>3, <1>4, <1>5, <1>7, <2>2, DataDoes DEF ChipsAt, Waits, Taken
<1>8. CASE n = 1
  <2>0. out[1] = Script(irq_mask)[2]
    BY <1>2, <1>8
  <2>1. out[1] = Write("PIC2+1", Bit)
    BY <1>1, <2>0, ScriptWrites
  <2>2. slave' = Data(slave, Bit) /\ master' = master
    BY <1>4, <1>5, <2>1, OutbDoes
  <2> QED
    BY <1>1, <1>3, <1>4, <1>5, <1>8, <2>2, DataDoes DEF ChipsAt, Waits, Taken
<1>9. CASE n = 2
  <2>0. out[1] = Script(irq_mask)[3]
    BY <1>2, <1>9
  <2>1. out[1] = Write("PIC1", {0, 4})
    BY <1>1, <2>0, ScriptWrites
  <2>2. master' = Command(master, {0, 4}) /\ slave' = slave
    BY <1>4, <1>5, <2>1, OutbDoes
  <2> QED
    BY <1>1, <1>3, <1>4, <1>5, <1>9, <2>2, CommandDoes DEF ChipsAt, Waits, Taken
<1>10. CASE n = 3
  <2>0. out[1] = Script(irq_mask)[4]
    BY <1>2, <1>10
  <2>1. out[1] = Write("PIC1+1", {5})
    BY <1>1, <2>0, ScriptWrites
  <2>2. master' = Data(master, {5}) /\ slave' = slave
    BY <1>4, <1>5, <2>1, OutbDoes
  <2> QED
    BY <1>1, <1>3, <1>4, <1>5, <1>10, <2>2, DataDoes DEF ChipsAt, Waits, Taken
<1>11. CASE n = 4
  <2>0. out[1] = Script(irq_mask)[5]
    BY <1>2, <1>11
  <2>1. out[1] = Write("PIC1+1", {IRQ_SLAVE})
    BY <1>1, <2>0, ScriptWrites
  <2>2. master' = Data(master, {IRQ_SLAVE}) /\ slave' = slave
    BY <1>4, <1>5, <2>1, OutbDoes
  <2> QED
    BY <1>1, <1>3, <1>4, <1>5, <1>11, <2>2, DataDoes DEF ChipsAt, Waits, Taken
<1>12. CASE n = 5
  <2>0. out[1] = Script(irq_mask)[6]
    BY <1>2, <1>12
  <2>1. out[1] = Write("PIC1+1", {0, 1})
    BY <1>1, <2>0, ScriptWrites
  <2>2. master' = Data(master, {0, 1}) /\ slave' = slave
    BY <1>4, <1>5, <2>1, OutbDoes
  <2> QED
    BY <1>1, <1>3, <1>4, <1>5, <1>12, <2>2, DataDoes, LastWordDoes DEF ChipsAt, Waits, Taken
<1>13. CASE n = 6
  <2>0. out[1] = Script(irq_mask)[7]
    BY <1>2, <1>13
  <2>1. out[1] = Write("PIC2", {0, 4})
    BY <1>1, <2>0, ScriptWrites
  <2>2. slave' = Command(slave, {0, 4}) /\ master' = master
    BY <1>4, <1>5, <2>1, OutbDoes
  <2> QED
    BY <1>1, <1>3, <1>4, <1>5, <1>13, <2>2, CommandDoes DEF ChipsAt, Waits, Taken
<1>14. CASE n = 7
  <2>0. out[1] = Script(irq_mask)[8]
    BY <1>2, <1>14
  <2>1. out[1] = Write("PIC2+1", {3, 5})
    BY <1>1, <2>0, ScriptWrites
  <2>2. slave' = Data(slave, {3, 5}) /\ master' = master
    BY <1>4, <1>5, <2>1, OutbDoes
  <2> QED
    BY <1>1, <1>3, <1>4, <1>5, <1>14, <2>2, DataDoes DEF ChipsAt, Waits, Taken
<1>15. CASE n = 8
  <2>0. out[1] = Script(irq_mask)[9]
    BY <1>2, <1>15
  <2>1. out[1] = Write("PIC2+1", {1})
    BY <1>1, <2>0, ScriptWrites
  <2>2. slave' = Data(slave, {1}) /\ master' = master
    BY <1>4, <1>5, <2>1, OutbDoes
  <2> QED
    BY <1>1, <1>3, <1>4, <1>5, <1>15, <2>2, DataDoes DEF ChipsAt, Waits, Taken
<1>16. CASE n = 9
  <2>0. out[1] = Script(irq_mask)[10]
    BY <1>2, <1>16
  <2>1. out[1] = Write("PIC2+1", {0, 1})
    BY <1>1, <2>0, ScriptWrites
  <2>2. slave' = Data(slave, {0, 1}) /\ master' = master
    BY <1>4, <1>5, <2>1, OutbDoes
  <2> QED
    BY <1>1, <1>3, <1>4, <1>5, <1>16, <2>2, DataDoes, LastWordDoes DEF ChipsAt, Waits, Taken
<1>17. CASE n = 10
  <2>0. out[1] = Script(irq_mask)[11]
    BY <1>2, <1>17
  <2>1. out[1] = Write("PIC1", {3, 5, 6})
    BY <1>1, <2>0, ScriptWrites
  <2>2. master' = Command(master, {3, 5, 6}) /\ slave' = slave
    BY <1>4, <1>5, <2>1, OutbDoes
  <2> QED
    BY <1>1, <1>3, <1>4, <1>5, <1>17, <2>2, CommandDoes DEF ChipsAt, Waits, Taken
<1>18. CASE n = 11
  <2>0. out[1] = Script(irq_mask)[12]
    BY <1>2, <1>18
  <2>1. out[1] = Write("PIC1", {1, 3})
    BY <1>1, <2>0, ScriptWrites
  <2>2. master' = Command(master, {1, 3}) /\ slave' = slave
    BY <1>4, <1>5, <2>1, OutbDoes
  <2> QED
    BY <1>1, <1>3, <1>4, <1>5, <1>18, <2>2, CommandDoes DEF ChipsAt, Waits, Taken
<1>19. CASE n = 12
  <2>0. out[1] = Script(irq_mask)[13]
    BY <1>2, <1>19
  <2>1. out[1] = Write("PIC2", {3, 5, 6})
    BY <1>1, <2>0, ScriptWrites
  <2>2. slave' = Command(slave, {3, 5, 6}) /\ master' = master
    BY <1>4, <1>5, <2>1, OutbDoes
  <2> QED
    BY <1>1, <1>3, <1>4, <1>5, <1>19, <2>2, CommandDoes DEF ChipsAt, Waits, Taken
<1>20. CASE n = 13
  <2>0. out[1] = Script(irq_mask)[14]
    BY <1>2, <1>20
  <2>1. out[1] = Write("PIC2", {1, 3})
    BY <1>1, <2>0, ScriptWrites
  <2>2. slave' = Command(slave, {1, 3}) /\ master' = master
    BY <1>4, <1>5, <2>1, OutbDoes
  <2> QED
    BY <1>1, <1>3, <1>4, <1>5, <1>20, <2>2, CommandDoes DEF ChipsAt, Waits, Taken
<1>21. CASE n = 14
  <2>0. out[1] = Script(irq_mask)[15]
    BY <1>2, <1>21
  <2>1. out[1] = Write("PIC1+1", Low(irq_mask))
    BY <1>1, <2>0, ScriptWrites
  <2>2. master' = Data(master, Low(irq_mask)) /\ slave' = slave
    BY <1>4, <1>5, <2>1, OutbDoes
  <2> QED
    BY <1>1, <1>3, <1>4, <1>5, <1>21, <2>2, DataDoes DEF ChipsAt, Waits, Taken
<1>22. CASE n = 15
  <2>0. out[1] = Script(irq_mask)[16]
    BY <1>2, <1>22
  <2>1. out[1] = Write("PIC2+1", High(irq_mask))
    BY <1>1, <2>0, ScriptWrites
  <2>2. slave' = Data(slave, High(irq_mask)) /\ master' = master
    BY <1>4, <1>5, <2>1, OutbDoes
  <2> QED
    BY <1>1, <1>3, <1>4, <1>5, <1>22, <2>2, DataDoes DEF ChipsAt, Waits, Taken
<1> QED
  BY <1>7, <1>8, <1>9, <1>10, <1>11, <1>12, <1>13, <1>14, <1>15, <1>16, <1>17, <1>18, <1>19, <1>20, <1>21, <1>22

(* The controllers begin within the invariant. *)
LEMMA PicInitInv == PicInit => PicInv
<1> SUFFICES ASSUME PicInit PROVE PicInv
  OBVIOUS
<1>1. \A m \in BiosMasks :
         /\ BiosChip(m, {3}, {IRQ_SLAVE}) \in Chip /\ BiosChip(m, {3}, {IRQ_SLAVE}).icw = "none"
         /\ BiosChip(m, {4, 5, 6}, {1}) \in Chip /\ BiosChip(m, {4, 5, 6}, {1}).icw = "none"
  BY PicAssumption DEF BiosChip, Chip, Bit, IRQ_SLAVE
<1>2. master \in Chip /\ master.icw = "none" /\ slave \in Chip /\ slave.icw = "none"
  BY <1>1 DEF PicInit
<1>3. /\ irq_mask = InitialMask /\ out = << >> /\ phase = "before" /\ enabled = {}
      /\ did_init \in BOOLEAN
  BY PicAssumption DEF PicInit
<1>4. out \in Seq([port : {"PIC1", "PIC1+1", "PIC2", "PIC2+1"}, byte : SUBSET Bit])
  BY <1>3
<1>5. irq_mask = InitialMask \ enabled /\ irq_mask \subseteq Lines
  BY <1>3 DEF InitialMask
<1> QED
  BY <1>2, <1>3, <1>4, <1>5 DEF PicInv, PicTypeOK, Settled

(* The cascade line is open in irq_mask. *)
LEMMA MaskFacts == PicInv => /\ irq_mask \in SUBSET Lines /\ irq_mask # Lines /\ IRQ_SLAVE \notin irq_mask
                             /\ enabled \in SUBSET Lines /\ master \in Chip /\ slave \in Chip
<1> SUFFICES ASSUME PicInv
             PROVE  /\ irq_mask \in SUBSET Lines /\ irq_mask # Lines /\ IRQ_SLAVE \notin irq_mask
                    /\ enabled \in SUBSET Lines /\ master \in Chip /\ slave \in Chip
  OBVIOUS
<1>1. IRQ_SLAVE \in Lines /\ IRQ_SLAVE \notin irq_mask
  BY DEF PicInv, InitialMask, Lines, IRQ_SLAVE
<1>2. irq_mask # Lines
  BY <1>1
<1> QED
  BY <1>1, <1>2 DEF PicInv, PicTypeOK

(* pic_enable keeps the invariant. *)
LEMMA EnableInv == ASSUME PicInv, NEW irq \in Drivers, pic_enable(irq) PROVE PicInv'
<1>1. /\ irq_mask' = irq_mask \ {irq} /\ out' = (IF did_init THEN MaskWrites(irq_mask \ {irq}) ELSE << >>)
      /\ out = << >> /\ enabled' = enabled \cup {irq} /\ UNCHANGED <<did_init, master, slave, phase>>
  BY DEF pic_enable, pic_setmask
<1>2. irq \in Lines
  BY PicAssumption
<1>3. irq_mask' \in SUBSET Lines /\ enabled' \in SUBSET Lines /\ irq_mask' = InitialMask \ enabled'
  BY <1>1, <1>2, MaskFacts DEF PicInv
<1>4. out' = IF did_init THEN MaskWrites(irq_mask') ELSE << >>
  BY <1>1
<1>5. MaskWrites(irq_mask') \in Seq(PortWrite) /\ Len(MaskWrites(irq_mask')) = 2
  BY <1>3, MaskWritesAre
<1>6. out' \in Seq(PortWrite)
  BY <1>4, <1>5
<1>7. PicTypeOK'
  BY <1>1, <1>3, <1>6 DEF PicInv, PicTypeOK, PortWrite
<1>8. phase # "init"
  <2>1. ASSUME NEW n \in 0..15, Programming(n) PROVE FALSE
    BY <1>1, <2>1 DEF Programming, LeftAt
  <2> QED
    BY <2>1 DEF PicInv
<1>9. Settled'
  BY <1>1, <1>4, <1>8 DEF PicInv, Settled, MaskWrites
<1>10. phase = "ready" => (did_init /\ Programmed /\ Opened)'
  <2> SUFFICES ASSUME phase = "ready" PROVE (did_init /\ Programmed /\ Opened)'
    OBVIOUS
  <2>1. did_init /\ Programmed /\ Opened
    BY DEF PicInv
  <2>2. out' = MaskWrites(irq_mask') /\ out' # << >>
    <3>1. out' = MaskWrites(irq_mask')
      BY <1>4, <2>1
    <3>2. MaskWrites(irq_mask') # << >>
      BY <1>5
    <3> QED
      BY <3>1, <3>2
  <2>3. Programmed' /\ did_init'
    BY <1>1, <2>1 DEF Programmed
  <2>4. Low(irq_mask') \subseteq Low(irq_mask) /\ High(irq_mask') \subseteq High(irq_mask)
    BY <1>1 DEF Low, High
  <2>5. Low(irq_mask') \subseteq master'.imr /\ High(irq_mask') \subseteq slave'.imr /\ IRQ_SLAVE \notin master'.imr
    BY <1>1, <2>1, <2>4 DEF Opened
  <2>6. Opened'
    BY <2>2, <2>5 DEF Opened
  <2> QED
    BY <2>3, <2>6
<1> QED
  BY <1>1, <1>3, <1>7, <1>8, <1>9, <1>10 DEF PicInv

(* A call of pic_init keeps the invariant. *)
LEMMA InitCallInv == ASSUME PicInv, pic_init PROVE PicInv'
<1>1. /\ out = << >> /\ phase = "before" /\ did_init' = TRUE /\ phase' = "init"
      /\ out' = InitWrites \o (IF irq_mask # Lines THEN MaskWrites(irq_mask) ELSE << >>)
      /\ UNCHANGED <<irq_mask, master, slave, enabled>>
  BY DEF pic_init
<1>2. out' = Script(irq_mask) /\ irq_mask' = irq_mask
  BY <1>1, MaskFacts DEF Script
<1>3. Script(irq_mask) \in Seq(PortWrite) /\ Len(Script(irq_mask)) = 16
  BY MaskFacts, ScriptIs
<1>4. PicTypeOK'
  BY <1>1, <1>2, <1>3 DEF PicInv, PicTypeOK, PortWrite
<1>5. LeftAt(0)'
  <2>1. Len(out') = 16 /\ \A j \in 1..16 : out'[j] = Script(irq_mask')[0 + j]
    BY <1>2, <1>3
  <2> QED
    BY <2>1 DEF LeftAt
<1>6. ChipsAt(0)'
  <2>1. master.icw = "none" /\ slave.icw = "none"
    BY <1>1 DEF PicInv, Settled
  <2> QED
    BY <1>1, <2>1 DEF ChipsAt, Waits, Taken
<1>7. \E n \in 0..15 : Programming(n)'
  BY <1>5, <1>6 DEF Programming
<1> QED
  BY <1>1, <1>4, <1>7 DEF PicInv

(* A write of pic_init. *)
LEMMA OutbInitInv == ASSUME PicInv, outb, phase = "init" PROVE PicInv'
<1>1. /\ PicTypeOK' /\ out # << >> /\ UNCHANGED <<irq_mask, did_init, enabled>>
      /\ out' = Tail(out) /\ phase' = IF Len(out) = 1 THEN "ready" ELSE phase
  BY OutbDoes DEF PicInv, outb
<1>2. /\ Len(out') = Len(out) - 1 /\ \A j \in 1..(Len(out) - 1) : out'[j] = out[j + 1]
      /\ out' \in Seq(PortWrite)
  BY <1>1, OutTyped DEF PicInv
<1>3. PICK n \in 0..15 : Programming(n)
  BY DEF PicInv
<1>4. ChipsAt(n + 1)'
  BY <1>3, ChipsProceed DEF PicInv
<1>5. Len(out) = 16 - n /\ \A j \in 1..(16 - n) : out[j] = Script(irq_mask)[n + j]
  BY <1>3 DEF Programming, LeftAt
<1>6. CASE n < 15
  <2>1. phase' = "init"
    BY <1>1, <1>5, <1>6
  <2>2. Len(out') = 16 - (n + 1) /\ irq_mask' = irq_mask
    BY <1>1, <1>2, <1>5
  <2>3. ASSUME NEW j \in 1..(16 - (n + 1)) PROVE out'[j] = Script(irq_mask)[(n + 1) + j]
    <3>1. out'[j] = out[j + 1] /\ j + 1 \in 1..(16 - n)
      BY <1>2, <1>5, <2>3
    <3>2. out[j + 1] = Script(irq_mask)[n + (j + 1)] /\ n + (j + 1) = (n + 1) + j
      BY <1>5, <3>1
    <3> QED
      BY <3>1, <3>2
  <2>4. LeftAt(n + 1)'
    BY <2>2, <2>3 DEF LeftAt
  <2>5. n + 1 \in 0..15 /\ Programming(n + 1)'
    BY <1>4, <1>6, <2>4 DEF Programming
  <2>6. \E m \in 0..15 : Programming(m)'
    BY <2>5
  <2> QED
    BY <1>1, <2>1, <2>6 DEF PicInv
<1>7. CASE n = 15
  <2>1. phase' = "ready" /\ Len(out') = 0
    BY <1>1, <1>2, <1>5, <1>7
  <2>2. out' = << >>
    BY <1>2, <2>1
  <2>3. /\ Waits(master', 3, 16) /\ Taken(master', 3, 16, {5}, {IRQ_SLAVE})
        /\ Waits(slave', 7, 16) /\ Taken(slave', 7, 16, {3, 5}, {1})
        /\ master'.imr = Low(irq_mask') /\ slave'.imr = High(irq_mask')
    <3>1. ChipsAt(16)'
      BY <1>4, <1>7
    <3> QED
      BY <3>1 DEF ChipsAt, Waits, Taken
  <2>4. Settled'
    BY <2>2, <2>3 DEF Settled, Waits
  <2>5. Programmed'
    BY <2>3 DEF Programmed, Taken
  <2>6. Opened'
    <3>1. IRQ_SLAVE \notin Low(irq_mask')
      BY <1>1, MaskFacts DEF Low
    <3> QED
      BY <2>3, <3>1 DEF Opened
  <2>7. did_init'
    BY <1>1 DEF PicInv
  <2> QED
    BY <1>1, <2>1, <2>4, <2>5, <2>6, <2>7 DEF PicInv
<1> QED
  BY <1>6, <1>7

(* A write of a new mask: afterwards, no line is masked that was not. *)
LEMMA OutbMaskInv ==
    ASSUME PicInv, outb, phase # "init"
    PROVE  PicInv' /\ (phase = "ready" => master'.imr \subseteq master.imr /\ slave'.imr \subseteq slave.imr)
<1>1. /\ PicTypeOK' /\ out # << >> /\ UNCHANGED <<irq_mask, did_init, enabled>>
      /\ out' = Tail(out) /\ phase' = phase
  BY OutbDoes DEF PicInv, outb
<1>2. /\ irq_mask \in SUBSET Lines /\ IRQ_SLAVE \notin irq_mask /\ master \in Chip /\ slave \in Chip
      /\ Low(irq_mask) \in SUBSET Bit /\ High(irq_mask) \in SUBSET Bit
  BY MaskFacts, MaskBytes
<1>3. Settled /\ (phase = "ready" => did_init /\ Programmed /\ Opened)
  BY DEF PicInv
<1>4. /\ Len(MaskWrites(irq_mask)) = 2 /\ Tail(MaskWrites(irq_mask)) = MaskLeft
      /\ MaskWrites(irq_mask)[1] = Write("PIC1+1", Low(irq_mask))
  BY <1>2, MaskWritesAre DEF MaskLeft
<1>5. Len(MaskLeft) = 1 /\ Tail(MaskLeft) = << >> /\ MaskLeft[1] = Write("PIC2+1", High(irq_mask))
  BY DEF MaskLeft
<1>6. MaskWrites(irq_mask)' = MaskWrites(irq_mask) /\ MaskLeft' = MaskLeft
      /\ Low(irq_mask)' = Low(irq_mask) /\ High(irq_mask)' = High(irq_mask)
  BY <1>1 DEF MaskLeft
<1>7. CASE out = MaskWrites(irq_mask)
  <2>1. master' = Data(master, Low(irq_mask)) /\ slave' = slave /\ out' = MaskLeft
    BY <1>1, <1>2, <1>4, <1>7, OutbDoes DEF PicInv
  <2>2. /\ master'.imr = Low(irq_mask) /\ master'.icw = "none" /\ master'.base = master.base
        /\ master'.wiring = master.wiring /\ master'.aeoi = master.aeoi /\ master'.x86 = master.x86
    BY <1>2, <1>3, <2>1, DataDoes DEF Settled
  <2>3. out' # MaskWrites(irq_mask) /\ out' # << >>
    BY <1>4, <1>5, <2>1
  <2>4. Settled'
    BY <1>3, <1>6, <2>1, <2>2 DEF Settled
  <2>5. ASSUME phase = "ready"
        PROVE  (did_init /\ Programmed /\ Opened)' /\ master'.imr \subseteq master.imr /\ slave'.imr \subseteq slave.imr
    <3>1. Programmed' /\ did_init'
      BY <1>1, <1>3, <2>1, <2>2, <2>5 DEF Programmed
    <3>2. IRQ_SLAVE \notin Low(irq_mask) /\ High(irq_mask) \subseteq slave'.imr /\ Low(irq_mask) \subseteq master.imr
      BY <1>2, <1>3, <2>1, <2>5 DEF Opened, Low
    <3>3. Opened'
      BY <1>6, <2>2, <2>3, <3>2 DEF Opened
    <3> QED
      BY <2>1, <2>2, <3>1, <3>2, <3>3
  <2> QED
    BY <1>1, <2>4, <2>5 DEF PicInv
<1>8. CASE out = MaskLeft
  <2>1. slave' = Data(slave, High(irq_mask)) /\ master' = master /\ out' = << >>
    BY <1>1, <1>2, <1>5, <1>8, OutbDoes DEF PicInv
  <2>2. /\ slave'.imr = High(irq_mask) /\ slave'.icw = "none" /\ slave'.base = slave.base
        /\ slave'.wiring = slave.wiring /\ slave'.aeoi = slave.aeoi /\ slave'.x86 = slave.x86
    BY <1>2, <1>3, <2>1, DataDoes DEF Settled
  <2>3. out # MaskWrites(irq_mask)
    BY <1>4, <1>5, <1>8
  <2>4. Settled'
    BY <1>3, <2>1, <2>2 DEF Settled
  <2>5. ASSUME phase = "ready"
        PROVE  (did_init /\ Programmed /\ Opened)' /\ master'.imr \subseteq master.imr /\ slave'.imr \subseteq slave.imr
    <3>1. Programmed' /\ did_init'
      BY <1>1, <1>3, <2>1, <2>2, <2>5 DEF Programmed
    <3>2. IRQ_SLAVE \notin master.imr /\ master.imr = Low(irq_mask) /\ High(irq_mask) \subseteq slave.imr
      BY <1>3, <2>3, <2>5 DEF Opened
    <3>3. Opened'
      BY <1>6, <2>1, <2>2, <3>2 DEF Opened
    <3> QED
      BY <2>1, <2>2, <3>1, <3>2, <3>3
  <2> QED
    BY <1>1, <2>4, <2>5 DEF PicInv
<1> QED
  BY <1>1, <1>3, <1>7, <1>8 DEF Settled

(* Every step of the controllers keeps the invariant. *)
LEMMA PicStepInv == PicInv /\ [PicNext]_picVars => PicInv'
<1> SUFFICES ASSUME PicInv, [PicNext]_picVars PROVE PicInv'
  OBVIOUS
<1>1. CASE \E irq \in Drivers : pic_enable(irq)
  BY <1>1, EnableInv
<1>2. CASE pic_init
  BY <1>2, InitCallInv
<1>3. CASE outb
  BY <1>3, OutbInitInv, OutbMaskInv
<1>4. CASE UNCHANGED picVars
  BY <1>4 DEF picVars, PicInv, PicTypeOK, Settled, MaskLeft, Programming, LeftAt, ChipsAt, Programmed, Opened
<1> QED
  BY <1>1, <1>2, <1>3, <1>4 DEF PicNext

(* The invariant always holds. *)
LEMMA PicInvariant == PicSpec => []PicInv
BY PicInitInv, PicStepInv, PTL DEF PicSpec

-----------------------------------------------------------------------------
(* Each port write is a byte, whichever lines are enabled. *)
THEOREM PicTyped == PicSpec => []PicTypeOK
<1>1. PicInv => PicTypeOK
  BY DEF PicInv
<1> QED
  BY <1>1, PicInvariant, PTL

(* Whatever lines the drivers enable, before pic_init or after it, whatever the
   BIOS left in the chips and whatever did_init held: between the calls exactly
   the enabled lines are open. *)
THEOREM EnabledExactly == PicSpec => []ExactlyEnabled
<1>1. PicInv => ExactlyEnabled
  <2> SUFFICES ASSUME PicInv, phase = "ready", out = << >> PROVE OpenLines = enabled \ {IRQ_SLAVE}
    BY DEF ExactlyEnabled, Ready
  <2>1. /\ master.imr = Low(irq_mask) /\ slave.imr = High(irq_mask) /\ IRQ_SLAVE \notin master.imr
    <3>1. out # MaskWrites(irq_mask)
      BY MaskFacts, MaskWritesAre
    <3> QED
      BY <3>1 DEF PicInv, Opened
  <2>2. irq_mask = (Lines \ {IRQ_SLAVE}) \ enabled /\ enabled \in SUBSET Lines
    BY MaskFacts DEF PicInv, InitialMask
  <2>3. Bit \ (master.imr \cup {IRQ_SLAVE}) = {b \in Bit : b \in enabled /\ b # IRQ_SLAVE}
    BY <2>1, <2>2 DEF Low, Bit, Lines
  <2>4. ASSUME NEW b \in 8..15 PROVE b - 8 \notin slave.imr <=> b \in enabled
    <3>1. b - 8 \in Bit /\ (b - 8) + 8 = b
      BY <2>4 DEF Bit
    <3>2. b - 8 \in High(irq_mask) <=> b \in irq_mask
      BY <3>1 DEF High
    <3>3. b \in Lines /\ b # IRQ_SLAVE
      BY <2>4 DEF Lines, IRQ_SLAVE
    <3> QED
      BY <2>1, <2>2, <3>2, <3>3
  <2>5. OpenLines = {b \in Bit : b \in enabled /\ b # IRQ_SLAVE} \cup {b \in 8..15 : b \in enabled}
    BY <2>1, <2>3, <2>4 DEF OpenLines
  <2>6. Lines = Bit \cup 8..15 /\ IRQ_SLAVE \notin 8..15
    BY DEF Lines, Bit, IRQ_SLAVE
  <2> QED
    BY <2>2, <2>5, <2>6
<1> QED
  BY <1>1, PicInvariant, PTL

(* Both chips take all their initialisation words, although drivers may have
   written masks to them before. *)
THEOREM Initialised == PicSpec => []ChipsProgrammed
<1>1. PicInv => ChipsProgrammed
  BY DEF PicInv, Settled, Programmed, ChipsProgrammed, Ready
<1> QED
  BY <1>1, PicInvariant, PTL

(* After pic_init no write closes a line, not even the first of the two that
   carry a new mask. *)
THEOREM NeverCloses == PicSpec => EnableOnlyOpens
<1>1. PicInv /\ [PicNext]_picVars => [phase = "ready" => OpenLines \subseteq OpenLines']_picVars
  <2> SUFFICES ASSUME PicInv, PicNext, phase = "ready" PROVE OpenLines \subseteq OpenLines'
    BY DEF PicNext
  <2>1. master'.imr \subseteq master.imr /\ slave'.imr \subseteq slave.imr
    <3>1. CASE \E irq \in Drivers : pic_enable(irq)
      BY <3>1 DEF pic_enable
    <3>2. CASE outb
      BY <3>2, OutbMaskInv
    <3> QED
      BY <3>1, <3>2 DEF PicNext, pic_init
  <2> QED
    BY <2>1 DEF OpenLines
<1> QED
  BY <1>1, PicInvariant, PTL DEF PicSpec, EnableOnlyOpens

-----------------------------------------------------------------------------
(* The console. *)

N == CONSBUFSIZE

(* The buffer has two slots or more. *)
LEMMA SizeType == N \in Nat /\ N >= 2
  BY ConsoleAssumption DEF N

(* A cursor that steps stays inside the buffer. *)
LEMMA AfterInside == \A p \in 0..(N - 1) : After(p) \in 0..(N - 1)
  BY SizeType DEF After, N

(* The initial states satisfy the type invariant. *)
LEMMA InitTypeOK == Init => TypeOK
<1> SUFFICES ASSUME Init PROVE TypeOK
  OBVIOUS
<1>1. 0 \in 0..(N - 1) /\ 0 \in Byte
  BY SizeType DEF Byte
<1>2. irq_mask \subseteq Lines
  BY DEF Init, PicInit, InitialMask
<1> QED
  BY <1>1, <1>2 DEF Init, Zeroed, TypeOK, N

(* Putting a character keeps the buffer's part of the type invariant. *)
LEMMA PutType ==
    ASSUME TypeOK, NEW c \in Byte, cons_put(c)
    PROVE  buf' \in [0..(N - 1) -> Byte] /\ wpos' \in 0..(N - 1)
<1>1. CASE c # 0
  <2>1. buf' = [buf EXCEPT ![wpos] = c] /\ wpos' = After(wpos)
    BY <1>1 DEF cons_put
  <2> QED
    BY <2>1, AfterInside DEF TypeOK, N
<1>2. CASE c = 0
  BY <1>2 DEF cons_put, TypeOK, N
<1> QED
  BY <1>1, <1>2

(* Enabling a line keeps irq_mask a set of lines. *)
LEMMA EnableType ==
    ASSUME irq_mask \subseteq Lines, NEW irq, pic_enable(irq)
    PROVE  irq_mask' \subseteq Lines
  BY DEF pic_enable, pic_setmask

(* Every step keeps the type invariant. *)
LEMMA StepTypeOK == TypeOK /\ [ConsoleNext]_vars => TypeOK'
<1> SUFFICES ASSUME TypeOK, [ConsoleNext]_vars PROVE TypeOK'
  OBVIOUS
<1>1. CASE SerialArrive
  BY <1>1 DEF SerialArrive, TypeOK, picVars
<1>2. CASE KbdArrive
  BY <1>2 DEF KbdArrive, TypeOK, picVars
<1>3. CASE serial_init
  <2>1. irq_mask' \subseteq Lines
    BY <1>3, EnableType DEF serial_init, TypeOK, picVars
  <2> QED
    BY <1>3, <2>1 DEF serial_init, TypeOK
<1>4. CASE kbd_init
  <2>1. irq_mask' \subseteq Lines
    BY <1>4, EnableType DEF kbd_init, TypeOK
  <2> QED
    BY <1>4, <2>1 DEF kbd_init, TypeOK
<1>5. CASE Call("cons_getc") \/ Call("getchar")
  BY <1>5 DEF Call, TypeOK, picVars
<1>6. CASE serial_intr
  <2> DEFINE c == IF rx = 127 THEN 8 ELSE rx
  <2>1. c \in Byte
    BY <1>6, ConsoleAssumption DEF serial_intr, TypeOK, NoByte, Byte
  <2>2. cons_put(c)
    BY <1>6 DEF serial_intr
  <2> HIDE DEF c
  <2>3. buf' \in [0..(N - 1) -> Byte] /\ wpos' \in 0..(N - 1)
    BY <2>1, <2>2, PutType
  <2> QED
    BY <1>6, <2>3 DEF serial_intr, TypeOK, picVars, N
<1>7. CASE serial_intr_ends
  BY <1>7 DEF serial_intr_ends, TypeOK, picVars
<1>8. CASE kbd_intr
  <2> DEFINE r == kbd_proc_data(shift, ob)
  <2>1. ob \in Byte
    BY <1>8, ConsoleAssumption DEF kbd_intr, TypeOK, NoByte
  <2>2. r.shift \subseteq Flags /\ r.c \in Byte
    BY <2>1, KeyIsByte DEF TypeOK
  <2>3. /\ shift' = r.shift
        /\ \/ pc' = "reset" /\ UNCHANGED <<buf, wpos>>
           \/ cons_put(r.c) /\ UNCHANGED pc
        /\ ob' = NoByte
        /\ UNCHANGED <<rpos, serial_exists, uart, rx, call, ret, picVars>>
    BY <1>8 DEF kbd_intr
  <2> HIDE DEF r
  <2>4. buf' \in [0..(N - 1) -> Byte] /\ wpos' \in 0..(N - 1)
    BY <2>2, <2>3, PutType DEF TypeOK, N
  <2> QED
    BY <2>2, <2>3, <2>4 DEF TypeOK, picVars, N
<1>9. CASE kbd_intr_ends
  BY <1>9 DEF kbd_intr_ends, TypeOK, picVars
<1>10. CASE grab
  <2>1. rpos' \in 0..(N - 1)
    BY <1>10, AfterInside DEF grab, TypeOK, N
  <2>2. ret' \in Byte
    BY <1>10 DEF grab, TypeOK
  <2> QED
    BY <1>10, <2>1, <2>2 DEF grab, TypeOK, picVars, N
<1>11. CASE grab_nothing
  <2>1. 0 \in Byte
    BY DEF Byte
  <2> QED
    BY <1>11, <2>1 DEF grab_nothing, TypeOK, picVars
<1>12. CASE Restart
  <2>1. 0 \in 0..(N - 1) /\ 0 \in Byte
    BY SizeType DEF Byte
  <2> QED
    BY <1>12, <2>1 DEF Restart, Zeroed, TypeOK, InitialMask, N
<1>13. CASE UNCHANGED vars
  BY <1>13 DEF vars, consVars, picVars, TypeOK
<1> QED
  BY <1>1, <1>2, <1>3, <1>4, <1>5, <1>6, <1>7, <1>8, <1>9, <1>10, <1>11, <1>12, <1>13
     DEF ConsoleNext, Kernel

(* Type correctness: in every reachable state both cursors are inside the
   buffer, every slot holds a byte, and what cons_getc returned is a byte. *)
THEOREM TypeCorrect == Spec => []TypeOK
<1>1. Init => TypeOK
  BY InitTypeOK
<1>2. TypeOK /\ [ConsoleNext]_vars => TypeOK'
  BY StepTypeOK
<1> QED
  BY <1>1, <1>2, PTL DEF Spec

-----------------------------------------------------------------------------
(* The devices' lines. *)

(* COM1's line is open exactly if the port answered: so once serial_init is done. *)
SerialKnown == ((IRQ_COM1 \notin irq_mask) <=> uart) /\ serial_exists = uart

DevicesInv ==
    /\ TypeOK
    /\ pc = "serial_init" => irq_mask = InitialMask
    /\ pc = "kbd_init" => SerialKnown
    /\ DevicesEnabled

(* A step that leaves the lines alone, and does not skip one of the inits. *)
LEMMA LinesKept ==
    ASSUME DevicesInv, TypeOK', UNCHANGED <<irq_mask, uart, serial_exists>>,
           pc' # pc => /\ pc \in {"caller", "serial_intr", "kbd_intr", "grab"}
                       /\ pc' \in {"caller", "serial_intr", "kbd_intr", "grab"}
                    \/ pc' = "reset"
    PROVE  DevicesInv'
  BY DEF DevicesInv, SerialKnown, DevicesEnabled, InitialMask

(* Console begins within the devices' invariant. *)
LEMMA DevicesInitInv == Init => DevicesInv
<1> SUFFICES ASSUME Init PROVE DevicesInv
  OBVIOUS
<1>1. TypeOK
  BY InitTypeOK
<1> QED
  BY <1>1 DEF Init, PicInit, DevicesInv, DevicesEnabled

(* Every step of Console keeps the devices' invariant. *)
LEMMA DevicesStepInv == DevicesInv /\ [ConsoleNext]_vars => DevicesInv'
<1> SUFFICES ASSUME DevicesInv, [ConsoleNext]_vars PROVE DevicesInv'
  OBVIOUS
<1>1. TypeOK'
  BY StepTypeOK DEF DevicesInv
<1>2. CASE SerialArrive \/ KbdArrive
  BY <1>1, <1>2, LinesKept DEF SerialArrive, KbdArrive, picVars
<1>3. CASE serial_init
  <2>1. pc = "serial_init" /\ pc' = "kbd_init" /\ serial_exists' = uart /\ uart' = uart /\ uart \in BOOLEAN
    BY <1>3 DEF serial_init, DevicesInv, TypeOK
  <2>2. IRQ_COM1 \in irq_mask
    BY <2>1 DEF DevicesInv, InitialMask, Lines, IRQ_COM1, IRQ_SLAVE
  <2>3. CASE uart
    <3>1. irq_mask' = irq_mask \ {IRQ_COM1}
      BY <1>3, <2>3 DEF serial_init, pic_enable, pic_setmask
    <3>2. SerialKnown'
      BY <2>1, <2>3, <3>1 DEF SerialKnown
    <3> QED
      BY <1>1, <2>1, <3>2 DEF DevicesInv, DevicesEnabled
  <2>4. CASE ~uart
    <3>1. irq_mask' = irq_mask
      BY <1>3, <2>4 DEF serial_init, picVars
    <3>2. SerialKnown'
      BY <2>1, <2>2, <2>4, <3>1 DEF SerialKnown
    <3> QED
      BY <1>1, <2>1, <3>2 DEF DevicesInv, DevicesEnabled
  <2> QED
    BY <2>3, <2>4
<1>4. CASE kbd_init
  <2>1. /\ pc = "kbd_init" /\ pc' = "caller" /\ irq_mask' = irq_mask \ {IRQ_KBD}
        /\ serial_exists' = serial_exists /\ uart' = uart
    BY <1>4 DEF kbd_init, pic_enable, pic_setmask
  <2>2. SerialKnown
    BY <2>1 DEF DevicesInv
  <2>3. IRQ_KBD # IRQ_COM1
    BY DEF IRQ_KBD, IRQ_COM1
  <2>4. DevicesEnabled'
    BY <2>1, <2>2, <2>3 DEF SerialKnown, DevicesEnabled
  <2> QED
    BY <1>1, <2>1, <2>4 DEF DevicesInv
<1>5. CASE kbd_intr
  <2>1. (pc' = "reset" \/ pc' = pc) /\ UNCHANGED <<irq_mask, uart, serial_exists>>
    BY <1>5 DEF kbd_intr, picVars
  <2> QED
    BY <1>1, <2>1, LinesKept
<1>6. CASE Call("cons_getc") \/ Call("getchar") \/ serial_intr_ends \/ kbd_intr_ends
  BY <1>1, <1>6, LinesKept DEF Call, serial_intr_ends, kbd_intr_ends, picVars
<1>7. CASE serial_intr
  BY <1>1, <1>7, LinesKept DEF serial_intr, picVars
<1>8. CASE grab \/ grab_nothing
  BY <1>1, <1>8, LinesKept DEF grab, grab_nothing, picVars
<1>9. CASE Restart
  <2>1. pc' = "serial_init" /\ irq_mask' = InitialMask
    BY <1>9 DEF Restart
  <2> QED
    BY <1>1, <2>1 DEF DevicesInv, DevicesEnabled
<1>10. CASE UNCHANGED vars
  BY <1>1, <1>10, LinesKept DEF vars, consVars, picVars
<1> QED
  BY <1>2, <1>3, <1>4, <1>5, <1>6, <1>7, <1>8, <1>9, <1>10 DEF ConsoleNext, Kernel

(* From the end of cons_init on, through every reboot, COM1 is open and polled
   exactly when it answered, and the keyboard's line is open. *)
THEOREM DevicesStayEnabled == Spec => []DevicesEnabled
<1>1. DevicesInv => DevicesEnabled
  BY DEF DevicesInv
<1> QED
  BY <1>1, DevicesInitInv, DevicesStepInv, PTL DEF Spec

-----------------------------------------------------------------------------
(* The refinement: the characters between the cursors are the queue. *)

(* The buffer holds at most N - 1 characters, and what waits is a sequence of bytes. *)
LEMMA CountType == TypeOK => Count \in 0..(N - 1) /\ Pending \in Seq(Byte) /\ Len(Pending) = Count
<1> SUFFICES ASSUME TypeOK
             PROVE  Count \in 0..(N - 1) /\ Pending \in Seq(Byte) /\ Len(Pending) = Count
  OBVIOUS
<1>1. Count \in 0..(N - 1)
  BY SizeType DEF TypeOK, Count, N
<1>2. \A k \in 1..Count : Slot(k) \in 0..(N - 1)
  BY SizeType DEF TypeOK, Count, Slot, N
<1>3. \A k \in 1..Count : buf[Slot(k)] \in Byte
  BY <1>2 DEF TypeOK, N
<1> QED
  BY <1>1, <1>3 DEF Pending

(* The buffer has nothing to give exactly when the cursors meet. *)
LEMMA EmptyMeets == TypeOK => (Pending = << >> <=> rpos = wpos)
<1> SUFFICES ASSUME TypeOK PROVE Pending = << >> <=> rpos = wpos
  OBVIOUS
<1>1. Count = 0 <=> rpos = wpos
  BY SizeType DEF TypeOK, Count, N
<1> QED
  BY <1>1, CountType

(* A sequence with one more element at its end is an Append. *)
LEMMA AppendIs ==
    ASSUME NEW S, NEW s \in Seq(S), NEW c \in S, NEW t \in Seq(S), Len(t) = Len(s) + 1,
           \A k \in 1..Len(s) : t[k] = s[k], t[Len(s) + 1] = c
    PROVE  t = Append(s, c)
  BY AppendProperties, SeqEqual

(* A sequence with its first element gone is a Tail. *)
LEMMA TailIs ==
    ASSUME NEW S, NEW s \in Seq(S), s # << >>, NEW t \in Seq(S), Len(t) = Len(s) - 1,
           \A k \in 1..(Len(s) - 1) : t[k] = s[k + 1]
    PROVE  t = Tail(s)
  BY HeadTailProperties, SeqEqual

(* Putting a character appends it, or finds the buffer full and empties it. *)
LEMMA PutFeeds ==
    ASSUME TypeOK, NEW c \in Byte, c # 0, cons_put(c), rpos' = rpos
    PROVE  \/ Len(Pending) < N - 1 /\ Pending' = Append(Pending, c)
           \/ Len(Pending) = N - 1 /\ Pending' = << >>
<1>1. /\ buf' = [buf EXCEPT ![wpos] = c]
      /\ wpos' = After(wpos)
      /\ rpos' = rpos
  BY DEF cons_put
<1>2. /\ rpos \in 0..(N - 1) /\ wpos \in 0..(N - 1)
      /\ buf \in [0..(N - 1) -> Byte]
  BY DEF TypeOK, N
<1>3. Count \in 0..(N - 1) /\ Pending \in Seq(Byte) /\ Len(Pending) = Count
  BY CountType
<1>4. CASE Count = N - 1
  <2>1. wpos' = rpos
    BY <1>1, <1>2, <1>4, SizeType DEF Count, After, N
  <2>2. Count' = 0
    BY <1>1, <1>2, <2>1, SizeType DEF Count, N
  <2> QED
    BY <1>3, <1>4, <2>2 DEF Pending
<1>5. CASE Count < N - 1
  <2>1. Count' = Count + 1
    BY <1>1, <1>2, <1>5, SizeType DEF Count, After, N
  <2>2. \A k \in 1..Count : Slot(k)' = Slot(k) /\ Slot(k) \in 0..(N - 1) /\ Slot(k) # wpos
    BY <1>1, <1>2, <1>5, SizeType DEF Count, Slot, N
  <2>3. \A k \in 1..N : k = Count + 1 => Slot(k)' = wpos
    BY <1>1, <1>2, <1>5, SizeType DEF Count, Slot, N
  <2>4. \A k \in 1..Count : buf'[Slot(k)'] = buf[Slot(k)]
    BY <1>1, <1>2, <2>2
  <2>5. \A k \in 1..N : k = Count + 1 => buf'[Slot(k)'] = c
    BY <1>1, <1>2, <2>3
  <2>6. Pending' = Append(Pending, c)
    <3>1. Pending' = [k \in 1..(Count + 1) |-> buf'[Slot(k)']]
      BY <2>1 DEF Pending
    <3>2. Count + 1 \in 1..N
      BY <1>5, <1>3, SizeType
    <3>3. \A k \in 1..Count : Pending'[k] = Pending[k]
      <4>1. \A k \in 1..Count : Pending[k] = buf[Slot(k)]
        BY DEF Pending
      <4>2. \A k \in 1..Count : Pending'[k] = buf'[Slot(k)']
        BY <1>3, <3>1
      <4> QED
        BY <2>4, <4>1, <4>2
    <3>4. Pending'[Count + 1] = c
      BY <1>3, <2>5, <3>1, <3>2
    <3>5. Pending' \in Seq(Byte) /\ Len(Pending') = Count + 1
      BY <1>3, <3>1, <3>3, <3>4
    <3> QED
      BY <1>3, <3>3, <3>4, <3>5, AppendIs
  <2> QED
    BY <1>3, <1>5, <2>6
<1> QED
  BY <1>3, <1>4, <1>5, SizeType

(* Grabbing a character takes the head of the queue. *)
LEMMA GrabGets ==
    ASSUME TypeOK, grab
    PROVE  Pending # << >> /\ ret' = Head(Pending) /\ Pending' = Tail(Pending)
<1>1. rpos # wpos /\ ret' = buf[rpos] /\ rpos' = After(rpos) /\ UNCHANGED <<buf, wpos>>
  BY DEF grab
<1>2. /\ rpos \in 0..(N - 1) /\ wpos \in 0..(N - 1)
      /\ buf \in [0..(N - 1) -> Byte]
  BY DEF TypeOK, N
<1>3. Count \in 1..(N - 1) /\ Pending \in Seq(Byte) /\ Len(Pending) = Count
  BY <1>1, <1>2, CountType, SizeType DEF Count, N
<1>4. Count' = Count - 1
  BY <1>1, <1>2, SizeType DEF Count, After, N
<1>5. \A k \in 1..(Count - 1) : Slot(k)' = Slot(k + 1)
  BY <1>1, <1>2, <1>3, SizeType DEF Slot, After, Count, N
<1>6. Head(Pending) = buf[rpos]
  <2>1. Slot(1) = rpos
    BY <1>2, SizeType DEF Slot, N
  <2> QED
    BY <1>3, <2>1 DEF Pending
<1>7. Pending' = Tail(Pending)
  <2>1. Pending' = [k \in 1..(Count - 1) |-> buf[Slot(k + 1)]]
    BY <1>1, <1>4, <1>5 DEF Pending
  <2>2. \A k \in 1..(Count - 1) : Pending'[k] = Pending[k + 1]
    <3>1. \A k \in 1..Count : Pending[k] = buf[Slot(k)]
      BY DEF Pending
    <3>2. \A k \in 1..(Count - 1) : k + 1 \in 1..Count /\ Pending'[k] = buf[Slot(k + 1)]
      BY <1>3, <2>1
    <3> QED
      BY <3>1, <3>2
  <2>3. \A k \in 1..(Count - 1) : buf[Slot(k + 1)] \in Byte
    BY <1>2, <1>3, SizeType DEF Slot, N
  <2>4. Count - 1 \in Nat
    BY <1>3
  <2>5. Pending' \in Seq(Byte) /\ Len(Pending') = Count - 1
    BY <2>1, <2>3, <2>4
  <2> QED
    BY <1>3, <2>2, <2>5, TailIs
<1> QED
  BY <1>1, <1>3, <1>6, <1>7

(* Appending a character to what is pending is the queue's Feed. *)
LEMMA AppendFeeds ==
    ASSUME TypeOK, NEW c \in Byte, c # 0, Pending' = Append(Pending, c), ret' = ret,
           pc # "reset", pc' = pc
    PROVE  Queue!Feed
<1>1. Pending \in Seq(Byte) /\ Len(Pending) \in Nat
  BY CountType
<1>2. Len(Pending') = Len(Pending) + 1 /\ Pending'[Len(Pending')] = c
  BY <1>1
<1> QED
  BY <1>2 DEF Queue!Feed, Queue!Running

(* Asking for a reboot leaves the buffer alone. *)
LEMMA RebootSteps ==
    ASSUME pc # "reset", pc' = "reset", UNCHANGED <<buf, rpos, wpos, ret>>
    PROVE  Queue!Reboot
<1>1. UNCHANGED Count /\ UNCHANGED Pending
  BY DEF Count, Pending, Slot
<1> QED
  BY <1>1 DEF Queue!Reboot

(* What the abstract queue does, restated over Console's state. *)
LEMMA PutSteps ==
    ASSUME TypeOK, NEW c \in Byte, cons_put(c), rpos' = rpos, ret' = ret,
           pc # "reset", pc' = pc
    PROVE  [Queue!BoundedNext]_(Queue!queueVars)
<1>1. CASE c = 0
  <2>1. UNCHANGED Pending
    BY <1>1 DEF cons_put, Pending, Count, Slot
  <2> QED
    BY <2>1 DEF Queue!queueVars
<1>2. CASE c # 0
  <2>1. \/ Len(Pending) < N - 1 /\ Pending' = Append(Pending, c)
        \/ Len(Pending) = N - 1 /\ Pending' = << >>
    BY <1>2, PutFeeds
  <2>2. c \in Byte \ {0}
    BY <1>2
  <2>3. CASE Len(Pending) < N - 1 /\ Pending' = Append(Pending, c)
    BY <2>2, <2>3, AppendFeeds DEF Queue!BoundedNext, N
  <2>4. CASE Len(Pending) = N - 1 /\ Pending' = << >>
    BY <2>4 DEF Queue!BoundedNext, Queue!Overrun, Queue!Running, N
  <2> QED
    BY <2>1, <2>3, <2>4
<1> QED
  BY <1>1, <1>2

(* Every step of the kernel or of a device is a step of the queue or none. *)
LEMMA StepRefines == TypeOK /\ [ConsoleNext]_vars => [Queue!BoundedNext]_(Queue!queueVars)
<1> SUFFICES ASSUME TypeOK, [ConsoleNext]_vars
             PROVE  [Queue!BoundedNext]_(Queue!queueVars)
  OBVIOUS
<1>0. ASSUME UNCHANGED <<buf, rpos, wpos, ret>>, (pc = "reset")' = (pc = "reset")
      PROVE  [Queue!BoundedNext]_(Queue!queueVars)
  BY <1>0 DEF Queue!queueVars, Pending, Count, Slot
<1>1. CASE SerialArrive \/ KbdArrive
  BY <1>0, <1>1 DEF SerialArrive, KbdArrive
<1>2. CASE serial_init \/ kbd_init
  BY <1>0, <1>2 DEF serial_init, kbd_init
<1>3. CASE Call("cons_getc") \/ Call("getchar")
  BY <1>0, <1>3 DEF Call
<1>4. CASE serial_intr_ends \/ kbd_intr_ends
  BY <1>0, <1>4 DEF serial_intr_ends, kbd_intr_ends
<1>5. CASE serial_intr
  <2>1. (IF rx = 127 THEN 8 ELSE rx) \in Byte
    BY <1>5, ConsoleAssumption DEF serial_intr, TypeOK, NoByte, Byte
  <2> QED
    BY <1>5, <2>1, PutSteps DEF serial_intr
<1>6. CASE kbd_intr
  <2>1. kbd_proc_data(shift, ob).c \in Byte
    BY <1>6, ConsoleAssumption, KeyIsByte DEF kbd_intr, TypeOK, NoByte
  <2>2. rpos' = rpos /\ ret' = ret
    BY <1>6 DEF kbd_intr
  <2>3. CASE kbd_proc_data(shift, ob).reboot
    <3>1. pc # "reset" /\ pc' = "reset" /\ UNCHANGED <<buf, rpos, wpos, ret>>
      BY <1>6, <2>2, <2>3 DEF kbd_intr
    <3> QED
      BY <3>1, RebootSteps DEF Queue!BoundedNext
  <2>4. CASE ~kbd_proc_data(shift, ob).reboot
    BY <1>6, <2>1, <2>2, <2>4, PutSteps DEF kbd_intr
  <2> QED
    BY <2>3, <2>4
<1>7. CASE grab
  <2>1. pc # "reset" /\ pc' # "reset"
    BY <1>7 DEF grab
  <2> QED
    BY <1>7, <2>1, GrabGets DEF Queue!BoundedNext, Queue!Get, Queue!Running
<1>8. CASE grab_nothing
  <2>1. Pending = << >> /\ ret' = 0
    BY <1>8, EmptyMeets DEF grab_nothing
  <2>2. UNCHANGED Pending /\ pc # "reset" /\ pc' # "reset"
    BY <1>8 DEF grab_nothing, Pending, Count, Slot
  <2> QED
    BY <2>1, <2>2 DEF Queue!BoundedNext, Queue!Miss, Queue!Running
<1>9. CASE Restart
  <2>1. ret' = 0 /\ rpos' = wpos' /\ pc = "reset" /\ pc' # "reset"
    BY <1>9 DEF Restart
  <2>2. TypeOK'
    BY StepTypeOK
  <2>3. Pending' = << >>
    BY <1>9, <2>1 DEF Restart, Pending, Count
  <2> QED
    BY <2>1, <2>3 DEF Queue!BoundedNext, Queue!Restart
<1>10. CASE UNCHANGED vars
  BY <1>0, <1>10 DEF vars, consVars
<1> QED
  BY <1>1, <1>2, <1>3, <1>4, <1>5, <1>6, <1>7, <1>8, <1>9, <1>10 DEF ConsoleNext, Kernel

(* The circular buffer of 104console.c implements the bounded queue: cons_getc
   returns the characters of both devices in the order they were accepted, each
   once, and 0 only when none waits; nothing is lost but by the overrun. *)
THEOREM BufferImplementsQueue == Spec => BufferIsQueue
<1>1. Init => Queue!Init
  <2> SUFFICES ASSUME Init PROVE Queue!Init
    OBVIOUS
  <2>1. Count = 0 /\ ret = 0 /\ pc # "reset"
    BY DEF Init, Count
  <2>2. Pending = << >>
    BY <2>1 DEF Pending
  <2> QED
    BY <2>1, <2>2 DEF Queue!Init
<1>2. TypeOK /\ [ConsoleNext]_vars => [Queue!BoundedNext]_(Queue!queueVars)
  BY StepRefines
<1> QED
  BY <1>1, <1>2, TypeCorrect, PTL DEF Spec, BufferIsQueue, Queue!Spec

-----------------------------------------------------------------------------
(* Without an overrun: as long as no more bytes are outstanding than the buffer
   has room for, it is the plain queue. *)

Roomy   == Burst <= N - 1 /\ N >= 3
Bounded == Outstanding <= N - 1

(* A device register holds one byte at most. *)
LEMMA FullType == Full(rx) \in 0..1 /\ Full(ob) \in 0..1
  BY DEF Full

(* At first nothing waits but what the devices hold. *)
LEMMA InitBounded == Roomy /\ Init => Bounded
<1> SUFFICES ASSUME Roomy, Init PROVE Bounded
  OBVIOUS
<1>1. Count = 0
  BY DEF Init, Count
<1> QED
  BY <1>1, FullType, SizeType DEF Roomy, Bounded, Outstanding

(* A character moves from a device into the buffer: nothing more is outstanding,
   and there is room for it. *)
LEMMA PutBounded ==
    ASSUME TypeOK, NEW c \in Byte, cons_put(c), rpos' = rpos, Count <= N - 2
    PROVE  Count' <= Count + 1 /\ (c # 0 => Pending' = Append(Pending, c))
<1>1. CASE c = 0
  <2>1. Count' = Count /\ Count \in Nat
    BY <1>1, CountType, SizeType DEF cons_put, Count
  <2> QED
    BY <1>1, <2>1
<1>2. CASE c # 0
  <2>1. wpos' = After(wpos)
    BY <1>2 DEF cons_put
  <2>2. Count' <= Count + 1
    BY <2>1, SizeType DEF TypeOK, Count, After, N
  <2>3. Len(Pending) = Count /\ Count \in Nat
    BY CountType
  <2> QED
    BY <1>2, <2>2, <2>3, PutFeeds, SizeType
<1> QED
  BY <1>1, <1>2

(* CountType of the next state. *)
LEMMA NextCountType == TypeOK' => Count' \in 0..(N - 1)
<1> SUFFICES ASSUME TypeOK' PROVE Count' \in 0..(N - 1)
  OBVIOUS
<1>1. rpos' \in 0..(N - 1) /\ wpos' \in 0..(N - 1)
  BY DEF TypeOK, N
<1>2. Count' = IF wpos' >= rpos' THEN wpos' - rpos' ELSE wpos' + N - rpos'
  BY DEF Count, N
<1>3. \A r, w \in 0..(N - 1) : (IF w >= r THEN w - r ELSE w + N - r) \in 0..(N - 1)
  BY SizeType
<1> QED
  BY <1>1, <1>2, <1>3

(* While fewer bytes are outstanding than the buffer has slots, every step is one
   of the first-in first-out queue; where no more can ever be, it stays so. *)
LEMMA StepFifo ==
    TypeOK /\ Bounded /\ [ConsoleNext]_vars
        => (Roomy => Bounded') /\ [Queue!FifoNext]_(Queue!queueVars)
<1> SUFFICES ASSUME TypeOK, Bounded, [ConsoleNext]_vars
             PROVE  (Roomy => Bounded') /\ [Queue!FifoNext]_(Queue!queueVars)
  OBVIOUS
<1> USE FullType, CountType, SizeType
<1>a. /\ Full(rx)' \in 0..1 /\ Full(ob)' \in 0..1
      /\ Count \in 0..(N - 1) /\ Count' \in 0..(N - 1) /\ Burst \in Nat
  <2>1. Full(rx)' \in 0..1 /\ Full(ob)' \in 0..1
    BY DEF Full
  <2>2. TypeOK'
    BY StepTypeOK
  <2>3. Count' \in 0..(N - 1)
    BY <2>2, NextCountType
  <2> QED
    BY <2>1, <2>3, ConsoleAssumption
<1>0. ASSUME UNCHANGED <<buf, rpos, wpos, ret>>, (pc = "reset")' = (pc = "reset")
      PROVE  UNCHANGED Count /\ [Queue!FifoNext]_(Queue!queueVars)
  BY <1>0 DEF Queue!queueVars, Pending, Count, Slot
<1>1. CASE SerialArrive
  <2>1. Outstanding - Full(rx) < Burst /\ ob' = ob /\ UNCHANGED <<buf, rpos, wpos, ret, pc>>
    BY <1>1 DEF SerialArrive
  <2>2. Full(ob)' = Full(ob)
    BY <2>1 DEF Full
  <2> QED
    BY <1>a, <1>0, <2>1, <2>2 DEF Bounded, Outstanding, Roomy
<1>2. CASE KbdArrive
  <2>1. Outstanding < Burst /\ ob = NoByte /\ rx' = rx /\ UNCHANGED <<buf, rpos, wpos, ret, pc>>
    BY <1>2 DEF KbdArrive
  <2>2. Full(rx)' = Full(rx) /\ Full(ob) = 0
    BY <2>1 DEF Full
  <2> QED
    BY <1>a, <1>0, <2>1, <2>2 DEF Bounded, Outstanding, Roomy
<1>3. CASE serial_init
  <2>1. /\ Full(rx)' = 0 /\ Full(ob)' = Full(ob)
        /\ UNCHANGED <<buf, rpos, wpos, ret>> /\ pc # "reset" /\ pc' # "reset"
    BY <1>3 DEF serial_init, Full
  <2> QED
    BY <1>a, <1>0, <2>1 DEF Bounded, Outstanding
<1>4. CASE kbd_init \/ kbd_intr_ends \/ serial_intr_ends \/ Call("cons_getc") \/ Call("getchar")
           \/ UNCHANGED vars
  <2>1. UNCHANGED <<rx, ob, buf, rpos, wpos, ret>> /\ (pc = "reset")' = (pc = "reset")
    BY <1>4 DEF kbd_init, kbd_intr_ends, serial_intr_ends, Call, vars, consVars
  <2>2. Full(rx)' = Full(rx) /\ Full(ob)' = Full(ob)
    BY <2>1 DEF Full
  <2> QED
    BY <1>a, <1>0, <2>1, <2>2 DEF Bounded, Outstanding
<1>5. CASE serial_intr
  <2> DEFINE c == IF rx = 127 THEN 8 ELSE rx
  <2>1. c \in Byte
    BY <1>5, ConsoleAssumption DEF serial_intr, TypeOK, NoByte, Byte
  <2>2. cons_put(c) /\ rpos' = rpos /\ ret' = ret /\ pc # "reset" /\ pc' = pc
    BY <1>5 DEF serial_intr
  <2>3. Full(rx) = 1 /\ Full(rx)' = 0 /\ Full(ob)' = Full(ob)
    BY <1>5 DEF serial_intr, Full
  <2> HIDE DEF c
  <2>4. Count <= N - 2
    BY <1>a, <2>3 DEF Bounded, Outstanding
  <2>5. Count' <= Count + 1 /\ Count' \in Nat /\ (c # 0 => Pending' = Append(Pending, c))
    BY <1>a, <2>1, <2>2, <2>4, PutBounded
  <2>6. Bounded'
    BY <1>a, <2>3, <2>5 DEF Bounded, Outstanding
  <2>7. CASE c = 0
    <3>1. UNCHANGED <<buf, rpos, wpos, ret>> /\ (pc = "reset")' = (pc = "reset")
      BY <2>2, <2>7 DEF cons_put
    <3> QED
      BY <1>0, <2>6, <3>1
  <2>8. CASE c # 0
    BY <1>a, <2>1, <2>2, <2>5, <2>6, <2>8, AppendFeeds DEF Queue!FifoNext
  <2> QED
    BY <2>7, <2>8
<1>6. CASE kbd_intr
  <2> DEFINE c == kbd_proc_data(shift, ob).c
  <2>1. c \in Byte
    BY <1>6, ConsoleAssumption, KeyIsByte DEF kbd_intr, TypeOK, NoByte
  <2>2. /\ \/ UNCHANGED <<buf, wpos>> /\ pc' = "reset"
           \/ cons_put(c) /\ pc' = pc
        /\ rpos' = rpos /\ ret' = ret /\ pc # "reset"
    BY <1>6 DEF kbd_intr
  <2>3. Full(ob) = 1 /\ Full(ob)' = 0 /\ Full(rx)' = Full(rx)
    BY <1>6 DEF kbd_intr, Full
  <2> HIDE DEF c
  <2>4. Count <= N - 2
    BY <1>a, <2>3 DEF Bounded, Outstanding
  <2>5. CASE UNCHANGED <<buf, wpos>> /\ pc' = "reset"
    <3>1. UNCHANGED <<buf, rpos, wpos, ret>>
      BY <2>2, <2>5
    <3>2. Queue!Reboot
      BY <2>2, <2>5, <3>1, RebootSteps
    <3>3. UNCHANGED Count
      BY <3>1 DEF Count
    <3>4. Bounded'
      BY <1>a, <2>3, <3>3 DEF Bounded, Outstanding
    <3> QED
      BY <3>2, <3>4 DEF Queue!FifoNext
  <2>6. CASE cons_put(c) /\ pc' = pc /\ c = 0
    <3>1. UNCHANGED <<buf, rpos, wpos, ret>> /\ (pc = "reset")' = (pc = "reset")
      BY <2>2, <2>6 DEF cons_put
    <3> QED
      BY <1>a, <1>0, <2>3, <3>1 DEF Bounded, Outstanding
  <2>7. CASE cons_put(c) /\ pc' = pc /\ c # 0
    <3>1. Count' <= Count + 1 /\ Count' \in Nat /\ Pending' = Append(Pending, c)
      BY <1>a, <2>1, <2>2, <2>4, <2>7, PutBounded
    <3>2. Bounded'
      BY <1>a, <2>3, <3>1 DEF Bounded, Outstanding
    <3> QED
      BY <1>a, <2>1, <2>2, <2>7, <3>1, <3>2, AppendFeeds DEF Queue!FifoNext
  <2> QED
    BY <2>2, <2>5, <2>6, <2>7
<1>7. CASE grab
  <2>1. /\ UNCHANGED <<rx, ob>> /\ rpos # wpos /\ rpos' = After(rpos) /\ wpos' = wpos
        /\ pc # "reset" /\ pc' # "reset"
    BY <1>7 DEF grab
  <2>2. Full(rx)' = Full(rx) /\ Full(ob)' = Full(ob)
    BY <2>1 DEF Full
  <2>3. Count' = Count - 1
    BY <2>1 DEF TypeOK, Count, After, N
  <2>4. Bounded'
    BY <1>a, <2>2, <2>3 DEF Bounded, Outstanding
  <2> QED
    BY <1>7, <2>1, <2>4, GrabGets DEF Queue!FifoNext, Queue!Get, Queue!Running
<1>8. CASE grab_nothing
  <2>1. Pending = << >> /\ ret' = 0 /\ pc # "reset" /\ pc' # "reset"
    BY <1>8, EmptyMeets DEF grab_nothing
  <2>2. UNCHANGED <<Pending, Count, Full(rx), Full(ob)>>
    BY <1>8 DEF grab_nothing, Pending, Count, Slot, Full
  <2>3. Bounded'
    BY <2>2 DEF Bounded, Outstanding
  <2> QED
    BY <2>1, <2>2, <2>3 DEF Queue!FifoNext, Queue!Miss, Queue!Running
<1>9. CASE Restart
  <2>1. ret' = 0 /\ rpos' = 0 /\ wpos' = 0 /\ pc = "reset" /\ pc' # "reset"
    BY <1>9 DEF Restart
  <2>2. Count' = 0
    BY <2>1 DEF Count
  <2>3. Pending' = << >>
    BY <2>2 DEF Pending
  <2>4. Roomy => Bounded'
    BY <1>a, <2>2 DEF Bounded, Outstanding, Roomy
  <2> QED
    BY <2>1, <2>3, <2>4 DEF Queue!FifoNext, Queue!Restart
<1> QED
  BY <1>1, <1>2, <1>3, <1>4, <1>5, <1>6, <1>7, <1>8, <1>9 DEF ConsoleNext, Kernel

(* However many bytes the devices bring: a step that begins with fewer bytes
   outstanding than the buffer has slots loses no character. *)
THEOREM NoLossInAStep == Spec => FifoWithinCapacity
<1>1. TypeOK /\ [ConsoleNext]_vars
        => [Outstanding <= CONSBUFSIZE - 1 => Queue!FifoNext]_(Queue!queueVars)
  BY StepFifo DEF Bounded, N
<1> QED
  BY <1>1, TypeCorrect, PTL DEF Spec, FifoWithinCapacity

(* With at most CONSBUFSIZE - 1 bytes outstanding, cons_getc keeps its comment's
   promise: it returns the next input character, or 0 if none is waiting, and no
   accepted character is ever lost. *)
THEOREM NoLossWithinCapacity ==
    ASSUME Burst <= CONSBUFSIZE - 1, CONSBUFSIZE >= 3
    PROVE  Spec => BufferIsFifo
<1>1. Roomy
  BY DEF Roomy, N
<1>2. Init => Queue!Init
  <2> SUFFICES ASSUME Init PROVE Queue!Init
    OBVIOUS
  <2>1. Count = 0 /\ ret = 0 /\ pc # "reset"
    BY DEF Init, Count
  <2>2. Pending = << >>
    BY <2>1 DEF Pending
  <2> QED
    BY <2>1, <2>2 DEF Queue!Init
<1>3. Init => Bounded
  BY <1>1, InitBounded
<1>4. TypeOK /\ Bounded /\ [ConsoleNext]_vars => Bounded' /\ [Queue!FifoNext]_(Queue!queueVars)
  BY <1>1, StepFifo
<1> QED
  BY <1>2, <1>3, <1>4, TypeCorrect, PTL DEF Spec, BufferIsFifo, Queue!FifoSpec
=============================================================================
