-------------------------------- MODULE Boot --------------------------------
(***************************************************************************)
(* boot/bootmain.c: the boot block reads the kernel's ELF file from the    *)
(* disk, sector by sector, into physical memory, and jumps to its entry.   *)
(* A byte of memory is named by where on the disk it came from.            *)
(***************************************************************************)
EXTENDS Integers, Sequences

CONSTANTS
    SECTSIZE,      \* bytes in a sector, 512
    Sectors,       \* sectors on the disk
    ADDRESSES,     \* the number of addresses, 2^32: a uintptr_t and a uint32_t wrap there
    RegSize,       \* the values of one of the drive's registers, 256
    LbaTop,        \* the values of the four bits of a sector number in the last one, 16
    HEADER,        \* where the ELF header goes, 0x10000
    HDRSECTS,      \* the sectors read as the header, 8
    Images,        \* the files that may be on the disk, from sector 1 on
    Unreadable     \* the sectors that the drive fails to read

Address  == 0..(ADDRESSES - 1)
Position == 0..(Sectors * SECTSIZE - 1)     \* the bytes of the disk

(* A program header; a file has its magic number right or wrong, program
   headers, and the positions on the disk where a zero byte is. *)
Phdr  == [p_pa : Nat, p_memsz : Nat, p_filesz : Nat, p_offset : Nat]
Image == [magic : BOOLEAN, phdrs : Seq(Phdr), zeros : SUBSET Position]

FilePart(p) == p.p_pa..(p.p_pa + p.p_filesz - 1)
BssPart(p)  == (p.p_pa + p.p_filesz)..(p.p_pa + p.p_memsz - 1)
HeaderPart  == HEADER..(HEADER + HDRSECTS * SECTSIZE - 1)

(* The addresses of the whole sectors that a segment takes. *)
Touched(p) ==
    LET skipped == p.p_offset % SECTSIZE
        sectors == (p.p_memsz + skipped + SECTSIZE - 1) \div SECTSIZE
    IN (p.p_pa - skipped)..(p.p_pa - skipped + sectors * SECTSIZE - 1)

(* What the linker makes: every segment lies in memory, clear of the header, and
   on the disk; if the sectors of one reach into another, both are as far apart
   in memory as in the file. *)
WellLinked(phdrs) ==
    /\ \A k \in DOMAIN phdrs :
          /\ phdrs[k].p_filesz <= phdrs[k].p_memsz
          /\ Touched(phdrs[k]) \subseteq 0..(ADDRESSES - SECTSIZE - 1)
          /\ Touched(phdrs[k]) \cap HeaderPart = {}
          /\ SECTSIZE + phdrs[k].p_offset + phdrs[k].p_memsz <= Sectors * SECTSIZE
    /\ \A j, k \in DOMAIN phdrs :
          \/ phdrs[j].p_pa - phdrs[j].p_offset = phdrs[k].p_pa - phdrs[k].p_offset
          \/ Touched(phdrs[j]) \cap FilePart(phdrs[k]) = {}

ASSUME BootAssumption ==
    /\ SECTSIZE \in Nat \ {0} /\ RegSize \in Nat \ {0, 1}
    /\ LbaTop \in 1..RegSize
    /\ HEADER \in Nat /\ HDRSECTS \in Nat \ {0}
    /\ ADDRESSES \in Nat /\ HEADER + (HDRSECTS * SECTSIZE) < ADDRESSES - SECTSIZE
    /\ Sectors \in Nat /\ HDRSECTS < Sectors
    /\ Sectors < ADDRESSES      \* a sector's number has 28 bits, an address 32
    /\ Sectors <= RegSize * RegSize * RegSize * LbaTop
    /\ Unreadable \cap 1..HDRSECTS = {}
    /\ Images \subseteq Image
    /\ \A file \in Images : WellLinked(file.phdrs)

Before  == -1      \* what was in memory before
Garbage == -2      \* what the data port gives when the drive has no data

VARIABLES
    image,         \* the file on the disk
    memory,        \* physical memory
    drive,         \* the drive: busy or ready, its registers 0x1F3 to 0x1F6, the sector it holds
    pc,            \* where bootmain is
    ph,            \* the number of the program header in work, 0 while the header is read
    addr, addr_end, sector_no,     \* the variables of read_elf_header
    failed         \* history: some sector could not be read

bootVars == <<image, memory, drive, pc, ph, addr, addr_end, sector_no, failed>>
reading  == <<addr, addr_end, sector_no>>

(* What the drive takes of a sector number: three bytes and, of the fourth, the
   low bits; the bits above, 0xE0, choose LBA mode and the master drive. *)
Digits(n) ==
    << n % RegSize,
       (n \div RegSize) % RegSize,
       (n \div (RegSize * RegSize)) % RegSize,
       (n \div (RegSize * RegSize * RegSize)) % LbaTop >>

Number(regs) ==
    regs[1] + (regs[2] * RegSize) + (regs[3] * RegSize * RegSize)
      + (regs[4] * RegSize * RegSize * RegSize)

(* The start of read_elf_header: the address of the sector that holds offset. *)
Start_NotBack(pa, offset) == pa      \* Faulty: the skipped bytes get no room

Start(pa, offset) == (pa - (offset % SECTSIZE)) % ADDRESSES

read_elf_header(pa, count, offset) ==
    /\ addr' = Start(pa, offset)
    /\ addr_end' = (pa + count) % ADDRESSES
    /\ sector_no' = (offset \div SECTSIZE) + 1

Init ==
    /\ image \in Images
    /\ memory = [a \in Address |-> Before]
    /\ drive = [state |-> "ready", regs |-> Digits(0), held |-> Garbage]
    /\ pc = "while" /\ ph = 0
    /\ addr = HEADER /\ addr_end = HEADER + (HDRSECTS * SECTSIZE) /\ sector_no = 1
    /\ failed = FALSE

More_Equal == addr <= addr_end      \* Faulty: one sector too many

More == addr < addr_end

(* The loop calls readsect, ... *)
readsect ==
    /\ pc = "while" /\ More
    /\ pc' = "waitdisk"
    /\ UNCHANGED <<image, memory, drive, ph, reading, failed>>

(* ... which waits for the drive, gives it the sector number and the command ... *)
outb ==
    /\ pc = "waitdisk" /\ drive.state = "ready"
    /\ drive' = [drive EXCEPT !.state = "busy", !.regs = Digits(sector_no)]
    /\ pc' = "waitdata"
    /\ UNCHANGED <<image, memory, ph, reading, failed>>

(* The drive becomes ready again, holding the sector's data or, with its error
   bit set, which nobody tests, none. *)
DriveReady ==
    /\ drive.state = "busy"
    /\ LET n == Number(drive.regs)
           readable == n < Sectors /\ n \notin Unreadable
       IN /\ drive' = [drive EXCEPT !.state = "ready", !.held = IF readable THEN n ELSE Garbage]
          /\ failed' = (failed \/ ~readable)
    /\ UNCHANGED <<image, memory, pc, ph, reading>>

(* Faulty: insl counts bytes, where it should count long words. *)
Stored_Bytes(a) ==
    [b \in Address |->
        IF b \in a..(a + (4 * SECTSIZE) - 1)
        THEN IF drive.held = Garbage THEN Garbage ELSE (drive.held * SECTSIZE) + (b - a)
        ELSE memory[b]]

(* What insl stores of the sector the drive holds, from address a on. *)
Stored(a) ==
    [b \in Address |->
        IF b \in a..(a + SECTSIZE - 1)
        THEN IF drive.held = Garbage THEN Garbage ELSE (drive.held * SECTSIZE) + (b - a)
        ELSE memory[b]]

(* Faulty: the address is not moved on. *)
insl_Stays ==
    /\ pc = "waitdata" /\ drive.state = "ready"
    /\ memory' = Stored(addr)
    /\ sector_no' = (sector_no + 1) % ADDRESSES
    /\ pc' = "while"
    /\ UNCHANGED <<image, drive, ph, addr, addr_end, failed>>

(* ... and, once the drive is ready again, reads the data. *)
insl ==
    /\ pc = "waitdata" /\ drive.state = "ready"
    /\ memory' = Stored(addr)
    /\ addr' = (addr + SECTSIZE) % ADDRESSES
    /\ sector_no' = (sector_no + 1) % ADDRESSES
    /\ pc' = "while"
    /\ UNCHANGED <<image, drive, ph, addr_end, failed>>

(* The header is read, and it is no ELF header: bootmain returns. *)
bad_magic ==
    /\ pc = "while" /\ ~More /\ ph = 0 /\ ~image.magic
    /\ pc' = "spin"
    /\ UNCHANGED <<image, memory, drive, ph, reading, failed>>

(* The next program header, whatever its type. *)
next_segment ==
    /\ pc = "while" /\ ~More /\ image.magic /\ ph < Len(image.phdrs)
    /\ ph' = ph + 1
    /\ LET p == image.phdrs[ph'] IN read_elf_header(p.p_pa, p.p_memsz, p.p_offset)
    /\ UNCHANGED <<image, memory, drive, pc, failed>>

(* After the last one bootmain jumps to the kernel's entry. *)
e_entry ==
    /\ pc = "while" /\ ~More /\ image.magic /\ ph = Len(image.phdrs)
    /\ pc' = "kernel"
    /\ UNCHANGED <<image, memory, drive, ph, reading, failed>>

bootmain == readsect \/ outb \/ insl \/ bad_magic \/ next_segment \/ e_entry

Next == bootmain \/ DriveReady

(* The processor runs, and the drive answers each command in the end: waitdisk
   has no time limit. *)
Spec == Init /\ [][Next]_bootVars /\ WF_bootVars(bootmain) /\ WF_bootVars(DriveReady)

-----------------------------------------------------------------------------
TypeOK ==
    /\ image \in Images
    /\ memory \in [Address -> Position \cup {Before, Garbage}]
    /\ drive \in [state : {"ready", "busy"}, regs : [1..4 -> 0..(RegSize - 1)],
                 held : (0..(Sectors - 1)) \cup {Garbage}]
    /\ pc \in {"while", "waitdisk", "waitdata", "kernel", "spin"}
    /\ ph \in 0..Len(image.phdrs)
    /\ addr \in Address /\ addr_end \in Address /\ sector_no \in Address
    /\ failed \in BOOLEAN

(* When the kernel starts, every byte of every segment that the file holds is at
   its physical address, though whole sectors are read, before and after it too,
   and later segments are read over the sectors' ends of earlier ones. *)
SegmentsLoaded ==
    pc = "kernel" /\ ~failed =>
        \A k \in DOMAIN image.phdrs : \A a \in FilePart(image.phdrs[k]) :
            memory[a] = SECTSIZE + image.phdrs[k].p_offset + (a - image.phdrs[k].p_pa)

(* Nothing is written but the header's place and the sectors of the segments
   read so far: the rounding never spills a sector over other memory, be it the
   boot block's own code and stack. *)
OnlySegmentsWritten ==
    \A a \in Address :
        memory[a] # Before =>
            a \in HeaderPart \/ \E k \in 1..ph : a \in Touched(image.phdrs[k])

(* The program headers are read where the ELF header was put, while the segments
   are loaded: until the kernel starts, the header stays as it is in the file. *)
HeaderKept ==
    (ph > 0 \/ pc = "kernel") /\ ~failed =>
        \A a \in HeaderPart : memory[a] = SECTSIZE + (a - HEADER)

(* The loading ends: with the kernel running, or where no ELF file is, in the
   loop of boot.S. *)
Boots == <>(pc \in {"kernel", "spin"})

(* include/001elf.h:39 says of p_memsz that it is "bigger if contains bss", and
   C says that a static variable like 104console.c:83's starts as zero: the part
   of a segment that the file does not hold is zero when the kernel starts. *)
BssZeroed ==
    pc = "kernel" /\ ~failed =>
        \A k \in DOMAIN image.phdrs : \A a \in BssPart(image.phdrs[k]) :
            memory[a] \in image.zeros
=============================================================================
