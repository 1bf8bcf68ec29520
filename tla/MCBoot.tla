------------------------------- MODULE MCBoot -------------------------------
(* Instances of Boot for TLC: sectors of two bytes, sector numbers of four
   registers of two values, so that a number needs several of them. *)
EXTENDS Boot

MCUnreadable == {9}

Segment(pa, memsz, filesz, offset) ==
    [p_pa |-> pa, p_memsz |-> memsz, p_filesz |-> filesz, p_offset |-> offset]

(* The last 4 bytes of the disk are zero. *)
File(magic, phdrs) == [magic |-> magic, phdrs |-> phdrs, zeros |-> 20..23]

(* The header that the linker adds for the stack: nothing to load. *)
Stack == Segment(0, 0, 0, 0)

(* One segment of every length and alignment; two that share a sector, in both
   orders; two apart; two on either side of the header; and a file that is not an
   ELF file. *)
MCImages ==
    {File(TRUE, << Segment(8 + o, f + b, f, 4 + o), Stack >>) : o \in 0..1, f \in 0..5, b \in 0..2}
    \cup {File(TRUE, << Segment(8, 3, 3, 4), Segment(11, 4, 2, 7) >>),
          File(TRUE, << Segment(11, 4, 2, 7), Segment(8, 3, 3, 4) >>),
          File(TRUE, << Segment(16, 4, 4, 8), Segment(9, 2, 2, 5) >>),
          File(TRUE, << Segment(0, 2, 2, 4), Segment(6, 2, 2, 6) >>),
          File(TRUE, << Segment(8, 6, 6, 13) >>),
          File(FALSE, << Segment(8, 3, 3, 4) >>)}
=============================================================================
