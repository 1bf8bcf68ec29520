---------------------------- MODULE Boot_proofs ----------------------------
(***************************************************************************)
(* What Boot promises, for sectors, disks and memories of every size and   *)
(* for every file that is linked well.  The proof follows the loop of      *)
(* read_elf_header: n sectors on, its address and its sector number are n  *)
(* sectors from where they began, and what lies below the address is in    *)
(* place.                                                                  *)
(***************************************************************************)
EXTENDS Boot, TLAPS

(***************************************************************************)
(* Arithmetic.                                                             *)
(***************************************************************************)
(* What a quotient and a remainder are. *)
LEMMA Divided ==
    ASSUME NEW n \in Nat, NEW base \in Nat, base > 0
    PROVE  /\ n \div base \in Nat /\ (n % base) \in 0..(base - 1)
           /\ base * (n \div base) \in Nat /\ n = base * (n \div base) + (n % base)
  OBVIOUS

(* There is one quotient with a remainder below the divisor. *)
LEMMA QuotientIs ==
    ASSUME NEW n \in Nat, NEW base \in Nat, base > 0,
           NEW q \in Nat, NEW r \in 0..(base - 1), n = base * q + r
    PROVE  n \div base = q /\ (n % base) = r
<1> DEFINE p == n \div base  s == n % base
<1>1. p \in Nat /\ s \in 0..(base - 1) /\ n = base * p + s
  OBVIOUS
<1> HIDE DEF p, s
<1>2. ASSUME p < q PROVE FALSE
  <2>1. base * (p + 1) <= base * q
    BY <1>1, <1>2
  <2> QED
    BY <1>1, <2>1
<1>3. ASSUME q < p PROVE FALSE
  <2>1. base * (q + 1) <= base * p
    BY <1>1, <1>3
  <2> QED
    BY <1>1, <2>1
<1>4. p = q
  BY <1>1, <1>2, <1>3
<1>5. p = q /\ s = r
  BY <1>1, <1>4
<1> QED
  BY <1>5 DEF p, s

(* Dividing twice is dividing by the product. *)
LEMMA DividedTwice ==
    ASSUME NEW n \in Nat, NEW a \in Nat, a > 0, NEW b \in Nat, b > 0
    PROVE  n \div (a * b) = (n \div a) \div b
<1> DEFINE q == n \div a  r == n % a  p == q \div b  s == q % b
<1>1. q \in Nat /\ r \in 0..(a - 1) /\ n = a * q + r
  OBVIOUS
<1>2. q \in Nat => p \in Nat /\ s \in 0..(b - 1) /\ q = b * p + s
  OBVIOUS
<1> HIDE DEF q, r
<1>3. p \in Nat /\ s \in 0..(b - 1) /\ q = b * p + s
  BY <1>1, <1>2
<1> HIDE DEF p, s
<1>4. n = (a * b) * p + (a * s + r)
  BY <1>1, <1>3
<1>5. a * s \in Nat /\ a * s <= a * (b - 1) /\ a * (b - 1) = (a * b) - a
  BY <1>3
<1>6. a * b \in Nat /\ a * b > 0
  OBVIOUS
<1>7. a * s + r \in 0..((a * b) - 1)
  BY <1>1, <1>5, <1>6
<1>8. n \div (a * b) = p
  BY <1>3, <1>4, <1>6, <1>7, QuotientIs
<1> QED
  BY <1>8 DEF p, q

(* A number rounded up to whole sectors. *)
LEMMA RoundedUp ==
    ASSUME NEW m \in Nat, NEW size \in Nat, size > 0
    PROVE  LET c == (m + size - 1) \div size
           IN c \in Nat /\ m <= c * size /\ c * size < m + size
<1> DEFINE t == m + size - 1  c == t \div size  r == t % size
<1>1. t \in Nat
  OBVIOUS
<1>2. t \in Nat => c \in Nat /\ r \in 0..(size - 1) /\ t = size * c + r
  OBVIOUS
<1>3. c \in Nat /\ r \in 0..(size - 1) /\ t = size * c + r
  BY <1>1, <1>2
<1> HIDE DEF c, r
<1>4. size * c = c * size
  BY <1>3
<1>5. c \in Nat /\ m <= c * size /\ c * size < m + size
  BY <1>3, <1>4
<1> QED
  BY <1>5 DEF c, t

(* Multiples of a size keep the order of their factors. *)
LEMMA ProductOrder ==
    ASSUME NEW m \in Int, NEW n \in Int, NEW size \in Nat, size > 0
    PROVE  /\ m < n => (m * size) + size <= n * size
           /\ m * size < n * size => m < n
           /\ m <= n => m * size <= n * size
<1>1. ASSUME m < n PROVE (m * size) + size <= n * size
  <2>1. (m + 1) * size <= n * size
    BY <1>1
  <2> QED
    BY <2>1
<1>2. ASSUME n <= m PROVE n * size <= m * size
  BY <1>2
<1>3. ASSUME m <= n PROVE m * size <= n * size
  BY <1>3
<1>4. m * size \in Int /\ n * size \in Int
  OBVIOUS
<1> QED
  BY <1>1, <1>2, <1>3, <1>4

(***************************************************************************)
(* A sector's number in the drive's registers (bootmain.c:53-57).          *)
(***************************************************************************)
(* The four registers hold bytes, and, of a number that their bits hold, all of it. *)
LEMMA NumberOfDigits ==
    ASSUME NEW n \in Nat
    PROVE  /\ Digits(n) \in [1..4 -> 0..(RegSize - 1)]
           /\ n < RegSize * RegSize * RegSize * LbaTop => Number(Digits(n)) = n
<1> DEFINE R == RegSize  T == LbaTop
           q1 == n \div R  q2 == n \div (R * R)  q3 == n \div (R * R * R)
           d1 == n % R  d2 == q1 % R  d3 == q2 % R  d4 == q3 % T
<1>1. R \in Nat /\ R > 0 /\ T \in Nat /\ T > 0 /\ T <= R
  BY BootAssumption
<1> HIDE DEF R, T
<1>2. R * R \in Nat /\ R * R > 0 /\ R * R * R \in Nat /\ R * R * R > 0
  BY <1>1
<1>3. q1 \in Nat /\ d1 \in 0..(R - 1) /\ R * q1 \in Nat /\ n = R * q1 + d1
  BY <1>1, Divided
<1>4. q2 \in Nat /\ q2 = q1 \div R
  BY <1>1, <1>2, DividedTwice
<1>5. q3 \in Nat /\ q3 = q2 \div R
  BY <1>1, <1>2, DividedTwice
<1> HIDE DEF q1, q2, q3
<1>6. d2 \in 0..(R - 1) /\ R * q2 \in Nat /\ q1 = R * q2 + d2
  BY <1>1, <1>3, <1>4, Divided
<1>7. d3 \in 0..(R - 1) /\ R * q3 \in Nat /\ q2 = R * q3 + d3
  BY <1>1, <1>4, <1>5, Divided
<1>8. d4 \in 0..(R - 1)
  <2>1. d4 \in 0..(T - 1)
    BY <1>1, <1>5, Divided
  <2> HIDE DEF d4
  <2> QED
    BY <1>1, <2>1
<1>9. ASSUME n < R * R * R * T PROVE d4 = q3
  <2>1. R * (R * q2) <= R * q1 /\ R * (R * (R * q3)) <= R * (R * q2)
    <3>1. R * q2 <= q1 /\ R * q3 <= q2
      BY <1>3, <1>4, <1>6, <1>7
    <3>2. R * (R * q3) <= R * q2
      BY <1>1, <1>4, <1>7, <3>1
    <3>3. R * (R * q3) \in Nat
      BY <1>1, <1>7
    <3>4. R * (R * q2) <= R * q1
      BY <1>1, <1>3, <1>6, <3>1
    <3> QED
      BY <1>1, <1>6, <3>2, <3>3, <3>4
  <2>2. R * (R * (R * q3)) = (R * R * R) * q3
    BY <1>1, <1>5
  <2>3. (R * R * R) * q3 <= n
    <3> DEFINE a == R * q1  b == R * (R * q2)  c == R * (R * (R * q3))
    <3>1. b \in Nat /\ c \in Nat
      <4>1. R * (R * q3) \in Nat
        BY <1>1, <1>7
      <4> QED
        BY <1>1, <1>6, <4>1
    <3>2. a \in Nat /\ a <= n
      <4> HIDE DEF a
      <4>1. a \in Nat /\ n = a + d1
        BY <1>3 DEF a
      <4> QED
        BY <1>3, <4>1
    <3>3. c <= b /\ b <= a
      BY <2>1
    <3> HIDE DEF a, b, c
    <3>4. c <= n
      BY <3>1, <3>2, <3>3
    <3> QED
      BY <2>2, <3>4 DEF c
  <2>4. q3 < T
    <3> DEFINE cube == R * R * R
    <3>1. cube * q3 < cube * T
      BY <1>1, <1>2, <1>5, <1>9, <2>3
    <3>2. cube \in Nat /\ cube > 0
      BY <1>2
    <3> HIDE DEF cube
    <3> QED
      BY <1>1, <1>5, <3>1, <3>2
  <2> QED
    BY <1>1, <1>5, <2>4
<1> HIDE DEF d1, d2, d3, d4
<1>10. ASSUME d4 = q3 PROVE n = d1 + (d2 * R) + (d3 * R * R) + (d4 * R * R * R)
  <2>1. q1 = d2 + (d3 * R) + (d4 * R * R)
    BY <1>1, <1>4, <1>5, <1>6, <1>7, <1>8, <1>10
  <2>2. R * q1 = (d2 * R) + (d3 * R * R) + (d4 * R * R * R)
    BY <1>1, <1>6, <1>7, <1>8, <2>1
  <2>3. d2 * R \in Nat /\ d3 * R * R \in Nat /\ d4 * R * R * R \in Nat
    BY <1>1, <1>6, <1>7, <1>8
  <2> DEFINE a == d2 * R  b == d3 * R * R  c == d4 * R * R * R  m == R * q1
  <2>4. a \in Nat /\ b \in Nat /\ c \in Nat /\ m = a + b + c /\ n = m + d1
    BY <1>3, <2>2, <2>3
  <2> HIDE DEF a, b, c, m
  <2>5. n = d1 + a + b + c
    BY <1>3, <2>4
  <2> QED
    BY <2>5 DEF a, b, c
<1>11. Digits(n) = << d1, d2, d3, d4 >>
  BY DEF Digits, d1, d2, d3, d4, q1, q2, q3, R, T
<1> DEFINE D == << d1, d2, d3, d4 >>
<1>12. D \in [1..4 -> 0..(R - 1)]
  BY <1>3, <1>6, <1>7, <1>8
<1>13. Number(D) = d1 + (d2 * R) + (d3 * R * R) + (d4 * R * R * R)
  BY DEF Number, R
<1> QED
  BY <1>9, <1>10, <1>11, <1>12, <1>13 DEF R, T

(***************************************************************************)
(* A segment, and the loop that reads it.                                  *)
(***************************************************************************)
(* The address and the number of the first sector that a segment takes, the
   bytes from that address to the segment's end, and the sectors they take. *)
First(p)     == p.p_pa - (p.p_offset % SECTSIZE)
FirstNo(p)   == (p.p_offset \div SECTSIZE) + 1
Span(p)      == p.p_memsz + (p.p_offset % SECTSIZE)
SectorsOf(p) == (Span(p) + SECTSIZE - 1) \div SECTSIZE

(* The byte of the disk that belongs at address a of a segment. *)
Origin(p, a) == SECTSIZE + p.p_offset + (a - p.p_pa)

(* count sectors from address first and sector number no lie in memory, a sector
   clear of its end, and on the disk; end lies in the last of them. *)
Fits(first, no, count, end) ==
    /\ first \in Nat /\ no \in Nat /\ count \in Nat /\ end \in Nat
    /\ count > 0 => first + ((count - 1) * SECTSIZE) < end
    /\ end <= first + (count * SECTSIZE)
    /\ first + (count * SECTSIZE) <= ADDRESSES - SECTSIZE
    /\ no + count <= Sectors

(* The loop of read_elf_header is n sectors on, of count. *)
Loop(first, no, count, end) ==
    /\ addr_end = end
    /\ \E n \in 0..count : addr = first + (n * SECTSIZE) /\ sector_no = no + n

HeaderLoop == Loop(HEADER, 1, HDRSECTS, HEADER + (HDRSECTS * SECTSIZE))

(* A segment of no bytes that begins with a sector takes no sector. *)
SegmentLoop(p) ==
    IF Span(p) = 0
    THEN addr = addr_end /\ sector_no = FirstNo(p)
    ELSE Loop(First(p), FirstNo(p), SectorsOf(p), p.p_pa + p.p_memsz)

(* A sector holds at least one byte. *)
LEMMA SectorSize == SECTSIZE \in Nat /\ SECTSIZE > 0
BY BootAssumption

(* What the linker's segments are to the loop. *)
SegmentIs(p) ==
    /\ p \in Phdr /\ p.p_filesz <= p.p_memsz
    /\ p.p_offset % SECTSIZE \in Nat /\ Span(p) \in Nat
    /\ FirstNo(p) \in Nat /\ FirstNo(p) < ADDRESSES
    /\ FirstNo(p) * SECTSIZE = SECTSIZE + p.p_offset - (p.p_offset % SECTSIZE)
    /\ Span(p) > 0 =>
         /\ Fits(First(p), FirstNo(p), SectorsOf(p), p.p_pa + p.p_memsz)
         /\ Touched(p) = First(p)..(First(p) + (SectorsOf(p) * SECTSIZE) - 1)
         /\ FilePart(p) \subseteq Touched(p)
         /\ Touched(p) \subseteq Address
         /\ Touched(p) \cap HeaderPart = {}

(* A segment of a well-linked file lies in memory and on the disk, sector by sector. *)
LEMMA SegmentsFit ==
    ASSUME NEW file \in Images, NEW k \in 1..Len(file.phdrs)
    PROVE  SegmentIs(file.phdrs[k])
<1> DEFINE p == file.phdrs[k]  S == SECTSIZE  skipped == p.p_offset % S
           no == p.p_offset \div S  count == SectorsOf(p)
<1>1. file \in Image /\ WellLinked(file.phdrs)
  BY BootAssumption
<1>2. file.phdrs \in Seq(Phdr) /\ DOMAIN file.phdrs = 1..Len(file.phdrs)
  BY <1>1 DEF Image
<1>3. p \in Phdr /\ k \in DOMAIN file.phdrs
  BY <1>2
<1>4. /\ p.p_filesz <= p.p_memsz
      /\ Touched(p) \subseteq 0..(ADDRESSES - S - 1)
      /\ Touched(p) \cap HeaderPart = {}
      /\ S + p.p_offset + p.p_memsz <= Sectors * S
  BY <1>1, <1>3 DEF WellLinked
<1>5. S \in Nat /\ S > 0 /\ ADDRESSES \in Nat /\ Sectors \in Nat /\ Sectors < ADDRESSES
  BY BootAssumption
<1>6. p.p_pa \in Nat /\ p.p_memsz \in Nat /\ p.p_filesz \in Nat /\ p.p_offset \in Nat
  BY <1>3 DEF Phdr
<1> HIDE DEF p, S
<1>7. no \in Nat /\ skipped \in 0..(S - 1) /\ S * no \in Nat /\ p.p_offset = S * no + skipped
  BY <1>5, <1>6, Divided
<1> HIDE DEF no, skipped
<1>8. Span(p) = p.p_memsz + skipped /\ Span(p) \in Nat
  BY <1>6, <1>7 DEF Span, skipped, S
<1>9. count \in Nat /\ Span(p) <= count * S /\ count * S < Span(p) + S
  BY <1>5, <1>8, RoundedUp DEF SectorsOf, S
<1>10. FirstNo(p) = no + 1 /\ First(p) = p.p_pa - skipped
  BY DEF FirstNo, First, no, skipped, S
<1>11. (no + 1) * S = S + p.p_offset - skipped
  BY <1>5, <1>6, <1>7
<1> HIDE DEF count
<1>12. (no + 1 + count) * S < (Sectors + 1) * S
  <2>1. (no + 1 + count) * S = (no + 1) * S + count * S /\ (Sectors + 1) * S = Sectors * S + S
    BY <1>5, <1>7, <1>9
  <2> DEFINE x == (no + 1) * S  y == count * S  z == Sectors * S
  <2>2. x \in Int /\ y \in Int /\ z \in Int
    BY <1>5, <1>7, <1>9
  <2>3. x = S + p.p_offset - skipped /\ y < p.p_memsz + skipped + S
        /\ S + p.p_offset + p.p_memsz <= z
    BY <1>4, <1>8, <1>9, <1>11
  <2> HIDE DEF x, y, z
  <2>4. x + y < z + S
    BY <1>5, <1>6, <1>7, <2>2, <2>3
  <2> QED
    BY <2>1, <2>4 DEF x, y, z
<1>13. no + 1 + count < Sectors + 1
  BY <1>5, <1>7, <1>9, <1>12, ProductOrder
<1>14. Touched(p) = First(p)..(First(p) + (count * S) - 1)
  BY <1>10 DEF Touched, SectorsOf, Span, count, skipped, S
<1>15. ASSUME Span(p) > 0
       PROVE  /\ Fits(First(p), FirstNo(p), SectorsOf(p), p.p_pa + p.p_memsz)
              /\ FilePart(p) \subseteq Touched(p) /\ Touched(p) \subseteq Address
  <2> DEFINE y == count * S  f == First(p)  pa == p.p_pa  memsz == p.p_memsz  filesz == p.p_filesz
  <2>1. y \in Nat /\ y >= memsz + skipped /\ y < memsz + skipped + S /\ y > 0
    BY <1>5, <1>8, <1>9, <1>15
  <2>2. (count - 1) * S = y - S
    BY <1>5, <1>9
  <2>3. Touched(p) = f..(f + y - 1)
    BY <1>14
  <2>4. f = pa - skipped /\ pa \in Nat /\ memsz \in Nat /\ filesz \in Nat /\ filesz <= memsz
    BY <1>4, <1>6, <1>10
  <2>5. FilePart(p) = pa..(pa + filesz - 1)
    BY DEF FilePart
  <2>6. Fits(First(p), no + 1, count, p.p_pa + p.p_memsz) <=> Fits(f, no + 1, count, pa + memsz)
    OBVIOUS
  <2>7. f + (count * S) = f + y /\ f + ((count - 1) * S) = f + (y - S)
    BY <2>2
  <2> HIDE DEF y, f, pa, memsz, filesz
  <2>8. f \in Int /\ f \in Touched(p) /\ f + y - 1 \in Touched(p)
    BY <1>7, <2>1, <2>3, <2>4
  <2>9. f >= 0 /\ f + y - 1 <= ADDRESSES - S - 1
    BY <1>4, <2>8
  <2>11. f + (y - S) < pa + memsz /\ pa + memsz <= f + y /\ f + y <= ADDRESSES - S
    BY <1>5, <1>7, <2>1, <2>4, <2>8, <2>9
  <2>12. no + 1 + count <= Sectors
    BY <1>5, <1>7, <1>9, <1>13
  <2>13. f \in Nat /\ no + 1 \in Nat /\ pa + memsz \in Nat
    BY <1>7, <2>4, <2>8, <2>9
  <2>14. Fits(f, no + 1, count, pa + memsz)
    BY <1>9, <2>7, <2>11, <2>12, <2>13 DEF Fits, S
  <2>15. Fits(First(p), FirstNo(p), SectorsOf(p), p.p_pa + p.p_memsz)
    BY <1>10, <2>6, <2>14 DEF count
  <2>16. FilePart(p) \subseteq Touched(p)
    BY <1>7, <2>1, <2>3, <2>4, <2>5
  <2>17. Touched(p) \subseteq Address
    BY <1>4, <1>5 DEF Address
  <2> QED
    BY <2>15, <2>16, <2>17
<1>16. FirstNo(p) \in Nat /\ FirstNo(p) < ADDRESSES
  BY <1>5, <1>7, <1>9, <1>10, <1>13
<1>17. SegmentIs(p)
  BY <1>3, <1>4, <1>7, <1>8, <1>10, <1>11, <1>14, <1>15, <1>16 DEF SegmentIs, p, S, skipped, count
<1> QED
  BY <1>17 DEF p

(* So is the header. *)
LEMMA HeaderFits ==
    /\ Fits(HEADER, 1, HDRSECTS, HEADER + (HDRSECTS * SECTSIZE))
    /\ HeaderPart \subseteq Address
<1> DEFINE y == HDRSECTS * SECTSIZE
<1>1. y \in Nat /\ (HDRSECTS - 1) * SECTSIZE = y - SECTSIZE
  BY BootAssumption
<1>2. HEADER + y < ADDRESSES - SECTSIZE
  BY BootAssumption
<1>3. Fits(HEADER, 1, HDRSECTS, HEADER + y)
  <2> HIDE DEF y
  <2>1. HDRSECTS > 0 => HEADER + ((HDRSECTS - 1) * SECTSIZE) < HEADER + y
    BY <1>1, BootAssumption
  <2>2. HEADER + (HDRSECTS * SECTSIZE) = HEADER + y
    BY DEF y
  <2> QED
    BY <1>1, <1>2, <2>1, <2>2, BootAssumption DEF Fits
<1>4. HeaderPart \subseteq Address
  <2>1. HeaderPart = HEADER..(HEADER + y - 1)
    BY DEF HeaderPart
  <2> HIDE DEF y
  <2> QED
    BY <1>1, <1>2, <2>1, BootAssumption DEF Address
<1> QED
  BY <1>3, <1>4

(***************************************************************************)
(* One turn of the loop.                                                   *)
(***************************************************************************)
(* While the address is below the end, the sector to read lies among those that
   fit, its number is on the disk, and its bytes are as far from the first
   sector's in memory as on the disk. *)
LEMMA SectorInPlace ==
    ASSUME NEW first, NEW no, NEW count, NEW end,
           Fits(first, no, count, end), Loop(first, no, count, end), More
    PROVE  /\ addr \in Nat /\ addr + SECTSIZE <= ADDRESSES - SECTSIZE
           /\ addr..(addr + SECTSIZE - 1) \subseteq first..(first + (count * SECTSIZE) - 1)
           /\ sector_no \in Nat /\ sector_no < Sectors
           /\ sector_no * SECTSIZE = (no * SECTSIZE) + (addr - first)
<1> DEFINE S == SECTSIZE
<1>1. S \in Nat /\ S > 0 /\ ADDRESSES \in Nat /\ Sectors \in Nat
  BY BootAssumption
<1>2. PICK n \in 0..count : addr = first + (n * S) /\ sector_no = no + n
  BY DEF Loop
<1>3. /\ first \in Nat /\ no \in Nat /\ count \in Nat /\ end \in Nat
      /\ end <= first + (count * S) /\ first + (count * S) <= ADDRESSES - S
      /\ no + count <= Sectors /\ n \in Nat
  BY DEF Fits
<1> HIDE DEF S
<1> DEFINE x == n * S  y == count * S
<1>4. x \in Nat /\ y \in Nat
  BY <1>1, <1>3
<1>5. first + x < end
  BY <1>2 DEF More, Loop
<1>6. x < y
  <2> HIDE DEF x
  <2>1. end <= first + y
    BY <1>3
  <2> HIDE DEF y
  <2> QED
    BY <1>3, <1>4, <1>5, <2>1
<1>7. n < count
  BY <1>1, <1>3, <1>6, ProductOrder
<1>8. x + S <= y
  BY <1>1, <1>3, <1>7, ProductOrder
<1>9. (no + n) * S = (no * S) + x /\ no * S \in Nat
  BY <1>1, <1>3
<1>10. first + y <= ADDRESSES - S
  BY <1>3
<1>11. addr = first + x
  BY <1>2
<1> HIDE DEF x, y
<1>12. addr \in Nat /\ addr + S <= ADDRESSES - S
       /\ addr..(addr + S - 1) \subseteq first..(first + y - 1)
  BY <1>1, <1>3, <1>4, <1>8, <1>10, <1>11
<1>13. sector_no \in Nat /\ sector_no < Sectors
  BY <1>1, <1>2, <1>3, <1>7
<1>14. sector_no * S = (no * S) + (addr - first)
  BY <1>2, <1>3, <1>4, <1>9, <1>11
<1> QED
  BY <1>12, <1>13, <1>14 DEF S, y

(* insl takes the loop one sector on. *)
LEMMA LoopGoesOn ==
    ASSUME NEW first, NEW no, NEW count, NEW end,
           Fits(first, no, count, end), Loop(first, no, count, end), More,
           addr' = addr + SECTSIZE, sector_no' = sector_no + 1, addr_end' = addr_end
    PROVE  Loop(first, no, count, end)'
<1> USE SectorSize
<1>1. PICK n \in 0..count : addr = first + (n * SECTSIZE) /\ sector_no = no + n
  BY DEF Loop
<1>2. first \in Nat /\ no \in Nat /\ count \in Nat /\ end \in Nat /\ n \in Nat
      /\ end <= first + (count * SECTSIZE)
  BY DEF Fits
<1>3. n * SECTSIZE \in Nat /\ count * SECTSIZE \in Nat /\ first + (n * SECTSIZE) < end
  BY <1>1, <1>2 DEF More, Loop
<1>4. n * SECTSIZE < count * SECTSIZE
  BY <1>2, <1>3
<1>5. n + 1 \in 0..count
  BY <1>2, <1>4, ProductOrder
<1>6. (n + 1) * SECTSIZE = (n * SECTSIZE) + SECTSIZE
  BY <1>2
<1>7. addr' = first + ((n + 1) * SECTSIZE) /\ sector_no' = no + (n + 1)
  BY <1>1, <1>2, <1>3, <1>6
<1> QED
  BY <1>5, <1>7 DEF Loop

(* The sector to read lies in a place, clear of the end of memory, and is on the disk. *)
SectorIn(place) ==
    /\ addr \in Nat /\ addr + SECTSIZE <= ADDRESSES - SECTSIZE
    /\ addr..(addr + SECTSIZE - 1) \subseteq place
    /\ sector_no \in Nat /\ sector_no < Sectors

(* A segment's sectors are read into the segment's place, each byte to where it belongs. *)
LEMMA SegmentSector ==
    ASSUME NEW p, SegmentIs(p), SegmentLoop(p), More, addr \in Address
    PROVE  /\ Span(p) > 0 /\ SectorIn(Touched(p))
           /\ \A b \in Int : (sector_no * SECTSIZE) + (b - addr) = Origin(p, b)
<1> DEFINE skipped == p.p_offset % SECTSIZE  x == sector_no * SECTSIZE  y == FirstNo(p) * SECTSIZE
           count == SectorsOf(p)
<1>1. addr < addr_end /\ addr \in Nat
  BY BootAssumption DEF More, Address
<1>2. Span(p) > 0
  BY <1>1 DEF SegmentLoop, SegmentIs
<1>3. /\ Fits(First(p), FirstNo(p), SectorsOf(p), p.p_pa + p.p_memsz)
      /\ Touched(p) = First(p)..(First(p) + (SectorsOf(p) * SECTSIZE) - 1)
  BY <1>2 DEF SegmentIs
<1>4. Loop(First(p), FirstNo(p), SectorsOf(p), p.p_pa + p.p_memsz)
  BY <1>2 DEF SegmentLoop
<1>5. /\ addr + SECTSIZE <= ADDRESSES - SECTSIZE
      /\ addr..(addr + SECTSIZE - 1) \subseteq First(p)..(First(p) + (SectorsOf(p) * SECTSIZE) - 1)
      /\ sector_no \in Nat /\ sector_no < Sectors
      /\ x = y + (addr - First(p))
  BY <1>3, <1>4, SectorInPlace
<1>6. SectorIn(Touched(p))
  BY <1>1, <1>3, <1>5 DEF SectorIn
<1>7. /\ p.p_pa \in Nat /\ p.p_offset \in Nat /\ skipped \in Nat
      /\ y = SECTSIZE + p.p_offset - skipped
  BY DEF SegmentIs, Phdr
<1>8. First(p) = p.p_pa - skipped
  BY DEF First
<1> HIDE DEF skipped, x, y
<1>9. x = SECTSIZE + p.p_offset + (addr - p.p_pa)
  BY <1>1, <1>5, <1>7, <1>8, SectorSize
<1>10. \A b \in Int : x + (b - addr) = Origin(p, b)
  BY <1>1, <1>7, <1>9, SectorSize DEF Origin
<1> QED
  BY <1>2, <1>6, <1>10 DEF x

(* The header's sectors likewise. *)
LEMMA HeaderSector ==
    ASSUME HeaderLoop, More
    PROVE  /\ SectorIn(HeaderPart)
           /\ \A b \in Int : (sector_no * SECTSIZE) + (b - addr) = SECTSIZE + (b - HEADER)
<1> DEFINE x == sector_no * SECTSIZE  end == HEADER + (HDRSECTS * SECTSIZE)
<1> DEFINE one == 1 * SECTSIZE
<1>1. Fits(HEADER, 1, HDRSECTS, end) /\ Loop(HEADER, 1, HDRSECTS, end)
  BY HeaderFits DEF HeaderLoop
<1>2. /\ addr \in Nat /\ addr + SECTSIZE <= ADDRESSES - SECTSIZE
      /\ addr..(addr + SECTSIZE - 1) \subseteq HEADER..(HEADER + (HDRSECTS * SECTSIZE) - 1)
      /\ sector_no \in Nat /\ sector_no < Sectors
      /\ x = one + (addr - HEADER)
  <2> HIDE DEF Fits, Loop
  <2> QED
    BY ONLY <1>1, More, SectorInPlace
<1>3. SectorIn(HeaderPart)
  <2>1. HeaderPart = HEADER..(HEADER + (HDRSECTS * SECTSIZE) - 1)
    BY DEF HeaderPart
  <2> HIDE DEF end, x, one
  <2> QED
    BY <1>2, <2>1 DEF SectorIn
<1>4. one = SECTSIZE
  BY SectorSize
<1> HIDE DEF one
<1>5. HEADER \in Nat
  BY BootAssumption
<1> HIDE DEF x
<1>6. \A b \in Int : x + (b - addr) = SECTSIZE + (b - HEADER)
  BY <1>2, <1>4, <1>5, SectorSize
<1> QED
  BY <1>3, <1>6 DEF x

(* When the loop is done, the address is past the segment's file part, or the header. *)
LEMMA SegmentDone ==
    ASSUME NEW p, SegmentIs(p), SegmentLoop(p), ~More, addr \in Address
    PROVE  \A a \in FilePart(p) : a < addr
<1>1. addr \in Nat /\ ~(addr < addr_end)
  BY BootAssumption DEF More, Address
<1>2. p.p_pa \in Nat /\ p.p_memsz \in Nat /\ p.p_filesz \in Nat /\ p.p_offset % SECTSIZE \in Nat
      /\ p.p_filesz <= p.p_memsz
  BY DEF SegmentIs, Phdr
<1>3. CASE Span(p) = 0
  <2>1. p.p_memsz = 0
    BY <1>2, <1>3 DEF Span
  <2>2. FilePart(p) = {}
    BY <1>2, <2>1 DEF FilePart
  <2> QED
    BY <2>2
<1>4. CASE Span(p) # 0
  <2>1. addr_end = p.p_pa + p.p_memsz
    BY <1>4 DEF SegmentLoop, Loop
  <2> QED
    BY <1>1, <1>2, <2>1 DEF FilePart
<1> QED
  BY <1>3, <1>4

(* When the loop over the header's sectors ends, its whole place in memory is loaded. *)
LEMMA HeaderDone ==
    ASSUME HeaderLoop, ~More, addr \in Address
    PROVE  \A a \in HeaderPart : a < addr
<1> DEFINE end == HEADER + (HDRSECTS * SECTSIZE)
<1>1. end \in Int
  BY BootAssumption
<1>2. addr_end = end /\ addr \in Nat /\ ~(addr < addr_end) /\ HeaderPart = HEADER..(end - 1)
  BY BootAssumption DEF HeaderLoop, Loop, More, Address, HeaderPart
<1> HIDE DEF end
<1> QED
  BY <1>1, <1>2, BootAssumption

(***************************************************************************)
(* The inductive invariant.                                                *)
(***************************************************************************)
(* While a sector is read there is more to read; the drive is busy only then, its
   registers hold the sector's number and, when it is ready, it holds the sector. *)
DriveRight ==
    /\ pc \in {"waitdisk", "waitdata"} => More
    /\ drive.state = "busy" => pc = "waitdata"
    /\ pc = "waitdata" => drive.regs = Digits(sector_no)
    /\ pc = "waitdata" /\ drive.state = "ready" /\ ~failed => drive.held = sector_no

LoopRight ==
    /\ ph = 0 => HeaderLoop
    /\ ph > 0 => SegmentLoop(image.phdrs[ph])
    /\ pc = "kernel" => ph = Len(image.phdrs) /\ ~More

(* The header is in place, below the address as long as it is read. *)
HeaderRight ==
    ~failed => \A a \in HeaderPart : ph > 0 \/ a < addr => memory[a] = SECTSIZE + (a - HEADER)

(* So is the file's part of a segment, below the address as long as it is read. *)
SegmentRight(k) ==
    \A a \in FilePart(image.phdrs[k]) :
        k < ph \/ a < addr => memory[a] = Origin(image.phdrs[k], a)

SegmentsRight == ~failed => \A k \in 1..ph : SegmentRight(k)

BootInv ==
    /\ TypeOK /\ OnlySegmentsWritten
    /\ DriveRight /\ LoopRight
    /\ HeaderRight /\ SegmentsRight

(* The segments read so far are segments of the file. *)
LEMMA FileIs ==
    ASSUME TypeOK
    PROVE  /\ image \in Images /\ image.phdrs \in Seq(Phdr) /\ ph \in Nat /\ Len(image.phdrs) \in Nat
           /\ ph <= Len(image.phdrs)
           /\ \A k \in 1..Len(image.phdrs) : SegmentIs(image.phdrs[k])
<1>1. image \in Images /\ image.phdrs \in Seq(Phdr)
  BY BootAssumption DEF TypeOK, Image
<1>2. Len(image.phdrs) \in Nat /\ ph \in Nat /\ ph <= Len(image.phdrs)
  BY <1>1 DEF TypeOK
<1> QED
  BY <1>1, <1>2, SegmentsFit

(* The loader begins within the invariant. *)
LEMMA BootInit == Init => BootInv
<1> SUFFICES ASSUME Init PROVE BootInv
  OBVIOUS
<1>1. /\ image \in Images /\ memory = [a \in Address |-> Before]
      /\ drive = [state |-> "ready", regs |-> Digits(0), held |-> Garbage]
      /\ pc = "while" /\ ph = 0 /\ failed = FALSE
      /\ addr = HEADER /\ addr_end = HEADER + (HDRSECTS * SECTSIZE) /\ sector_no = 1
  BY DEF Init
<1>2. image.phdrs \in Seq(Phdr) /\ 0 \in 0..Len(image.phdrs)
  BY <1>1, BootAssumption DEF Image
<1>3. Digits(0) \in [1..4 -> 0..(RegSize - 1)]
  BY NumberOfDigits
<1>4. addr \in Address /\ addr_end \in Address /\ sector_no \in Address
  <2> DEFINE y == HDRSECTS * SECTSIZE
  <2>1. y \in Nat /\ HEADER + y < ADDRESSES - SECTSIZE
    BY BootAssumption
  <2>2. addr_end = HEADER + y
    BY <1>1
  <2> HIDE DEF y
  <2> QED
    BY <1>1, <2>1, <2>2, BootAssumption DEF Address
<1>5. TypeOK
  BY <1>1, <1>2, <1>3, <1>4 DEF TypeOK
<1>6. OnlySegmentsWritten
  BY <1>1 DEF OnlySegmentsWritten
<1>7. DriveRight
  BY <1>1 DEF DriveRight
<1>8. HeaderLoop
  <2>1. 0 \in 0..HDRSECTS /\ addr = HEADER + (0 * SECTSIZE) /\ sector_no = 1 + 0
    BY <1>1, BootAssumption
  <2> QED
    BY <1>1, <2>1 DEF HeaderLoop, Loop
<1>9. LoopRight
  BY <1>1, <1>8 DEF LoopRight
<1>10. HeaderRight
  BY <1>1, BootAssumption DEF HeaderRight, HeaderPart
<1>11. SegmentsRight
  BY <1>1 DEF SegmentsRight
<1> QED
  BY <1>5, <1>6, <1>7, <1>9, <1>10, <1>11 DEF BootInv

(***************************************************************************)
(* The steps that leave memory and the loop alone.                         *)
(***************************************************************************)
LEMMA MemoryKept ==
    ASSUME BootInv, UNCHANGED <<image, memory, ph, reading>>, ~failed' => ~failed
    PROVE  /\ OnlySegmentsWritten' /\ HeaderRight' /\ SegmentsRight'
           /\ (ph = 0 => HeaderLoop)' /\ (ph > 0 => SegmentLoop(image.phdrs[ph]))'
           /\ More' <=> More
<1>1. /\ image' = image /\ memory' = memory /\ ph' = ph
      /\ addr' = addr /\ addr_end' = addr_end /\ sector_no' = sector_no
  BY DEF reading
<1>2. OnlySegmentsWritten'
  BY <1>1 DEF BootInv, OnlySegmentsWritten
<1>3. HeaderRight'
  BY <1>1 DEF BootInv, HeaderRight
<1>4. SegmentsRight'
  BY <1>1 DEF BootInv, SegmentsRight, SegmentRight
<1>5. HeaderLoop' <=> HeaderLoop
  BY <1>1 DEF HeaderLoop, Loop
<1>6. SegmentLoop(image.phdrs[ph])' <=> SegmentLoop(image.phdrs[ph])
  BY <1>1 DEF SegmentLoop, Loop
<1>7. (ph = 0 => HeaderLoop) /\ (ph > 0 => SegmentLoop(image.phdrs[ph]))
  BY DEF BootInv, LoopRight
<1>8. More' <=> More
  BY <1>1 DEF More
<1> QED
  BY <1>1, <1>2, <1>3, <1>4, <1>5, <1>6, <1>7, <1>8

(* A call of readsect keeps the invariant. *)
LEMMA ReadsectStep == BootInv /\ readsect => BootInv'
<1> SUFFICES ASSUME BootInv, readsect PROVE BootInv'
  OBVIOUS
<1>1. /\ pc = "while" /\ More /\ pc' = "waitdisk" /\ drive' = drive /\ failed' = failed
      /\ UNCHANGED <<image, memory, ph, reading>>
  BY DEF readsect
<1>2. TypeOK'
  BY <1>1 DEF BootInv, TypeOK, reading
<1>3. DriveRight'
  BY <1>1, MemoryKept DEF BootInv, DriveRight
<1>4. LoopRight'
  BY <1>1, MemoryKept DEF LoopRight
<1> QED
  BY <1>1, <1>2, <1>3, <1>4, MemoryKept DEF BootInv

(* A port write of a command keeps the invariant. *)
LEMMA OutbStep == BootInv /\ outb => BootInv'
<1> SUFFICES ASSUME BootInv, outb PROVE BootInv'
  OBVIOUS
<1>1. /\ pc = "waitdisk" /\ pc' = "waitdata" /\ failed' = failed
      /\ drive' = [drive EXCEPT !.state = "busy", !.regs = Digits(sector_no)]
      /\ UNCHANGED <<image, memory, ph, reading>> /\ sector_no' = sector_no
  BY DEF outb, reading
<1>2. Digits(sector_no) \in [1..4 -> 0..(RegSize - 1)]
  <2>1. sector_no \in Nat
    BY BootAssumption DEF BootInv, TypeOK, Address
  <2> QED
    BY <2>1, NumberOfDigits
<1>3. /\ drive' \in [state : {"ready", "busy"}, regs : [1..4 -> 0..(RegSize - 1)],
                     held : (0..(Sectors - 1)) \cup {Garbage}]
      /\ drive'.state = "busy" /\ drive'.regs = Digits(sector_no)
  BY <1>1, <1>2 DEF BootInv, TypeOK
<1>4. TypeOK'
  BY <1>1, <1>3 DEF BootInv, TypeOK, reading
<1>5. More
  BY <1>1 DEF BootInv, DriveRight
<1>6. Digits(sector_no)' = Digits(sector_no)
  BY <1>1 DEF Digits
<1>7. DriveRight'
  BY <1>1, <1>3, <1>5, <1>6, MemoryKept DEF DriveRight
<1>8. LoopRight'
  BY <1>1, MemoryKept DEF LoopRight
<1> QED
  BY <1>1, <1>4, <1>7, <1>8, MemoryKept DEF BootInv

(* What is to be read is on the disk, with a number that the registers hold. *)
LEMMA SectorOnDisk ==
    ASSUME BootInv, More
    PROVE  IF ph = 0 THEN SectorIn(HeaderPart) ELSE SectorIn(Touched(image.phdrs[ph]))
<1>1. TypeOK /\ LoopRight /\ addr \in Address
  BY DEF BootInv, TypeOK
<1>2. CASE ph = 0
  BY <1>1, <1>2, HeaderSector DEF LoopRight
<1>3. CASE ph # 0
  <2>1. ph > 0 /\ ph \in 1..Len(image.phdrs)
    BY <1>1, <1>3, FileIs
  <2>2. SegmentIs(image.phdrs[ph]) /\ SegmentLoop(image.phdrs[ph])
    BY <1>1, <2>1, FileIs DEF LoopRight
  <2> QED
    BY <1>1, <1>3, <2>2, SegmentSector
<1> QED
  BY <1>2, <1>3

(* The drive's answer keeps the invariant. *)
LEMMA DriveReadyStep == BootInv /\ DriveReady => BootInv'
<1> SUFFICES ASSUME BootInv, DriveReady PROVE BootInv'
  OBVIOUS
<1> DEFINE n == Number(drive.regs)  readable == n < Sectors /\ n \notin Unreadable
           held == IF readable THEN n ELSE Garbage
<1>1. /\ drive.state = "busy" /\ pc' = pc
      /\ drive' = [drive EXCEPT !.state = "ready", !.held = held]
      /\ failed' = (failed \/ ~readable)
      /\ UNCHANGED <<image, memory, ph, reading>> /\ sector_no' = sector_no
  BY DEF DriveReady, reading
<1>2. /\ drive \in [state : {"ready", "busy"}, regs : [1..4 -> 0..(RegSize - 1)],
                    held : (0..(Sectors - 1)) \cup {Garbage}]
      /\ failed \in BOOLEAN
  BY DEF BootInv, TypeOK
<1>3. n \in Nat
  <2>1. drive.regs[1] \in Nat /\ drive.regs[2] \in Nat /\ drive.regs[3] \in Nat /\ drive.regs[4] \in Nat
    BY <1>2, BootAssumption
  <2>2. RegSize \in Nat
    BY BootAssumption
  <2> QED
    BY <2>1, <2>2 DEF Number
<1>4. pc = "waitdata" /\ drive.regs = Digits(sector_no) /\ More
  BY <1>1 DEF BootInv, DriveRight
<1>5. sector_no \in Nat /\ sector_no < Sectors
  BY <1>4, SectorOnDisk DEF SectorIn
<1>6. n = sector_no
  <2> DEFINE most == RegSize * RegSize * RegSize * LbaTop
  <2>1. Sectors <= most /\ most \in Nat /\ Sectors \in Nat
    BY BootAssumption
  <2> HIDE DEF most
  <2>2. sector_no < most
    BY <1>5, <2>1
  <2>3. sector_no < RegSize * RegSize * RegSize * LbaTop
    BY <2>2 DEF most
  <2> QED
    BY <1>4, <1>5, <2>3, NumberOfDigits
<1>7. held \in (0..(Sectors - 1)) \cup {Garbage}
  <2>1. Sectors \in Nat
    BY BootAssumption
  <2> HIDE DEF n
  <2> QED
    BY <1>3, <2>1
<1>8. readable => held = sector_no
  BY <1>6
<1> HIDE DEF held, readable
<1>9. /\ drive' \in [state : {"ready", "busy"}, regs : [1..4 -> 0..(RegSize - 1)],
                     held : (0..(Sectors - 1)) \cup {Garbage}]
      /\ drive'.state = "ready" /\ drive'.regs = drive.regs /\ drive'.held = held
  BY <1>1, <1>2, <1>7
<1>10. failed' \in BOOLEAN /\ (~failed' => ~failed /\ readable)
  BY <1>1
<1>11. TypeOK'
  BY <1>1, <1>9, <1>10 DEF BootInv, TypeOK, reading
<1>12. Digits(sector_no)' = Digits(sector_no)
  BY <1>1 DEF Digits
<1>13. DriveRight'
  BY <1>1, <1>4, <1>8, <1>9, <1>10, <1>12, MemoryKept DEF DriveRight
<1>14. LoopRight'
  BY <1>1, <1>4, <1>10, MemoryKept DEF LoopRight
<1> QED
  BY <1>1, <1>10, <1>11, <1>13, <1>14, MemoryKept DEF BootInv

(* A file that is no ELF file is given up within the invariant. *)
LEMMA BadMagicStep == BootInv /\ bad_magic => BootInv'
<1> SUFFICES ASSUME BootInv, bad_magic PROVE BootInv'
  OBVIOUS
<1>1. /\ pc' = "spin" /\ pc = "while" /\ drive' = drive /\ failed' = failed
      /\ UNCHANGED <<image, memory, ph, reading>>
  BY DEF bad_magic
<1>2. TypeOK'
  BY <1>1 DEF BootInv, TypeOK, reading
<1>3. DriveRight'
  BY <1>1 DEF BootInv, DriveRight
<1>4. LoopRight'
  BY <1>1, MemoryKept DEF LoopRight
<1> QED
  BY <1>1, <1>2, <1>3, <1>4, MemoryKept DEF BootInv

(* The jump to the kernel keeps the invariant. *)
LEMMA EntryStep == BootInv /\ e_entry => BootInv'
<1> SUFFICES ASSUME BootInv, e_entry PROVE BootInv'
  OBVIOUS
<1>1. /\ pc' = "kernel" /\ pc = "while" /\ drive' = drive /\ failed' = failed
      /\ ~More /\ ph = Len(image.phdrs)
      /\ UNCHANGED <<image, memory, ph, reading>>
  BY DEF e_entry
<1>2. TypeOK'
  BY <1>1 DEF BootInv, TypeOK, reading
<1>3. DriveRight'
  BY <1>1 DEF BootInv, DriveRight
<1>4. LoopRight'
  BY <1>1, MemoryKept DEF LoopRight
<1> QED
  BY <1>1, <1>2, <1>3, <1>4, MemoryKept DEF BootInv

(***************************************************************************)
(* The next segment.                                                       *)
(***************************************************************************)
(* read_elf_header begins a segment's loop at its first sector. *)
LEMMA LoopBegins ==
    ASSUME NEW p, SegmentIs(p), read_elf_header(p.p_pa, p.p_memsz, p.p_offset)
    PROVE  /\ addr' \in Address /\ addr_end' \in Address /\ sector_no' \in Address
           /\ SegmentLoop(p)'
           /\ \A a \in FilePart(p) : ~(a < addr')
<1> DEFINE skipped == p.p_offset % SECTSIZE  pa == p.p_pa  memsz == p.p_memsz  filesz == p.p_filesz
           size == ADDRESSES  first == (pa - skipped) % size  end == (pa + memsz) % size
<1>1. /\ addr' = first /\ addr_end' = end
      /\ sector_no' = FirstNo(p)
  BY DEF read_elf_header, Start, FirstNo
<1>2. pa \in Nat /\ memsz \in Nat /\ filesz \in Nat /\ skipped \in Nat /\ filesz <= memsz
      /\ FirstNo(p) \in Nat /\ FirstNo(p) < size
  BY DEF SegmentIs, Phdr
<1>3. size \in Nat /\ size > 0
  <2>1. HDRSECTS * SECTSIZE \in Nat
    BY BootAssumption
  <2> DEFINE y == HDRSECTS * SECTSIZE
  <2>2. HEADER + y < ADDRESSES - SECTSIZE /\ HEADER \in Nat /\ ADDRESSES \in Nat /\ y \in Nat
    BY <2>1, BootAssumption
  <2> HIDE DEF y
  <2> QED
    BY <2>2, SectorSize
<1>4. FilePart(p) = pa..(pa + filesz - 1) /\ Span(p) = memsz + skipped /\ First(p) = pa - skipped
  BY DEF FilePart, Span, First
<1> HIDE DEF skipped, pa, memsz, filesz, size
<1>5. first \in 0..(size - 1) /\ end \in 0..(size - 1)
  BY <1>2, <1>3
<1>6. addr' \in Address /\ addr_end' \in Address /\ sector_no' \in Address
  <2>1. Address = 0..(size - 1)
    BY DEF Address, size
  <2> HIDE DEF first, end
  <2> QED
    BY <1>1, <1>2, <1>3, <1>5, <2>1
<1>7. CASE Span(p) = 0
  <2>1. skipped = 0 /\ memsz = 0 /\ filesz = 0
    BY <1>2, <1>4, <1>7
  <2>2. first = end
    BY <1>2, <2>1
  <2>3. FilePart(p) = {}
    BY <1>2, <1>4, <2>1
  <2>4. SegmentLoop(p)'
    BY <1>1, <1>7, <2>2 DEF SegmentLoop
  <2> QED
    BY <1>6, <2>3, <2>4
<1>8. CASE Span(p) # 0
  <2> DEFINE y == SectorsOf(p) * SECTSIZE
  <2>1. Fits(First(p), FirstNo(p), SectorsOf(p), p.p_pa + p.p_memsz)
    BY <1>2, <1>4, <1>8 DEF SegmentIs
  <2>2. /\ First(p) \in Nat /\ SectorsOf(p) \in Nat /\ pa + memsz <= First(p) + y
        /\ First(p) + y <= size - SECTSIZE
    BY <2>1 DEF Fits, pa, memsz, size
  <2>3. y \in Nat
    BY <2>2, SectorSize
  <2> HIDE DEF y
  <2>4. pa - skipped \in 0..(size - 1) /\ pa + memsz \in 0..(size - 1)
    BY <1>2, <1>3, <1>4, <2>2, <2>3, SectorSize
  <2>5. first = pa - skipped /\ end = pa + memsz
    BY <1>3, <2>4
  <2>6. 0 \in 0..SectorsOf(p) /\ First(p) + (0 * SECTSIZE) = First(p) /\ FirstNo(p) + 0 = FirstNo(p)
    BY <1>2, <2>2, SectorSize
  <2>7. Loop(First(p), FirstNo(p), SectorsOf(p), p.p_pa + p.p_memsz)'
    BY <1>1, <1>4, <2>5, <2>6 DEF Loop, pa, memsz
  <2>8. SegmentLoop(p)'
    BY <1>8, <2>7 DEF SegmentLoop
  <2>9. \A a \in FilePart(p) : ~(a < addr')
    BY <1>1, <1>2, <1>4, <2>5
  <2> QED
    BY <1>6, <2>8, <2>9
<1> QED
  BY <1>7, <1>8

(* The step to the next program header keeps the invariant. *)
LEMMA NextSegmentStep == BootInv /\ next_segment => BootInv'
<1> SUFFICES ASSUME BootInv, next_segment PROVE BootInv'
  OBVIOUS
<1> PICK p : p = image.phdrs[ph + 1]
  OBVIOUS
<1>1. /\ pc = "while" /\ ~More /\ ph < Len(image.phdrs) /\ ph' = ph + 1
      /\ image' = image /\ memory' = memory /\ drive' = drive /\ pc' = pc /\ failed' = failed
  BY DEF next_segment
<1>2. read_elf_header(p.p_pa, p.p_memsz, p.p_offset)
  BY DEF next_segment
<1>3. TypeOK /\ LoopRight /\ addr \in Address
  BY DEF BootInv, TypeOK
<1>4. ph \in Nat /\ ph' \in Nat /\ ph' > 0 /\ ph' \in 1..Len(image.phdrs)
  BY <1>1, <1>3, FileIs
<1>5. SegmentIs(p)
  BY <1>1, <1>3, <1>4, FileIs
<1>6. image.phdrs'[ph'] = p
  BY <1>1
<1>7. /\ addr' \in Address /\ addr_end' \in Address /\ sector_no' \in Address
      /\ SegmentLoop(p)'
      /\ \A a \in FilePart(p) : ~(a < addr')
  BY <1>2, <1>5, LoopBegins
<1>8. TypeOK'
  BY <1>1, <1>4, <1>7 DEF BootInv, TypeOK
<1>9. DriveRight'
  BY <1>1 DEF BootInv, DriveRight
<1>10. LoopRight'
  BY <1>1, <1>4, <1>6, <1>7 DEF LoopRight
<1>11. OnlySegmentsWritten'
  BY <1>1, <1>4 DEF BootInv, OnlySegmentsWritten
<1>12. HeaderRight'
  <2> SUFFICES ASSUME ~failed', NEW a \in HeaderPart PROVE memory'[a] = SECTSIZE + (a - HEADER)
    BY DEF HeaderRight
  <2>1. ph > 0 \/ a < addr
    BY <1>1, <1>3, <1>4, HeaderDone DEF LoopRight
  <2> QED
    BY <1>1, <2>1 DEF BootInv, HeaderRight
<1>13. SegmentsRight'
  <2> SUFFICES ASSUME ~failed', NEW k \in 1..ph', NEW a \in FilePart(image.phdrs[k]),
                      k < ph' \/ a < addr'
               PROVE  memory[a] = Origin(image.phdrs[k], a)
    BY <1>1 DEF SegmentsRight, SegmentRight
  <2>1. k # ph'
    BY <1>1, <1>4, <1>6, <1>7
  <2>2. k \in 1..ph
    BY <1>1, <1>4, <2>1
  <2>3. SegmentRight(k)
    BY <1>1, <2>2 DEF BootInv, SegmentsRight
  <2>4. k < ph \/ a < addr
    <3>1. ASSUME k = ph PROVE a < addr
      <4>1. ph > 0 /\ ph \in 1..Len(image.phdrs)
        BY <1>1, <1>3, <1>4, <3>1, FileIs
      <4>2. SegmentIs(image.phdrs[ph]) /\ SegmentLoop(image.phdrs[ph])
        BY <1>3, <4>1, FileIs DEF LoopRight
      <4> QED
        BY <1>1, <1>3, <3>1, <4>2, SegmentDone
    <3> QED
      BY <1>4, <2>2, <3>1
  <2> QED
    BY <2>3, <2>4 DEF SegmentRight
<1> QED
  BY <1>8, <1>9, <1>10, <1>11, <1>12, <1>13 DEF BootInv

(***************************************************************************)
(* A sector's data.                                                        *)
(***************************************************************************)
(* What insl does: the sector's place gets the sector's bytes, or garbage, and
   the loop goes on by one sector; neither of its variables wraps. *)
SectorRead ==
    /\ memory' \in [Address -> Position \cup {Before, Garbage}]
    /\ \A b \in Address :
          IF b \in addr..(addr + SECTSIZE - 1)
          THEN ~failed => memory'[b] = (sector_no * SECTSIZE) + (b - addr)
          ELSE memory'[b] = memory[b]
    /\ addr' = addr + SECTSIZE /\ sector_no' = sector_no + 1 /\ addr_end' = addr_end
    /\ addr' \in Address /\ sector_no' \in Address

(* insl stores the sector that was asked for, while one is still to be read. *)
LEMMA InslReads ==
    ASSUME BootInv, insl
    PROVE  More /\ SectorRead
<1> DEFINE x == drive.held * SECTSIZE  size == ADDRESSES
<1>1. /\ pc = "waitdata" /\ drive.state = "ready" /\ addr_end' = addr_end
      /\ memory' = Stored(addr)
      /\ addr' = (addr + SECTSIZE) % size /\ sector_no' = (sector_no + 1) % size
  BY DEF insl
<1>2. More
  BY <1>1 DEF BootInv, DriveRight
<1>3. /\ addr \in Nat /\ addr + SECTSIZE <= size - SECTSIZE
      /\ sector_no \in Nat /\ sector_no < Sectors
  BY <1>2, SectorOnDisk DEF SectorIn
<1>4. size \in Nat /\ Sectors \in Nat /\ Sectors < size
  BY BootAssumption
<1>5. /\ memory \in [Address -> Position \cup {Before, Garbage}]
      /\ drive.held \in (0..(Sectors - 1)) \cup {Garbage}
  BY DEF BootInv, TypeOK
<1>6. ~failed => drive.held = sector_no
  BY <1>1 DEF BootInv, DriveRight
<1> HIDE DEF size
<1>7. addr' = addr + SECTSIZE /\ sector_no' = sector_no + 1
  <2>1. addr + SECTSIZE \in 0..(size - 1) /\ sector_no + 1 \in 0..(size - 1)
    BY <1>3, <1>4, SectorSize
  <2>2. (addr + SECTSIZE) % size = addr + SECTSIZE /\ (sector_no + 1) % size = sector_no + 1
    BY <1>4, <2>1
  <2> QED
    BY <1>1, <2>2
<1>8. addr' \in Address /\ sector_no' \in Address
  <2>1. Address = 0..(size - 1)
    BY DEF Address, size
  <2> QED
    BY <1>3, <1>4, <1>7, <2>1, SectorSize
<1>9. \A b \in addr..(addr + SECTSIZE - 1) :
        drive.held # Garbage => x + (b - addr) \in Position
  <2> SUFFICES ASSUME NEW b \in addr..(addr + SECTSIZE - 1), drive.held # Garbage
               PROVE  x + (b - addr) \in Position
    OBVIOUS
  <2> DEFINE end == Sectors * SECTSIZE
  <2>1. drive.held \in Nat /\ drive.held < Sectors
    BY <1>4, <1>5
  <2>2. x + SECTSIZE <= end
    BY <1>4, <2>1, SectorSize, ProductOrder
  <2>3. x \in Nat /\ end \in Nat
    BY <1>4, <2>1, SectorSize
  <2>4. Position = 0..(end - 1)
    BY DEF Position
  <2> HIDE DEF x, end
  <2> QED
    BY <1>3, <2>2, <2>3, <2>4, SectorSize
<1>10. memory' = [b \in Address |->
                    IF b \in addr..(addr + SECTSIZE - 1)
                    THEN IF drive.held = Garbage THEN Garbage ELSE x + (b - addr)
                    ELSE memory[b]]
  BY <1>1 DEF Stored
<1>11. memory' \in [Address -> Position \cup {Before, Garbage}]
  <2> HIDE DEF x
  <2> QED
    BY <1>5, <1>9, <1>10
<1>12. sector_no # Garbage
  BY <1>3 DEF Garbage
<1>13. \A b \in Address :
          IF b \in addr..(addr + SECTSIZE - 1)
          THEN ~failed => memory'[b] = (sector_no * SECTSIZE) + (b - addr)
          ELSE memory'[b] = memory[b]
  <2>1. ~failed => x = sector_no * SECTSIZE
    BY <1>6
  <2> DEFINE y == sector_no * SECTSIZE
  <2> HIDE DEF x, y
  <2>2. ~failed => x = y
    BY <2>1 DEF y
  <2>3. \A b \in Address :
          IF b \in addr..(addr + SECTSIZE - 1)
          THEN ~failed => memory'[b] = y + (b - addr)
          ELSE memory'[b] = memory[b]
    BY <1>6, <1>10, <1>12, <2>2
  <2> QED
    BY <2>3 DEF y
<1> QED
  BY <1>1, <1>2, <1>7, <1>8, <1>11, <1>13 DEF SectorRead

(* A sector of the header goes on with the header. *)
LEMMA HeaderSectorRead ==
    ASSUME BootInv, More, SectorRead, UNCHANGED <<image, ph, failed>>, ph = 0
    PROVE  HeaderLoop' /\ HeaderRight' /\ OnlySegmentsWritten'
<1>1. HeaderLoop /\ TypeOK
  BY DEF BootInv, LoopRight
<1>2. /\ SectorIn(HeaderPart)
      /\ \A b \in Int : (sector_no * SECTSIZE) + (b - addr) = SECTSIZE + (b - HEADER)
  BY <1>1, HeaderSector
<1>3. HeaderLoop'
  <2>1. Loop(HEADER, 1, HDRSECTS, HEADER + (HDRSECTS * SECTSIZE))
    BY <1>1 DEF HeaderLoop
  <2>2. addr' = addr + SECTSIZE /\ sector_no' = sector_no + 1 /\ addr_end' = addr_end
    BY DEF SectorRead
  <2>3. Loop(HEADER, 1, HDRSECTS, HEADER + (HDRSECTS * SECTSIZE))'
    BY <2>1, <2>2, HeaderFits, LoopGoesOn
  <2> QED
    BY <2>3 DEF HeaderLoop
<1>4. HeaderRight'
  <2> SUFFICES ASSUME ~failed', NEW a \in HeaderPart, a < addr'
               PROVE  memory'[a] = SECTSIZE + (a - HEADER)
    BY DEF HeaderRight
  <2>1. a \in Address /\ a \in Int
    BY HeaderFits DEF HeaderPart
  <2>2. CASE a \in addr..(addr + SECTSIZE - 1)
    BY <1>2, <2>1, <2>2 DEF SectorRead
  <2>3. CASE a \notin addr..(addr + SECTSIZE - 1)
    <3>1. a < addr
      BY <1>2, <2>1, <2>3, SectorSize DEF SectorRead, SectorIn
    <3>2. memory[a] = SECTSIZE + (a - HEADER)
      BY <3>1 DEF BootInv, HeaderRight
    <3> QED
      BY <2>1, <2>3, <3>2 DEF SectorRead
  <2> QED
    BY <2>2, <2>3
<1>5. OnlySegmentsWritten'
  <2> SUFFICES ASSUME NEW a \in Address, memory'[a] # Before
               PROVE  a \in HeaderPart \/ \E k \in 1..ph : a \in Touched(image.phdrs[k])
    BY DEF OnlySegmentsWritten
  <2>1. CASE a \in addr..(addr + SECTSIZE - 1)
    BY <1>2, <2>1 DEF SectorIn
  <2>2. CASE a \notin addr..(addr + SECTSIZE - 1)
    BY <2>2 DEF SectorRead, BootInv, OnlySegmentsWritten
  <2> QED
    BY <2>1, <2>2
<1> QED
  BY <1>3, <1>4, <1>5

(* What a later segment's sectors put over an earlier segment is what was there. *)
LEMMA SharedSectors ==
    ASSUME NEW file \in Images, NEW j \in 1..Len(file.phdrs), NEW k \in 1..Len(file.phdrs),
           NEW a \in Touched(file.phdrs[j]), a \in FilePart(file.phdrs[k]), a \in Int
    PROVE  Origin(file.phdrs[j], a) = Origin(file.phdrs[k], a)
<1> DEFINE p == file.phdrs[j]  q == file.phdrs[k]
<1>1. WellLinked(file.phdrs) /\ file.phdrs \in Seq(Phdr)
  BY BootAssumption DEF Image
<1>2. j \in DOMAIN file.phdrs /\ k \in DOMAIN file.phdrs /\ p \in Phdr /\ q \in Phdr
  BY <1>1
<1>3. p.p_pa - p.p_offset = q.p_pa - q.p_offset
  BY <1>1, <1>2 DEF WellLinked
<1>4. p.p_pa \in Nat /\ p.p_offset \in Nat /\ q.p_pa \in Nat /\ q.p_offset \in Nat
  BY <1>2 DEF Phdr
<1>5. Origin(p, a) = Origin(q, a)
  <2> DEFINE pa == p.p_pa  po == p.p_offset  qa == q.p_pa  qo == q.p_offset
  <2>1. pa - po = qa - qo /\ pa \in Nat /\ po \in Nat /\ qa \in Nat /\ qo \in Nat
    BY <1>3, <1>4
  <2>2. Origin(p, a) = SECTSIZE + po + (a - pa) /\ Origin(q, a) = SECTSIZE + qo + (a - qa)
    BY DEF Origin
  <2> HIDE DEF pa, po, qa, qo, p, q
  <2> QED
    BY <2>1, <2>2, SectorSize
<1> HIDE DEF p, q
<1> QED
  BY <1>5 DEF p, q

(* A sector of a segment goes on with the segment. *)
LEMMA SegmentSectorRead ==
    ASSUME BootInv, More, SectorRead, UNCHANGED <<image, ph, failed>>, ph # 0
    PROVE  /\ SegmentLoop(image.phdrs[ph])'
           /\ HeaderRight' /\ SegmentsRight' /\ OnlySegmentsWritten'
<1> PICK p : p = image.phdrs[ph]
  OBVIOUS
<1>1. TypeOK /\ ph > 0 /\ ph \in 1..Len(image.phdrs) /\ addr \in Address /\ image \in Images
  BY FileIs DEF BootInv, TypeOK
<1>2. SegmentIs(p) /\ SegmentLoop(p)
  BY <1>1, FileIs DEF BootInv, LoopRight
<1>3. /\ Span(p) > 0 /\ SectorIn(Touched(p))
      /\ \A b \in Int : (sector_no * SECTSIZE) + (b - addr) = Origin(p, b)
  BY <1>1, <1>2, SegmentSector
<1>4. /\ Fits(First(p), FirstNo(p), SectorsOf(p), p.p_pa + p.p_memsz)
      /\ Touched(p) \cap HeaderPart = {}
  BY <1>2, <1>3 DEF SegmentIs
<1>5. SegmentLoop(image.phdrs[ph])'
  <2>1. Span(p) # 0 /\ Loop(First(p), FirstNo(p), SectorsOf(p), p.p_pa + p.p_memsz)
    BY <1>2, <1>3 DEF SegmentLoop, SegmentIs
  <2>2. addr' = addr + SECTSIZE /\ sector_no' = sector_no + 1 /\ addr_end' = addr_end
    BY DEF SectorRead
  <2>3. Loop(First(p), FirstNo(p), SectorsOf(p), p.p_pa + p.p_memsz)'
    BY <1>4, <2>1, <2>2, LoopGoesOn
  <2>4. SegmentLoop(p)'
    BY <2>1, <2>3 DEF SegmentLoop
  <2>5. image'.phdrs[ph'] = p
    OBVIOUS
  <2> QED
    BY <2>4, <2>5
<1>6. HeaderRight'
  <2> SUFFICES ASSUME ~failed', NEW a \in HeaderPart PROVE memory'[a] = SECTSIZE + (a - HEADER)
    BY DEF HeaderRight
  <2>1. a \in Address /\ a \notin addr..(addr + SECTSIZE - 1)
    BY <1>3, <1>4, HeaderFits DEF SectorIn
  <2>2. memory[a] = SECTSIZE + (a - HEADER)
    BY <1>1 DEF BootInv, HeaderRight
  <2> QED
    BY <2>1, <2>2 DEF SectorRead
<1>7. SegmentsRight'
  <2> SUFFICES ASSUME ~failed', NEW k \in 1..ph, NEW a \in FilePart(image.phdrs[k]),
                      k < ph \/ a < addr'
               PROVE  memory'[a] = Origin(image.phdrs[k], a)
    BY DEF SegmentsRight, SegmentRight
  <2>1. k \in 1..Len(image.phdrs) /\ k \in Nat
    BY <1>1, FileIs
  <2>2. SegmentIs(image.phdrs[k])
    BY <1>1, <2>1, FileIs
  <2>3. a \in Address
    <3> PICK q : q = image.phdrs[k]
      OBVIOUS
    <3>1. q.p_pa \in Nat /\ q.p_filesz \in Nat /\ q.p_memsz \in Nat /\ q.p_filesz <= q.p_memsz
          /\ q.p_offset % SECTSIZE \in Nat
      BY <2>2 DEF SegmentIs, Phdr
    <3>2. q.p_memsz > 0
      BY <3>1 DEF FilePart
    <3>3. Span(q) > 0
      BY <3>1, <3>2 DEF Span
    <3> QED
      BY <2>2, <3>3 DEF SegmentIs
  <2>4. a \in Int
    BY <2>3, BootAssumption DEF Address
  <2>5. CASE a \in addr..(addr + SECTSIZE - 1)
    <3>1. a \in Touched(image.phdrs[ph])
      BY <1>3, <2>5 DEF SectorIn
    <3>2. Origin(image.phdrs[ph], a) = Origin(image.phdrs[k], a)
      BY <1>1, <2>1, <2>4, <3>1, SharedSectors
    <3>3. memory'[a] = (sector_no * SECTSIZE) + (a - addr)
      BY <2>3, <2>5 DEF SectorRead
    <3> QED
      BY <1>3, <2>4, <3>2, <3>3
  <2>6. CASE a \notin addr..(addr + SECTSIZE - 1)
    <3>1. a < addr' => a < addr
      BY <1>3, <2>4, <2>6, SectorSize DEF SectorRead, SectorIn
    <3>2. memory[a] = Origin(image.phdrs[k], a)
      BY <3>1 DEF BootInv, SegmentsRight, SegmentRight
    <3> QED
      BY <2>3, <2>6, <3>2 DEF SectorRead
  <2> QED
    BY <2>5, <2>6
<1>8. OnlySegmentsWritten'
  <2> SUFFICES ASSUME NEW a \in Address, memory'[a] # Before
               PROVE  a \in HeaderPart \/ \E k \in 1..ph : a \in Touched(image.phdrs[k])
    BY DEF OnlySegmentsWritten
  <2>1. ph \in 1..ph
    BY <1>1, FileIs
  <2>2. CASE a \in addr..(addr + SECTSIZE - 1)
    BY <1>3, <2>1, <2>2 DEF SectorIn
  <2>3. CASE a \notin addr..(addr + SECTSIZE - 1)
    BY <2>3 DEF SectorRead, BootInv, OnlySegmentsWritten
  <2> QED
    BY <2>2, <2>3
<1> QED
  BY <1>5, <1>6, <1>7, <1>8

(* A sector taken from the drive keeps the invariant. *)
LEMMA InslStep == BootInv /\ insl => BootInv'
<1> SUFFICES ASSUME BootInv, insl PROVE BootInv'
  OBVIOUS
<1>1. More /\ SectorRead
  BY InslReads
<1>2. /\ pc = "waitdata" /\ pc' = "while" /\ drive.state = "ready" /\ drive' = drive
      /\ UNCHANGED <<image, ph, failed>>
  BY DEF insl
<1>3. TypeOK'
  BY <1>1, <1>2 DEF BootInv, TypeOK, SectorRead
<1>4. DriveRight'
  BY <1>2 DEF DriveRight
<1>5. CASE ph = 0
  <2>1. HeaderLoop' /\ HeaderRight' /\ OnlySegmentsWritten'
    BY <1>1, <1>2, <1>5, HeaderSectorRead
  <2>2. LoopRight'
    BY <1>2, <1>5, <2>1 DEF LoopRight
  <2>3. SegmentsRight'
    BY <1>2, <1>5 DEF SegmentsRight
  <2> QED
    BY <1>3, <1>4, <2>1, <2>2, <2>3 DEF BootInv
<1>6. CASE ph # 0
  <2>1. /\ SegmentLoop(image.phdrs[ph])'
        /\ HeaderRight' /\ SegmentsRight' /\ OnlySegmentsWritten'
    BY <1>1, <1>2, <1>6, SegmentSectorRead
  <2>2. LoopRight'
    BY <1>2, <1>6, <2>1 DEF LoopRight
  <2> QED
    BY <1>3, <1>4, <2>1, <2>2 DEF BootInv
<1> QED
  BY <1>5, <1>6

(***************************************************************************)
(* The theorems.                                                           *)
(***************************************************************************)
THEOREM BootInvariant == Spec => []BootInv
<1>1. BootInv /\ [Next]_bootVars => BootInv'
  <2> SUFFICES ASSUME BootInv, [Next]_bootVars PROVE BootInv'
    OBVIOUS
  <2>1. CASE readsect
    BY <2>1, ReadsectStep
  <2>2. CASE outb
    BY <2>2, OutbStep
  <2>3. CASE insl
    BY <2>3, InslStep
  <2>4. CASE bad_magic
    BY <2>4, BadMagicStep
  <2>5. CASE next_segment
    BY <2>5, NextSegmentStep
  <2>6. CASE e_entry
    BY <2>6, EntryStep
  <2>7. CASE DriveReady
    BY <2>7, DriveReadyStep
  <2>8. CASE UNCHANGED bootVars
    <3>1. pc' = pc /\ drive' = drive /\ failed' = failed /\ UNCHANGED <<image, memory, ph, reading>>
      BY <2>8 DEF bootVars, reading
    <3>2. TypeOK'
      BY <3>1 DEF BootInv, TypeOK, reading
    <3>3. Digits(sector_no)' = Digits(sector_no) /\ sector_no' = sector_no
      BY <3>1 DEF Digits, reading
    <3>4. DriveRight' /\ LoopRight'
      BY <3>1, <3>3, MemoryKept DEF BootInv, DriveRight, LoopRight
    <3> QED
      BY <3>1, <3>2, <3>4, MemoryKept DEF BootInv
  <2> QED
    BY <2>1, <2>2, <2>3, <2>4, <2>5, <2>6, <2>7, <2>8 DEF Next, bootmain
<1> QED
  BY <1>1, BootInit, PTL DEF Spec

(* The loader's variables, the drive and memory keep their types: neither the
   address nor the sector number ever leaves its 32 bits (bootmain.c:112-120). *)
THEOREM BootTypeCorrect == Spec => []TypeOK
<1>1. BootInv => TypeOK
  BY DEF BootInv
<1> QED
  BY <1>1, BootInvariant, PTL

(* The loader writes nothing but the header's place and the sectors of the
   segments read so far, however they are aligned (bootmain.c:114-119). *)
THEOREM NothingElseWritten == Spec => []OnlySegmentsWritten
<1>1. BootInv => OnlySegmentsWritten
  BY DEF BootInv
<1> QED
  BY <1>1, BootInvariant, PTL

(* The kernel starts with all of the file's bytes at their addresses, if every
   sector could be read (bootmain.c:154-159). *)
THEOREM KernelIsLoaded == Spec => []SegmentsLoaded
<1>1. BootInv => SegmentsLoaded
  <2> SUFFICES ASSUME BootInv, pc = "kernel", ~failed, NEW k \in DOMAIN image.phdrs,
                      NEW a \in FilePart(image.phdrs[k])
               PROVE  memory[a] = Origin(image.phdrs[k], a)
    BY DEF SegmentsLoaded, Origin
  <2>1. TypeOK /\ LoopRight /\ ph = Len(image.phdrs) /\ ~More /\ addr \in Address
    BY DEF BootInv, LoopRight, TypeOK
  <2>2. k \in 1..ph /\ ph \in Nat
    BY <2>1, FileIs
  <2>3. SegmentRight(k)
    BY <2>2 DEF BootInv, SegmentsRight
  <2>4. CASE k = ph
    <3>1. SegmentIs(image.phdrs[k]) /\ SegmentLoop(image.phdrs[k])
      BY <2>1, <2>2, <2>4, FileIs DEF LoopRight
    <3>2. a < addr
      BY <2>1, <3>1, SegmentDone
    <3> QED
      BY <2>3, <3>2 DEF SegmentRight
  <2>5. CASE k # ph
    BY <2>2, <2>3, <2>5 DEF SegmentRight
  <2> QED
    BY <2>4, <2>5
<1> QED
  BY <1>1, BootInvariant, PTL

(* No segment is read over the header that the loop over the program headers
   still reads (bootmain.c:150-157). *)
THEOREM HeaderSurvives == Spec => []HeaderKept
<1>1. BootInv => HeaderKept
  <2> SUFFICES ASSUME BootInv, ph > 0 \/ pc = "kernel", ~failed, NEW a \in HeaderPart
               PROVE  memory[a] = SECTSIZE + (a - HEADER)
    BY DEF HeaderKept
  <2>1. TypeOK /\ LoopRight /\ addr \in Address
    BY DEF BootInv, TypeOK
  <2>2. ph \in Nat
    BY <2>1, FileIs
  <2>3. ph > 0 \/ a < addr
    BY <2>1, <2>2, HeaderDone DEF LoopRight
  <2> QED
    BY <2>3 DEF BootInv, HeaderRight
<1> QED
  BY <1>1, BootInvariant, PTL
=============================================================================
