------------------------- MODULE FormatCalls_proofs -------------------------
(***************************************************************************)
(* Proofs about the arithmetic of printfmt.c and strtol for every size of a *)
(* word, about the texts that formats stand for, and about where each part *)
(* of a format, of its arguments and of its text lies.                     *)
(***************************************************************************)
EXTENDS FormatCalls, SequenceTheorems, WellFoundedInduction, TLAPS

(* What a quotient and a remainder are. *)
LEMMA DivisionIs ==
    ASSUME NEW n \in Nat, NEW base \in Nat, base > 0
    PROVE  /\ n \div base \in Nat /\ (n % base) \in 0..(base - 1)
           /\ n = base * (n \div base) + (n % base)
  OBVIOUS

(* There is one quotient with a remainder below the divisor. *)
LEMMA DivisionUnique ==
    ASSUME NEW n \in Nat, NEW base \in Nat, base > 0,
           NEW q \in Nat, NEW r \in 0..(base - 1), n = base * q + r
    PROVE  n \div base = q /\ (n % base) = r
<1> DEFINE p == n \div base  s == n % base
<1>1. p \in Nat /\ s \in 0..(base - 1) /\ n = base * p + s
  BY DivisionIs
<1> HIDE DEF p, s
<1>2. base * p + s = base * q + r
  BY <1>1
<1>3. ~(p < q)
  <2> SUFFICES ASSUME p < q PROVE FALSE
    OBVIOUS
  <2>1. q = p + (q - p) /\ q - p \in Nat /\ q - p >= 1
    BY <1>1
  <2>2. base * q = base * p + base * (q - p)
    BY <1>1, <2>1
  <2>3. base * (q - p) >= base
    BY <2>1
  <2> QED
    BY <1>1, <1>2, <2>2, <2>3
<1>4. ~(q < p)
  <2> SUFFICES ASSUME q < p PROVE FALSE
    OBVIOUS
  <2>1. p = q + (p - q) /\ p - q \in Nat /\ p - q >= 1
    BY <1>1
  <2>2. base * p = base * q + base * (p - q)
    BY <1>1, <2>1
  <2>3. base * (p - q) >= base
    BY <2>1
  <2> QED
    BY <1>1, <1>2, <2>2, <2>3
<1>5. p = q
  BY <1>1, <1>3, <1>4
<1>6. s = r
  BY <1>1, <1>2, <1>5
<1> QED
  BY <1>5, <1>6 DEF p, s

(* What do_div divides second: the remainder of the high word before the low. *)
Rest(n, base) == ((n \div Word) % base) * Word + (n % Word)

(* The second division is of a number below base words. *)
LEMMA RestBound ==
    ASSUME NEW n \in Nat, NEW base \in Nat, base > 0
    PROVE  Rest(n, base) \in Nat /\ Rest(n, base) < base * Word
<1> DEFINE high == n \div Word  low == n % Word  rh == high % base
<1>1. Word \in Nat /\ Word > 0
  BY WordAssumption
<1>2. high \in Nat /\ low \in 0..(Word - 1)
  BY <1>1, DivisionIs
<1> HIDE DEF high, low
<1>3. rh \in 0..(base - 1)
  BY <1>2, DivisionIs
<1> HIDE DEF rh
<1>4. rh * Word \in Nat /\ rh * Word + Word = (rh + 1) * Word
  BY <1>1, <1>3
<1>5. (rh + 1) * Word <= base * Word
  <2>1. base = (rh + 1) + (base - (rh + 1)) /\ base - (rh + 1) \in Nat
    BY <1>3
  <2>2. base * Word = (rh + 1) * Word + (base - (rh + 1)) * Word
    BY <1>1, <1>3, <2>1
  <2>3. (base - (rh + 1)) * Word \in Nat
    BY <1>1, <2>1
  <2> QED
    BY <1>1, <1>3, <2>2, <2>3
<1>6. rh * Word + low \in Nat /\ rh * Word + low < base * Word
  BY <1>1, <1>2, <1>4, <1>5
<1> QED
  BY <1>6 DEF Rest, rh, high, low

(* do_div divides, whatever the number and the base (002x86.h, do_div). *)
THEOREM DoDivDivides ==
    ASSUME NEW n \in Nat, NEW base \in Nat, base > 0
    PROVE  do_div(n, base) = [quotient |-> n \div base, mod |-> (n % base)]
<1> DEFINE high == n \div Word  low == n % Word  rest == Rest(n, base)
           qh == high \div base  rh == high % base  ql == rest \div base  rl == rest % base
<1>1. Word \in Nat /\ Word > 0
  BY WordAssumption
<1>2. high \in Nat /\ low \in 0..(Word - 1) /\ n = Word * high + low
  BY <1>1, DivisionIs
<1>3. rest = rh * Word + low
  BY DEF Rest
<1>4. rest \in Nat
  BY RestBound
<1> HIDE DEF high, low, rest
<1>5. qh \in Nat /\ rh \in 0..(base - 1) /\ high = base * qh + rh
  BY <1>2, DivisionIs
<1>6. ql \in Nat /\ rl \in 0..(base - 1) /\ rest = base * ql + rl
  BY <1>4, DivisionIs
<1>7. do_div(n, base) = [quotient |-> qh * Word + ql, mod |-> rl]
  BY <1>3 DEF do_div, high, low, rest, Rest
<1> HIDE DEF qh, rh, ql, rl
<1>8. Word * high = base * (qh * Word) + rh * Word
  <2>1. Word * high = (base * qh + rh) * Word
    BY <1>1, <1>2, <1>5
  <2>2. (base * qh + rh) * Word = (base * qh) * Word + rh * Word
    BY <1>1, <1>5
  <2>3. (base * qh) * Word = base * (qh * Word)
    BY <1>1, <1>5
  <2> QED
    BY <2>1, <2>2, <2>3
<1>9. qh * Word \in Nat /\ rh * Word \in Nat
  BY <1>1, <1>5
<1>10. n = base * (qh * Word) + (rh * Word + low)
  BY <1>1, <1>2, <1>5, <1>8, <1>9
<1>11. n = base * (qh * Word) + (base * ql + rl)
  BY <1>3, <1>6, <1>10
<1>12. base * (qh * Word + ql) = base * (qh * Word) + base * ql
  BY <1>6, <1>9
<1>13. qh * Word + ql \in Nat /\ n = base * (qh * Word + ql) + rl
  BY <1>6, <1>9, <1>11, <1>12
<1>14. n \div base = qh * Word + ql /\ (n % base) = rl
  BY <1>6, <1>13, DivisionUnique
<1> QED
  BY <1>7, <1>14

(* Neither of its two divl instructions overflows, which would be a fault: the
   quotients fit into a word if the number fits into two. *)
THEOREM DoDivFits ==
    ASSUME NEW n \in Nat, NEW base \in Nat, base > 0, n < Word * Word
    PROVE  (n \div Word) \div base < Word /\ Rest(n, base) \div base < Word
<1> DEFINE high == n \div Word
<1>1. Word \in Nat /\ Word > 0
  BY WordAssumption
<1>2. high \in Nat /\ high < Word
  <2>1. high \in Nat /\ (n % Word) \in 0..(Word - 1) /\ n = Word * high + (n % Word)
    BY <1>1, DivisionIs
  <2> HIDE DEF high
  <2> SUFFICES ASSUME high >= Word PROVE FALSE
    BY <1>1, <2>1
  <2>2. Word * high = Word * Word + Word * (high - Word) /\ high - Word \in Nat
    BY <1>1, <2>1
  <2>3. Word * (high - Word) \in Nat
    BY <1>1, <2>2
  <2> QED
    BY <1>1, <2>1, <2>2, <2>3
<1> HIDE DEF high
<1>3. high \div base < Word
  <2>1. high \div base \in Nat /\ (high % base) \in Nat /\ high = base * (high \div base) + (high % base)
    BY <1>2, DivisionIs
  <2> DEFINE q == high \div base
  <2> HIDE DEF q
  <2>2. q \in Nat /\ base - 1 \in Nat
    BY <2>1 DEF q
  <2>3. base * q = q + (base - 1) * q /\ (base - 1) * q \in Nat
    BY <2>2
  <2> QED
    BY <1>1, <1>2, <2>1, <2>2, <2>3 DEF q
<1>4. Rest(n, base) \div base < Word
  <2> DEFINE r == Rest(n, base)  q == r \div base
  <2>1. r \in Nat /\ r < base * Word
    BY RestBound
  <2> HIDE DEF r
  <2>2. q \in Nat /\ (r % base) \in Nat /\ r = base * q + (r % base)
    BY <2>1, DivisionIs
  <2> HIDE DEF q
  <2>3. base * q < base * Word
    BY <1>1, <2>1, <2>2
  <2> SUFFICES ASSUME q >= Word PROVE FALSE
    BY <1>1, <2>2 DEF q, r
  <2>4. base * q = base * Word + base * (q - Word) /\ q - Word \in Nat
    BY <1>1, <2>2
  <2>5. base * (q - Word) \in Nat
    BY <2>4
  <2> QED
    BY <1>1, <2>2, <2>3, <2>4, <2>5
<1> QED
  BY <1>3, <1>4 DEF high

(* A set of natural numbers that is not empty has a least element. *)
LEMMA LeastElement ==
    ASSUME NEW T, T \subseteq Nat, T # {}
    PROVE  \E x \in T : \A y \in T : x <= y
<1> DEFINE R == OpToRel(<, Nat)
<1>1. IsWellFoundedOn(R, Nat)
  BY NatLessThanWellFounded
<1>2. R = {ss \in Nat \X Nat : ss[1] < ss[2]}
  BY DEF OpToRel
<1> HIDE DEF R
<1>3. PICK x \in T : \A y \in T : ~(<<y, x>> \in R)
  BY <1>1, WFMin, Zenon
<1>4. \A y \in T : x <= y
  <2> TAKE y \in T
  <2>1. <<y, x>> \in Nat \X Nat /\ <<y, x>>[1] = y /\ <<y, x>>[2] = x
    OBVIOUS
  <2>2. ~(y < x)
    BY <1>2, <1>3, <2>1
  <2> QED
    BY <2>1, <2>2
<1> QED
  BY <1>4

(* Induction, over a set: no operator is a parameter. *)
LEMMA InductionOver ==
    ASSUME NEW T, \A n \in Nat : (\A m \in 0..(n - 1) : m \in T) => n \in T
    PROVE  \A n \in Nat : n \in T
<1> DEFINE U == {n \in Nat : n \notin T}
<1>1. CASE U = {}
  BY <1>1
<1>2. CASE U # {}
  <2>1. U \subseteq Nat
    OBVIOUS
  <2> HIDE DEF U
  <2>2. PICK x \in U : \A y \in U : x <= y
    BY <1>2, <2>1, LeastElement
  <2> USE DEF U
  <2>3. \A m \in 0..(x - 1) : m \in T
    BY <2>2
  <2> QED
    BY <2>2, <2>3
<1> QED
  BY <1>1, <1>2

(* A function that is defined by what it is at a smaller number exists: a is its
   value where it does not recur, d where it recurs to, and g what it makes of that. *)
Recurs(f, N, D, a, d, g) == \A n \in N : f[n] = IF n \in D THEN g[n][f[d[n]]] ELSE a[n]

(* A function that recurs to smaller numbers only exists: so does the one that is chosen. *)
LEMMA RecursionExists ==
    ASSUME NEW S, NEW D, NEW a \in [Nat -> S], NEW d \in [Nat -> Nat], NEW g \in [Nat -> [S -> S]],
           \A n \in Nat : n \in D => d[n] < n
    PROVE  \E f \in [Nat -> S] : Recurs(f, Nat, D, a, d, g)
<1> DEFINE Sol(N) == {f \in [0..N -> S] : \A n \in 0..N : f[n] = IF n \in D THEN g[n][f[d[n]]] ELSE a[n]}
           T == {N \in Nat : Sol(N) # {}}
<1>1. \A N \in Nat : N \in T
  <2>1. ASSUME NEW N \in Nat, \A m \in 0..(N - 1) : m \in T PROVE N \in T
    <3>1. CASE N = 0
      <4> DEFINE f == [n \in 0..0 |-> a[0]]
      <4>1. f \in [0..0 -> S] /\ \A n \in 0..0 : n = 0 /\ n \notin D /\ f[n] = a[n]
        OBVIOUS
      <4>2. f \in Sol(0)
        BY <4>1
      <4> QED
        BY <3>1, <4>2
    <3>2. CASE N > 0
      <4>1. PICK f : f \in Sol(N - 1)
        <5>1. N - 1 \in 0..(N - 1)
          BY <3>2
        <5>2. N - 1 \in T
          <6> HIDE DEF T
          <6> QED
            BY <2>1, <5>1
        <5> HIDE DEF Sol
        <5> QED
          BY <5>2
      <4>2. /\ f \in [0..(N - 1) -> S]
            /\ \A n \in 0..(N - 1) : f[n] = IF n \in D THEN g[n][f[d[n]]] ELSE a[n]
        BY <4>1
      <4> DEFINE last == IF N \in D THEN g[N][f[d[N]]] ELSE a[N]
                 h == [n \in 0..N |-> IF n = N THEN last ELSE f[n]]
      <4>3. last \in S
        <5>1. N \in D => d[N] \in 0..(N - 1)
          BY <3>2
        <5> QED
          BY <4>2, <5>1
      <4> HIDE DEF last
      <4>4. h \in [0..N -> S]
        BY <4>2, <4>3
      <4>5. ASSUME NEW n \in 0..N PROVE h[n] = IF n \in D THEN g[n][h[d[n]]] ELSE a[n]
        <5>1. n \in D => d[n] \in 0..N /\ d[n] # N /\ d[n] \in 0..(N - 1)
          OBVIOUS
        <5>2. n \in D => h[d[n]] = f[d[n]]
          BY <5>1
        <5>3. CASE n = N
          <6>1. h[n] = last
            BY <5>3
          <6>2. n \in D => last = g[n][h[d[n]]]
            BY <5>2, <5>3 DEF last
          <6>3. n \notin D => last = a[n]
            BY <5>3 DEF last
          <6> HIDE DEF h
          <6> QED
            BY <6>1, <6>2, <6>3
        <5>4. CASE n # N
          <6>1. n \in 0..(N - 1) /\ h[n] = f[n]
            BY <5>4
          <6> HIDE DEF h
          <6> QED
            BY <4>2, <5>2, <6>1
        <5> QED
          BY <5>3, <5>4
      <4>6. h \in Sol(N)
        <5> HIDE DEF h
        <5> QED
          BY <4>4, <4>5
      <4>7. Sol(N) # {}
        <5> HIDE DEF h, Sol
        <5> QED
          BY <4>6
      <4> HIDE DEF h, Sol
      <4> QED
        BY <4>7
    <3> HIDE DEF T
    <3> QED
      BY <3>1, <3>2
  <2> HIDE DEF T
  <2> QED
    BY <2>1, InductionOver
<1>2. ASSUME NEW N \in Nat, NEW M \in Nat, NEW f \in Sol(N), NEW h \in Sol(M)
      PROVE  \A n \in Nat : n <= N /\ n <= M => f[n] = h[n]
  <2> DEFINE V == {n \in Nat : n <= N /\ n <= M => f[n] = h[n]}
  <2>1. ASSUME NEW n \in Nat, \A m \in 0..(n - 1) : m \in V PROVE n \in V
    <3> SUFFICES ASSUME n <= N, n <= M PROVE f[n] = h[n]
      OBVIOUS
    <3>1. /\ f[n] = IF n \in D THEN g[n][f[d[n]]] ELSE a[n]
          /\ h[n] = IF n \in D THEN g[n][h[d[n]]] ELSE a[n]
      <4>1. n \in 0..N /\ n \in 0..M
        OBVIOUS
      <4> QED
        BY <4>1
    <3>2. n \in D => f[d[n]] = h[d[n]]
      <4> SUFFICES ASSUME n \in D PROVE f[d[n]] = h[d[n]]
        OBVIOUS
      <4>1. PICK m \in Nat : m = d[n] /\ m < n
        OBVIOUS
      <4>2. m \in 0..(n - 1) /\ m <= N /\ m <= M
        <5> HIDE DEF Sol, V
        <5> QED
          BY <4>1
      <4>3. m \in V
        BY <2>1, <4>2
      <4> QED
        BY <4>1, <4>2, <4>3
    <3> QED
      BY <3>1, <3>2
  <2>2. \A n \in Nat : n \in V
    <3> HIDE DEF V
    <3> QED
      BY <2>1, InductionOver
  <2> QED
    BY <2>2
<1> DEFINE c(N) == CHOOSE f : f \in Sol(N)
<1>3. \A N \in Nat : c(N) \in Sol(N)
  BY <1>1
<1> HIDE DEF c
<1> DEFINE F == [n \in Nat |-> c(n)[n]]
<1>4. F \in [Nat -> S]
  BY <1>3
<1>5. ASSUME NEW n \in Nat PROVE F[n] = IF n \in D THEN g[n][F[d[n]]] ELSE a[n]
  <2>1. c(n)[n] = IF n \in D THEN g[n][c(n)[d[n]]] ELSE a[n]
    BY <1>3
  <2>2. n \in D => d[n] \in Nat /\ d[n] <= n /\ d[n] <= d[n]
    OBVIOUS
  <2>3. n \in D => c(n)[d[n]] = c(d[n])[d[n]]
    <3> HIDE DEF Sol
    <3> QED
      BY <1>2, <1>3, <2>2
  <2> QED
    BY <2>1, <2>2, <2>3
<1>6. Recurs(F, Nat, D, a, d, g)
  BY <1>5 DEF Recurs
<1> QED
  BY <1>4, <1>6

(* The table of the figures. *)
LEMMA LowerOnce == \A j, k \in 1..36 : Lower[j] = Lower[k] => j = k
  BY DEF Lower

Figures == {Lower[k] : k \in 1..36}

(* The quotient by a base is smaller than the number. *)
LEMMA QuotientLess ==
    ASSUME NEW n \in Nat, NEW base \in Nat, base >= 2, n >= base
    PROVE  n \div base \in Nat /\ n \div base < n /\ n \div base >= 1
<1> DEFINE q == n \div base  r == n % base
<1>1. q \in Nat /\ r \in 0..(base - 1) /\ n = base * q + r
  BY DivisionIs
<1> HIDE DEF q, r
<1>2. q # 0
  BY <1>1
<1>3. base * q = q + q + (base - 2) * q /\ (base - 2) * q \in Nat
  BY <1>1
<1> QED
  BY <1>1, <1>2, <1>3 DEF q

(* printnum's figures are the first of strtol's. *)
LEMMA HexitIs == \A k \in 1..16 : Hexits[k] = Lower[k] /\ Lower[k] \in Figures
<1>1. \A k \in 1..16 : Hexits[k] = Lower[k]
  BY DEF Hexits, Lower
<1> QED
  BY <1>1 DEF Figures

(* printnum recurs as the code does. *)
LEMMA PrintnumIs ==
    ASSUME NEW n \in Nat, NEW base \in 2..16, NEW columns \in Int, NEW padc
    PROVE  printnum(n, base, columns, padc)
             = (IF n >= base THEN printnum(n \div base, base, columns - 1, padc)
                ELSE Repeated(padc, columns - 1)) \o << Lower[(n % base) + 1] >>
<1> DEFINE Fig(m) == << Hexits[(m % base) + 1] >>
           C == Seq(Figures \cup {padc})
           S == [Int -> C]
           D == {m \in Nat : m >= base}
           a == [m \in Nat |-> [w \in Int |-> Repeated(padc, w - 1) \o Fig(m)]]
           d == [m \in Nat |-> m \div base]
           g == [m \in Nat |-> [h \in S |-> [w \in Int |-> h[w - 1] \o Fig(m)]]]
           G(h, num, e) == [width \in Int |->
                             (IF num >= base THEN h[e.quotient][width - 1]
                              ELSE Repeated(padc, width - 1)) \o << Hexits[e.mod + 1] >>]
           F(h) == [num \in Nat |-> G(h, num, do_div(num, base))]
           text == CHOOSE f : f = F(f)
<1>1. \A m \in Nat : Fig(m) \in C
  <2> TAKE m \in Nat
  <2>1. (m % base) + 1 \in 1..16
    <3>1. (m % base) \in 0..(base - 1)
      BY DivisionIs
    <3> QED
      BY <3>1
  <2>2. Hexits[(m % base) + 1] \in Figures \cup {padc}
    BY <2>1, HexitIs
  <2> QED
    BY <2>2
<1>2. \A w \in Int : Repeated(padc, w - 1) \in C
  BY DEF Repeated
<1> HIDE DEF Fig
<1>3. \A s \in C, m \in Nat : s \o Fig(m) \in C
  BY <1>1, ConcatProperties
<1>4. a \in [Nat -> S] /\ g \in [Nat -> [S -> S]]
  <2> HIDE DEF C
  <2> QED
    BY <1>2, <1>3
<1>5. d \in [Nat -> Nat] /\ \A m \in Nat : m \in D => d[m] < m
  BY DivisionIs, QuotientLess
<1>6. PICK f \in [Nat -> S] : Recurs(f, Nat, D, a, d, g)
  <2> HIDE DEF S, D, a, d, g
  <2> QED
    BY <1>4, <1>5, RecursionExists
<1>7. \A m \in Nat : do_div(m, base) = [quotient |-> m \div base, mod |-> (m % base)]
  <2>1. base \in Nat /\ base > 0
    OBVIOUS
  <2> QED
    BY <2>1, DoDivDivides
<1>8. f = F(f)
  <2>1. \A m \in Nat : f[m] = F(f)[m]
    <3> TAKE m \in Nat
    <3>1. f[m] = IF m \in D THEN g[m][f[d[m]]] ELSE a[m]
      BY <1>6 DEF Recurs
    <3>2. m \div base \in Nat /\ d[m] = m \div base /\ f[m \div base] \in S
      BY <1>5, <1>6
    <3>3. F(f)[m] = [width \in Int |-> (IF m >= base THEN f[m \div base][width - 1]
                                        ELSE Repeated(padc, width - 1)) \o Fig(m)]
      <4>1. F(f)[m] = G(f, m, [quotient |-> m \div base, mod |-> (m % base)])
        <5> HIDE DEF G
        <5> QED
          BY <1>7
      <4> QED
        BY <4>1 DEF Fig
    <3>4. CASE m >= base
      <4>1. f[m] = [w \in Int |-> f[m \div base][w - 1] \o Fig(m)]
        BY <3>1, <3>2, <3>4
      <4> QED
        BY <3>3, <3>4, <4>1
    <3>5. CASE ~(m >= base)
      <4>1. f[m] = [w \in Int |-> Repeated(padc, w - 1) \o Fig(m)]
        BY <3>1, <3>5
      <4> QED
        BY <3>3, <3>5, <4>1
    <3> QED
      BY <3>4, <3>5
  <2> HIDE DEF S
  <2> QED
    BY <1>6, <2>1
<1>9. text = F(text)
  <2> HIDE DEF F
  <2> QED
    BY <1>8
<1>10. \A m \in Nat, w \in Int : printnum(m, base, w, padc) = text[m][w]
  BY DEF printnum
<1> HIDE DEF text
<1>11. text[n] = G(text, n, [quotient |-> n \div base, mod |-> (n % base)])
  <2>1. text[n] = F(text)[n]
    BY <1>9
  <2> HIDE DEF G
  <2> QED
    BY <1>7, <2>1
<1>12. text[n][columns] = (IF n >= base THEN text[n \div base][columns - 1]
                           ELSE Repeated(padc, columns - 1)) \o << Hexits[(n % base) + 1] >>
  BY <1>11
<1>13. n \div base \in Nat /\ columns - 1 \in Int
  BY DivisionIs
<1>14. Hexits[(n % base) + 1] = Lower[(n % base) + 1]
  <2>1. (n % base) \in 0..(base - 1)
    BY DivisionIs
  <2>2. (n % base) + 1 \in 1..16
    BY <2>1
  <2> QED
    BY <2>2, HexitIs
<1> QED
  BY <1>10, <1>12, <1>13, <1>14

(* The value that is gone through when a text of figures is read. *)
Reads(s, base, v, n) ==
    /\ v \in [0..Len(s) -> Nat] /\ v[0] = 0 /\ v[Len(s)] = n
    /\ \A k \in 1..Len(s) : \E dig \in 0..(base - 1) :
           s[k] = Lower[dig + 1] /\ v[k] = base * v[k - 1] + dig

(* The numeral of a number: figures that stand for it, without a leading zero. *)
IsNumeral(s, n, base) ==
    /\ s \in Seq(Figures) /\ Len(s) >= 1
    /\ \E v : Reads(s, base, v, n)
    /\ Len(s) > 1 => s[1] # "0"

(* A digit has a figure, and only zero has the figure 0. *)
LEMMA FigureIs == ASSUME NEW dig \in 0..35 PROVE Lower[dig + 1] \in Figures /\ (dig # 0 => Lower[dig + 1] # "0")
<1>1. dig + 1 \in 1..36 /\ 1 \in 1..36 /\ Lower[1] = "0"
  BY DEF Lower
<1>2. Lower[dig + 1] = Lower[1] => dig + 1 = 1
  BY <1>1, LowerOnce
<1> QED
  BY <1>1, <1>2 DEF Figures

(* The numeral of a digit is its figure. *)
LEMMA OneFigure ==
    ASSUME NEW base \in 2..36, NEW n \in 0..(base - 1)
    PROVE  IsNumeral(<< Lower[n + 1] >>, n, base)
<1> DEFINE c == Lower[n + 1]  v == [k \in 0..1 |-> IF k = 0 THEN 0 ELSE n]
<1>1. c \in Figures
  BY FigureIs
<1>2. PICK s \in Seq(Figures) : s = << c >> /\ Len(s) = 1 /\ s[1] = c
  <2> HIDE DEF c
  <2>1. << c >> \in Seq(Figures) /\ Len(<< c >>) = 1 /\ << c >>[1] = c
    BY <1>1
  <2> QED
    BY <2>1
<1>3. v \in [0..1 -> Nat] /\ v[0] = 0 /\ v[1] = n
  OBVIOUS
<1> HIDE DEF v
<1>4. ASSUME NEW k \in 1..1 PROVE \E dig \in 0..(base - 1) : s[k] = Lower[dig + 1] /\ v[k] = base * v[k - 1] + dig
  <2>1. k = 1 /\ k - 1 = 0
    OBVIOUS
  <2>2. s[k] = Lower[n + 1] /\ v[k] = base * v[k - 1] + n
    BY <1>2, <1>3, <2>1
  <2> QED
    BY <2>2
<1>5. Reads(s, base, v, n)
  BY <1>2, <1>3, <1>4 DEF Reads
<1> QED
  BY <1>2, <1>5 DEF IsNumeral

(* A numeral with one figure more. *)
LEMMA FigureMore ==
    ASSUME NEW base \in 2..36, NEW q \in Nat, NEW s, IsNumeral(s, q, base), q >= 1, NEW r \in 0..(base - 1)
    PROVE  /\ IsNumeral(Append(s, Lower[r + 1]), base * q + r, base)
           /\ Len(Append(s, Lower[r + 1])) = Len(s) + 1
<1> DEFINE c == Lower[r + 1]  n == base * q + r  l == Len(s)
<1>1. s \in Seq(Figures) /\ l \in Nat /\ l >= 1 /\ (l > 1 => s[1] # "0")
  BY LenProperties DEF IsNumeral
<1>2. PICK v : Reads(s, base, v, q)
  BY DEF IsNumeral
<1>3. c \in Figures
  BY FigureIs
<1> HIDE DEF l, c
<1>4. PICK t \in Seq(Figures) : t = Append(s, c) /\ Len(t) = l + 1 /\ t[l + 1] = c /\ \A k \in 1..l : t[k] = s[k]
  <2>1. PICK t : t = Append(s, c)
    OBVIOUS
  <2>2. t \in Seq(Figures) /\ Len(t) = l + 1 /\ t[l + 1] = c /\ \A k \in 1..l : t[k] = s[k]
    BY <1>1, <1>3, <2>1, AppendProperties DEF l
  <2> QED
    BY <2>1, <2>2
<1> DEFINE w == [k \in 0..(l + 1) |-> IF k = l + 1 THEN n ELSE v[k]]
<1>5. /\ v \in [0..l -> Nat] /\ v[0] = 0 /\ v[l] = q
      /\ \A k \in 1..l : \E dig \in 0..(base - 1) : s[k] = Lower[dig + 1] /\ v[k] = base * v[k - 1] + dig
  BY <1>2 DEF Reads, l
<1>6. n \in Nat
  OBVIOUS
<1>7. w \in [0..(l + 1) -> Nat] /\ w[0] = 0 /\ w[l + 1] = n /\ \A k \in 0..l : w[k] = v[k]
  <2> HIDE DEF n
  <2>1. 0 \in 0..(l + 1) /\ l + 1 \in 0..(l + 1) /\ 0 # l + 1 /\ 0 \in 0..l
    BY <1>1
  <2>2. \A k \in 0..l : k \in 0..(l + 1) /\ k # l + 1 /\ v[k] \in Nat
    <3>1. \A k \in 0..l : v[k] \in Nat
      BY <1>5
    <3>2. \A k \in 0..l : k \in 0..(l + 1) /\ k # l + 1
      BY <1>1
    <3> QED
      BY <3>1, <3>2
  <2>3. \A k \in 0..(l + 1) : k # l + 1 => k \in 0..l
    BY <1>1
  <2> QED
    BY <1>5, <1>6, <2>1, <2>2, <2>3
<1> HIDE DEF w
<1>8. ASSUME NEW k \in 1..(l + 1)
      PROVE  \E dig \in 0..(base - 1) : t[k] = Lower[dig + 1] /\ w[k] = base * w[k - 1] + dig
  <2>1. CASE k = l + 1
    <3>1. t[k] = Lower[r + 1] /\ w[k] = base * w[k - 1] + r
      <4>1. k - 1 = l /\ l \in 0..l
        BY <1>1, <2>1
      <4>2. w[k - 1] = q /\ w[k] = n
        BY <1>5, <1>7, <2>1, <4>1
      <4> QED
        BY <1>4, <2>1, <4>2 DEF c
    <3> QED
      BY <3>1
  <2>2. CASE k # l + 1
    <3>1. k \in 1..l /\ k \in 0..l /\ k - 1 \in 0..l
      BY <1>1, <2>2
    <3>2. PICK dig \in 0..(base - 1) : s[k] = Lower[dig + 1] /\ v[k] = base * v[k - 1] + dig
      BY <1>5, <3>1
    <3> QED
      BY <1>4, <1>7, <3>1, <3>2
  <2> QED
    BY <2>1, <2>2
<1>9. t[1] # "0"
  <2>1. 1 \in 1..l /\ t[1] = s[1]
    BY <1>1, <1>4
  <2>2. CASE l > 1
    BY <1>1, <2>1, <2>2
  <2>3. CASE l = 1
    <3>1. PICK dig \in 0..(base - 1) : s[1] = Lower[dig + 1] /\ v[1] = base * v[0] + dig
      <4>1. 1 - 1 = 0
        OBVIOUS
      <4> QED
        BY <1>5, <2>1, <4>1
    <3>2. dig = q /\ dig \in 0..35
      <4>1. base * v[0] = 0 /\ v[1] = q
        <5>1. v[0] = 0 /\ v[1] = q
          BY <1>5, <2>3
        <5>2. base * 0 = 0
          OBVIOUS
        <5> QED
          BY <5>1, <5>2
      <4>2. PICK z : z = base * v[0]
        OBVIOUS
      <4>3. z = 0 /\ q = z + dig
        BY <3>1, <4>1, <4>2
      <4> QED
        BY <4>3
    <3>3. Lower[dig + 1] # "0"
      <4>1. dig # 0 /\ dig \in 0..35
        BY <3>2
      <4> QED
        BY <4>1, FigureIs
    <3> QED
      BY <2>1, <3>1, <3>3
  <2> QED
    BY <1>1, <2>2, <2>3
<1>10. Reads(t, base, w, n)
  BY <1>4, <1>7, <1>8 DEF Reads
<1>11. IsNumeral(t, n, base) /\ Len(t) = l + 1
  <2> HIDE DEF n
  <2> QED
    BY <1>1, <1>4, <1>9, <1>10 DEF IsNumeral
<1> QED
  BY <1>4, <1>11 DEF c, l, n

(* What printnum makes of a number. *)
Prints(n, base, columns, padc) ==
    \E s : IsNumeral(s, n, base) /\ printnum(n, base, columns, padc) = Repeated(padc, columns - Len(s)) \o s

(* printnum prints the numeral of its number, in every base that its figures allow,
   and in front of it as many padding characters as the columns leave (printfmt.c,
   printnum). *)
THEOREM PrintnumPrints ==
    ASSUME NEW base \in 2..16, NEW padc
    PROVE  \A n \in Nat : \A columns \in Int : Prints(n, base, columns, padc)
<1> DEFINE T == {n \in Nat : \A columns \in Int : Prints(n, base, columns, padc)}
<1>1. ASSUME NEW n \in Nat, \A m \in 0..(n - 1) : m \in T PROVE n \in T
  <2> SUFFICES ASSUME NEW columns \in Int PROVE Prints(n, base, columns, padc)
    OBVIOUS
  <2> DEFINE r == n % base  q == n \div base
  <2>1. r \in 0..(base - 1) /\ q \in Nat /\ n = base * q + r
    BY DivisionIs
  <2>2. printnum(n, base, columns, padc)
          = (IF n >= base THEN printnum(q, base, columns - 1, padc)
             ELSE Repeated(padc, columns - 1)) \o << Lower[r + 1] >>
    BY PrintnumIs
  <2>3. n >= base => q < n /\ q >= 1
    BY QuotientLess
  <2> HIDE DEF q, r
  <2>4. CASE n < base
    <3>1. IsNumeral(<< Lower[n + 1] >>, n, base)
      <4>1. n \in 0..(base - 1) /\ base \in 2..36
        BY <2>4
      <4> QED
        BY <4>1, OneFigure
    <3>2. n = r
      BY <2>4 DEF r
    <3>3. Len(<< Lower[n + 1] >>) = 1
      OBVIOUS
    <3> DEFINE s == << Lower[n + 1] >>
    <3>4. printnum(n, base, columns, padc) = Repeated(padc, columns - Len(s)) \o s
      <4>1. printnum(n, base, columns, padc) = Repeated(padc, columns - 1) \o << Lower[n + 1] >>
        <5>1. ~(n >= base)
          BY <2>4
        <5> QED
          BY <2>2, <3>2, <5>1, Zenon
      <4> QED
        BY <3>3, <4>1
    <3> HIDE DEF s
    <3>5. IsNumeral(s, n, base)
      BY <3>1 DEF s
    <3> QED
      BY <3>4, <3>5 DEF Prints
  <2>5. CASE n >= base
    <3>1. q \in 0..(n - 1) /\ columns - 1 \in Int
      BY <2>1, <2>3, <2>5
    <3>2. Prints(q, base, columns - 1, padc)
      BY <1>1, <3>1
    <3>3. PICK s : IsNumeral(s, q, base) /\ printnum(q, base, columns - 1, padc) = Repeated(padc, columns - 1 - Len(s)) \o s
      BY <3>2 DEF Prints
    <3> DEFINE c == Lower[r + 1]  t == Append(s, c)  pad == Repeated(padc, columns - 1 - Len(s))
               C == Figures \cup {padc}
    <3>4. s \in Seq(Figures) /\ Len(s) \in Nat
      BY <3>3, LenProperties DEF IsNumeral
    <3>5. IsNumeral(t, n, base) /\ Len(t) = Len(s) + 1
      <4>1. base \in 2..36
        OBVIOUS
      <4> QED
        BY <2>1, <2>3, <2>5, <3>3, <4>1, FigureMore
    <3>6. pad \in Seq(C) /\ s \in Seq(C) /\ << c >> \in Seq(C)
      <4>1. c \in Figures
        BY <2>1, FigureIs
      <4>2. pad \in Seq(C)
        BY <3>4 DEF Repeated
      <4>3. Len(s) \in Nat /\ \A k \in 1..Len(s) : s[k] \in C
        BY <3>4, ElementOfSeq
      <4> QED
        BY <3>4, <4>1, <4>2, SeqDef
    <3>7. t = s \o << c >>
      BY <3>4, <3>6
    <3>8. (pad \o s) \o << c >> = pad \o t
      <4> HIDE DEF pad, C, c, t
      <4> QED
        BY <3>6, <3>7, ConcatAssociative
    <3>9. pad = Repeated(padc, columns - Len(t))
      <4>1. columns - 1 - Len(s) = columns - Len(t)
        BY <3>4, <3>5
      <4> QED
        BY <4>1
    <3>10. printnum(n, base, columns, padc) = Repeated(padc, columns - Len(t)) \o t
      <4> HIDE DEF t, c
      <4> QED
        BY <2>2, <2>5, <3>3, <3>8, <3>9 DEF c
    <3> HIDE DEF t
    <3> QED
      BY <3>5, <3>10 DEF Prints
  <2> QED
    BY <2>4, <2>5
<1>2. \A n \in Nat : n \in T
  <2> HIDE DEF T
  <2> QED
    BY <1>1, InductionOver
<1> QED
  BY <1>2

(* A loop over places 1..L, which ends at the places E, the last among them. *)
Loops(f, L, E, a, g) == \A k \in 1..L : f[k] = IF k \in E THEN a[k] ELSE g[k][f[k + 1]]

(* The function of a loop exists. *)
LEMMA LoopExists ==
    ASSUME NEW L \in Nat, L >= 1, NEW S, NEW E, L \in E, NEW a \in [1..L -> S], NEW g \in [1..L -> [S -> S]]
    PROVE  \E f \in [1..L -> S] : Loops(f, L, E, a, g)
<1> DEFINE D == {j \in 0..(L - 1) : L - j \notin E}
           A == [j \in Nat |-> IF j < L THEN a[L - j] ELSE a[L]]
           d == [j \in Nat |-> IF j > 0 THEN j - 1 ELSE 0]
           G == [j \in Nat |-> IF j < L THEN g[L - j] ELSE g[L]]
<1>1. A \in [Nat -> S] /\ d \in [Nat -> Nat] /\ G \in [Nat -> [S -> S]]
  <2>1. \A j \in Nat : j < L => L - j \in 1..L
    OBVIOUS
  <2>2. L \in 1..L
    OBVIOUS
  <2> QED
    BY <2>1, <2>2
<1>2. \A j \in Nat : j \in D => d[j] < j
  <2> SUFFICES ASSUME NEW j \in Nat, j \in D PROVE d[j] < j
    OBVIOUS
  <2>1. j # 0
    OBVIOUS
  <2> QED
    BY <2>1
<1>3. PICK h \in [Nat -> S] : Recurs(h, Nat, D, A, d, G)
  <2> HIDE DEF D, A, d, G
  <2> QED
    BY <1>1, <1>2, RecursionExists
<1> DEFINE f == [k \in 1..L |-> h[L - k]]
<1>4. f \in [1..L -> S]
  OBVIOUS
<1>5. ASSUME NEW k \in 1..L PROVE f[k] = IF k \in E THEN a[k] ELSE g[k][f[k + 1]]
  <2>1. L - k \in Nat /\ L - (L - k) = k /\ L - k < L
    OBVIOUS
  <2> DEFINE j == L - k
  <2>2. h[j] = IF j \in D THEN G[j][h[d[j]]] ELSE A[j]
    BY <1>3, <2>1 DEF Recurs
  <2>3. CASE k \in E
    BY <2>1, <2>2, <2>3
  <2>4. CASE k \notin E
    <3>1. k + 1 \in 1..L /\ L - (k + 1) = j - 1 /\ j > 0
      BY <2>4
    <3>2. h[j] = g[k][h[j - 1]]
      BY <2>1, <2>2, <2>4, <3>1
    <3>3. f[k] = h[j] /\ f[k + 1] = h[j - 1]
      BY <3>1
    <3> HIDE DEF f
    <3> QED
      BY <2>4, <3>2, <3>3
  <2> HIDE DEF f
  <2> QED
    BY <2>3, <2>4
<1>6. Loops(f, L, E, a, g)
  <2> HIDE DEF f
  <2> QED
    BY <1>5 DEF Loops
<1> QED
  BY <1>4, <1>6

(* A figure is a number up to 36, which stands for no figure. *)
LEMMA FigureType == \A c : Figure(c) \in 0..36
<1> TAKE c
<1>1. (\E k \in 1..36 : Lower[k] = c) => (CHOOSE k \in 1..36 : Lower[k] = c) \in 1..36
  OBVIOUS
<1>2. (\E k \in 1..26 : Upper[k] = c) => (CHOOSE k \in 1..26 : Upper[k] = c) \in 1..26
  OBVIOUS
<1> QED
  BY <1>1, <1>2 DEF Figure

(* Figure reads what Lower writes. *)
LEMMA FigureOf == ASSUME NEW dig \in 0..35 PROVE Figure(Lower[dig + 1]) = dig
<1> DEFINE c == Lower[dig + 1]  j == CHOOSE k \in 1..36 : Lower[k] = c
<1>1. dig + 1 \in 1..36 /\ Lower[dig + 1] = c
  OBVIOUS
<1>2. j \in 1..36 /\ Lower[j] = c
  <2> HIDE DEF c
  <2> QED
    BY <1>1
<1>3. j = dig + 1
  <2> HIDE DEF j
  <2> QED
    BY <1>1, <1>2, LowerOnce
<1>4. Figure(c) = j - 1
  <2> HIDE DEF c
  <2> QED
    BY <1>1 DEF Figure
<1> HIDE DEF j
<1> QED
  BY <1>3, <1>4

(* The characters that are no figures. *)
LEMMA NulIsNoFigure == Figure(Nul) = 36 /\ Nul \notin Blanks
<1>1. \A k \in 1..36 : Lower[k] # "NUL"
  BY DEF Lower
<1>2. \A k \in 1..26 : Upper[k] # "NUL"
  BY DEF Upper
<1>3. Nul \notin Blanks
  BY DEF Nul, Blanks
<1> QED
  BY <1>1, <1>2, <1>3 DEF Figure, Nul

(* A figure is no blank and no sign. *)
LEMMA FigureIsPlain == \A k \in 1..36 : Lower[k] \notin {" ", "\t", "-", "+"}
<1> DEFINE blank == " "
<1>1. \A k \in 1..36 : Lower[k] # "\t" /\ Lower[k] # "-" /\ Lower[k] # "+"
  BY DEF Lower
<1>2. /\ "0" # blank /\ "1" # blank /\ "2" # blank /\ "3" # blank /\ "4" # blank /\ "5" # blank /\ "6" # blank
      /\ "7" # blank /\ "8" # blank /\ "9" # blank /\ "a" # blank /\ "b" # blank /\ "c" # blank /\ "d" # blank
      /\ "e" # blank /\ "f" # blank /\ "g" # blank /\ "h" # blank /\ "i" # blank /\ "j" # blank /\ "k" # blank
      /\ "l" # blank /\ "m" # blank /\ "n" # blank /\ "o" # blank /\ "p" # blank /\ "q" # blank /\ "r" # blank
      /\ "s" # blank /\ "t" # blank /\ "u" # blank /\ "v" # blank /\ "w" # blank /\ "x" # blank /\ "y" # blank
      /\ "z" # blank
  OBVIOUS
<1> HIDE DEF blank
<1>3. \A k \in 1..36 : Lower[k] # blank
  BY <1>2 DEF Lower
<1> QED
  BY <1>1, <1>3 DEF blank

(* Numbers that differ by whole words have the same word. *)
LEMMA WrapType == \A x \in Int : WrapSigned(x, Word) \in Int
  BY WordAssumption DEF WrapSigned

(* A multiple of the divisor does not change the remainder. *)
LEMMA SameRest ==
    ASSUME NEW w \in Nat, w > 0, NEW x \in Int, NEW y \in Int, NEW c \in Int, y = x + w * c
    PROVE  (y % w) = (x % w)
<1> DEFINE r == x % w  q == x \div w  s == y % w  p == y \div w
<1>1. r \in 0..(w - 1) /\ q \in Int /\ x = w * q + r
  OBVIOUS
<1>2. s \in 0..(w - 1) /\ p \in Int /\ y = w * p + s
  OBVIOUS
<1> HIDE DEF r, q, s, p
<1> DEFINE e == (p - q) - c
<1>3. r - s = w * e
  <2>1. w * e = (w * p - w * q) - w * c
    BY <1>1, <1>2
  <2> QED
    BY <1>1, <1>2, <2>1
<1>4. e \in Int
  BY <1>1, <1>2
<1> HIDE DEF e
<1>5. ~(e >= 1)
  <2> SUFFICES ASSUME e >= 1 PROVE FALSE
    OBVIOUS
  <2>1. PICK z \in Int, u \in Int : z = w * e /\ u = w * (e - 1)
    BY <1>4
  <2>2. u >= 0
    BY <1>4, <2>1
  <2>3. z = w + u
    BY <1>4, <2>1
  <2>4. r - s = z /\ r \in 0..(w - 1) /\ s \in 0..(w - 1)
    BY <1>1, <1>2, <1>3, <2>1
  <2> QED
    BY <2>2, <2>3, <2>4
<1>6. ~(e <= -1)
  <2> SUFFICES ASSUME e <= -1 PROVE FALSE
    OBVIOUS
  <2>1. PICK z \in Int, u \in Int : z = w * e /\ u = w * (-1 - e)
    BY <1>4
  <2>2. u >= 0
    BY <1>4, <2>1
  <2>3. z = (0 - w) - u
    BY <1>4, <2>1
  <2>4. r - s = z /\ r \in 0..(w - 1) /\ s \in 0..(w - 1)
    BY <1>1, <1>2, <1>3, <2>1
  <2> QED
    BY <2>2, <2>3, <2>4
<1>7. e = 0
  BY <1>4, <1>5, <1>6
<1>8. r = s
  BY <1>1, <1>2, <1>3, <1>7
<1> QED
  BY <1>8 DEF r, s

(* Whole words do not change what a long keeps of a number. *)
LEMMA WrapShift ==
    ASSUME NEW x \in Int, NEW c \in Int
    PROVE  WrapSigned(x + Word * c, Word) = WrapSigned(x, Word)
<1>1. Word \in Nat /\ Word > 0 /\ Word \div 2 \in Nat
  BY WordAssumption
<1> DEFINE h == Word \div 2
<1> HIDE DEF h
<1>2. h \in Nat /\ Word * c \in Int
  BY <1>1 DEF h
<1>3. ((x + Word * c) + h) = (x + h) + Word * c
  BY <1>2
<1>4. (((x + Word * c) + h) % Word) = ((x + h) % Word)
  <2>1. x + h \in Int /\ (x + Word * c) + h \in Int
    BY <1>2
  <2> QED
    BY <1>1, <1>3, <2>1, SameRest
<1> QED
  BY <1>4 DEF WrapSigned, h

(* What a long keeps of a number differs from it by whole words. *)
LEMMA WrapIs ==
    ASSUME NEW x \in Int
    PROVE  \E c \in Int : WrapSigned(x, Word) = x + Word * c
<1>1. Word \in Nat /\ Word > 0 /\ Word \div 2 \in Nat
  BY WordAssumption
<1> DEFINE h == Word \div 2  q == (x + h) \div Word  r == (x + h) % Word
<1> HIDE DEF h
<1>2. h \in Nat /\ x + h \in Int
  BY <1>1 DEF h
<1>3. q \in Int /\ r \in Int /\ x + h = Word * q + r
  BY <1>1, <1>2
<1>4. WrapSigned(x, Word) = r - h
  BY DEF WrapSigned, h
<1> HIDE DEF q, r
<1>5. -q \in Int /\ r - h = x + Word * (-q)
  <2>1. Word * (-q) = -(Word * q)
    BY <1>1, <1>3
  <2> QED
    BY <1>1, <1>2, <1>3, <2>1
<1> QED
  BY <1>4, <1>5

(* A word that takes one figure more, wrapped before and after. *)
LEMMA WrapStep ==
    ASSUME NEW x \in Int, NEW base \in Nat, NEW dig \in Nat
    PROVE  WrapSigned(WrapSigned(x, Word) * base + dig, Word) = WrapSigned(base * x + dig, Word)
<1>1. PICK c \in Int : WrapSigned(x, Word) = x + Word * c
  BY WrapIs
<1>2. Word \in Nat
  BY WordAssumption
<1>3. (x + Word * c) * base + dig = (base * x + dig) + Word * (c * base)
  BY <1>2
<1>4. base * x + dig \in Int /\ c * base \in Int
  OBVIOUS
<1> QED
  BY <1>1, <1>3, <1>4, WrapShift

(* The negative of a long, wrapped. *)
LEMMA WrapNegative ==
    ASSUME NEW x \in Int
    PROVE  WrapSigned(-WrapSigned(x, Word), Word) = WrapSigned(-x, Word)
<1>1. PICK c \in Int : WrapSigned(x, Word) = x + Word * c
  BY WrapIs
<1>2. Word \in Nat
  BY WordAssumption
<1>3. -(x + Word * c) = (-x) + Word * (-c) /\ -c \in Int /\ -x \in Int
  BY <1>2
<1> QED
  BY <1>1, <1>3, WrapShift

(* Zero fits. *)
LEMMA WrapZero == WrapSigned(0, Word) = 0
<1> DEFINE h == Word \div 2
<1>1. Word \in Nat /\ h \in 0..(Word - 1)
  BY WordAssumption
<1> HIDE DEF h
<1>2. ((0 + h) % Word) = h
  BY <1>1
<1> QED
  BY <1>1, <1>2 DEF WrapSigned, h

(* strtol passes the blanks. *)
Skip(s) == LET skip[k \in DOMAIN s] == IF s[k] \in Blanks THEN skip[k + 1] ELSE k IN skip

(* It stops at the first place that is no blank. *)
LEMMA SkipIs ==
    ASSUME NEW s, NEW L \in Nat, DOMAIN s = 1..L, s[L] \notin Blanks,
           NEW b \in 1..L, s[b] \notin Blanks, \A k \in 1..(b - 1) : s[k] \in Blanks
    PROVE  Skip(s)[1] = b
<1> DEFINE E == {k \in 1..L : s[k] \notin Blanks}
           a == [k \in 1..L |-> k]
           g == [k \in 1..L |-> [x \in 1..L |-> x]]
           F(f) == [k \in DOMAIN s |-> IF s[k] \in Blanks THEN f[k + 1] ELSE k]
           skip == CHOOSE f : f = F(f)
<1>1. L >= 1 /\ L \in E
  OBVIOUS
<1>2. PICK f \in [1..L -> 1..L] : Loops(f, L, E, a, g)
  <2>1. a \in [1..L -> 1..L] /\ g \in [1..L -> [1..L -> 1..L]]
    OBVIOUS
  <2> HIDE DEF E, a, g
  <2> QED
    BY <1>1, <2>1, LoopExists
<1>3. f = F(f)
  <2>1. ASSUME NEW k \in 1..L PROVE f[k] = IF s[k] \in Blanks THEN f[k + 1] ELSE k
    <3>1. k \notin E => k + 1 \in 1..L
      BY <1>1
    <3> QED
      BY <1>2, <3>1 DEF Loops
  <2> QED
    BY <2>1
<1>4. skip = F(skip)
  <2> HIDE DEF F
  <2> QED
    BY <1>3
<1>5. Skip(s) = skip
  BY DEF Skip
<1> HIDE DEF skip
<1>6. \A k \in 1..L : skip[k] = IF s[k] \in Blanks THEN skip[k + 1] ELSE k
  BY <1>4
<1> DEFINE T == {m \in Nat : m < b => skip[b - m] = b}
<1>7. ASSUME NEW m \in Nat, \A j \in 0..(m - 1) : j \in T PROVE m \in T
  <2> SUFFICES ASSUME m < b PROVE skip[b - m] = b
    OBVIOUS
  <2>1. CASE m = 0
    BY <1>6, <2>1
  <2>2. CASE m > 0
    <3>1. m - 1 \in 0..(m - 1) /\ m - 1 < b /\ b - m \in 1..(b - 1) /\ b - m \in 1..L /\ (b - m) + 1 = b - (m - 1)
      BY <2>2
    <3>2. skip[b - (m - 1)] = b
      BY <1>7, <3>1
    <3> QED
      BY <1>6, <3>1, <3>2
  <2> QED
    BY <2>1, <2>2
<1>8. \A m \in Nat : m \in T
  <2> HIDE DEF T
  <2> QED
    BY <1>7, InductionOver
<1>9. skip[b - (b - 1)] = b
  <2>1. b - 1 \in Nat /\ b - 1 < b
    OBVIOUS
  <2> QED
    BY <1>8, <2>1
<1> QED
  BY <1>5, <1>9

(* strtol reads the figures. *)
Gathered(s, base, neg) ==
    LET digits[k \in DOMAIN s] == [val \in Int |->
            LET dig == Figure(s[k]) IN
            IF dig >= base THEN [value |-> IF neg THEN WrapSigned(-val, Word) ELSE val, end |-> k]
            ELSE digits[k + 1][WrapSigned(val * base + dig, Word)]]
    IN digits

(* What the reading of the figures does at a place, with the value so far. *)
ReadsOn(D, s, L, base, neg) ==
    \A k \in 1..L : \A val \in Int :
        D[k][val] = IF Figure(s[k]) >= base
                    THEN [value |-> IF neg THEN WrapSigned(-val, Word) ELSE val, end |-> k]
                    ELSE D[k + 1][WrapSigned(val * base + Figure(s[k]), Word)]

(* It ends at a character that is no figure of the base, the Nul at last. *)
LEMMA DigitsIs ==
    ASSUME NEW s, NEW L \in Nat, L >= 1, DOMAIN s = 1..L, s[L] = Nul, NEW base \in 2..36, NEW neg \in BOOLEAN
    PROVE  ReadsOn(Gathered(s, base, neg), s, L, base, neg)
<1> DEFINE R == [value : Int, end : Int]
           S == [Int -> R]
           E == {k \in 1..L : Figure(s[k]) >= base}
           Stop(k, val) == [value |-> IF neg THEN WrapSigned(-val, Word) ELSE val, end |-> k]
           Next(k, val) == WrapSigned(val * base + Figure(s[k]), Word)
           a == [k \in 1..L |-> [val \in Int |-> Stop(k, val)]]
           g == [k \in 1..L |-> [h \in S |-> [val \in Int |-> h[Next(k, val)]]]]
           F(f) == [k \in DOMAIN s |-> [val \in Int |->
                       LET dig == Figure(s[k]) IN
                       IF dig >= base THEN [value |-> IF neg THEN WrapSigned(-val, Word) ELSE val, end |-> k]
                       ELSE f[k + 1][WrapSigned(val * base + dig, Word)]]]
           digits == CHOOSE f : f = F(f)
<1>1. L \in 1..L /\ L \in E
  BY NulIsNoFigure
<1>2. \A k \in 1..L, val \in Int : Stop(k, val) \in R /\ Next(k, val) \in Int
  <2> TAKE k \in 1..L, val \in Int
  <2>1. Figure(s[k]) \in 0..36
    BY FigureType
  <2>2. val * base + Figure(s[k]) \in Int /\ -val \in Int
    <3>1. PICK z \in Int : z = val * base
      OBVIOUS
    <3>2. PICK d \in 0..36 : d = Figure(s[k])
      BY <2>1
    <3>3. z + d \in Int
      OBVIOUS
    <3> QED
      BY <3>1, <3>2, <3>3
  <2> QED
    BY <2>2, WrapType
<1>3. a \in [1..L -> S] /\ g \in [1..L -> [S -> S]]
  <2> HIDE DEF Stop, Next, R
  <2> QED
    BY <1>2
<1>4. PICK f \in [1..L -> S] : Loops(f, L, E, a, g)
  <2> HIDE DEF E, a, g, S
  <2> QED
    BY <1>1, <1>3, LoopExists
<1>5. \A h : F(h) = [k \in DOMAIN s |-> [val \in Int |-> IF Figure(s[k]) >= base THEN Stop(k, val) ELSE h[k + 1][Next(k, val)]]]
  OBVIOUS
<1> HIDE DEF Stop, Next, F
<1>6. f = F(f)
  <2>1. ASSUME NEW k \in 1..L
        PROVE  f[k] = [val \in Int |-> IF Figure(s[k]) >= base THEN Stop(k, val) ELSE f[k + 1][Next(k, val)]]
    <3>1. CASE k \in E
      BY <1>4, <3>1 DEF Loops
    <3>2. CASE k \notin E
      <4>1. k + 1 \in 1..L /\ f[k + 1] \in S
        <5>1. k # L
          BY <1>1, <3>2
        <5> HIDE DEF S
        <5> QED
          BY <1>4, <5>1
      <4>2. f[k] = g[k][f[k + 1]]
        <5> HIDE DEF E, g
        <5> QED
          BY <1>4, <3>2 DEF Loops
      <4>3. g[k][f[k + 1]] = [val \in Int |-> f[k + 1][Next(k, val)]]
        <5> HIDE DEF S
        <5> QED
          BY <4>1
      <4>4. ~(Figure(s[k]) >= base)
        BY <3>2
      <4> QED
        BY <4>2, <4>3, <4>4
    <3> QED
      BY <3>1, <3>2
  <2>2. F(f) = [k \in 1..L |-> [val \in Int |-> IF Figure(s[k]) >= base THEN Stop(k, val) ELSE f[k + 1][Next(k, val)]]]
    BY <1>5
  <2> HIDE DEF S
  <2> QED
    BY <1>4, <2>1, <2>2
<1>7. digits = F(digits)
  BY <1>6
<1>8. Gathered(s, base, neg) = digits
  BY DEF Gathered, F
<1> HIDE DEF digits
<1>9. ASSUME NEW k \in 1..L, NEW val \in Int
      PROVE  digits[k][val] = IF Figure(s[k]) >= base THEN Stop(k, val) ELSE digits[k + 1][Next(k, val)]
  <2>1. digits = [m \in DOMAIN s |-> [x \in Int |-> IF Figure(s[m]) >= base THEN Stop(m, x) ELSE digits[m + 1][Next(m, x)]]]
    BY <1>5, <1>7
  <2>2. digits[k] = [x \in Int |-> IF Figure(s[k]) >= base THEN Stop(k, x) ELSE digits[k + 1][Next(k, x)]]
    BY <2>1
  <2> QED
    BY <2>2
<1> QED
  BY <1>8, <1>9 DEF Stop, Next, ReadsOn

(* strtol by its two loops. *)
LEMMA StrtolIs ==
    ASSUME NEW s, NEW base
    PROVE  strtol(s, base)
             = LET begin == Skip(s)[1]
                   p == Prefix(s, IF s[begin] \in {"+", "-"} THEN begin + 1 ELSE begin, base)
               IN Gathered(s, p.base, s[begin] = "-")[p.next][0]
  BY DEF strtol, Skip, Gathered

(* Figures of a base are none of a larger value: no x is among the hexadecimal ones. *)
LEMMA NoPrefix ==
    ASSUME NEW base \in 2..36, NEW s, NEW p \in Nat, NEW dig \in 0..(base - 1),
           s[p + 1] = Lower[dig + 1] \/ s[p + 1] = Nul
    PROVE  Prefix(s, p, base) = [next |-> p, base |-> base]
<1>1. base = 16 => s[p + 1] # "x"
  <2>1. Lower[34] = "x" /\ 34 \in 1..36 /\ dig + 1 \in 1..36
    BY DEF Lower
  <2>2. base = 16 => Lower[dig + 1] # "x"
    BY <2>1, LowerOnce
  <2>3. Nul # "x"
    BY DEF Nul
  <2> QED
    BY <2>2, <2>3
<1> QED
  BY <1>1 DEF Prefix

(* A text that ends at L: from p on the figures t, which stand for n. *)
FiguresFrom(s, L, p, t, base, v, n) ==
    /\ base \in 2..36 /\ L \in Nat /\ DOMAIN s = 1..L /\ s[L] = Nul /\ p \in 1..L
    /\ t \in Seq(Figures) /\ Len(t) >= 1 /\ L = p + Len(t) /\ \A k \in 1..Len(t) : s[p + k - 1] = t[k]
    /\ Reads(t, base, v, n)

(* What strtol's reading of the figures from p on gives. *)
Yields(s, base, neg, p, n, L) ==
    Gathered(s, base, neg)[p][0] = [value |-> WrapSigned(IF neg THEN -n ELSE n, Word), end |-> L]

(* strtol's reading of the figures gives their number, as far as a long holds it. *)
LEMMA FiguresRead ==
    ASSUME NEW s, NEW L, NEW p, NEW t, NEW base, NEW v, NEW n, FiguresFrom(s, L, p, t, base, v, n),
           NEW neg \in BOOLEAN
    PROVE  Yields(s, base, neg, p, n, L)
<1> USE DEF FiguresFrom
<1>1. Len(t) \in Nat /\ Len(t) >= 1 /\ p \in Nat /\ v \in [0..Len(t) -> Nat] /\ v[0] = 0 /\ v[Len(t)] = n
  BY LenProperties DEF Reads
<1>2. \A k \in 1..Len(t) : \E dig \in 0..(base - 1) : t[k] = Lower[dig + 1] /\ v[k] = base * v[k - 1] + dig
  BY DEF Reads
<1>3. \A k \in 1..Len(t) : p + k - 1 \in 1..L
  BY <1>1
<1> DEFINE D == Gathered(s, base, neg)
<1>4. \A k \in 1..L : \A val \in Int :
          D[k][val] = IF Figure(s[k]) >= base
                      THEN [value |-> IF neg THEN WrapSigned(-val, Word) ELSE val, end |-> k]
                      ELSE D[k + 1][WrapSigned(val * base + Figure(s[k]), Word)]
  <2>1. L >= 1
    OBVIOUS
  <2>2. ReadsOn(D, s, L, base, neg)
    BY <2>1, DigitsIs
  <2> QED
    BY <2>2 DEF ReadsOn
<1> HIDE DEF D
<1> DEFINE T == {k \in Nat : k <= Len(t) => D[p][0] = D[p + k][WrapSigned(v[k], Word)]}
<1>5. ASSUME NEW k \in Nat, \A j \in 0..(k - 1) : j \in T PROVE k \in T
  <2> SUFFICES ASSUME k <= Len(t) PROVE D[p][0] = D[p + k][WrapSigned(v[k], Word)]
    OBVIOUS
  <2>1. CASE k = 0
    <3>1. p + k = p /\ WrapSigned(v[k], Word) = 0
      BY <1>1, <2>1, WrapZero
    <3> QED
      BY <3>1
  <2>2. CASE k > 0
    <3>1. k - 1 \in 0..(k - 1) /\ k - 1 \in Nat /\ k - 1 <= Len(t) /\ k \in 1..Len(t) /\ k - 1 \in 0..Len(t)
      BY <1>1, <2>2
    <3>2. D[p][0] = D[p + (k - 1)][WrapSigned(v[k - 1], Word)]
      BY <1>5, <3>1
    <3>3. PICK dig \in 0..(base - 1) : t[k] = Lower[dig + 1] /\ v[k] = base * v[k - 1] + dig
      BY <1>2, <3>1
    <3> DEFINE j == p + k - 1  x == WrapSigned(v[k - 1], Word)
    <3>4. j \in 1..L /\ j = p + (k - 1) /\ j + 1 = p + k /\ s[j] = t[k]
      BY <1>3, <3>1
    <3>5. Figure(s[j]) = dig /\ dig \in Nat
      <4>1. dig \in 0..35
        OBVIOUS
      <4>2. s[j] = Lower[dig + 1]
        BY <3>3, <3>4
      <4>3. Figure(s[j]) = Figure(Lower[dig + 1])
        BY <4>2
      <4>4. Figure(Lower[dig + 1]) = dig
        BY <4>1, FigureOf
      <4> QED
        BY <4>3, <4>4
    <3>6. v[k - 1] \in Nat /\ x \in Int
      <4>1. v[k - 1] \in Nat
        BY <1>1, <3>1
      <4>2. v[k - 1] \in Int
        BY <4>1
      <4> QED
        BY <4>1, <4>2, WrapType
    <3>7. WrapSigned(x * base + dig, Word) = WrapSigned(v[k], Word)
      <4>1. PICK y \in Int : y = v[k - 1]
        BY <3>6
      <4>2. base \in Nat
        OBVIOUS
      <4>3. WrapSigned(WrapSigned(y, Word) * base + dig, Word) = WrapSigned(base * y + dig, Word)
        BY <3>5, <4>2, WrapStep
      <4>4. x = WrapSigned(y, Word) /\ v[k] = base * y + dig
        BY <3>3, <4>1
      <4> HIDE DEF x
      <4> QED
        BY <4>3, <4>4
    <3> HIDE DEF j, x
    <3>8. D[j][x] = D[j + 1][WrapSigned(x * base + dig, Word)]
      <4>1. ~(Figure(s[j]) >= base)
        BY <3>5
      <4>2. D[j][x] = IF Figure(s[j]) >= base
                      THEN [value |-> IF neg THEN WrapSigned(-x, Word) ELSE x, end |-> j]
                      ELSE D[j + 1][WrapSigned(x * base + Figure(s[j]), Word)]
        BY <1>4, <3>4, <3>6
      <4> QED
        BY <3>5, <4>1, <4>2, Zenon
    <3>9. D[p][0] = D[j][x]
      BY <3>2, <3>4 DEF x
    <3> QED
      BY <3>4, <3>7, <3>8, <3>9
  <2> QED
    BY <2>1, <2>2
<1>6. \A k \in Nat : k \in T
  <2> HIDE DEF T
  <2> QED
    BY <1>5, InductionOver
<1>7. D[p][0] = D[L][WrapSigned(n, Word)]
  <2>1. Len(t) \in T
    BY <1>1, <1>6
  <2> QED
    BY <1>1, <2>1
<1>8. n \in Int /\ WrapSigned(n, Word) \in Int /\ L \in 1..L
  <2>1. Len(t) \in 0..Len(t)
    BY <1>1
  <2>2. n \in Nat
    BY <1>1, <2>1
  <2>3. n \in Int /\ L \in 1..L
    BY <2>2
  <2> QED
    BY <2>3, WrapType
<1> DEFINE y == WrapSigned(n, Word)
<1>9. D[L][y] = [value |-> IF neg THEN WrapSigned(-y, Word) ELSE y, end |-> L]
  <2>1. Figure(s[L]) >= base
    BY NulIsNoFigure
  <2> HIDE DEF y
  <2> QED
    BY <1>4, <1>8, <2>1 DEF y
<1>10. WrapSigned(-y, Word) = WrapSigned(-n, Word)
  BY <1>8, WrapNegative
<1> QED
  BY <1>7, <1>9, <1>10 DEF D, Yields

(* A text that ends at L: blanks before b, a minus there if it is negative, and
   from p on the figures t, which stand for n. *)
Readable(s, L, b, neg, p, t, base, v, n) ==
    /\ base \in 2..36 /\ L \in Nat /\ DOMAIN s = 1..L /\ s[L] = Nul
    /\ b \in 1..L /\ \A k \in 1..(b - 1) : s[k] \in Blanks
    /\ neg \in BOOLEAN /\ (neg => s[b] = "-")
    /\ p \in 1..L /\ p = (IF neg THEN b + 1 ELSE b)
    /\ t \in Seq(Figures) /\ Len(t) >= 1 /\ L = p + Len(t) /\ \A k \in 1..Len(t) : s[p + k - 1] = t[k]
    /\ Reads(t, base, v, n)

(* strtol reads a text of figures, behind blanks and a sign, as the number that
   it stands for, as far as a long holds it, and to its end (string.c, strtol). *)
THEOREM StrtolReads ==
    ASSUME NEW s, NEW L, NEW b, NEW neg, NEW p, NEW t, NEW base, NEW v, NEW n,
           Readable(s, L, b, neg, p, t, base, v, n)
    PROVE  strtol(s, base) = [value |-> WrapSigned(IF neg THEN -n ELSE n, Word), end |-> L]
<1> USE DEF Readable
<1>1. Len(t) \in Nat /\ Len(t) >= 1 /\ p \in Nat /\ v \in [0..Len(t) -> Nat] /\ v[0] = 0 /\ v[Len(t)] = n
  BY LenProperties DEF Reads
<1>2. \A k \in 1..Len(t) : \E dig \in 0..(base - 1) : t[k] = Lower[dig + 1] /\ v[k] = base * v[k - 1] + dig
  BY DEF Reads
<1>3. \A k \in 1..Len(t) : p + k - 1 \in 1..L
  BY <1>1
<1>4. PICK first \in 0..(base - 1) : s[p] = Lower[first + 1]
  <2>1. 1 \in 1..Len(t) /\ p + 1 - 1 = p
    BY <1>1
  <2> QED
    BY <1>2, <2>1
<1>5. s[p] \notin {" ", "\t", "-", "+"}
  <2>1. first + 1 \in 1..36
    OBVIOUS
  <2> QED
    BY <1>4, <2>1, FigureIsPlain
<1>6. (s[b] = "-") = neg /\ s[b] \notin Blanks /\ (IF s[b] \in {"+", "-"} THEN b + 1 ELSE b) = p
  <2>1. "-" # " " /\ "-" # "\t" /\ "-" # "+"
    OBVIOUS
  <2>2. CASE neg
    BY <2>1, <2>2 DEF Blanks
  <2>3. CASE ~neg
    BY <1>5, <2>3 DEF Blanks
  <2> QED
    BY <2>2, <2>3
<1>7. Skip(s)[1] = b
  <2>1. s[L] \notin Blanks
    BY NulIsNoFigure
  <2> QED
    BY <1>6, <2>1, SkipIs
<1>8. Prefix(s, p, base) = [next |-> p, base |-> base]
  <2>1. \E dig \in 0..(base - 1) : s[p + 1] = Lower[dig + 1] \/ s[p + 1] = Nul
    <3>1. CASE Len(t) = 1
      <4>1. s[p + 1] = Nul /\ 0 \in 0..(base - 1)
        BY <3>1
      <4> QED
        BY <4>1
    <3>2. CASE Len(t) # 1
      <4>1. 2 \in 1..Len(t) /\ p + 2 - 1 = p + 1
        <5> HIDE DEF Readable
        <5> QED
          BY <1>1, <3>2
      <4> QED
        BY <1>2, <4>1
    <3> QED
      BY <3>1, <3>2
  <2>2. PICK dig \in 0..(base - 1) : s[p + 1] = Lower[dig + 1] \/ s[p + 1] = Nul
    BY <2>1
  <2>3. p \in Nat
    OBVIOUS
  <2> QED
    BY <2>2, <2>3, NoPrefix
<1>9. strtol(s, base) = Gathered(s, base, neg)[p][0]
  <2>1. strtol(s, base) = Gathered(s, Prefix(s, p, base).base, s[b] = "-")[Prefix(s, p, base).next][0]
    BY <1>6, <1>7, StrtolIs
  <2> QED
    BY <1>6, <1>8, <2>1
<1>10. FiguresFrom(s, L, p, t, base, v, n) /\ neg \in BOOLEAN
  BY DEF FiguresFrom
<1> HIDE DEF Readable
<1>11. Yields(s, base, neg, p, n, L)
  BY <1>10, FiguresRead
<1> QED
  BY <1>9, <1>11 DEF Yields

(* Zeros in front of a text of figures leave the number that it stands for. *)
LEMMA ZerosRead ==
    ASSUME NEW base \in 2..36, NEW t \in Seq(Figures), NEW v, NEW n, Reads(t, base, v, n),
           NEW w \in Nat, NEW u \in Seq(Figures), Len(u) = w + Len(t),
           \A k \in 1..w : u[k] = Lower[1], \A k \in 1..Len(t) : u[w + k] = t[k]
    PROVE  \E x : Reads(u, base, x, n)
<1> DEFINE l == Len(t)  x == [k \in 0..(w + l) |-> IF k <= w THEN 0 ELSE v[k - w]]
<1>1. l \in Nat /\ v \in [0..l -> Nat] /\ v[0] = 0 /\ v[l] = n
  BY LenProperties DEF Reads
<1>2. \A k \in 1..l : \E dig \in 0..(base - 1) : t[k] = Lower[dig + 1] /\ v[k] = base * v[k - 1] + dig
  BY DEF Reads
<1> HIDE DEF l
<1>3. ASSUME NEW k \in 0..(w + l) PROVE x[k] \in Nat /\ (k <= w => x[k] = 0) /\ (k >= w => x[k] = v[k - w])
  <2>1. x[k] = IF k <= w THEN 0 ELSE v[k - w]
    BY <1>1
  <2>2. CASE k < w
    BY <2>1, <2>2
  <2>3. CASE k = w
    <3>1. k - w = 0
      BY <2>3
    <3> QED
      BY <1>1, <2>1, <2>3, <3>1
  <2>4. CASE k > w
    <3>1. k - w \in 0..l
      BY <1>1, <2>4
    <3> QED
      BY <1>1, <2>1, <2>4, <3>1
  <2> QED
    BY <2>2, <2>3, <2>4
<1>4. x \in [0..(w + l) -> Nat] /\ x[0] = 0 /\ x[w + l] = n
  <2>1. 0 \in 0..(w + l) /\ w + l \in 0..(w + l) /\ 0 <= w /\ w + l >= w /\ (w + l) - w = l
    BY <1>1
  <2>2. x = [k \in 0..(w + l) |-> x[k]]
    OBVIOUS
  <2> HIDE DEF x
  <2> QED
    BY <1>1, <1>3, <2>1, <2>2
<1> HIDE DEF x
<1>5. ASSUME NEW k \in 1..(w + l)
      PROVE  \E dig \in 0..(base - 1) : u[k] = Lower[dig + 1] /\ x[k] = base * x[k - 1] + dig
  <2>1. k \in 0..(w + l) /\ k - 1 \in 0..(w + l)
    BY <1>1
  <2>2. CASE k <= w
    <3>1. x[k] = 0 /\ x[k - 1] = 0 /\ k \in 1..w
      BY <1>3, <2>1, <2>2
    <3>2. u[k] = Lower[0 + 1] /\ x[k] = base * x[k - 1] + 0 /\ 0 \in 0..(base - 1)
      BY <3>1
    <3> QED
      BY <3>2
  <2>3. CASE k > w
    <3> DEFINE j == k - w
    <3>1. j \in 1..l /\ w + j = k /\ (k - 1) - w = j - 1 /\ k - 1 >= w
      BY <1>1, <2>3
    <3>2. x[k] = v[j] /\ x[k - 1] = v[j - 1]
      BY <1>3, <2>1, <2>3, <3>1
    <3>3. u[k] = t[j]
      BY <3>1 DEF l
    <3> HIDE DEF j
    <3> QED
      BY <1>2, <3>1, <3>2, <3>3
  <2> QED
    BY <2>2, <2>3
<1>6. Reads(u, base, x, n)
  <2>1. Len(u) = w + l
    BY DEF l
  <2> QED
    BY <1>4, <1>5, <2>1 DEF Reads
<1> QED
  BY <1>6

(* The text of a sign, w padding characters, figures, and a Nul. *)
IsText(s, m, padc, w, t) ==
    LET z == Len(m)  L == ((z + w) + Len(t)) + 1 IN
    /\ DOMAIN s = 1..L /\ Len(s) = L
    /\ \A k \in 1..z : s[k] = m[k]
    /\ \A k \in 1..w : s[z + k] = padc
    /\ \A k \in 1..Len(t) : s[(z + w) + k] = t[k]
    /\ s[L] = Nul

(* The sign that vprintfmt prints. *)
Sign(neg) == IF neg THEN << "-" >> ELSE << >>

(* A sign is one character, or none. *)
LEMMA SignIs ==
    ASSUME NEW neg \in BOOLEAN
    PROVE  \E S : /\ Sign(neg) \in Seq(S) /\ Len(Sign(neg)) = (IF neg THEN 1 ELSE 0)
                  /\ neg => Sign(neg)[1] = "-"
<1> DEFINE c == "-"
<1>1. Sign(neg) = IF neg THEN << c >> ELSE << >>
  BY DEF Sign
<1> HIDE DEF c
<1>2. Sign(neg) \in Seq({c}) /\ Len(Sign(neg)) = (IF neg THEN 1 ELSE 0) /\ (neg => Sign(neg)[1] = c)
  <2>1. CASE neg
    BY <1>1, <2>1
  <2>2. CASE ~neg
    BY <1>1, <2>2
  <2> QED
    BY <2>1, <2>2
<1> QED
  BY <1>2 DEF c

(* The characters of such a text. *)
LEMMA TextIs ==
    ASSUME NEW padc, NEW w \in Nat, NEW S, NEW m \in Seq(S), NEW t \in Seq(Figures), NEW s,
           s = m \o (([k \in 1..w |-> padc] \o t) \o << Nul >>)
    PROVE  IsText(s, m, padc, w, t)
<1>0. PICK z \in Nat : z = Len(m)
  BY LenProperties
<1>1. PICK l \in Nat : l = Len(t)
  BY LenProperties
<1> DEFINE u == [k \in 1..w |-> padc] \o t  e == u \o << Nul >>
<1>2. Len([k \in 1..w |-> padc]) = w
  OBVIOUS
<1>3. /\ DOMAIN u = 1..(w + l) /\ Len(u) = w + l
      /\ \A k \in 1..w : u[k] = padc
      /\ \A k \in 1..l : u[w + k] = t[k]
  BY <1>1, <1>2
<1> HIDE DEF u
<1>4. /\ DOMAIN e = 1..((w + l) + 1) /\ Len(e) = (w + l) + 1
      /\ \A k \in 1..(w + l) : e[k] = u[k]
      /\ e[(w + l) + 1] = Nul
  BY <1>3
<1>5. s = m \o e
  BY DEF u
<1> DEFINE T == (S \cup Figures) \cup {padc, Nul}
<1>6. m \in Seq(T) /\ e \in Seq(T)
  <2>1. m \in Seq(T)
    <3>1. \A k \in 1..Len(m) : m[k] \in T
      BY ElementOfSeq
    <3> QED
      BY <3>1, LenProperties, SeqDef
  <2>2. \A k \in 1..l : t[k] \in Figures
    BY <1>1, ElementOfSeq
  <2>3. \A k \in 1..((w + l) + 1) : e[k] \in T
    <3> SUFFICES ASSUME NEW k \in 1..((w + l) + 1) PROVE e[k] \in T
      OBVIOUS
    <3> HIDE DEF e
    <3>1. CASE k \in 1..w
      BY <1>3, <1>4, <3>1
    <3>2. CASE k \in (w + 1)..(w + l)
      <4>1. k - w \in 1..l /\ w + (k - w) = k /\ k \in 1..(w + l)
        BY <3>2
      <4> QED
        BY <1>3, <1>4, <2>2, <4>1
    <3>3. CASE k = (w + l) + 1
      BY <1>4, <3>3
    <3> QED
      BY <3>1, <3>2, <3>3
  <2>4. (w + l) + 1 \in Nat /\ e = [k \in 1..((w + l) + 1) |-> e[k]]
    BY <1>4
  <2> HIDE DEF e, T
  <2>5. e \in [1..((w + l) + 1) -> T]
    BY <2>3, <2>4
  <2> QED
    BY <2>1, <2>4, <2>5, SeqDef
<1> HIDE DEF e, T
<1>8. /\ DOMAIN s = 1..(z + ((w + l) + 1)) /\ Len(s) = z + ((w + l) + 1)
      /\ \A k \in 1..z : s[k] = m[k]
      /\ \A k \in 1..((w + l) + 1) : s[z + k] = e[k]
  <2>1. /\ Len(s) = Len(m) + Len(e)
        /\ \A k \in 1..(Len(m) + Len(e)) : s[k] = IF k <= Len(m) THEN m[k] ELSE e[k - Len(m)]
        /\ s \in Seq(T)
    <3>1. /\ Len(m \o e) = Len(m) + Len(e)
          /\ \A k \in 1..(Len(m) + Len(e)) : (m \o e)[k] = IF k <= Len(m) THEN m[k] ELSE e[k - Len(m)]
          /\ m \o e \in Seq(T)
      BY <1>6, ConcatProperties, Zenon
    <3> QED
      BY <1>5, <3>1, Zenon
  <2>2. Len(m) = z /\ Len(e) = (w + l) + 1 /\ DOMAIN s = 1..Len(s)
    BY <1>0, <1>4, <2>1
  <2>3. \A k \in 1..z : s[k] = m[k]
    BY <2>1, <2>2
  <2>4. \A k \in 1..((w + l) + 1) : s[z + k] = e[k]
    <3> TAKE k \in 1..((w + l) + 1)
    <3>1. z + k \in 1..(z + ((w + l) + 1)) /\ ~(z + k <= z) /\ (z + k) - z = k
      OBVIOUS
    <3> QED
      BY <2>1, <2>2, <3>1
  <2> QED
    BY <2>1, <2>2, <2>3, <2>4
<1>9. IsText(s, m, padc, w, t)
  <2>1. ((z + w) + l) + 1 = z + ((w + l) + 1)
    OBVIOUS
  <2>2. \A k \in 1..w : s[z + k] = padc
    <3> TAKE k \in 1..w
    <3>1. k \in 1..((w + l) + 1) /\ k \in 1..(w + l)
      OBVIOUS
    <3> QED
      BY <1>3, <1>4, <1>8, <3>1
  <2>3. \A k \in 1..l : s[(z + w) + k] = t[k]
    <3> TAKE k \in 1..l
    <3>1. (z + w) + k = z + (w + k) /\ w + k \in 1..((w + l) + 1) /\ w + k \in 1..(w + l)
      OBVIOUS
    <3> QED
      BY <1>3, <1>4, <1>8, <3>1
  <2>4. s[((z + w) + l) + 1] = Nul
    <3>1. (w + l) + 1 \in 1..((w + l) + 1)
      OBVIOUS
    <3> QED
      BY <1>4, <1>8, <2>1, <3>1
  <2> QED
    BY <1>0, <1>1, <1>8, <2>1, <2>2, <2>3, <2>4 DEF IsText
<1> QED
  BY <1>9

(* Padding is some characters, or none. *)
LEMMA PaddingIs ==
    ASSUME NEW padc, NEW m \in Int
    PROVE  \E w \in Nat : Repeated(padc, m) = [k \in 1..w |-> padc]
<1>1. CASE m > 0
  BY <1>1 DEF Repeated
<1>2. CASE ~(m > 0)
  BY <1>2 DEF Repeated
<1> QED
  BY <1>1, <1>2

(* What vprintfmt prints of a number. *)
Printed(neg, n, base, columns, padc) == Sign(neg) \o (printnum(n, base, columns, padc) \o << Nul >>)

(* strtol reads the number back, as far as a long holds it, and all of the text. *)
IsReadBack(neg, n, base, columns, padc) ==
    strtol(Printed(neg, n, base, columns, padc), base)
      = [value |-> WrapSigned(IF neg THEN -n ELSE n, Word), end |-> Len(Printed(neg, n, base, columns, padc))]

(* Blanks in front of a number are passed. *)
LEMMA PaddedIsRead ==
    ASSUME NEW base \in 2..16, NEW n \in Nat, NEW columns \in Int, NEW padc, padc \in Blanks,
           NEW neg \in BOOLEAN, ~neg
    PROVE  IsReadBack(neg, n, base, columns, padc)
<1>0. PICK s : s = Printed(neg, n, base, columns, padc)
  OBVIOUS
<1>1. PICK t : IsNumeral(t, n, base) /\ printnum(n, base, columns, padc) = Repeated(padc, columns - Len(t)) \o t
  <2>1. Prints(n, base, columns, padc)
    BY PrintnumPrints
  <2> QED
    BY <2>1 DEF Prints
<1>2. t \in Seq(Figures) /\ Len(t) >= 1
  BY <1>1 DEF IsNumeral
<1>3. PICK v : Reads(t, base, v, n)
  BY <1>1 DEF IsNumeral
<1>4. PICK l \in Nat : l = Len(t) /\ l >= 1
  BY <1>2, LenProperties
<1>5. PICK w \in Nat : Repeated(padc, columns - l) = [k \in 1..w |-> padc]
  BY PaddingIs
<1> DEFINE z == IF neg THEN 1 ELSE 0
<1>6. IsText(s, Sign(neg), padc, w, t)
  <2>1. printnum(n, base, columns, padc) = [k \in 1..w |-> padc] \o t
    BY <1>1, <1>4, <1>5
  <2>2. PICK S : Sign(neg) \in Seq(S)
    BY SignIs
  <2>3. PICK m \in Seq(S) : m = Sign(neg)
    BY <2>2
  <2>4. s = m \o (([k \in 1..w |-> padc] \o t) \o << Nul >>)
    BY <1>0, <2>1, <2>3 DEF Printed
  <2>5. IsText(s, m, padc, w, t)
    BY <1>2, <2>4, TextIs
  <2> QED
    BY <2>3, <2>5
<1>7. z \in {0, 1} /\ z = Len(Sign(neg)) /\ (neg => 1 \in 1..z /\ Sign(neg)[1] = "-")
  BY SignIs
<1> DEFINE L == ((z + w) + l) + 1
<1>8. /\ DOMAIN s = 1..L /\ Len(s) = L /\ s[L] = Nul
      /\ \A k \in 1..z : s[k] = Sign(neg)[k]
      /\ \A k \in 1..w : s[z + k] = padc
      /\ \A k \in 1..l : s[(z + w) + k] = t[k]
  <2> HIDE DEF z
  <2> QED
    BY <1>4, <1>6, <1>7 DEF IsText
<1>9. z = 0
  OBVIOUS
<1> HIDE DEF z
<1> DEFINE b == w + 1
<1>10. L \in Nat /\ b \in 1..L /\ L = b + l
  BY <1>4, <1>9
<1>11. \A k \in 1..(b - 1) : s[k] \in Blanks
  <2>1. padc \in Blanks
    BY DEF Blanks
  <2>2. \A k \in 1..w : s[k] = padc
    <3>1. \A k \in 1..w : 0 + k = k
      OBVIOUS
    <3> QED
      BY <1>8, <1>9, <3>1
  <2>3. \A k \in 1..(b - 1) : k \in 1..w
    OBVIOUS
  <2> QED
    BY <2>1, <2>2, <2>3
<1>12. \A k \in 1..Len(t) : s[b + k - 1] = t[k]
  <2>1. \A k \in 1..l : b + k - 1 = (0 + w) + k
    OBVIOUS
  <2> QED
    BY <1>4, <1>8, <1>9, <2>1
<1> HIDE DEF L, b
<1>13. b = (IF neg THEN b + 1 ELSE b) /\ L = b + Len(t) /\ L \in Nat
  BY <1>4, <1>10
<1>14. strtol(s, base) = [value |-> WrapSigned(IF neg THEN -n ELSE n, Word), end |-> L]
  <2>1. base \in 2..36
    OBVIOUS
  <2>2. Readable(s, L, b, neg, b, t, base, v, n)
    BY <1>2, <1>3, <1>8, <1>9, <1>10, <1>11, <1>12, <1>13, <2>1 DEF Readable
  <2> QED
    BY <2>2, StrtolReads
<1> QED
  BY <1>0, <1>8, <1>14 DEF IsReadBack

(* A text of a mark, zeros and a numeral ends with figures that stand for its number. *)
FiguresBehind(s, p, base, n) == \E u, x : FiguresFrom(s, Len(s), p, u, base, x, n)

(* Zeros in front of a number are figures of it: what is filled with zeros is worth the
   number. *)
LEMMA ZerosAreFigures ==
    ASSUME NEW s, NEW m, NEW z \in Nat, z = Len(m), NEW w \in Nat, NEW t, NEW base \in 2..36, NEW n \in Nat,
           IsNumeral(t, n, base), IsText(s, m, Lower[1], w, t)
    PROVE  FiguresBehind(s, z + 1, base, n)
<1>1. t \in Seq(Figures) /\ Len(t) >= 1
  BY DEF IsNumeral
<1>2. PICK v : Reads(t, base, v, n)
  BY DEF IsNumeral
<1>3. PICK l \in Nat : l = Len(t) /\ l >= 1
  BY <1>1, LenProperties
<1> DEFINE L == ((z + w) + l) + 1
<1>4. /\ DOMAIN s = 1..L /\ Len(s) = L /\ s[L] = Nul
      /\ \A k \in 1..w : s[z + k] = Lower[1]
      /\ \A k \in 1..l : s[(z + w) + k] = t[k]
  BY <1>3 DEF IsText
<1> DEFINE u == [k \in 1..(w + l) |-> s[z + k]]
<1>5. u \in Seq(Figures) /\ Len(u) = w + l /\ (\A k \in 1..w : u[k] = Lower[1]) /\ \A k \in 1..l : u[w + k] = t[k]
  <2>1. \A k \in 1..w : u[k] = Lower[1]
    <3> TAKE k \in 1..w
    <3>1. k \in 1..(w + l)
      OBVIOUS
    <3> QED
      BY <1>4, <3>1
  <2>2. \A k \in 1..l : u[w + k] = t[k]
    <3> TAKE k \in 1..l
    <3>1. w + k \in 1..(w + l) /\ z + (w + k) = (z + w) + k
      OBVIOUS
    <3> QED
      BY <1>4, <3>1
  <2>3. Lower[1] \in Figures
    BY DEF Figures
  <2>4. \A k \in 1..l : t[k] \in Figures
    BY <1>1, <1>3, ElementOfSeq
  <2>5. \A k \in 1..(w + l) : u[k] \in Figures
    <3> SUFFICES ASSUME NEW k \in 1..(w + l) PROVE u[k] \in Figures
      OBVIOUS
    <3> HIDE DEF u
    <3>1. CASE k <= w
      BY <2>1, <2>3, <3>1
    <3>2. CASE k > w
      <4>1. k - w \in 1..l /\ w + (k - w) = k
        BY <3>2
      <4> QED
        BY <2>2, <2>4, <4>1
    <3> QED
      BY <3>1, <3>2
  <2>6. u \in [1..(w + l) -> Figures]
    BY <2>5
  <2>7. u \in Seq(Figures) /\ Len(u) = w + l
    <3>1. w + l \in Nat
      OBVIOUS
    <3> HIDE DEF u
    <3> QED
      BY <2>6, <3>1, LenProperties, SeqDef
  <2> QED
    BY <2>1, <2>2, <2>7
<1>6. \A k \in 1..(w + l) : s[z + k] = u[k]
  OBVIOUS
<1> HIDE DEF u
<1>7. PICK x : Reads(u, base, x, n)
  BY <1>1, <1>2, <1>3, <1>5, ZerosRead
<1> DEFINE p == z + 1
<1>8. L \in Nat /\ p \in 1..L /\ L = p + Len(u) /\ Len(u) >= 1
  BY <1>3, <1>5
<1>9. \A k \in 1..Len(u) : s[p + k - 1] = u[k]
  <2> TAKE k \in 1..Len(u)
  <2>1. k \in 1..(w + l) /\ p + k - 1 = z + k
    BY <1>5
  <2> QED
    BY <1>6, <2>1
<1> HIDE DEF L
<1>10. FiguresFrom(s, L, p, u, base, x, n)
  BY <1>4, <1>5, <1>7, <1>8, <1>9 DEF FiguresFrom
<1> QED
  BY <1>4, <1>10 DEF FiguresBehind

(* Zeros in front of a number, behind its sign, are figures of it. *)
LEMMA ZeroPaddedIsRead ==
    ASSUME NEW base \in 2..16, NEW n \in Nat, NEW columns \in Int, NEW padc, padc = Lower[1],
           NEW neg \in BOOLEAN
    PROVE  IsReadBack(neg, n, base, columns, padc)
<1>0. PICK s : s = Printed(neg, n, base, columns, padc)
  OBVIOUS
<1>1. PICK t : IsNumeral(t, n, base) /\ printnum(n, base, columns, padc) = Repeated(padc, columns - Len(t)) \o t
  <2>1. Prints(n, base, columns, padc)
    BY PrintnumPrints
  <2> QED
    BY <2>1 DEF Prints
<1>2. t \in Seq(Figures) /\ Len(t) >= 1
  BY <1>1 DEF IsNumeral
<1>3. PICK l \in Nat : l = Len(t) /\ l >= 1
  BY <1>2, LenProperties
<1>4. PICK w \in Nat : Repeated(padc, columns - l) = [k \in 1..w |-> padc]
  BY PaddingIs
<1>5. PICK z \in {0, 1} : z = Len(Sign(neg)) /\ z = (IF neg THEN 1 ELSE 0) /\ (neg => 1 \in 1..z /\ Sign(neg)[1] = "-")
  BY SignIs
<1>6. IsText(s, Sign(neg), padc, w, t)
  <2>1. printnum(n, base, columns, padc) = [k \in 1..w |-> padc] \o t
    BY <1>1, <1>3, <1>4
  <2>2. PICK S : Sign(neg) \in Seq(S)
    BY SignIs
  <2>3. PICK m \in Seq(S) : m = Sign(neg)
    BY <2>2
  <2>4. s = m \o (([k \in 1..w |-> padc] \o t) \o << Nul >>)
    BY <1>0, <2>1, <2>3 DEF Printed
  <2>5. IsText(s, m, padc, w, t)
    BY <1>2, <2>4, TextIs
  <2> QED
    BY <2>3, <2>5
<1>7. FiguresBehind(s, z + 1, base, n)
  <2>1. z \in Nat /\ base \in 2..36
    OBVIOUS
  <2> QED
    BY <1>1, <1>5, <1>6, <2>1, ZerosAreFigures
<1>8. PICK u, x : FiguresFrom(s, Len(s), z + 1, u, base, x, n)
  BY <1>7 DEF FiguresBehind
<1>9. neg => s[1] = "-"
  BY <1>5, <1>6 DEF IsText
<1> DEFINE L == Len(s)  b == 1  p == z + 1
<1>10. b \in 1..L /\ p = (IF neg THEN b + 1 ELSE b) /\ \A k \in 1..(b - 1) : s[k] \in Blanks
  BY <1>5, <1>8 DEF FiguresFrom
<1>11. Readable(s, L, b, neg, p, u, base, x, n)
  <2>1. neg => s[b] = "-"
    BY <1>9
  <2>2. FiguresFrom(s, L, p, u, base, x, n)
    BY <1>8
  <2> HIDE DEF L, b, p
  <2> QED
    BY <1>10, <2>1, <2>2 DEF Readable, FiguresFrom
<1>12. strtol(s, base) = [value |-> WrapSigned(IF neg THEN -n ELSE n, Word), end |-> L]
  <2> HIDE DEF L, b, p
  <2> QED
    BY <1>11, StrtolReads
<1> QED
  BY <1>0, <1>12 DEF IsReadBack

(* What printnum printed, behind the sign that vprintfmt printed, as far as the
   padding between them is figures, strtol reads back: the same number, as far
   as a long holds it, and the whole text (printfmt.c, printnum; string.c, strtol). *)
THEOREM PrintedIsRead ==
    ASSUME NEW base \in 2..16, NEW n \in Nat, NEW columns \in Int, NEW padc \in {" ", "0"},
           NEW neg \in BOOLEAN, neg => padc = "0"
    PROVE  IsReadBack(neg, n, base, columns, padc)
<1> DEFINE blank == " "  zero == "0"
<1>1. padc \in {blank, zero} /\ (neg => padc = zero) /\ (neg => padc # blank) /\ blank \in Blanks /\ zero = Lower[1]
  BY DEF Blanks, Lower
<1> HIDE DEF blank, zero
<1>2. CASE padc = blank
  <2>1. padc \in Blanks /\ ~neg
    BY <1>1, <1>2
  <2> QED
    BY <2>1, PaddedIsRead
<1>3. CASE padc = zero
  <2>1. padc = Lower[1]
    BY <1>1, <1>3
  <2> QED
    BY <2>1, ZeroPaddedIsRead
<1> QED
  BY <1>1, <1>2, <1>3

(* The prefix of a pointer, its figures after zeros, and the Nul. *)
PointerMark == << "0", "x" >>
Pointed(n, columns) == PointerMark \o (printnum(n, 16, columns, Lower[1]) \o << Nul >>)

(* strtol passes the prefix of a pointer, and reads the rest as its number
   (printfmt.c, case 'p'; string.c, strtol). *)
THEOREM PointerIsRead ==
    ASSUME NEW n \in Nat, NEW columns \in Int
    PROVE  strtol(Pointed(n, columns), 16) = [value |-> WrapSigned(n, Word), end |-> Len(Pointed(n, columns))]
<1>0. PICK s : s = Pointed(n, columns)
  OBVIOUS
<1> DEFINE c == "0"  e == "x"  base == 16  padc == Lower[1]
<1>1. c = Lower[1] /\ e = Lower[34] /\ c # "-" /\ c # "+" /\ PointerMark = << c, e >>
  BY DEF Lower, PointerMark
<1>2. c \notin Blanks /\ c # "-" /\ c \notin {"+", "-"}
  <2>1. 1 \in 1..36
    OBVIOUS
  <2>2. Lower[1] \notin {" ", "\t", "-", "+"}
    BY <2>1, FigureIsPlain
  <2> HIDE DEF c
  <2>3. c \notin {" ", "\t", "-", "+"}
    BY <1>1, <2>2
  <2> QED
    BY <2>3, Zenon DEF Blanks
<1> HIDE DEF c, e
<1>3. PointerMark \in Seq({c, e}) /\ Len(PointerMark) = 2 /\ PointerMark[1] = c /\ PointerMark[2] = e
  BY <1>1
<1>4. PICK t : IsNumeral(t, n, base) /\ printnum(n, base, columns, padc) = Repeated(padc, columns - Len(t)) \o t
  <2>1. base \in 2..16
    OBVIOUS
  <2>2. Prints(n, base, columns, padc)
    BY <2>1, PrintnumPrints
  <2> QED
    BY <2>2 DEF Prints
<1>5. t \in Seq(Figures)
  BY <1>4 DEF IsNumeral
<1>6. PICK l \in Nat : l = Len(t)
  BY <1>5, LenProperties
<1>7. PICK w \in Nat : Repeated(padc, columns - l) = [k \in 1..w |-> padc]
  <2>1. columns - l \in Int
    OBVIOUS
  <2> QED
    BY <2>1, PaddingIs
<1>8. IsText(s, PointerMark, padc, w, t)
  <2>1. PICK m \in Seq({c, e}) : m = PointerMark
    BY <1>3
  <2>2. s = m \o (([k \in 1..w |-> padc] \o t) \o << Nul >>)
    BY <1>0, <1>4, <1>6, <1>7, <2>1 DEF Pointed
  <2>3. IsText(s, m, padc, w, t)
    BY <1>5, <2>2, TextIs
  <2> QED
    BY <2>1, <2>3
<1>9. FiguresBehind(s, 3, 16, n)
  <2>1. PICK z \in Nat : z = 2 /\ z = Len(PointerMark) /\ z + 1 = 3 /\ base \in 2..36
    BY <1>3
  <2>2. FiguresBehind(s, z + 1, base, n)
    BY <1>4, <1>8, <2>1, ZerosAreFigures
  <2> QED
    BY <2>1, <2>2
<1>10. PICK u, x : FiguresFrom(s, Len(s), 3, u, 16, x, n)
  BY <1>9 DEF FiguresBehind
<1>11. PICK L \in Nat : L = Len(s) /\ L >= 3 /\ DOMAIN s = 1..L /\ s[L] = Nul
  BY <1>10 DEF FiguresFrom
<1>12. s[1] = c /\ s[2] = e
  <2>1. 1 \in 1..Len(PointerMark) /\ 2 \in 1..Len(PointerMark)
    BY <1>3
  <2> QED
    BY <1>3, <1>8, <2>1 DEF IsText
<1>13. Skip(s)[1] = 1
  <2>1. s[L] \notin Blanks /\ s[1] \notin Blanks
    BY <1>2, <1>11, <1>12, NulIsNoFigure
  <2>2. 1 \in 1..L /\ \A k \in 1..(1 - 1) : s[k] \in Blanks
    BY <1>11
  <2> QED
    BY <1>11, <2>1, <2>2, SkipIs
<1>14. Prefix(s, 1, 16) = [next |-> 3, base |-> 16]
  <2>1. s[1] = "0" /\ s[1 + 1] = "x" /\ 1 + 2 = 3 /\ 16 \in {0, 16}
    BY <1>12 DEF c, e
  <2> QED
    BY <2>1 DEF Prefix
<1>15. strtol(s, 16) = Gathered(s, 16, FALSE)[3][0]
  <2>1. (s[1] = "-") = FALSE /\ (IF s[1] \in {"+", "-"} THEN 1 + 1 ELSE 1) = 1
    BY <1>2, <1>12
  <2>2. strtol(s, 16) = Gathered(s, Prefix(s, 1, 16).base, s[1] = "-")[Prefix(s, 1, 16).next][0]
    BY <1>13, <2>1, StrtolIs
  <2>3. Prefix(s, 1, 16).base = 16 /\ Prefix(s, 1, 16).next = 3
    BY <1>14
  <2> QED
    BY <2>1, <2>2, <2>3, Zenon
<1>16. Yields(s, 16, FALSE, 3, n, L)
  BY <1>10, <1>11, FiguresRead
<1> QED
  BY <1>0, <1>11, <1>15, <1>16 DEF Yields

-----------------------------------------------------------------------------
(* Texts: what is joined, repeated, padded and printed. *)
(* What is made up step by step from a beginning exists. *)
Builds(f, first, g) == f[0] = first /\ \A k \in Nat \ {0} : f[k] = g[k][f[k - 1]]

(* A sequence whose every element is made from the one before it exists. *)
LEMMA StepsExist ==
    ASSUME NEW S, NEW first \in S, NEW g \in [Nat -> [S -> S]]
    PROVE  \E f \in [Nat -> S] : Builds(f, first, g)
<1> DEFINE D == Nat \ {0}
           A == [n \in Nat |-> first]
           d == [n \in Nat |-> IF n > 0 THEN n - 1 ELSE 0]
<1>1. A \in [Nat -> S] /\ d \in [Nat -> Nat] /\ \A n \in Nat : n \in D => d[n] < n
  OBVIOUS
<1>2. PICK f \in [Nat -> S] : Recurs(f, Nat, D, A, d, g)
  <2> HIDE DEF D, A, d
  <2> QED
    BY <1>1, RecursionExists
<1>3. f[0] = first
  <2>1. 0 \notin D /\ A[0] = first
    OBVIOUS
  <2> HIDE DEF D, A, d
  <2> QED
    BY <1>2, <2>1 DEF Recurs
<1>4. ASSUME NEW k \in Nat \ {0} PROVE f[k] = g[k][f[k - 1]]
  <2>1. k \in D /\ d[k] = k - 1
    OBVIOUS
  <2> HIDE DEF D, A, d
  <2> QED
    BY <1>2, <2>1 DEF Recurs
<1> QED
  BY <1>3, <1>4 DEF Builds

(* The flattened sequence, piece by piece. *)
Pieces(F, seqs, n, S) ==
    /\ F \in [0..n -> Seq(S)] /\ F[0] = << >> /\ F[n] = FlattenSeq(seqs)
    /\ \A k \in 1..n : F[k] = F[k - 1] \o seqs[k]

(* A joined sequence holds its pieces one behind the other. *)
LEMMA FlattenIs ==
    ASSUME NEW S, NEW n \in Nat, NEW seqs \in [1..n -> Seq(S)]
    PROVE  \E F : Pieces(F, seqs, n, S)
<1>0. Len(seqs) = n
  OBVIOUS
<1> DEFINE C == Seq(S)
           J(x, k) == x \o seqs[k]
           none == << >>
<1>1. none \in C /\ \A k \in 1..n : J(none, k) = seqs[k] /\ \A x \in C : J(x, k) \in C
  BY ConcatProperties, ConcatEmptySeq
<1>2. n = 0 => FlattenSeq(seqs) = none
  BY <1>0 DEF FlattenSeq
<1> DEFINE Sat(f) == [i \in 1..n |-> IF i = 1 THEN seqs[i] ELSE J(f[i - 1], i)]
           c == CHOOSE f : f = Sat(f)
<1>3. n > 0 => FlattenSeq(seqs) = c[n]
  BY <1>0 DEF FlattenSeq
<1> HIDE DEF J, C, none
<1> DEFINE g == [k \in Nat |-> [x \in C |-> IF k \in 1..n THEN J(x, k) ELSE x]]
<1>4. g \in [Nat -> [C -> C]]
  BY <1>1
<1>5. PICK G \in [Nat -> C] : Builds(G, none, g)
  <2> HIDE DEF g
  <2> QED
    BY <1>1, <1>4, StepsExist
<1>6. ASSUME NEW k \in 1..n PROVE G[k] = J(G[k - 1], k) /\ G[k - 1] \in C
  <2>1. k - 1 \in Nat /\ k \in Nat \ {0}
    OBVIOUS
  <2>2. G[k] = g[k][G[k - 1]] /\ G[k - 1] \in C
    BY <1>5, <2>1 DEF Builds
  <2> QED
    BY <2>1, <2>2
<1> HIDE DEF g
<1> DEFINE h == [i \in 1..n |-> G[i]]
<1>50. G[0] = none
  BY <1>5 DEF Builds
<1>7. h = Sat(h)
  <2>1. ASSUME NEW i \in 1..n PROVE h[i] = IF i = 1 THEN seqs[i] ELSE J(h[i - 1], i)
    <3>1. CASE i = 1
      <4>1. G[1] = J(G[0], 1)
        BY <1>6, <3>1
      <4> QED
        BY <1>1, <1>50, <3>1, <4>1
    <3>2. CASE i # 1
      <4>1. i - 1 \in 1..n
        BY <3>2
      <4> QED
        BY <1>6, <3>2, <4>1
    <3> QED
      BY <3>1, <3>2
  <2> HIDE DEF h
  <2>2. h = [i \in 1..n |-> h[i]]
    BY DEF h
  <2> QED
    BY <2>1, <2>2
<1>8. c = Sat(c)
  <2> HIDE DEF h, Sat
  <2> QED
    BY <1>7
<1>9. \A i \in 1..n : c[i] = IF i = 1 THEN seqs[i] ELSE J(c[i - 1], i)
  <2> HIDE DEF c
  <2> QED
    BY <1>8
<1> HIDE DEF c, h, Sat
<1> DEFINE T == {k \in Nat : k \in 1..n => c[k] = G[k]}
<1>10. ASSUME NEW k \in Nat, \A m \in 0..(k - 1) : m \in T PROVE k \in T
  <2>1. CASE k \in 1..n /\ k = 1
    <3>1. G[1] = J(G[0], 1)
      BY <1>6, <2>1
    <3> QED
      BY <1>1, <1>50, <1>9, <2>1, <3>1
  <2>2. CASE k \in 1..n /\ k # 1
    <3>1. k - 1 \in 0..(k - 1) /\ k - 1 \in 1..n
      BY <2>2
    <3>2. c[k - 1] = G[k - 1]
      BY <1>10, <3>1
    <3>3. c[k] = J(c[k - 1], k) /\ G[k] = J(G[k - 1], k)
      BY <1>6, <1>9, <2>2
    <3> QED
      BY <3>2, <3>3
  <2> QED
    BY <2>1, <2>2
<1>11. n \in T
  <2> HIDE DEF T
  <2> QED
    BY <1>10, InductionOver
<1>12. G[n] = FlattenSeq(seqs)
  BY <1>2, <1>3, <1>50, <1>11
<1> DEFINE F == [k \in 0..n |-> G[k]]
<1>13. F \in [0..n -> C] /\ F[0] = none /\ F[n] = FlattenSeq(seqs)
  BY <1>5, <1>50, <1>12
<1>14. ASSUME NEW k \in 1..n PROVE F[k] = J(F[k - 1], k)
  <2>1. k - 1 \in 0..n /\ k \in 0..n
    OBVIOUS
  <2> QED
    BY <1>6, <2>1
<1> HIDE DEF F
<1>15. \A k \in 1..n : F[k] = F[k - 1] \o seqs[k]
  BY <1>14 DEF J
<1> QED
  BY <1>13, <1>15 DEF Pieces, C, none

(* A sequence, of whatever. *)
IsSeq(s) == \E S : s \in Seq(S)

(* A sequence whose elements are in S is a sequence over S. *)
LEMMA InSeq ==
    ASSUME NEW s, IsSeq(s), NEW S, \A i \in 1..Len(s) : s[i] \in S
    PROVE  s \in Seq(S) /\ Len(s) \in Nat /\ DOMAIN s = 1..Len(s)
<1>1. PICK U : s \in Seq(U)
  BY DEF IsSeq
<1>2. PICK n \in Nat : n = Len(s) /\ s \in [1..n -> U]
  BY <1>1, LenProperties
<1>3. s \in [1..n -> S]
  BY <1>2
<1> QED
  BY <1>2, <1>3

(* Two sequences one behind the other. *)
Joined(x, y) ==
    /\ IsSeq(x \o y) /\ Len(x) \in Nat /\ Len(y) \in Nat /\ Len(x \o y) = Len(x) + Len(y)
    /\ \A i \in 1..Len(x) : (x \o y)[i] = x[i]
    /\ \A i \in 1..Len(y) : (x \o y)[Len(x) + i] = y[i]

(* Two sequences joined have the first one's elements, then the second one's. *)
LEMMA JoinIs == ASSUME NEW x, NEW y, IsSeq(x), IsSeq(y) PROVE Joined(x, y)
<1>1. PICK S, U : x \in Seq(S) /\ y \in Seq(U)
  BY DEF IsSeq
<1>2. x \in Seq(S \cup U) /\ y \in Seq(S \cup U)
  BY <1>1, SeqMonotonic
<1> QED
  BY <1>2, ConcatProperties, LenProperties DEF Joined, IsSeq

(* Where the pieces of a flattened sequence lie. *)
Layout(off, seqs, n) ==
    /\ IsSeq(FlattenSeq(seqs))
    /\ off \in [0..n -> Nat] /\ off[0] = 0 /\ off[n] = Len(FlattenSeq(seqs))
    /\ \A k \in 1..n :
           /\ off[k] = off[k - 1] + Len(seqs[k]) /\ off[k] <= off[n]
           /\ \A j \in 1..Len(seqs[k]) : FlattenSeq(seqs)[off[k - 1] + j] = seqs[k][j]

(* Pieces of one type that are joined lie at offsets: each begins where the one before
   it ends. *)
LEMMA LayoutOf ==
    ASSUME NEW S, NEW n \in Nat, NEW seqs \in [1..n -> Seq(S)]
    PROVE  \E off : Layout(off, seqs, n)
<1>1. PICK F : Pieces(F, seqs, n, S)
  BY FlattenIs
<1> DEFINE off == [k \in 0..n |-> Len(F[k])]
<1>2. \A k \in 0..n : F[k] \in Seq(S) /\ Len(F[k]) \in Nat
  BY <1>1 DEF Pieces
<1>3. off \in [0..n -> Nat] /\ \A k \in 0..n : off[k] = Len(F[k])
  BY <1>2
<1> HIDE DEF off
<1>4. ASSUME NEW k \in 1..n
      PROVE  /\ k - 1 \in 0..n /\ off[k] = off[k - 1] + Len(seqs[k]) /\ Len(seqs[k]) \in Nat
             /\ \A j \in 1..off[k - 1] : F[k][j] = F[k - 1][j]
             /\ \A j \in 1..Len(seqs[k]) : F[k][off[k - 1] + j] = seqs[k][j]
  <2>1. k - 1 \in 0..n /\ k \in 0..n
    OBVIOUS
  <2>2. F[k] = F[k - 1] \o seqs[k] /\ F[k - 1] \in Seq(S) /\ seqs[k] \in Seq(S)
    BY <1>1, <1>2, <2>1 DEF Pieces
  <2>3. PICK x \in Seq(S), y \in Seq(S) : x = F[k - 1] /\ y = seqs[k] /\ F[k] = x \o y
    BY <2>2
  <2>4. /\ Len(x \o y) = Len(x) + Len(y) /\ Len(x) \in Nat /\ Len(y) \in Nat
        /\ \A j \in 1..Len(x) : (x \o y)[j] = x[j]
        /\ \A j \in 1..Len(y) : (x \o y)[Len(x) + j] = y[j]
    OBVIOUS
  <2> QED
    BY <1>3, <2>1, <2>3, <2>4
<1> DEFINE Lies(m) == \A k \in 1..m : off[k] <= off[m] /\ \A j \in 1..Len(seqs[k]) : F[m][off[k - 1] + j] = seqs[k][j]
           T == {m \in Nat : m \in 0..n => Lies(m)}
<1>5. ASSUME NEW m \in Nat, \A i \in 0..(m - 1) : i \in T PROVE m \in T
  <2> SUFFICES ASSUME m \in 0..n, NEW k \in 1..m
               PROVE  off[k] <= off[m] /\ \A j \in 1..Len(seqs[k]) : F[m][off[k - 1] + j] = seqs[k][j]
    OBVIOUS
  <2>1. k \in 1..n /\ m \in 1..n
    OBVIOUS
  <2>2. CASE k = m
    <3>1. off[k] <= off[k]
      BY <1>3, <2>1
    <3>2. \A j \in 1..Len(seqs[k]) : F[k][off[k - 1] + j] = seqs[k][j]
      BY <1>4, <2>1
    <3> QED
      BY <2>2, <3>1, <3>2
  <2>3. CASE k # m
    <3>1. m - 1 \in 0..(m - 1) /\ m - 1 \in 0..n /\ k \in 1..(m - 1)
      BY <2>1, <2>3
    <3>2. off[k] <= off[m - 1] /\ \A j \in 1..Len(seqs[k]) : F[m - 1][off[k - 1] + j] = seqs[k][j]
      BY <1>5, <3>1
    <3>3. /\ off[m] = off[m - 1] + Len(seqs[m]) /\ Len(seqs[m]) \in Nat /\ off[m - 1] \in Nat /\ off[m] \in Nat
          /\ off[k] = off[k - 1] + Len(seqs[k]) /\ Len(seqs[k]) \in Nat /\ off[k] \in Nat /\ off[k - 1] \in Nat
      BY <1>3, <1>4, <2>1, <3>1
    <3>4. ASSUME NEW j \in 1..Len(seqs[k]) PROVE F[m][off[k - 1] + j] = seqs[k][j]
      <4>1. PICK l \in Nat, before \in Nat : l = Len(seqs[k]) /\ before = off[k - 1]
        BY <3>3
      <4>2. j \in 1..l /\ before + l <= off[m - 1] /\ off[m - 1] \in Nat
        BY <3>2, <3>3, <4>1
      <4>3. before + j \in 1..off[m - 1]
        BY <4>2
      <4>4. F[m][before + j] = F[m - 1][before + j]
        BY <1>4, <2>1, <4>3
      <4> QED
        BY <3>2, <4>1, <4>4
    <3> QED
      BY <3>2, <3>3, <3>4
  <2> QED
    BY <2>2, <2>3
<1>6. Lies(n)
  <2>1. \A m \in Nat : m \in T
    <3> HIDE DEF T
    <3> QED
      BY <1>5, InductionOver
  <2>2. n \in T /\ n \in 0..n
    BY <2>1
  <2> HIDE DEF Lies
  <2> QED
    BY <2>2
<1>7. F[n] = FlattenSeq(seqs) /\ off[0] = 0 /\ n \in 0..n /\ 0 \in 0..n
  BY <1>1, <1>3 DEF Pieces
<1>8. Layout(off, seqs, n)
  <2>1. IsSeq(FlattenSeq(seqs))
    BY <1>2, <1>7 DEF IsSeq
  <2> QED
    BY <1>3, <1>4, <1>6, <1>7, <2>1 DEF Layout
<1> QED
  BY <1>8

(* Pieces that are joined lie at offsets, whatever they hold. *)
LEMMA LayoutIs ==
    ASSUME NEW n \in Nat, NEW seqs, DOMAIN seqs = 1..n, seqs = [k \in 1..n |-> seqs[k]],
           \A k \in 1..n : IsSeq(seqs[k])
    PROVE  \E off : Layout(off, seqs, n)
<1> DEFINE S == UNION {{seqs[k][i] : i \in 1..Len(seqs[k])} : k \in 1..n}
<1>0. seqs \in [1..n -> Seq(S)]
  <2>1. ASSUME NEW k \in 1..n PROVE seqs[k] \in Seq(S)
    <3>1. \A i \in 1..Len(seqs[k]) : seqs[k][i] \in S
      OBVIOUS
    <3> HIDE DEF S
    <3> QED
      BY <3>1, InSeq
  <2> HIDE DEF S
  <2> QED
    BY <2>1
<1> HIDE DEF S
<1> QED
  BY <1>0, LayoutOf

(* A power is what its recursion says. *)
LEMMA PowerIs ==
    ASSUME NEW base \in Nat, NEW n \in Nat
    PROVE  Power(base, 0) = 1 /\ Power(base, n) \in Nat /\ Power(base, n + 1) = base * Power(base, n)
<1> DEFINE Sat(f) == [k \in Nat |-> IF k = 0 THEN 1 ELSE base * f[k - 1]]
           c == CHOOSE f : f = Sat(f)
           g == [k \in Nat |-> [x \in Nat |-> base * x]]
<1>1. \A k : Power(base, k) = c[k]
  BY DEF Power
<1>2. g \in [Nat -> [Nat -> Nat]] /\ 1 \in Nat
  OBVIOUS
<1>3. PICK f \in [Nat -> Nat] : Builds(f, 1, g)
  <2> HIDE DEF g
  <2> QED
    BY <1>2, StepsExist
<1>4. f = Sat(f)
  <2>1. ASSUME NEW k \in Nat PROVE f[k] = IF k = 0 THEN 1 ELSE base * f[k - 1]
    <3>1. CASE k = 0
      BY <1>3, <3>1 DEF Builds
    <3>2. CASE k # 0
      <4>1. k \in Nat \ {0} /\ f[k - 1] \in Nat
        BY <3>2
      <4>2. f[k] = g[k][f[k - 1]]
        BY <1>3, <4>1 DEF Builds
      <4> QED
        BY <3>2, <4>1, <4>2
    <3> QED
      BY <3>1, <3>2
  <2>2. f = [k \in Nat |-> f[k]]
    OBVIOUS
  <2> QED
    BY <2>1, <2>2
<1>5. c = Sat(c)
  <2> HIDE DEF Sat
  <2> QED
    BY <1>4
<1>6. \A k \in Nat : c[k] = IF k = 0 THEN 1 ELSE base * c[k - 1]
  <2> HIDE DEF c
  <2> QED
    BY <1>5
<1> HIDE DEF c, Sat
<1> DEFINE T == {k \in Nat : c[k] \in Nat}
<1>7. ASSUME NEW k \in Nat, \A m \in 0..(k - 1) : m \in T PROVE k \in T
  <2>1. CASE k = 0
    BY <1>6, <2>1
  <2>2. CASE k # 0
    <3>1. c[k - 1] \in Nat /\ c[k] = base * c[k - 1]
      BY <1>6, <1>7, <2>2
    <3> QED
      BY <3>1
  <2> QED
    BY <2>1, <2>2
<1>8. \A k \in Nat : k \in T
  <2> HIDE DEF T
  <2> QED
    BY <1>7, InductionOver
<1>9. n + 1 # 0 /\ (n + 1) - 1 = n /\ n + 1 \in Nat
  OBVIOUS
<1> QED
  BY <1>1, <1>6, <1>8, <1>9

(* Powers grow. *)
LEMMA PowerGrows ==
    ASSUME NEW base \in Nat, base >= 2, NEW m \in Nat
    PROVE  Power(base, m) >= m + 1 /\ \A k \in 0..m : Power(base, k) <= Power(base, m)
<1> DEFINE P(k) == Power(base, k)
           T == {j \in Nat : P(j) >= j + 1 /\ \A k \in 0..j : P(k) <= P(j)}
<1>1. P(0) = 1 /\ \A k \in Nat : P(k) \in Nat /\ P(k + 1) = base * P(k)
  BY PowerIs
<1> HIDE DEF P
<1>2. ASSUME NEW j \in Nat, \A i \in 0..(j - 1) : i \in T PROVE j \in T
  <2>1. CASE j = 0
    BY <1>1, <2>1
  <2>2. CASE j # 0
    <3>1. PICK i \in Nat : j = i + 1 /\ i \in T
      <4>1. j - 1 \in Nat /\ j = (j - 1) + 1 /\ j - 1 \in 0..(j - 1)
        BY <2>2
      <4> QED
        BY <1>2, <4>1
    <3>2. P(i) \in Nat /\ P(j) = base * P(i) /\ P(i) >= i + 1
      BY <1>1, <3>1
    <3>3. base * P(i) >= 2 * P(i)
      BY <3>2
    <3>4. P(j) \in Nat /\ P(j) >= j + 1 /\ P(i) <= P(j)
      BY <1>1, <3>1, <3>2, <3>3
    <3>5. ASSUME NEW k \in 0..j PROVE P(k) <= P(j)
      <4>1. CASE k = j
        BY <3>4, <4>1
      <4>2. CASE k # j
        <5>1. k \in 0..i
          BY <3>1, <4>2
        <5>2. P(k) <= P(i) /\ P(k) \in Nat
          BY <1>1, <3>1, <5>1
        <5> QED
          BY <3>2, <3>4, <5>2
      <4> QED
        BY <4>1, <4>2
    <3> QED
      BY <3>4, <3>5
  <2> QED
    BY <2>1, <2>2
<1>3. m \in T
  <2> HIDE DEF T
  <2>1. \A j \in Nat : j \in T
    BY <1>2, InductionOver
  <2> QED
    BY <2>1
<1> QED
  BY <1>3 DEF P

(* What is left of a number when its last figures are taken away. *)
LEMMA ReadsDivides ==
    ASSUME NEW base \in 2..36, NEW s, Len(s) \in Nat, NEW n, NEW v, Reads(s, base, v, n)
    PROVE  \A k \in 0..Len(s) : n \div Power(base, Len(s) - k) = v[k] /\ v[k] \in Nat
<1>0. PICK L \in Nat : L = Len(s)
  OBVIOUS
<1> DEFINE P(k) == Power(base, k)
<1>1. P(0) = 1 /\ \A k \in Nat : P(k) \in Nat /\ P(k) >= 1 /\ P(k + 1) = base * P(k)
  <2>1. base \in Nat /\ base >= 2
    OBVIOUS
  <2>2. ASSUME NEW k \in Nat PROVE P(0) = 1 /\ P(k) \in Nat /\ P(k + 1) = base * P(k)
    BY <2>1, PowerIs
  <2>3. ASSUME NEW k \in Nat PROVE P(k) >= 1
    <3>1. P(k) >= k + 1
      BY <2>1, PowerGrows
    <3> QED
      BY <2>2, <3>1
  <2> HIDE DEF P
  <2> QED
    BY <2>2, <2>3
<1> HIDE DEF P
<1>2. v \in [0..L -> Nat] /\ v[L] = n /\ n \in Nat
  <2>1. v \in [0..L -> Nat] /\ v[L] = n
    BY <1>0 DEF Reads
  <2>2. L \in 0..L
    OBVIOUS
  <2> QED
    BY <2>1, <2>2
<1>3. \A k \in 1..L : \E dig \in 0..(base - 1) : v[k] = base * v[k - 1] + dig
  BY <1>0 DEF Reads
<1> DEFINE Left(j) == \E r \in 0..(P(j) - 1) : n = P(j) * v[L - j] + r
           T == {j \in Nat : j \in 0..L => Left(j)}
<1>4. ASSUME NEW j \in Nat, \A i \in 0..(j - 1) : i \in T PROVE j \in T
  <2>1. CASE j = 0
    <3>1. 0 \in 0..(P(0) - 1) /\ n = P(0) * v[L - 0] + 0
      <4>1. L - 0 = L /\ 0 \in 0..(1 - 1) /\ n = 1 * n + 0
        BY <1>2
      <4> QED
        BY <1>1, <1>2, <4>1
    <3> QED
      BY <2>1, <3>1
  <2>2. CASE j # 0 /\ j \in 0..L
    <3>1. PICK i \in Nat : j = i + 1 /\ i \in 0..(j - 1) /\ i \in 0..L
      <4>1. j - 1 \in Nat /\ j = (j - 1) + 1
        BY <2>2
      <4> QED
        BY <2>2, <4>1
    <3>2. PICK r \in 0..(P(i) - 1) : n = P(i) * v[L - i] + r
      BY <1>4, <3>1
    <3>3. PICK k \in 1..L : k = L - i /\ k - 1 = L - j
      BY <2>2, <3>1
    <3>4. PICK dig \in 0..(base - 1) : v[k] = base * v[k - 1] + dig
      BY <1>3
    <3>5. PICK q \in Nat, p \in Nat : q = v[k - 1] /\ p = P(i) /\ p >= 1 /\ P(j) = base * p
      <4>1. k - 1 \in 0..L
        OBVIOUS
      <4> QED
        BY <1>1, <1>2, <3>1, <4>1
    <3>6. n = p * (base * q + dig) + r /\ r \in 0..(p - 1)
      BY <3>2, <3>3, <3>4, <3>5
    <3>7. n = (base * p) * q + (p * dig + r)
      <4>1. p * (base * q + dig) = (base * p) * q + p * dig
        BY <3>4
      <4> QED
        BY <3>4, <3>6, <4>1
    <3>8. p * dig + r \in 0..((base * p) - 1)
      <4>1. p * dig \in Nat /\ p * dig <= p * (base - 1)
        BY <3>4
      <4>2. p * (base - 1) = base * p - p /\ base * p \in Nat
        OBVIOUS
      <4> QED
        BY <3>6, <4>1, <4>2
    <3> QED
      BY <3>3, <3>5, <3>7, <3>8
  <2> QED
    BY <2>1, <2>2
<1>5. \A j \in 0..L : Left(j)
  <2>1. \A j \in Nat : j \in T
    <3> HIDE DEF T
    <3> QED
      BY <1>4, InductionOver
  <2> HIDE DEF Left
  <2> QED
    BY <2>1
<1>6. ASSUME NEW k \in 0..L PROVE n \div P(L - k) = v[k] /\ v[k] \in Nat
  <2>1. L - k \in 0..L /\ L - (L - k) = k
    OBVIOUS
  <2>2. PICK r \in 0..(P(L - k) - 1) : n = P(L - k) * v[k] + r
    BY <1>5, <2>1
  <2>3. PICK p \in Nat, q \in Nat : p = P(L - k) /\ p > 0 /\ q = v[k]
    <3>1. L - k \in Nat
      BY <2>1
    <3>2. P(L - k) \in Nat /\ P(L - k) >= 1 /\ v[k] \in Nat
      BY <1>1, <1>2, <3>1
    <3> QED
      BY <3>2
  <2>4. n = p * q + r /\ r \in 0..(p - 1)
    BY <2>2, <2>3
  <2>5. n \div p = q
    <3>1. n \in Nat /\ p > 0 /\ n = p * q + r /\ r \in 0..(p - 1)
      BY <1>2, <2>3, <2>4
    <3>2. n \div p = q /\ (n % p) = r
      BY ONLY <3>1, p \in Nat, q \in Nat, DivisionUnique, Zenon
    <3> QED
      BY <3>2
  <2> QED
    BY <2>3, <2>5
<1> QED
  BY <1>0, <1>6 DEF P

(* How many figures a number needs. *)
Places(n, base) == CHOOSE k \in 1..(n + 1) : n < Power(base, k) /\ (k = 1 \/ Power(base, k - 1) <= n)

(* A number between two powers of its base has as many places as the greater power. *)
LEMMA PlacesIs ==
    ASSUME NEW base \in 2..36, NEW n \in Nat, NEW L \in Nat, L >= 1,
           n < Power(base, L), L = 1 \/ Power(base, L - 1) <= n
    PROVE  Places(n, base) = L
<1> DEFINE P(k) == Power(base, k)
           Q(k) == n < P(k) /\ (k = 1 \/ P(k - 1) <= n)
           x == CHOOSE k \in 1..(n + 1) : Q(k)
<1>1. ASSUME NEW m \in Nat PROVE P(m) \in Nat /\ P(m) >= m + 1 /\ \A k \in 0..m : P(k) <= P(m)
  <2>1. base \in Nat /\ base >= 2
    OBVIOUS
  <2> QED
    BY <2>1, PowerIs, PowerGrows
<1> HIDE DEF P
<1>2. n < P(L) /\ (L = 1 \/ P(L - 1) <= n)
  BY DEF P
<1>3. L \in 1..(n + 1)
  <2>1. CASE L = 1
    BY <2>1
  <2>2. CASE L # 1
    <3>1. L - 1 \in Nat
      OBVIOUS
    <3>2. P(L - 1) >= (L - 1) + 1 /\ P(L - 1) \in Nat
      BY <1>1, <3>1
    <3> QED
      BY <1>2, <2>2, <3>2
  <2> QED
    BY <2>1, <2>2
<1>4. x \in 1..(n + 1) /\ Q(x)
  <2>1. \E k \in 1..(n + 1) : Q(k)
    BY <1>2, <1>3
  <2> HIDE DEF Q
  <2> QED
    BY <2>1
<1> HIDE DEF x
<1>5. ~(x < L)
  <2> SUFFICES ASSUME x < L PROVE FALSE
    OBVIOUS
  <2>1. L - 1 \in Nat /\ x \in 0..(L - 1) /\ x \in Nat /\ L # 1
    BY <1>4
  <2>2. P(x) <= P(L - 1) /\ P(x) \in Nat /\ P(L - 1) \in Nat
    BY <1>1, <2>1
  <2> QED
    BY <1>2, <1>4, <2>1, <2>2
<1>6. ~(L < x)
  <2> SUFFICES ASSUME L < x PROVE FALSE
    OBVIOUS
  <2>1. x - 1 \in Nat /\ L \in 0..(x - 1) /\ x # 1
    BY <1>4
  <2>2. P(L) <= P(x - 1) /\ P(L) \in Nat /\ P(x - 1) \in Nat
    BY <1>1, <2>1
  <2> QED
    BY <1>2, <1>4, <2>1, <2>2
<1>7. x = L
  BY <1>4, <1>5, <1>6
<1> QED
  BY <1>7 DEF x, P, Places

(* There is one numeral of a number. *)
THEOREM NumeralIs ==
    ASSUME NEW base \in 2..36, NEW n \in Nat, NEW s, IsNumeral(s, n, base)
    PROVE  s = Numeral(n, base)
<1>1. PICK L \in Nat : L = Len(s) /\ L >= 1 /\ s \in [1..L -> Figures]
  BY LenProperties DEF IsNumeral
<1>2. PICK v : Reads(s, base, v, n)
  BY DEF IsNumeral
<1> DEFINE P(k) == Power(base, k)
<1>3. \A k \in 0..L : n \div P(L - k) = v[k] /\ v[k] \in Nat
  BY <1>1, <1>2, ReadsDivides
<1>4. P(0) = 1 /\ \A k \in Nat : P(k) \in Nat /\ P(k) > 0
  <2>1. base \in Nat /\ base >= 2
    OBVIOUS
  <2>2. ASSUME NEW k \in Nat PROVE P(0) = 1 /\ P(k) \in Nat /\ P(k) > 0
    <3>1. P(0) = 1 /\ P(k) \in Nat
      BY <2>1, PowerIs
    <3>2. P(k) >= k + 1
      BY <2>1, PowerGrows
    <3> QED
      BY <3>1, <3>2
  <2> HIDE DEF P
  <2> QED
    BY <2>2
<1> HIDE DEF P
<1>5. v[0] = 0 /\ \A k \in 1..L : \E dig \in 0..(base - 1) : s[k] = Lower[dig + 1] /\ v[k] = base * v[k - 1] + dig
  BY <1>1, <1>2 DEF Reads
<1>6. ASSUME NEW k \in 1..L PROVE s[k] = Lower[((n \div P(L - k)) % base) + 1]
  <2>1. PICK dig \in 0..(base - 1) : s[k] = Lower[dig + 1] /\ v[k] = base * v[k - 1] + dig
    BY <1>5
  <2>2. PICK q \in Nat, x \in Nat : q = v[k - 1] /\ x = v[k] /\ x = n \div P(L - k)
    <3>1. k \in 0..L /\ k - 1 \in 0..L
      OBVIOUS
    <3> QED
      BY <1>3, <3>1
  <2>3. x = base * q + dig /\ base \in Nat /\ base > 0
    BY <2>1, <2>2
  <2>4. (x % base) = dig
    <3>1. x \div base = q /\ (x % base) = dig
      BY ONLY <2>3, q \in Nat, x \in Nat, dig \in 0..(base - 1), DivisionUnique, Zenon
    <3> QED
      BY <3>1
  <2> QED
    BY <2>1, <2>2, <2>4
<1>7. n < P(L)
  <2>1. n \div P(L) = 0
    <3>1. 0 \in 0..L /\ L - 0 = L
      OBVIOUS
    <3> QED
      BY <1>3, <1>5, <3>1
  <2>2. PICK p \in Nat : p = P(L) /\ p > 0
    BY <1>4
  <2>3. n = p * (n \div p) + (n % p) /\ (n % p) \in 0..(p - 1)
    BY <2>2, DivisionIs
  <2> QED
    BY <2>1, <2>2, <2>3
<1>8. L = 1 \/ P(L - 1) <= n
  <2> SUFFICES ASSUME L # 1, n < P(L - 1) PROVE FALSE
    <3>1. L - 1 \in Nat
      BY <1>1
    <3>2. P(L - 1) \in Nat
      BY <1>4, <3>1
    <3> QED
      BY <3>2
  <2>1. PICK p \in Nat : p = P(L - 1) /\ p > 0
    <3>1. L - 1 \in Nat
      BY <1>1
    <3> QED
      BY <1>4, <3>1
  <2>2. n \div p = 0
    <3>1. PICK z \in Nat : z = 0
      OBVIOUS
    <3>2. PICK r \in 0..(p - 1) : r = n
      BY <2>1
    <3>3. n = p * z + r /\ p > 0
      BY <2>1, <3>1, <3>2
    <3>4. n \div p = z /\ (n % p) = r
      BY ONLY <3>3, p \in Nat, n \in Nat, z \in Nat, r \in 0..(p - 1), DivisionUnique, Zenon
    <3> QED
      BY <3>1, <3>4
  <2>3. v[1] = 0
    BY <1>1, <1>3, <2>1, <2>2
  <2>4. PICK dig \in 0..(base - 1) : s[1] = Lower[dig + 1] /\ v[1] = base * v[0] + dig
    <3>1. 1 \in 1..L /\ 1 - 1 = 0
      BY <1>1
    <3> QED
      BY <1>5, <3>1
  <2>5. s[1] = Lower[1]
    BY <1>5, <2>3, <2>4
  <2>6. s[1] # "0"
    BY <1>1 DEF IsNumeral
  <2> QED
    BY <2>5, <2>6 DEF Lower
<1>9. Places(n, base) = L
  BY <1>1, <1>7, <1>8, PlacesIs DEF P
<1>10. Numeral(n, base) = [i \in 1..L |-> Lower[((n \div P(L - i)) % base) + 1]]
  <2>1. Numeral(n, base) = [i \in 1..Places(n, base) |->
                              Lower[((n \div Power(base, Places(n, base) - i)) % base) + 1]]
    BY DEF Numeral, Places
  <2> QED
    BY <1>9, <2>1 DEF P
<1>11. s = [i \in 1..L |-> s[i]]
  BY <1>1
<1> QED
  BY <1>6, <1>10, <1>11

(* printnum prints the numeral, behind its padding. *)
LEMMA PrintnumPads ==
    ASSUME NEW base \in 2..16, NEW n \in Nat, NEW columns \in Int, NEW fill
    PROVE  /\ printnum(n, base, columns, fill) = Repeated(fill, columns - Len(Numeral(n, base))) \o Numeral(n, base)
           /\ IsNumeral(Numeral(n, base), n, base)
<1>1. Prints(n, base, columns, fill)
  BY PrintnumPrints
<1>2. PICK s : IsNumeral(s, n, base) /\ printnum(n, base, columns, fill) = Repeated(fill, columns - Len(s)) \o s
  BY <1>1 DEF Prints
<1>3. s = Numeral(n, base)
  BY <1>2, NumeralIs
<1> QED
  BY <1>2, <1>3

(* A decimal numeral of a width or a precision, figure by figure. *)
Counts(v, n) ==
    LET s == Numeral(n, 10) IN
    /\ s \in Seq(Figures) /\ Len(s) >= 1
    /\ v \in [0..Len(s) -> Nat] /\ v[0] = 0 /\ v[Len(s)] = n
    /\ \A k \in 1..Len(s) : s[k] \in Digits /\ v[k] = v[k - 1] * 10 + Figure(s[k])
    /\ s[1] # "0"

(* A number but zero has decimal figures. *)
LEMMA DecimalIs == ASSUME NEW n \in Nat \ {0} PROVE \E v : Counts(v, n)
<1>1. PICK s : s = Numeral(n, 10) /\ IsNumeral(s, n, 10)
  <2>1. 10 \in 2..16 /\ 0 \in Int /\ n \in Nat
    OBVIOUS
  <2> QED
    BY <2>1, PrintnumPads
<1>2. s \in Seq(Figures) /\ Len(s) >= 1 /\ (Len(s) > 1 => s[1] # "0")
  BY <1>1 DEF IsNumeral
<1>3. PICK v : Reads(s, 10, v, n)
  BY <1>1 DEF IsNumeral
<1>4. v \in [0..Len(s) -> Nat] /\ v[0] = 0 /\ v[Len(s)] = n
  BY <1>3 DEF Reads
<1>5. ASSUME NEW k \in 1..Len(s)
      PROVE  \E dig \in 0..9 : s[k] = Lower[dig + 1] /\ v[k] = 10 * v[k - 1] + dig /\ Figure(s[k]) = dig
  <2>1. PICK dig \in 0..(10 - 1) : s[k] = Lower[dig + 1] /\ v[k] = 10 * v[k - 1] + dig
    BY <1>3 DEF Reads
  <2>2. dig \in 0..9 /\ dig \in 0..35
    OBVIOUS
  <2>3. Figure(Lower[dig + 1]) = dig
    BY <2>2, FigureOf
  <2> QED
    BY <2>1, <2>2, <2>3
<1>6. ASSUME NEW k \in 1..Len(s) PROVE s[k] \in Digits /\ v[k] = v[k - 1] * 10 + Figure(s[k])
  <2>1. PICK dig \in 0..9 : s[k] = Lower[dig + 1] /\ v[k] = 10 * v[k - 1] + dig /\ Figure(s[k]) = dig
    BY <1>5
  <2>2. dig + 1 \in 1..10
    OBVIOUS
  <2>3. s[k] \in Digits
    BY <2>1, <2>2 DEF Digits
  <2>4. PICK q \in Nat : q = v[k - 1]
    <3>1. Len(s) \in Nat
      BY <1>2, LenProperties
    <3>2. k - 1 \in 0..Len(s)
      BY <3>1
    <3> QED
      BY <1>4, <3>2
  <2>5. 10 * q + dig = q * 10 + dig
    OBVIOUS
  <2> QED
    BY <2>1, <2>3, <2>4, <2>5
<1>7. s[1] # "0"
  <2>1. CASE Len(s) > 1
    BY <1>2, <2>1
  <2>2. CASE ~(Len(s) > 1)
    <3>0. PICK L \in Nat : L = Len(s)
      BY <1>2, LenProperties
    <3>1. Len(s) = 1
      BY <1>2, <2>2, <3>0
    <3>2. PICK dig \in 0..9 : s[1] = Lower[dig + 1] /\ v[1] = 10 * v[0] + dig
      <4>1. 1 \in 1..Len(s) /\ 1 - 1 = 0
        BY <3>1
      <4> QED
        BY <1>5, <4>1
    <3>3. dig # 0 /\ dig \in 0..35
      BY <1>4, <3>1, <3>2
    <3> QED
      BY <3>2, <3>3, FigureIs
  <2> QED
    BY <2>1, <2>2
<1>8. Counts(v, n)
  BY <1>1, <1>2, <1>4, <1>6, <1>7 DEF Counts
<1> QED
  BY <1>8

(* Six sequences one behind the other. *)
Six(s, x1, x2, x3, x4, x5, x6) ==
    /\ IsSeq(s) /\ Len(s) = Len(x1) + Len(x2) + Len(x3) + Len(x4) + Len(x5) + Len(x6)
    /\ Len(x1) \in Nat /\ Len(x2) \in Nat /\ Len(x3) \in Nat /\ Len(x4) \in Nat /\ Len(x5) \in Nat /\ Len(x6) \in Nat
    /\ \A i \in 1..Len(x1) : s[i] = x1[i]
    /\ \A i \in 1..Len(x2) : s[Len(x1) + i] = x2[i]
    /\ \A i \in 1..Len(x3) : s[Len(x1) + Len(x2) + i] = x3[i]
    /\ \A i \in 1..Len(x4) : s[Len(x1) + Len(x2) + Len(x3) + i] = x4[i]
    /\ \A i \in 1..Len(x5) : s[Len(x1) + Len(x2) + Len(x3) + Len(x4) + i] = x5[i]
    /\ \A i \in 1..Len(x6) : s[Len(x1) + Len(x2) + Len(x3) + Len(x4) + Len(x5) + i] = x6[i]

(* Six sequences joined lie one behind the other. *)
LEMMA SixIs ==
    ASSUME NEW x1, NEW x2, NEW x3, NEW x4, NEW x5, NEW x6,
           IsSeq(x1), IsSeq(x2), IsSeq(x3), IsSeq(x4), IsSeq(x5), IsSeq(x6)
    PROVE  Six(x1 \o x2 \o x3 \o x4 \o x5 \o x6, x1, x2, x3, x4, x5, x6)
<1> DEFINE y2 == x1 \o x2
           y3 == y2 \o x3
           y4 == y3 \o x4
           y5 == y4 \o x5
           y6 == y5 \o x6
<1>2. Joined(x1, x2) /\ IsSeq(y2)
  BY JoinIs DEF Joined
<1>3. Joined(y2, x3) /\ IsSeq(y3)
  BY <1>2, JoinIs DEF Joined
<1>4. Joined(y3, x4) /\ IsSeq(y4)
  BY <1>3, JoinIs DEF Joined
<1>5. Joined(y4, x5) /\ IsSeq(y5)
  BY <1>4, JoinIs DEF Joined
<1>6. Joined(y5, x6) /\ IsSeq(y6)
  BY <1>5, JoinIs DEF Joined
<1>7. PICK n1 \in Nat, n2 \in Nat, n3 \in Nat, n4 \in Nat, n5 \in Nat, n6 \in Nat :
          n1 = Len(x1) /\ n2 = Len(x2) /\ n3 = Len(x3) /\ n4 = Len(x4) /\ n5 = Len(x5) /\ n6 = Len(x6)
  <2>1. Len(x1) \in Nat /\ Len(x2) \in Nat /\ Len(x3) \in Nat /\ Len(x4) \in Nat /\ Len(x5) \in Nat /\ Len(x6) \in Nat
    BY <1>2, <1>3, <1>4, <1>5, <1>6, Zenon DEF Joined
  <2> QED
    BY <2>1, Zenon
<1> HIDE DEF y2, y3, y4, y5, y6
<1>8. PICK s2 \in Nat : s2 = n1 + n2
  OBVIOUS
<1>9. PICK s3 \in Nat : s3 = s2 + n3
  OBVIOUS
<1>10. PICK s4 \in Nat : s4 = s3 + n4
  OBVIOUS
<1>11. PICK s5 \in Nat : s5 = s4 + n5
  OBVIOUS
<1>12. PICK s6 \in Nat : s6 = s5 + n6
  OBVIOUS
<1>20. Len(y2) = s2 /\ (\A i \in 1..n1 : y2[i] = x1[i]) /\ \A i \in 1..n2 : y2[n1 + i] = x2[i]
  BY <1>2, <1>7, <1>8, Zenon DEF Joined, y2
<1>21. Len(y3) = s3 /\ (\A i \in 1..s2 : y3[i] = y2[i]) /\ \A i \in 1..n3 : y3[s2 + i] = x3[i]
  BY <1>3, <1>7, <1>9, <1>20, Zenon DEF Joined, y3
<1>22. Len(y4) = s4 /\ (\A i \in 1..s3 : y4[i] = y3[i]) /\ \A i \in 1..n4 : y4[s3 + i] = x4[i]
  BY <1>4, <1>7, <1>10, <1>21, Zenon DEF Joined, y4
<1>23. Len(y5) = s5 /\ (\A i \in 1..s4 : y5[i] = y4[i]) /\ \A i \in 1..n5 : y5[s4 + i] = x5[i]
  BY <1>5, <1>7, <1>11, <1>22, Zenon DEF Joined, y5
<1>24. Len(y6) = s6 /\ (\A i \in 1..s5 : y6[i] = y5[i]) /\ \A i \in 1..n6 : y6[s5 + i] = x6[i]
  BY <1>6, <1>7, <1>12, <1>23, Zenon DEF Joined, y6
<1>25. /\ 1..s4 \subseteq 1..s5 /\ 1..s3 \subseteq 1..s4 /\ 1..s2 \subseteq 1..s3 /\ 1..n1 \subseteq 1..s2
       /\ \A i \in 1..n2 : n1 + i \in 1..s2
       /\ \A i \in 1..n3 : s2 + i \in 1..s3
       /\ \A i \in 1..n4 : s3 + i \in 1..s4
       /\ \A i \in 1..n5 : s4 + i \in 1..s5
  BY <1>8, <1>9, <1>10, <1>11
<1>26. \A i \in 1..s4 : y6[i] = y4[i]
  BY <1>23, <1>24, <1>25
<1>27. \A i \in 1..s3 : y6[i] = y3[i]
  BY <1>22, <1>25, <1>26
<1>28. \A i \in 1..s2 : y6[i] = y2[i]
  BY <1>21, <1>25, <1>27
<1>13. \A i \in 1..n1 : y6[i] = x1[i]
  BY <1>20, <1>25, <1>28
<1>14. \A i \in 1..n2 : y6[n1 + i] = x2[i]
  BY <1>20, <1>25, <1>28
<1>15. \A i \in 1..n3 : y6[s2 + i] = x3[i]
  BY <1>21, <1>25, <1>27
<1>16. \A i \in 1..n4 : y6[s3 + i] = x4[i]
  BY <1>22, <1>25, <1>26
<1>17. \A i \in 1..n5 : y6[s4 + i] = x5[i]
  BY <1>23, <1>24, <1>25
<1>18. IsSeq(y6)
  BY <1>6
<1>19. Six(y6, x1, x2, x3, x4, x5, x6)
  BY <1>7, <1>8, <1>9, <1>10, <1>11, <1>12, <1>13, <1>14, <1>15, <1>16, <1>17, <1>18, <1>24, Zenon DEF Six
<1> QED
  BY <1>19 DEF y6, y5, y4, y3, y2

(* How a directive's width and its precision are spelled, and where its flags,
   width, precision and longs end, counted from its %. *)
WidthField(d)     == IF d.width = None THEN << >> ELSE Field(d.width)
PrecisionField(d) == IF d.precision = None THEN << >> ELSE << "." >> \o Field(d.precision)

FlagsEnd(d)     == 1 + Len(d.flags)
WidthEnd(d)     == FlagsEnd(d) + Len(WidthField(d))
PrecisionEnd(d) == WidthEnd(d) + Len(PrecisionField(d))
LongsEnd(d)     == PrecisionEnd(d) + d.longs

(* A directive is a %, its flags, width, precision and longs, and its last character. *)
SpelledSo(s, d) ==
    /\ IsSeq(s) /\ Len(s) = LongsEnd(d) + Len(d.conv)
    /\ Len(d.flags) \in Nat /\ Len(WidthField(d)) \in Nat /\ Len(PrecisionField(d)) \in Nat
    /\ d.longs \in 0..2 /\ Len(d.conv) \in 0..1
    /\ s[1] = "%"
    /\ \A i \in 1..Len(d.flags) : s[1 + i] = d.flags[i]
    /\ \A i \in 1..Len(WidthField(d)) : s[FlagsEnd(d) + i] = WidthField(d)[i]
    /\ \A i \in 1..Len(PrecisionField(d)) : s[WidthEnd(d) + i] = PrecisionField(d)[i]
    /\ \A i \in 1..d.longs : s[PrecisionEnd(d) + i] = "l"
    /\ \A i \in 1..Len(d.conv) : s[LongsEnd(d) + i] = d.conv[i]

(* A width or precision that is written is a sequence of characters, alone and behind a
   dot. *)
LEMMA FieldIs ==
    ASSUME NEW n \in {Star} \cup (Nat \ {0})
    PROVE  IsSeq(Field(n)) /\ Joined(<< "." >>, Field(n))
<1>1. IsSeq(Field(n))
  <2>1. CASE n = Star
    <3> DEFINE c == "*"
    <3>1. Field(n) = << c >>
      BY <2>1 DEF Field
    <3> HIDE DEF c
    <3>2. << c >> \in Seq({c})
      OBVIOUS
    <3> QED
      BY <3>1, <3>2 DEF IsSeq
  <2>2. CASE n # Star
    <3>1. n \in Nat \ {0} /\ Field(n) = Numeral(n, 10)
      BY <2>2 DEF Field
    <3>2. PICK v : Counts(v, n)
      BY <3>1, DecimalIs
    <3> QED
      BY <3>1, <3>2 DEF Counts, IsSeq
  <2> QED
    BY <2>1, <2>2
<1>2. IsSeq(<< "." >>)
  <2> DEFINE c == "."
  <2> HIDE DEF c
  <2>1. << c >> \in Seq({c})
    OBVIOUS
  <2>2. IsSeq(<< c >>)
    BY <2>1 DEF IsSeq
  <2> QED
    BY <2>2 DEF c
<1> QED
  BY <1>1, <1>2, JoinIs

(* A directive is spelled as a %, its flags, its width, its precision, its l's and its
   conversion. *)
LEMMA WrittenIs ==
    ASSUME NEW d, LegalDirective(d)
    PROVE  SpelledSo(Written(d), d)
<1> DEFINE c == "%"  l == "l"
           ls == Repeated(l, d.longs)
<1>1. /\ d.flags \in Seq({"-", "0", "#"}) /\ d.longs \in 0..2 /\ d.conv \in Seq(STRING) /\ Len(d.conv) <= 1
      /\ d.width \in {None} \cup {Star} \cup (Nat \ {0}) /\ d.precision \in {None} \cup {Star} \cup (Nat \ {0})
  BY DEF LegalDirective, DirectiveType
<1>2. Written(d) = << c >> \o d.flags \o WidthField(d) \o PrecisionField(d) \o ls \o d.conv
  BY DEF Written, WidthField, PrecisionField
<1> HIDE DEF c, l
<1>3. IsSeq(<< c >>) /\ Len(<< c >>) = 1 /\ << c >>[1] = c
  <2>1. << c >> \in Seq({c})
    OBVIOUS
  <2> QED
    BY <2>1 DEF IsSeq
<1>4. IsSeq(ls) /\ Len(ls) = d.longs /\ \A i \in 1..d.longs : ls[i] = l
  <2>1. ls = [i \in 1..d.longs |-> l] /\ d.longs \in Nat
    BY <1>1 DEF Repeated
  <2> HIDE DEF ls
  <2>2. ls \in Seq({l})
    BY <2>1
  <2> QED
    BY <2>1, <2>2 DEF IsSeq
<1> HIDE DEF ls
<1>5. IsSeq(d.flags) /\ IsSeq(d.conv) /\ Len(d.conv) \in 0..1
  <2>1. IsSeq(d.flags) /\ IsSeq(d.conv)
    BY <1>1 DEF IsSeq
  <2>2. PICK n \in Nat : n = Len(d.conv)
    BY <1>1, LenProperties
  <2>3. n <= 1
    BY <2>2 DEF LegalDirective
  <2>4. n \in 0..1
    BY <2>3
  <2> QED
    BY <2>1, <2>2, <2>4
<1>6. IsSeq(<< >>)
  <2>1. << >> \in Seq({})
    OBVIOUS
  <2> QED
    BY <2>1 DEF IsSeq
<1>7. IsSeq(WidthField(d)) /\ IsSeq(PrecisionField(d))
  <2>1. IsSeq(WidthField(d))
    BY <1>1, <1>6, FieldIs DEF WidthField
  <2>2. d.precision # None => IsSeq(<< "." >> \o Field(d.precision))
    BY <1>1, FieldIs DEF Joined
  <2>3. IsSeq(PrecisionField(d))
    BY <1>6, <2>2 DEF PrecisionField
  <2> QED
    BY <2>1, <2>3
<1>8. Six(Written(d), << c >>, d.flags, WidthField(d), PrecisionField(d), ls, d.conv)
  BY <1>2, <1>3, <1>4, <1>5, <1>7, SixIs
<1>9. Written(d)[1] = c
  <2>1. 1 \in 1..1
    OBVIOUS
  <2> QED
    BY <1>3, <1>8, <2>1 DEF Six
<1> QED
  BY <1>1, <1>3, <1>4, <1>5, <1>8, <1>9 DEF Six, SpelledSo, FlagsEnd, WidthEnd, PrecisionEnd, LongsEnd, c, l

(* What a directive prints, by its last character. *)
Unwrapped(d) == Wrap(d.number, Size(d.longs))
Rewrapped(d) == WrapSigned(d.number, Size(d.longs))

(* The text of a directive, conversion by conversion. *)
LEMMA TextIsBy ==
    ASSUME NEW d
    PROVE  /\ Conversion(d) = "c" => DirectiveText(d) = d.text
           /\ Conversion(d) = "s" => DirectiveText(d) = StringText(d)
           /\ Conversion(d) = "e" => DirectiveText(d) = ErrorText(d.number)
           /\ Conversion(d) = "d" /\ Rewrapped(d) < 0
                => DirectiveText(d) = << "-" >> \o Padded(d, Numeral(-Rewrapped(d), 10))
           /\ Conversion(d) \in {"d", "u", "o", "x"} /\ ~(Conversion(d) = "d" /\ Rewrapped(d) < 0)
                => DirectiveText(d) = Padded(d, Numeral(Unwrapped(d), Base(Conversion(d))))
           /\ Conversion(d) = "p" => DirectiveText(d) = << "0", "x" >> \o Padded(d, Numeral(Wrap(d.number, Word), 16))
           /\ Conversion(d) = "%" => DirectiveText(d) = << "%" >>
           /\ Conversion(d) \notin {"c", "s", "e", "d", "p", "u", "o", "x", "%"} => DirectiveText(d) = Written(d)
<1>1. Conversion(d) = "c" => DirectiveText(d) = d.text
  BY Zenon DEF DirectiveText
<1>2. Conversion(d) = "s" => DirectiveText(d) = StringText(d)
  BY Zenon DEF DirectiveText
<1>3. Conversion(d) = "e" => DirectiveText(d) = ErrorText(d.number)
  BY Zenon DEF DirectiveText
<1>4. Conversion(d) = "d" /\ Rewrapped(d) < 0
        => DirectiveText(d) = << "-" >> \o Padded(d, Numeral(-Rewrapped(d), 10))
  BY Zenon DEF DirectiveText, Rewrapped
<1>5. Conversion(d) = "d" /\ ~(Rewrapped(d) < 0)
        => DirectiveText(d) = Padded(d, Numeral(Unwrapped(d), Base(Conversion(d))))
  BY Zenon DEF DirectiveText, Rewrapped, Unwrapped
<1>6. Conversion(d) \in {"u", "o", "x"}
        => DirectiveText(d) = Padded(d, Numeral(Unwrapped(d), Base(Conversion(d))))
  BY Zenon DEF DirectiveText, Unwrapped
<1>7. Conversion(d) = "p" => DirectiveText(d) = << "0", "x" >> \o Padded(d, Numeral(Wrap(d.number, Word), 16))
  BY Zenon DEF DirectiveText
<1>8. Conversion(d) = "%" => DirectiveText(d) = << "%" >>
  BY Zenon DEF DirectiveText
<1>9. Conversion(d) \notin {"c", "s", "e", "d", "p", "u", "o", "x", "%"} => DirectiveText(d) = Written(d)
  BY Zenon DEF DirectiveText
<1> QED
  BY <1>1, <1>2, <1>3, <1>4, <1>5, <1>6, <1>7, <1>8, <1>9, Zenon

(* A number below a modulus is its own rest. *)
LEMMA SmallRest == ASSUME NEW w \in Nat, NEW x \in 0..(w - 1) PROVE (x % w) = x
  OBVIOUS

(* One word and two: even, and a multiple of a word. *)
LEMMA SizeIs ==
    ASSUME NEW longs \in 0..2
    PROVE  \E half \in Nat, m \in Nat : /\ Size(longs) = 2 * half /\ Size(longs) \div 2 = half /\ half >= 1
                                        /\ Size(longs) = Word * m /\ Size(longs) <= Word * Word
                                        /\ Size(longs) \in Nat /\ Size(longs) >= 36
<1>1. PICK q \in Nat : Word = 4 * q /\ q >= 9
  <2>1. PICK w \in Nat : w = Word /\ w > 36 /\ (w % 4) = 0
    BY WordAssumption
  <2>2. w = 4 * (w \div 4) + (w % 4) /\ w \div 4 \in Nat
    OBVIOUS
  <2>3. PICK q \in Nat : q = w \div 4
    BY <2>2
  <2>4. w = 4 * q /\ q >= 9
    BY <2>1, <2>2, <2>3
  <2> QED
    BY <2>1, <2>4
<1>2. Word * Word >= Word * 36 /\ Word * Word \in Nat
  BY WordAssumption
<1>3. CASE longs = 2
  <2>1. Size(longs) = Word * Word
    BY <1>3 DEF Size
  <2>2. PICK p \in Nat : p = q * Word
    BY <1>1, WordAssumption
  <2>3. Word * Word = 4 * p
    <3>1. PICK w \in Nat : w = Word
      BY WordAssumption
    <3>2. w * w = (4 * q) * w
      BY <1>1, <3>1
    <3>3. (4 * q) * w = 4 * (q * w)
      OBVIOUS
    <3> QED
      BY <2>2, <3>1, <3>2, <3>3
  <2>4. (4 * p) \div 2 = 2 * p /\ 2 * p \in Nat /\ 4 * p = 2 * (2 * p)
    OBVIOUS
  <2>5. PICK w \in Nat, z \in Nat : w = Word /\ w > 36 /\ z = w * w /\ z = Size(longs) /\ z >= 36 /\ z = 4 * p
    BY <1>2, <2>1, <2>3, WordAssumption
  <2>6. 2 * p >= 1
    BY <2>5
  <2>7. z = 2 * (2 * p) /\ z \div 2 = 2 * p
    BY <2>4, <2>5
  <2> QED
    BY <2>4, <2>5, <2>6, <2>7
<1>4. CASE longs # 2
  <2>1. Size(longs) = Word
    BY <1>4 DEF Size
  <2>2. (4 * q) \div 2 = 2 * q /\ 2 * q \in Nat /\ 4 * q = 2 * (2 * q) /\ 2 * q >= 1
    BY <1>1
  <2>3. Word = Word * 1 /\ Word <= Word * Word
    BY <1>2, WordAssumption
  <2> QED
    BY <1>1, <2>1, <2>2, <2>3, WordAssumption
<1> QED
  BY <1>3, <1>4

(* The signed number: its rest, less the modulus in the upper half. *)
LEMMA SignedRest ==
    ASSUME NEW w \in Nat, NEW half \in Nat, half >= 1, w = 2 * half, w \div 2 = half, NEW x \in Int
    PROVE  /\ (x % w) \in 0..(w - 1)
           /\ WrapSigned(x, w) = IF (x % w) < half THEN (x % w) ELSE (x % w) - w
<1> DEFINE r == x % w
<1>0. w > 0
  OBVIOUS
<1>1. PICK q \in Int : x = w * q + r
  <2>1. x = w * (x \div w) + r /\ x \div w \in Int
    BY <1>0
  <2> QED
    BY <2>1
<1>2. r \in 0..(w - 1)
  BY <1>0
<1> HIDE DEF r
<1>3. r \in Int /\ WrapSigned(x, w) = ((x + half) % w) - half
  BY <1>2 DEF WrapSigned
<1>4. CASE r < half
  <2>1. x + half = (r + half) + w * q
    BY <1>1, <1>2
  <2>2. ((x + half) % w) = ((r + half) % w)
    <3>1. PICK y \in Int, z \in Int : y = x + half /\ z = r + half
      BY <1>2
    <3>2. y = z + w * q
      BY <2>1, <3>1
    <3>3. (y % w) = (z % w)
      BY ONLY <1>0, <3>2, w \in Nat, y \in Int, z \in Int, q \in Int, SameRest, Zenon
    <3> QED
      BY <3>1, <3>3
  <2>3. r + half \in 0..(w - 1)
    BY <1>2, <1>4
  <2>4. ((r + half) % w) = r + half
    BY <2>3, SmallRest
  <2> QED
    BY <1>2, <1>3, <1>4, <2>2, <2>4 DEF r
<1>5. CASE ~(r < half)
  <2>1. x + half = (r - half) + w * (q + 1)
    <3>1. w * (q + 1) = w * q + w
      OBVIOUS
    <3> QED
      BY <1>1, <1>2, <3>1
  <2>2. ((x + half) % w) = ((r - half) % w)
    <3>1. PICK y \in Int, z \in Int, c \in Int : y = x + half /\ z = r - half /\ c = q + 1
      BY <1>2
    <3>2. y = z + w * c
      BY <2>1, <3>1
    <3>3. (y % w) = (z % w)
      BY ONLY <1>0, <3>2, w \in Nat, y \in Int, z \in Int, c \in Int, SameRest, Zenon
    <3> QED
      BY <3>1, <3>3
  <2>3. r - half \in 0..(w - 1)
    BY <1>2, <1>5
  <2>4. ((r - half) % w) = r - half
    BY <2>3, SmallRest
  <2> QED
    BY <1>2, <1>3, <1>5, <2>2, <2>4 DEF r
<1> QED
  BY <1>4, <1>5

(* The width that vprintfmt reads: a point makes a negative one zero. *)
Columns(d) == IF d.precision # None /\ Width(d) < 0 THEN 0 ELSE Width(d)

(* A directive's arguments for its width and precision. *)
LEMMA StarsAre ==
    ASSUME NEW d, LegalDirective(d)
    PROVE  /\ d.stars \in Seq(Int) /\ Len(d.stars) \in 0..2
           /\ Len(d.stars) = (IF d.width = Star THEN 1 ELSE 0) + (IF d.precision = Star THEN 1 ELSE 0)
           /\ \A i \in 1..Len(d.stars) : d.stars[i] \in Int
           /\ Width(d) \in Int /\ Precision(d) \in Int /\ Columns(d) \in Int
           /\ d.width \in Int /\ d.precision \in Int
<1>1. /\ d.stars \in Seq(Int) /\ d.width \in Int /\ d.precision \in Int
      /\ Len(d.stars) = (IF d.width = Star THEN 1 ELSE 0) + (IF d.precision = Star THEN 1 ELSE 0)
  BY DEF LegalDirective, DirectiveType
<1>2. PICK n \in Nat : n = Len(d.stars) /\ d.stars \in [1..n -> Int]
  BY <1>1, LenProperties
<1>3. n \in 0..2
  BY <1>1, <1>2
<1>4. Width(d) \in Int
  <2>1. CASE d.width = Star
    <3>1. 1 \in 1..n
      BY <1>1, <1>2, <2>1
    <3> QED
      BY <1>2, <2>1, <3>1 DEF Width
  <2>2. CASE d.width # Star
    BY <1>1, <2>2 DEF Width
  <2> QED
    BY <2>1, <2>2
<1>5. Precision(d) \in Int
  <2>1. CASE d.precision = Star
    <3>1. n \in 1..n
      BY <1>1, <1>2, <2>1
    <3>2. Precision(d) = d.stars[n]
      BY <1>2, <2>1 DEF Precision, Last
    <3> QED
      BY <1>2, <3>1, <3>2
  <2>2. CASE d.precision # Star
    BY <1>1, <2>2 DEF Precision
  <2> QED
    BY <2>1, <2>2
<1>6. Columns(d) \in Int
  BY <1>4 DEF Columns
<1> QED
  BY <1>1, <1>2, <1>3, <1>4, <1>5, <1>6

(* A negative width leaves no room for padding, as a zero does. *)
LEMMA SamePadding ==
    ASSUME NEW d, LegalDirective(d), NEW m \in Nat, NEW c
    PROVE  Repeated(c, Columns(d) - m) = Repeated(c, Width(d) - m)
<1>1. Width(d) \in Int
  BY StarsAre
<1>2. CASE d.precision # None /\ Width(d) < 0
  <2>1. Columns(d) = 0
    BY <1>2 DEF Columns
  <2>2. ~(0 - m > 0) /\ ~(Width(d) - m > 0)
    BY <1>1, <1>2
  <2> QED
    BY <2>1, <2>2 DEF Repeated
<1>3. CASE ~(d.precision # None /\ Width(d) < 0)
  <2>1. Columns(d) = Width(d)
    BY <1>3 DEF Columns
  <2> QED
    BY <2>1
<1> QED
  BY <1>2, <1>3

(* A repeated character is a sequence, also when it is repeated a negative number of
   times. *)
LEMMA RepeatedIs == ASSUME NEW c, NEW m \in Int PROVE IsSeq(Repeated(c, m))
<1>1. PICK w \in Nat : Repeated(c, m) = [k \in 1..w |-> c]
  BY PaddingIs
<1>2. [k \in 1..w |-> c] \in Seq({c})
  OBVIOUS
<1> QED
  BY <1>1, <1>2 DEF IsSeq

(* What printnum prints is a sequence. *)
LEMMA PrintnumIsSeq ==
    ASSUME NEW base \in 2..16, NEW n \in Nat, NEW columns \in Int, NEW c
    PROVE  IsSeq(printnum(n, base, columns, c))
<1>1. /\ printnum(n, base, columns, c) = Repeated(c, columns - Len(Numeral(n, base))) \o Numeral(n, base)
      /\ IsNumeral(Numeral(n, base), n, base)
  BY PrintnumPads
<1>2. Numeral(n, base) \in Seq(Figures)
  BY <1>1 DEF IsNumeral
<1>3. PICK m \in Nat : m = Len(Numeral(n, base))
  BY <1>2, LenProperties
<1>4. columns - m \in Int
  OBVIOUS
<1>5. IsSeq(Repeated(c, columns - m)) /\ IsSeq(Numeral(n, base))
  BY <1>2, <1>4, RepeatedIs DEF IsSeq
<1> QED
  BY <1>1, <1>3, <1>5, JoinIs DEF Joined

(* A numeral padded on the left is what printnum prints. *)
LEMMA PaddedIs ==
    ASSUME NEW d, LegalDirective(d), Pad(d) # "-", NEW base \in 2..16, NEW n \in Nat
    PROVE  /\ Padded(d, Numeral(n, base)) = printnum(n, base, Columns(d), Pad(d))
           /\ IsSeq(Padded(d, Numeral(n, base)))
<1>1. Columns(d) \in Int /\ Width(d) \in Int
  BY StarsAre
<1>2. /\ printnum(n, base, Columns(d), Pad(d)) = Repeated(Pad(d), Columns(d) - Len(Numeral(n, base))) \o Numeral(n, base)
      /\ IsNumeral(Numeral(n, base), n, base)
  BY <1>1, PrintnumPads
<1>3. Numeral(n, base) \in Seq(Figures)
  BY <1>2 DEF IsNumeral
<1>4. PICK m \in Nat : m = Len(Numeral(n, base))
  BY <1>3, LenProperties
<1>5. Repeated(Pad(d), Columns(d) - m) = Repeated(Pad(d), Width(d) - m)
  BY SamePadding
<1>6. IsSeq(Repeated(Pad(d), Width(d) - m)) /\ IsSeq(Numeral(n, base))
  <2>1. Width(d) - m \in Int
    BY <1>1
  <2> QED
    BY <1>3, <2>1, RepeatedIs DEF IsSeq
<1>7. IsSeq(Repeated(Pad(d), Width(d) - m) \o Numeral(n, base))
  BY <1>6, JoinIs DEF Joined
<1>8. Padded(d, Numeral(n, base)) = Repeated(Pad(d), Width(d) - Len(Numeral(n, base))) \o Numeral(n, base)
  BY Zenon DEF Padded
<1> QED
  BY <1>2, <1>4, <1>5, <1>7, <1>8

(* A directive's number, as its conversion takes it. *)
LEMMA NumberIs ==
    ASSUME NEW d, LegalDirective(d)
    PROVE  /\ d.number \in Int /\ d.longs \in 0..2
           /\ Unwrapped(d) \in Nat /\ Unwrapped(d) < Word * Word
           /\ Rewrapped(d) \in Int
           /\ Rewrapped(d) < 0 => -Rewrapped(d) \in 0..((Word * Word) - 1)
           /\ ~(Rewrapped(d) < 0) => Rewrapped(d) = Unwrapped(d)
           /\ Wrap(d.number, Word) \in Nat
           /\ \E m \in Int : Rewrapped(d) = Unwrapped(d) + Word * m
           /\ \E m \in Int : d.number = Unwrapped(d) + Word * m
<1>1. d.longs \in 0..2
  BY DEF LegalDirective, DirectiveType
<1>2. PICK half \in Nat, k \in Nat :
          /\ Size(d.longs) = 2 * half /\ Size(d.longs) \div 2 = half /\ half >= 1
          /\ Size(d.longs) = Word * k /\ Size(d.longs) <= Word * Word
          /\ Size(d.longs) \in Nat /\ Size(d.longs) >= 36
  BY <1>1, SizeIs
<1>3. d.number \in Int
  <2>1. d.number \in Signed(Size(d.longs)) \cup Unsigned(Size(d.longs))
    BY DEF LegalDirective
  <2> QED
    BY <1>2, <2>1 DEF Signed, Unsigned
<1>4. PICK s \in Nat, x \in Int, w \in Nat : s = Size(d.longs) /\ x = d.number /\ w = Word
  BY <1>2, <1>3, WordAssumption
<1>5. (x % s) \in 0..(s - 1) /\ WrapSigned(x, s) = IF (x % s) < half THEN (x % s) ELSE (x % s) - s
  <2>1. half >= 1 /\ s = 2 * half /\ s \div 2 = half
    BY <1>2, <1>4
  <2> QED
    BY ONLY <2>1, s \in Nat, half \in Nat, x \in Int, SignedRest, Zenon
<1>6. PICK r \in 0..(s - 1), y \in Int : r = Unwrapped(d) /\ y = Rewrapped(d) /\ y = IF r < half THEN r ELSE r - s
  <2>1. Unwrapped(d) = (x % s) /\ Rewrapped(d) = WrapSigned(x, s)
    BY <1>4 DEF Unwrapped, Rewrapped, Wrap
  <2>2. (IF (x % s) < half THEN (x % s) ELSE (x % s) - s) \in Int
    BY <1>5
  <2> QED
    BY <1>5, <2>1, <2>2
<1>7. PICK ww \in Nat : ww = Word * Word
  BY WordAssumption
<1>8. s <= ww /\ s = 2 * half /\ s = w * k /\ half >= 1
  BY <1>2, <1>4, <1>7
<1>9. r \in Nat /\ r < ww /\ (y < 0 => -y \in 0..(ww - 1)) /\ (~(y < 0) => y = r)
  BY <1>6, <1>8
<1>10. Wrap(d.number, Word) \in Nat
  <2>1. w > 0
    BY <1>4, WordAssumption
  <2>2. (x % w) \in Nat
    BY <2>1
  <2> QED
    BY <1>4, <2>2 DEF Wrap
<1>11. \E m \in Int : y = r + w * m
  <2>1. CASE r < half
    <3>1. y = r + w * 0
      BY <1>6, <2>1
    <3> QED
      BY <3>1
  <2>2. CASE ~(r < half)
    <3>1. w * (-k) = -(w * k)
      OBVIOUS
    <3>2. y = r + w * (-k)
      BY <1>6, <1>8, <2>2, <3>1
    <3> QED
      BY <3>2
  <2> QED
    BY <2>1, <2>2
<1>12. \E m \in Int : x = r + w * m
  <2>1. PICK q \in Int : q = x \div s
    BY <1>2, <1>4
  <2>2. x = s * q + r
    <3>1. s > 0
      BY <1>2, <1>4
    <3>2. x = s * (x \div s) + (x % s)
      BY <3>1
    <3> QED
      BY <1>4, <1>6, <2>1, <3>2 DEF Unwrapped, Wrap
  <2>3. s * q = w * (k * q)
    <3>1. s * q = (w * k) * q
      BY <1>8
    <3> QED
      BY <3>1
  <2>4. x = r + w * (k * q) /\ k * q \in Int
    BY <2>2, <2>3
  <2> QED
    BY <2>4
<1> QED
  BY <1>1, <1>3, <1>4, <1>6, <1>7, <1>9, <1>10, <1>11, <1>12

(* What the conversions of numbers print. *)
SignedPrinted(num, columns, fill) ==
    (IF num < 0 THEN << "-" >> ELSE << >>)
        \o printnum(Wrap(IF num < 0 THEN -num ELSE num, Word * Word), 10, columns, fill)

(* The marks that conversions print are sequences. *)
LEMMA MarksAre ==
    /\ IsSeq(<< "-" >>) /\ IsSeq(<< "0", "x" >>) /\ IsSeq(<< "%" >>) /\ IsSeq(<< >>)
    /\ Len(<< "-" >>) = 1 /\ Len(<< "0", "x" >>) = 2 /\ Len(<< "%" >>) = 1 /\ Len(<< >>) = 0
    /\ << "%" >>[1] = "%"
    /\ \A s : IsSeq(s) => << >> \o s = s
<1>1. ASSUME NEW c PROVE IsSeq(<< c >>) /\ Len(<< c >>) = 1 /\ << c >>[1] = c
  <2>1. << c >> \in Seq({c})
    OBVIOUS
  <2> QED
    BY <2>1 DEF IsSeq
<1>2. ASSUME NEW c, NEW e PROVE IsSeq(<< c, e >>) /\ Len(<< c, e >>) = 2
  <2>1. << c, e >> \in Seq({c, e})
    OBVIOUS
  <2>2. IsSeq(<< c, e >>)
    BY <2>1, Zenon DEF IsSeq
  <2> QED
    BY <2>2
<1>3. IsSeq(<< >>) /\ Len(<< >>) = 0
  <2>1. << >> \in Seq({})
    OBVIOUS
  <2> QED
    BY <2>1 DEF IsSeq
<1>4. ASSUME NEW s, IsSeq(s) PROVE << >> \o s = s
  <2>1. PICK S : s \in Seq(S)
    BY <1>4 DEF IsSeq
  <2> QED
    BY <2>1, ConcatEmptySeq
<1> QED
  BY <1>1, <1>2, <1>3, <1>4, Zenon

(* What the code prints for a directive: numbers with their padding on the left. *)
DirectivePrinted(d) ==
    CASE Conversion(d) = "d" -> SignedPrinted(Rewrapped(d), Columns(d), Pad(d))
      [] Conversion(d) \in {"u", "o", "x"} -> printnum(Unwrapped(d), Base(Conversion(d)), Columns(d), Pad(d))
      [] Conversion(d) = "p" -> << "0", "x" >> \o printnum(Wrap(d.number, Word), 16, Columns(d), Pad(d))
      [] OTHER -> DirectiveText(d)

(* It is this, conversion by conversion. *)
LEMMA PrintedBy ==
    ASSUME NEW d
    PROVE  /\ Conversion(d) = "d" => DirectivePrinted(d) = SignedPrinted(Rewrapped(d), Columns(d), Pad(d))
           /\ Conversion(d) \in {"u", "o", "x"}
                => DirectivePrinted(d) = printnum(Unwrapped(d), Base(Conversion(d)), Columns(d), Pad(d))
           /\ Conversion(d) = "p"
                => DirectivePrinted(d) = << "0", "x" >> \o printnum(Wrap(d.number, Word), 16, Columns(d), Pad(d))
           /\ Conversion(d) \notin Numeric => DirectivePrinted(d) = DirectiveText(d)
<1>1. Conversion(d) = "d" => DirectivePrinted(d) = SignedPrinted(Rewrapped(d), Columns(d), Pad(d))
  BY Zenon DEF DirectivePrinted
<1>2. Conversion(d) \in {"u", "o", "x"}
        => DirectivePrinted(d) = printnum(Unwrapped(d), Base(Conversion(d)), Columns(d), Pad(d))
  BY Zenon DEF DirectivePrinted
<1>3. Conversion(d) = "p"
        => DirectivePrinted(d) = << "0", "x" >> \o printnum(Wrap(d.number, Word), 16, Columns(d), Pad(d))
  BY Zenon DEF DirectivePrinted
<1>4. Conversion(d) \notin Numeric => DirectivePrinted(d) = DirectiveText(d)
  BY Zenon DEF DirectivePrinted, Numeric
<1> QED
  BY <1>1, <1>2, <1>3, <1>4, Zenon

(* %d, %u, %o, %x and %p stand for what printnum prints, unless their last padding
   flag is -: the number as wide as its l's make it, in the conversion's base, in
   the directive's columns and padding. *)
THEOREM NumbersPrinted ==
    ASSUME NEW d, LegalDirective(d), Conversion(d) \in Numeric, Pad(d) # "-"
    PROVE  /\ IsSeq(DirectiveText(d))
           /\ Conversion(d) = "d" => DirectiveText(d) = SignedPrinted(Rewrapped(d), Columns(d), Pad(d))
           /\ Conversion(d) \in {"u", "o", "x"}
                => DirectiveText(d) = printnum(Unwrapped(d), Base(Conversion(d)), Columns(d), Pad(d))
           /\ Conversion(d) = "p"
                => DirectiveText(d) = << "0", "x" >> \o printnum(Wrap(d.number, Word), 16, Columns(d), Pad(d))
<1>1. /\ Unwrapped(d) \in Nat /\ Unwrapped(d) < Word * Word /\ Rewrapped(d) \in Int
      /\ (Rewrapped(d) < 0 => -Rewrapped(d) \in 0..((Word * Word) - 1))
      /\ (~(Rewrapped(d) < 0) => Rewrapped(d) = Unwrapped(d))
      /\ Wrap(d.number, Word) \in Nat
  BY NumberIs
<1>2. PICK ww \in Nat, u \in Nat, y \in Int : ww = Word * Word /\ u = Unwrapped(d) /\ y = Rewrapped(d)
  BY <1>1, WordAssumption
<1>3. 10 \in 2..16 /\ 8 \in 2..16 /\ 16 \in 2..16
  OBVIOUS
<1>4. CASE Conversion(d) = "d" /\ y < 0
  <2>1. DirectiveText(d) = << "-" >> \o Padded(d, Numeral(-y, 10))
    BY <1>2, <1>4, TextIsBy
  <2>2. -y \in Nat /\ -y \in 0..(ww - 1)
    BY <1>1, <1>2, <1>4
  <2>3. Wrap(-y, ww) = -y
    BY <2>2, SmallRest DEF Wrap
  <2>4. Padded(d, Numeral(-y, 10)) = printnum(-y, 10, Columns(d), Pad(d)) /\ IsSeq(Padded(d, Numeral(-y, 10)))
    BY <1>3, <2>2, PaddedIs
  <2>5. SignedPrinted(y, Columns(d), Pad(d)) = << "-" >> \o printnum(-y, 10, Columns(d), Pad(d))
    BY <1>2, <1>4, <2>3 DEF SignedPrinted
  <2>6. IsSeq(<< "-" >> \o Padded(d, Numeral(-y, 10)))
    BY <2>4, JoinIs, MarksAre DEF Joined
  <2> QED
    BY <1>2, <1>4, <2>1, <2>4, <2>5, <2>6
<1>5. CASE Conversion(d) = "d" /\ ~(y < 0)
  <2>1. DirectiveText(d) = Padded(d, Numeral(u, 10))
    <3>1. Base("d") = 10
      BY DEF Base
    <3> QED
      BY <1>2, <1>5, <3>1, TextIsBy
  <2>2. y = u /\ u \in 0..(ww - 1)
    BY <1>1, <1>2, <1>5
  <2>3. Wrap(u, ww) = u
    BY <2>2, SmallRest DEF Wrap
  <2>4. Padded(d, Numeral(u, 10)) = printnum(u, 10, Columns(d), Pad(d)) /\ IsSeq(Padded(d, Numeral(u, 10)))
    BY <1>3, PaddedIs
  <2>5. SignedPrinted(y, Columns(d), Pad(d)) = << >> \o printnum(u, 10, Columns(d), Pad(d))
    BY <1>2, <1>5, <2>2, <2>3 DEF SignedPrinted
  <2>6. SignedPrinted(y, Columns(d), Pad(d)) = printnum(u, 10, Columns(d), Pad(d))
    BY <2>4, <2>5, MarksAre
  <2> QED
    BY <1>2, <1>5, <2>1, <2>4, <2>6
<1>6. CASE Conversion(d) \in {"u", "o", "x"}
  <2>1. Base(Conversion(d)) \in 2..16
    BY <1>3 DEF Base
  <2>2. DirectiveText(d) = Padded(d, Numeral(u, Base(Conversion(d))))
    BY <1>2, <1>6, TextIsBy
  <2> QED
    BY <1>2, <1>6, <2>1, <2>2, PaddedIs
<1>7. CASE Conversion(d) = "p"
  <2>1. PICK n \in Nat : n = Wrap(d.number, Word)
    BY <1>1
  <2>2. DirectiveText(d) = << "0", "x" >> \o Padded(d, Numeral(n, 16))
    BY <1>7, <2>1, TextIsBy
  <2>3. Padded(d, Numeral(n, 16)) = printnum(n, 16, Columns(d), Pad(d)) /\ IsSeq(Padded(d, Numeral(n, 16)))
    BY <1>3, PaddedIs
  <2>4. IsSeq(<< "0", "x" >> \o Padded(d, Numeral(n, 16)))
    BY <2>3, JoinIs, MarksAre DEF Joined
  <2> QED
    BY <1>7, <2>1, <2>2, <2>3, <2>4
<1> QED
  BY <1>4, <1>5, <1>6, <1>7 DEF Numeric

(* What %e prints: the nested printfmt has no field to fill. *)
ErrorMark == << "error " >>
ErrorPrinted(err, index) ==
    IF err > MAXERROR \/ index = 0 THEN ErrorMark \o SignedPrinted(err, -1, " ")
    ELSE << error_string[index] >>

(* The number in an error text is what printnum prints of it. *)
LEMMA IntegerIs ==
    ASSUME NEW n \in Int, (IF n < 0 THEN -n ELSE n) < Word * Word
    PROVE  IntegerText(n) = SignedPrinted(n, -1, " ") /\ IsSeq(ErrorMark \o IntegerText(n))
<1> DEFINE k == IF n < 0 THEN -n ELSE n
           sign == IF n < 0 THEN << "-" >> ELSE << >>
<1>1. PICK ww \in Nat : ww = Word * Word
  BY WordAssumption
<1>2. k \in Nat /\ k \in 0..(ww - 1)
  BY <1>1
<1>3. IntegerText(n) = sign \o Numeral(k, 10)
  BY DEF IntegerText
<1>4. SignedPrinted(n, -1, " ") = sign \o printnum(Wrap(k, ww), 10, -1, " ")
  BY <1>1 DEF SignedPrinted
<1>5. IsSeq(sign)
  BY MarksAre
<1> HIDE DEF sign, k
<1>6. Wrap(k, ww) = k
  BY <1>2, SmallRest DEF Wrap
<1> DEFINE fill == " "
<1> HIDE DEF fill
<1>7. 10 \in 2..16 /\ -1 \in Int
  OBVIOUS
<1>8. /\ printnum(k, 10, -1, fill) = Repeated(fill, -1 - Len(Numeral(k, 10))) \o Numeral(k, 10)
      /\ IsNumeral(Numeral(k, 10), k, 10)
  BY <1>2, <1>7, PrintnumPads
<1>9. Numeral(k, 10) \in Seq(Figures) /\ IsSeq(Numeral(k, 10))
  BY <1>8 DEF IsNumeral, IsSeq
<1>10. PICK m \in Nat : m = Len(Numeral(k, 10))
  BY <1>9, LenProperties
<1>11. Repeated(fill, -1 - m) = << >>
  BY DEF Repeated
<1>12. printnum(k, 10, -1, fill) = Numeral(k, 10)
  BY <1>8, <1>9, <1>10, <1>11, MarksAre
<1>13. IsSeq(IntegerText(n))
  BY <1>3, <1>5, <1>9, JoinIs DEF Joined
<1>14. IsSeq(ErrorMark)
  <2>1. PICK c : << c >> = ErrorMark
    BY Zenon DEF ErrorMark
  <2>2. << c >> \in Seq({c})
    OBVIOUS
  <2>3. IsSeq(<< c >>)
    BY <2>2 DEF IsSeq
  <2> QED
    BY <2>1, <2>3
<1>15. IsSeq(ErrorMark \o IntegerText(n))
  BY <1>13, <1>14, JoinIs DEF Joined
<1> QED
  <2>1. IntegerText(n) = SignedPrinted(n, -1, " ")
    BY <1>3, <1>4, <1>6, <1>12, Zenon DEF fill
  <2> QED
    BY <1>15, <2>1, Zenon

(* %e stands for what vprintfmt prints: the error's string where the array of strings
   has one, and "error " and the number else.  The index is the wrapped offset of the
   entry. *)
THEOREM ErrorsPrinted ==
    ASSUME NEW n \in Signed(Word), NEW err, err = (IF n < 0 THEN WrapSigned(-n, Word) ELSE n)
    PROVE  ErrorText(n) = ErrorPrinted(err, ((err * 4) % Word) \div 4) /\ IsSeq(ErrorText(n))
<1> DEFINE big == IF n < 0 THEN -n ELSE n
<1>1. PICK q \in Nat : Word = 4 * q /\ q >= 10
  <2>1. PICK w \in Nat : w = Word /\ w > 36 /\ (w % 4) = 0
    BY WordAssumption
  <2>2. w = 4 * (w \div 4) + (w % 4) /\ w \div 4 \in Nat
    OBVIOUS
  <2>3. PICK q \in Nat : q = w \div 4
    BY <2>2
  <2>4. w = 4 * q /\ q >= 10
    BY <2>1, <2>2, <2>3
  <2> QED
    BY <2>1, <2>4
<1>2. Word \div 2 = 2 * q /\ n \in Int /\ n >= -(2 * q) /\ n < 2 * q
  <2>1. (4 * q) \div 2 = 2 * q
    OBVIOUS
  <2> QED
    BY <1>1, <2>1 DEF Signed
<1>3. big \in 0..(2 * q)
  BY <1>2
<1>4. ErrorText(n) = IF big \in 1..6 THEN << error_string[big] >>
                     ELSE ErrorMark \o IntegerText(WrapSigned(big, Word))
  BY Zenon DEF ErrorText, MAXERROR, ErrorMark
<1> HIDE DEF big
<1>5. WrapSigned(big, Word) = IF big < 2 * q THEN big ELSE big - 4 * q
  <2>1. PICK w \in Nat, h \in Nat : w = Word /\ h = 2 * q /\ w = 2 * h /\ h >= 1 /\ w \div 2 = h
    BY <1>1, <1>2
  <2>2. big \in Int /\ big \in 0..(w - 1)
    BY <1>1, <1>3, <2>1
  <2>3. (big % w) = big
    BY <2>2, SmallRest
  <2>4. WrapSigned(big, w) = IF (big % w) < h THEN (big % w) ELSE (big % w) - w
    BY ONLY <2>1, <2>2, w \in Nat, h \in Nat, SignedRest, Zenon
  <2> QED
    BY <1>1, <2>1, <2>3, <2>4
<1>6. PICK e \in Int : e = err /\ e = IF big < 2 * q THEN big ELSE big - 4 * q
  <2>1. CASE n < 0
    <3>1. big = -n
      BY <2>1 DEF big
    <3>2. (IF big < 2 * q THEN big ELSE big - 4 * q) \in Int
      BY <1>3
    <3> QED
      BY <1>5, <2>1, <3>1, <3>2
  <2>2. CASE ~(n < 0)
    <3>1. big = n
      BY <2>2 DEF big
    <3> QED
      BY <1>2, <2>2, <3>1
  <2> QED
    BY <2>1, <2>2
<1>7. WrapSigned(big, Word) = e
  BY <1>5, <1>6
<1> DEFINE index == ((e * 4) % Word) \div 4
<1>8. CASE big \in 1..6
  <2>1. e = big /\ ~(e > MAXERROR) /\ big # 0
    BY <1>1, <1>6, <1>8 DEF MAXERROR
  <2>2. index = big
    <3>1. PICK x \in Nat : x = e * 4 /\ x = 4 * big /\ x < 4 * q
      BY <1>1, <1>8, <2>1
    <3>2. (x % (4 * q)) = x
      <4>1. 4 * q \in Nat /\ x \in 0..((4 * q) - 1)
        BY <3>1
      <4> QED
        BY <4>1, SmallRest
    <3>3. x \div 4 = big
      BY <1>8, <3>1
    <3> QED
      BY <1>1, <3>1, <3>2, <3>3
  <2>3. ErrorPrinted(e, index) = << error_string[big] >>
    <3> HIDE DEF index
    <3> QED
      BY <1>8, <2>1, <2>2, Zenon DEF ErrorPrinted
  <2>4. ErrorText(n) = << error_string[big] >>
    BY <1>4, <1>8
  <2>5. IsSeq(<< error_string[big] >>)
    <3> DEFINE c == error_string[big]
    <3> HIDE DEF c
    <3>1. << c >> \in Seq({c})
      OBVIOUS
    <3>2. IsSeq(<< c >>)
      BY <3>1 DEF IsSeq
    <3> QED
      BY <3>2 DEF c
  <2> QED
    BY <1>6, <2>3, <2>4, <2>5
<1>9. CASE big \notin 1..6
  <2>1. e > MAXERROR \/ index = 0
    <3>1. CASE big = 0
      <4>1. e = 0
        BY <1>1, <1>6, <3>1
      <4>2. (0 % (4 * q)) = 0
        <5>1. 4 * q \in Nat /\ 0 \in 0..((4 * q) - 1)
          BY <1>1
        <5> QED
          BY <5>1, SmallRest
      <4> QED
        BY <1>1, <4>1, <4>2
    <3>2. CASE big > 6 /\ big < 2 * q
      BY <1>6, <3>2 DEF MAXERROR
    <3>3. CASE big = 2 * q
      <4>1. e = -(2 * q)
        BY <1>6, <3>3
      <4>2. PICK w \in Nat, y \in Int : w = 4 * q /\ y = e * 4 /\ w > 0 /\ y = 0 + w * (-2)
        BY <1>1, <4>1
      <4>3. (y % w) = (0 % w)
        <5>1. PICK z \in Int, c \in Int : z = 0 /\ c = -2
          OBVIOUS
        <5>2. y = z + w * c /\ w > 0
          BY <4>2, <5>1
        <5>3. (y % w) = (z % w)
          BY ONLY <5>2, w \in Nat, y \in Int, z \in Int, c \in Int, SameRest, Zenon
        <5> QED
          BY <5>1, <5>3
      <4>4. (0 % w) = 0
        <5>1. 0 \in 0..(w - 1)
          BY <4>2
        <5> QED
          BY <5>1, SmallRest
      <4> QED
        BY <1>1, <4>2, <4>3, <4>4
    <3> QED
      BY <1>3, <1>9, <3>1, <3>2, <3>3
  <2>2. ErrorPrinted(e, index) = ErrorMark \o SignedPrinted(e, -1, " ")
    <3> HIDE DEF index
    <3> QED
      BY <2>1, Zenon DEF ErrorPrinted
  <2>3. ErrorText(n) = ErrorMark \o IntegerText(e)
    BY <1>4, <1>7, <1>9
  <2>4. (IF e < 0 THEN -e ELSE e) < Word * Word
    <3>1. PICK x \in Int : x = (IF e < 0 THEN -e ELSE e) /\ x <= 2 * q
      BY <1>3, <1>6
    <3>2. 2 * q < Word * Word
      <4>1. (4 * q) * (4 * q) >= 40 * (4 * q)
        BY <1>1
      <4> QED
        BY <1>1, <4>1
    <3>3. 2 * q \in Int /\ Word * Word \in Int
      BY WordAssumption
    <3> QED
      BY <3>1, <3>2, <3>3
  <2>5. IntegerText(e) = SignedPrinted(e, -1, " ") /\ IsSeq(ErrorMark \o IntegerText(e))
    BY <2>4, IntegerIs, Zenon
  <2>6. ErrorText(n) = ErrorPrinted(e, index) /\ IsSeq(ErrorText(n))
    <3> HIDE DEF index
    <3> QED
      BY <2>2, <2>3, <2>5, Zenon
  <2> QED
    BY <1>6, <2>6
<1> QED
  BY <1>8, <1>9

(* strnlen, and the loop of %s that prints. *)
Strnlen(p, exact) ==
    LET strnlen[i \in DOMAIN p] == IF i - 1 = exact \/ p[i] = Nul THEN i - 1 ELSE strnlen[i + 1] IN strnlen

(* strnlen counts up to the precision or up to the null character, whichever is first. *)
LEMMA StrnlenIs ==
    ASSUME NEW p, NEW n \in Nat, DOMAIN p = 1..n, NEW exact \in Int, NEW kept \in 0..(n - 1), p[n] = Nul,
           kept = exact \/ p[kept + 1] = Nul, \A i \in 1..kept : i - 1 # exact /\ p[i] # Nul
    PROVE  Strnlen(p, exact)[1] = kept
<1> DEFINE E == {i \in 1..n : i - 1 = exact \/ p[i] = Nul}
           a == [i \in 1..n |-> i - 1]
           g == [i \in 1..n |-> [x \in Int |-> x]]
           F(f) == [i \in DOMAIN p |-> IF i - 1 = exact \/ p[i] = Nul THEN i - 1 ELSE f[i + 1]]
           c == CHOOSE f : f = F(f)
<1>1. n >= 1 /\ n \in E
  OBVIOUS
<1>2. PICK f \in [1..n -> Int] : Loops(f, n, E, a, g)
  <2>1. a \in [1..n -> Int] /\ g \in [1..n -> [Int -> Int]]
    OBVIOUS
  <2> HIDE DEF E, a, g
  <2> QED
    BY <1>1, <2>1, LoopExists
<1>3. f = F(f)
  <2>1. ASSUME NEW i \in 1..n PROVE f[i] = IF i - 1 = exact \/ p[i] = Nul THEN i - 1 ELSE f[i + 1]
    <3>1. i \notin E => i + 1 \in 1..n
      BY <1>1
    <3> QED
      BY <1>2, <3>1 DEF Loops
  <2> QED
    BY <2>1
<1>4. c = F(c)
  <2> HIDE DEF F
  <2> QED
    BY <1>3
<1>5. Strnlen(p, exact) = c
  BY DEF Strnlen
<1> HIDE DEF c
<1>6. \A i \in 1..n : c[i] = IF i - 1 = exact \/ p[i] = Nul THEN i - 1 ELSE c[i + 1]
  BY <1>4
<1> DEFINE T == {m \in Nat : m \in 0..kept => c[(kept + 1) - m] = kept}
<1>7. ASSUME NEW m \in Nat, \A j \in 0..(m - 1) : j \in T PROVE m \in T
  <2> SUFFICES ASSUME m \in 0..kept PROVE c[(kept + 1) - m] = kept
    OBVIOUS
  <2>1. CASE m = 0
    <3>1. kept + 1 \in 1..n /\ (kept + 1) - 1 = kept /\ (kept + 1) - m = kept + 1
      BY <2>1
    <3>2. c[kept + 1] = IF kept = exact \/ p[kept + 1] = Nul THEN kept ELSE c[(kept + 1) + 1]
      BY <1>6, <3>1
    <3> QED
      BY <3>1, <3>2
  <2>2. CASE m > 0
    <3>1. PICK i \in 1..kept : i = (kept + 1) - m /\ i + 1 = (kept + 1) - (m - 1) /\ i \in 1..n
      BY <2>2
    <3>2. m - 1 \in 0..(m - 1) /\ m - 1 \in 0..kept
      BY <2>2
    <3>3. c[i + 1] = kept
      BY <1>7, <3>1, <3>2
    <3>4. c[i] = c[i + 1]
      BY <1>6, <3>1
    <3> QED
      BY <3>1, <3>3, <3>4
  <2> QED
    BY <2>1, <2>2
<1>8. kept \in T
  <2> HIDE DEF T
  <2>1. \A m \in Nat : m \in T
    BY <1>7, InductionOver
  <2> QED
    BY <2>1
<1>9. (kept + 1) - kept = 1 /\ kept \in 0..kept
  OBVIOUS
<1> QED
  BY <1>5, <1>8, <1>9

(* An element in front of a sequence. *)
LEMMA PrependIs ==
    ASSUME NEW m \in Nat, NEW y, y = [j \in 1..(m + 1) |-> y[j]]
    PROVE  << y[1] >> \o [j \in 1..m |-> y[j + 1]] = y
<1> DEFINE c == y[1]
           x == [j \in 1..m |-> y[j + 1]]
           s == << c >> \o x
<1>1. IsSeq(<< c >>) /\ Len(<< c >>) = 1 /\ << c >>[1] = c
  <2> HIDE DEF c
  <2>1. << c >> \in Seq({c})
    OBVIOUS
  <2> QED
    BY <2>1 DEF IsSeq
<1>2. IsSeq(x) /\ Len(x) = m /\ \A j \in 1..m : x[j] = y[j + 1]
  <2> DEFINE C == {y[j + 1] : j \in 1..m}
  <2>0. x \in [1..m -> C]
    OBVIOUS
  <2> HIDE DEF C
  <2>1. x \in Seq(C) /\ Len(x) = m
    <3> HIDE DEF x
    <3> QED
      BY <2>0
  <2> HIDE DEF x
  <2>2. IsSeq(x)
    BY <2>1 DEF IsSeq
  <2> QED
    BY <2>1, <2>2 DEF x
<1> HIDE DEF c, x
<1>3. Joined(<< c >>, x)
  BY <1>1, <1>2, JoinIs
<1>4. IsSeq(s) /\ Len(s) = m + 1 /\ s[1] = c /\ \A j \in 1..m : s[j + 1] = y[j + 1]
  <2>1. \A j \in 1..m : j + 1 = 1 + j
    OBVIOUS
  <2> HIDE DEF s
  <2>2. /\ IsSeq(s) /\ Len(s) = 1 + m /\ s[1] = << c >>[1] /\ \A j \in 1..m : s[1 + j] = x[j]
    BY <1>1, <1>2, <1>3 DEF s, Joined
  <2> QED
    BY <1>1, <1>2, <2>1, <2>2
<1> HIDE DEF s
<1>5. PICK S : s \in Seq(S)
  BY <1>4 DEF IsSeq
<1>6. s = [j \in 1..(m + 1) |-> s[j]]
  BY <1>4, <1>5, LenProperties
<1>7. ASSUME NEW j \in 1..(m + 1) PROVE s[j] = y[j]
  <2>1. CASE j = 1
    BY <1>4, <2>1 DEF c
  <2>2. CASE j # 1
    <3>1. j - 1 \in 1..m /\ (j - 1) + 1 = j
      BY <2>2
    <3> QED
      BY <1>4, <3>1
  <2> QED
    BY <2>1, <2>2
<1>8. s = y
  BY <1>6, <1>7
<1> QED
  BY <1>8 DEF s, c, x

CleanChar(c, alt) == IF alt = 1 /\ c \in Unprintable THEN "?" ELSE c

Chars(p, exact, alt) ==
    LET chars[i \in DOMAIN p] ==
            IF p[i] = Nul \/ (exact >= 0 /\ i > exact) THEN << >>
            ELSE << IF alt = 1 /\ p[i] \in Unprintable THEN "?" ELSE p[i] >> \o chars[i + 1]
    IN chars

(* The characters of a string are printed up to the precision or the null character,
   and with # those that a terminal cannot show as question marks. *)
LEMMA CharsAre ==
    ASSUME NEW p, NEW n \in Nat, DOMAIN p = 1..n, NEW exact \in Int, NEW alt, NEW kept \in 0..(n - 1), p[n] = Nul,
           p[kept + 1] = Nul \/ (exact >= 0 /\ kept + 1 > exact),
           \A i \in 1..kept : p[i] # Nul /\ ~(exact >= 0 /\ i > exact)
    PROVE  Chars(p, exact, alt)[1] = [i \in 1..kept |-> CleanChar(p[i], alt)]
<1> DEFINE E == {i \in 1..n : p[i] = Nul \/ (exact >= 0 /\ i > exact)}
           C == {CleanChar(p[i], alt) : i \in 1..n}
           S == Seq(C)
           one(i) == << CleanChar(p[i], alt) >>
           none == << >>
           a == [i \in 1..n |-> none]
           J(i, x) == one(i) \o x
           g == [i \in 1..n |-> [x \in S |-> J(i, x)]]
           F(f) == [i \in DOMAIN p |-> IF p[i] = Nul \/ (exact >= 0 /\ i > exact) THEN none ELSE J(i, f[i + 1])]
           c == CHOOSE f : f = F(f)
<1>1. n >= 1 /\ n \in E
  OBVIOUS
<1>2. none \in S /\ \A i \in 1..n : \A x \in S : J(i, x) \in S
  <2>1. \A i \in 1..n : one(i) \in S
    OBVIOUS
  <2> HIDE DEF one, C
  <2> QED
    BY <2>1, ConcatProperties
<1>3. Chars(p, exact, alt) = c
  BY DEF Chars, CleanChar
<1>4. ASSUME NEW i \in 1..n, NEW m \in Nat \ {0}
      PROVE  J(i, [j \in 1..(m - 1) |-> CleanChar(p[i + j], alt)]) = [j \in 1..m |-> CleanChar(p[(i - 1) + j], alt)]
  <2> DEFINE y == [j \in 1..m |-> CleanChar(p[(i - 1) + j], alt)]
  <2>1. m - 1 \in Nat /\ (m - 1) + 1 = m
    OBVIOUS
  <2>2. y = [j \in 1..m |-> y[j]]
    OBVIOUS
  <2>3. y[1] = CleanChar(p[i], alt) /\ \A j \in 1..(m - 1) : y[j + 1] = CleanChar(p[i + j], alt)
    <3>1. (i - 1) + 1 = i /\ \A j \in 1..(m - 1) : (i - 1) + (j + 1) = i + j /\ j + 1 \in 1..m
      OBVIOUS
    <3> QED
      BY <3>1
  <2>4. [j \in 1..(m - 1) |-> CleanChar(p[i + j], alt)] = [j \in 1..(m - 1) |-> y[j + 1]]
    <3> HIDE DEF y
    <3> QED
      BY <2>3
  <2>5. << y[1] >> \o [j \in 1..(m - 1) |-> y[j + 1]] = y
    <3> HIDE DEF y
    <3> QED
      BY <2>1, <2>2, PrependIs
  <2> HIDE DEF y
  <2>6. J(i, [j \in 1..(m - 1) |-> CleanChar(p[i + j], alt)]) = y
    BY <2>3, <2>4, <2>5
  <2> QED
    BY <2>6 DEF y
<1> HIDE DEF S, J, none
<1>5. PICK f \in [1..n -> S] : Loops(f, n, E, a, g)
  <2>1. a \in [1..n -> S] /\ g \in [1..n -> [S -> S]]
    BY <1>2
  <2> HIDE DEF E, a, g
  <2> QED
    BY <1>1, <2>1, LoopExists
<1>6. f = F(f)
  <2>1. ASSUME NEW i \in 1..n
        PROVE  f[i] = IF p[i] = Nul \/ (exact >= 0 /\ i > exact) THEN none ELSE J(i, f[i + 1])
    <3>1. i \notin E => i + 1 \in 1..n
      BY <1>1
    <3>2. f[i] = IF i \in E THEN none ELSE g[i][f[i + 1]]
      BY <1>5 DEF Loops
    <3> QED
      BY <3>1, <3>2
  <2> QED
    BY <2>1
<1>7. c = F(c)
  <2> HIDE DEF F
  <2> QED
    BY <1>6
<1> HIDE DEF c
<1>8. \A i \in 1..n : c[i] = IF p[i] = Nul \/ (exact >= 0 /\ i > exact) THEN none ELSE J(i, c[i + 1])
  BY <1>7
<1> DEFINE From(m) == [j \in 1..m |-> CleanChar(p[((kept + 1) - m) + (j - 1)], alt)]
           Good(m) == c[(kept + 1) - m] \in S /\ c[(kept + 1) - m] = From(m)
           T == {m \in Nat : m \in 0..kept => Good(m)}
<1>9. ASSUME NEW m \in Nat, \A j \in 0..(m - 1) : j \in T PROVE m \in T
  <2> SUFFICES ASSUME m \in 0..kept PROVE Good(m)
    OBVIOUS
  <2>1. CASE m = 0
    <3>1. kept + 1 \in 1..n /\ (kept + 1) - m = kept + 1
      BY <2>1
    <3>2. c[kept + 1] = none
      BY <1>8, <3>1
    <3>3. From(0) = none
      BY DEF none
    <3> QED
      BY <1>2, <2>1, <3>1, <3>2, <3>3
  <2>2. CASE m > 0
    <3>1. PICK i \in 1..kept : i = (kept + 1) - m /\ i + 1 = (kept + 1) - (m - 1) /\ i \in 1..n
      BY <2>2
    <3>2. m - 1 \in 0..(m - 1) /\ m - 1 \in 0..kept /\ m - 1 \in Nat /\ (m - 1) + 1 = m
      BY <2>2
    <3>3. Good(m - 1)
      BY <1>9, <3>2
    <3>4. c[i + 1] \in S /\ c[i + 1] = [j \in 1..(m - 1) |-> CleanChar(p[i + j], alt)]
      <4>1. \A j \in 1..(m - 1) : (i + 1) + (j - 1) = i + j
        BY <3>1
      <4> QED
        BY <3>1, <3>3, <4>1
    <3>5. c[i] = J(i, c[i + 1])
      BY <1>8, <3>1
    <3>6. J(i, c[i + 1]) = [j \in 1..m |-> CleanChar(p[(i - 1) + j], alt)]
      <4>1. m \in Nat \ {0}
        BY <2>2
      <4>2. J(i, [j \in 1..(m - 1) |-> CleanChar(p[i + j], alt)]) = [j \in 1..m |-> CleanChar(p[(i - 1) + j], alt)]
        BY <1>4, <3>1, <4>1
      <4> HIDE DEF F, From, Good, T, E, a, g
      <4> QED
        BY <3>4, <4>2
    <3>7. [j \in 1..m |-> CleanChar(p[(i - 1) + j], alt)] = From(m)
      <4>1. \A j \in 1..m : (i - 1) + j = ((kept + 1) - m) + (j - 1)
        BY <3>1
      <4> QED
        BY <3>1, <4>1
    <3>8. J(i, c[i + 1]) \in S
      BY <1>2, <3>1, <3>4
    <3> QED
      BY <3>1, <3>5, <3>6, <3>7, <3>8
  <2> QED
    BY <2>1, <2>2
<1>10. Good(kept)
  <2>1. \A m \in Nat : m \in T
    <3> HIDE DEF T
    <3> QED
      BY <1>9, InductionOver
  <2>2. kept \in T /\ kept \in 0..kept
    BY <2>1
  <2> HIDE DEF Good
  <2> QED
    BY <2>2
<1>11. c[1] = From(kept)
  <2>1. (kept + 1) - kept = 1
    OBVIOUS
  <2> HIDE DEF From
  <2> QED
    BY <1>10, <2>1
<1>12. From(kept) = [i \in 1..kept |-> CleanChar(p[i], alt)]
  <2>1. \A j \in 1..kept : ((kept + 1) - kept) + (j - 1) = j
    OBVIOUS
  <2> QED
    BY <2>1
<1> QED
  BY <1>3, <1>11, <1>12

(* What %s prints. *)
Whole(t) == IF t = NULL THEN << "(", "n", "u", "l", "l", ")" >> ELSE t
Blank == " "

StringPrinted(t, columns, exact, fill, alt) ==
    LET p == Whole(t) \o << Nul >>
        left == IF columns > 0 /\ fill # "-" THEN columns - Strnlen(p, exact)[1] ELSE 0
        right == IF fill = "-" THEN columns - Len(Chars(p, exact, alt)[1]) ELSE 0
    IN Repeated(fill, left) \o Chars(p, exact, alt)[1] \o Repeated(Blank, right)

(* A string argument, "(null)" for a null pointer, holds no null character. *)
LEMMA WholeIs ==
    ASSUME NEW t, IsSeq(t), Without(t, Nul)
    PROVE  IsSeq(Whole(t)) /\ \A i \in 1..Len(Whole(t)) : Whole(t)[i] # Nul
<1>1. CASE t = NULL
  <2> DEFINE s == << "(", "n", "u", "l", "l", ")" >>
  <2>1. Whole(t) = s
    BY <1>1 DEF Whole
  <2>2. Len(s) = 6 /\ s[1] # Nul /\ s[2] # Nul /\ s[3] # Nul /\ s[4] # Nul /\ s[5] # Nul /\ s[6] # Nul
    BY DEF Nul
  <2>3. \E S : s \in Seq(S)
    <3>1. s \in Seq({"(", "n", "u", "l", ")"})
      OBVIOUS
    <3> HIDE DEF s
    <3> QED
      BY <3>1
  <2> HIDE DEF s
  <2>4. \A i \in 1..Len(s) : s[i] # Nul
    BY <2>2
  <2> QED
    BY <2>1, <2>3, <2>4 DEF IsSeq
<1>2. CASE t # NULL
  <2>1. Whole(t) = t
    BY <1>2 DEF Whole
  <2>2. PICK S : t \in Seq(S)
    BY DEF IsSeq
  <2>3. DOMAIN t = 1..Len(t)
    BY <2>2
  <2> QED
    BY <2>1, <2>3 DEF Without
<1> QED
  BY <1>1, <1>2

(* As much of a string as the precision allows, each character clean. *)
Kept(d) == IF Precision(d) \in 0..(Len(Whole(d.text)) - 1) THEN Precision(d) ELSE Len(Whole(d.text))
Clean(d) == [i \in 1..Kept(d) |-> CleanChar(Whole(d.text)[i], IF Contains(d.flags, "#") THEN 1 ELSE 0)]

(* The text of %s: its kept characters, padded on the left or behind them. *)
LEMMA StringTextIs ==
    ASSUME NEW d, LegalDirective(d)
    PROVE  /\ Kept(d) \in Nat /\ IsSeq(Clean(d)) /\ Len(Clean(d)) = Kept(d)
           /\ Pad(d) = "-" => StringText(d) = Clean(d) \o Repeated(Blank, Width(d) - Kept(d))
           /\ Pad(d) # "-" => StringText(d) = Repeated(Pad(d), Width(d) - Kept(d)) \o Clean(d)
<1> DEFINE W == Whole(d.text)
           short == SubSeq(W, 1, Precision(d))
           kept == IF Precision(d) \in 0..(Len(W) - 1) THEN short ELSE W
           hash == Contains(d.flags, "#")
           clean == [i \in DOMAIN kept |-> IF hash /\ kept[i] \in Unprintable THEN "?" ELSE kept[i]]
           space == Width(d) - Len(clean)
<1>1. StringText(d) = IF Pad(d) = "-" THEN clean \o Repeated(Blank, space) ELSE Repeated(Pad(d), space) \o clean
  BY Zenon DEF StringText, Padded, Whole, Blank
<1>2. IsSeq(W)
  <2>1. d.text \in Seq(STRING) /\ Without(d.text, Nul)
    BY DEF LegalDirective, DirectiveType
  <2>2. IsSeq(d.text)
    BY <2>1 DEF IsSeq
  <2> QED
    BY <2>1, <2>2, WholeIs
<1> HIDE DEF W
<1>a. PICK S : W \in Seq(S)
  BY <1>2 DEF IsSeq
<1>3. PICK n \in Nat : n = Len(W) /\ DOMAIN W = 1..n
  <2>1. Len(W) \in Nat /\ DOMAIN W = 1..Len(W)
    BY <1>a, LenProperties
  <2> QED
    BY <2>1, Zenon
<1>4. PICK e \in Int : e = Precision(d)
  BY StarsAre
<1>5. Kept(d) = (IF e \in 0..(n - 1) THEN e ELSE n) /\ Kept(d) \in 0..n
  <2>1. Kept(d) = IF e \in 0..(n - 1) THEN e ELSE n
    BY <1>3, <1>4 DEF Kept, W
  <2>2. (IF e \in 0..(n - 1) THEN e ELSE n) \in 0..n
    BY <1>4
  <2> QED
    BY <2>1, <2>2
<1>6. PICK m \in Nat : m = Kept(d) /\ m <= n
  BY <1>5
<1>7. Len(kept) = m /\ DOMAIN kept = 1..m /\ \A i \in 1..m : kept[i] = W[i]
  <2>1. CASE e \in 0..(n - 1)
    <3>1. e = m /\ kept = short
      BY <1>3, <1>4, <1>5, <1>6, <2>1
    <3>2. m <= n /\ short = [i \in 1..m |-> W[i]]
      <4>1. short = SubSeq(W, 1, m)
        BY <1>4, <3>1
      <4>2. SubSeq(W, 1, m) = [i \in 1..m |-> W[i]]
        <5>1. SubSeq(W, 1, m) = [i \in 1..((1 + m) - 1) |-> W[(i + 1) - 1]]
          BY <1>a, <1>3, <1>6
        <5>2. (1 + m) - 1 = m /\ \A i \in 1..m : (i + 1) - 1 = i
          OBVIOUS
        <5> QED
          BY <5>1, <5>2
      <4> QED
        BY <1>6, <4>1, <4>2
    <3> HIDE DEF short
    <3>3. Len([i \in 1..m |-> W[i]]) = m
      OBVIOUS
    <3> HIDE DEF kept
    <3> QED
      BY <3>1, <3>2, <3>3
  <2>2. CASE e \notin 0..(n - 1)
    <3>1. n = m /\ kept = W
      BY <1>3, <1>4, <1>5, <1>6, <2>2
    <3> HIDE DEF kept
    <3> QED
      BY <1>3, <3>1
  <2> QED
    BY <2>1, <2>2
<1> HIDE DEF kept
<1>8. clean = Clean(d)
  <2>1. \A c : (IF hash /\ c \in Unprintable THEN "?" ELSE c) = CleanChar(c, IF hash THEN 1 ELSE 0)
    <3> HIDE DEF hash
    <3>1. CASE hash
      BY <3>1 DEF CleanChar
    <3>2. CASE ~hash
      BY <3>2 DEF CleanChar
    <3> QED
      BY <3>1, <3>2
  <2> HIDE DEF hash
  <2>2. clean = [i \in 1..m |-> CleanChar(W[i], IF hash THEN 1 ELSE 0)]
    BY <1>7, <2>1
  <2> QED
    BY <1>6, <2>2 DEF Clean, W, hash
<1> HIDE DEF clean
<1>9. IsSeq(Clean(d)) /\ Len(Clean(d)) = m
  <2> DEFINE alt == IF hash THEN 1 ELSE 0
             C == {CleanChar(W[i], alt) : i \in 1..m}
             x == [i \in 1..m |-> CleanChar(W[i], alt)]
  <2>1. x \in [1..m -> C]
    OBVIOUS
  <2>2. Clean(d) = x
    BY <1>6 DEF Clean, W
  <2> HIDE DEF C, x
  <2>3. x \in Seq(C) /\ Len(x) = m
    BY <2>1
  <2> QED
    BY <2>2, <2>3 DEF IsSeq
<1>10. space = Width(d) - m
  <2> HIDE DEF clean
  <2> QED
    BY <1>8, <1>9, Zenon
<1> HIDE DEF space
<1> QED
  BY <1>1, <1>6, <1>8, <1>9, <1>10

(* No room, no padding. *)
LEMMA NoPadding == ASSUME NEW c, NEW m \in Int, m <= 0 PROVE Repeated(c, m) = << >>
<1>1. ~(m > 0)
  OBVIOUS
<1> QED
  BY <1>1 DEF Repeated

(* %s prints the string that it stands for: strnlen counts the characters that
   the loop prints, on whichever side the padding is. *)
THEOREM StringsPrinted ==
    ASSUME NEW d, LegalDirective(d)
    PROVE  /\ StringPrinted(d.text, Columns(d), Precision(d), Pad(d), IF Contains(d.flags, "#") THEN 1 ELSE 0)
                = StringText(d)
           /\ IsSeq(StringText(d))
<1> DEFINE W == Whole(d.text)
           p == W \o << Nul >>
           alt == IF Contains(d.flags, "#") THEN 1 ELSE 0
<1>1. IsSeq(W) /\ \A i \in 1..Len(W) : W[i] # Nul
  <2>1. d.text \in Seq(STRING) /\ Without(d.text, Nul)
    BY DEF LegalDirective, DirectiveType
  <2>2. IsSeq(d.text)
    BY <2>1 DEF IsSeq
  <2> QED
    BY <2>1, <2>2, WholeIs
<1>2. PICK n \in Nat : n = Len(W)
  <2>1. PICK S : W \in Seq(S)
    BY <1>1 DEF IsSeq
  <2> HIDE DEF W
  <2>2. Len(W) \in Nat
    BY <2>1, LenProperties
  <2> QED
    BY <2>2, Zenon
<1>3. PICK e \in Int, columns \in Int : e = Precision(d) /\ columns = Columns(d) /\ Width(d) \in Int
  BY StarsAre
<1>4. PICK m \in Nat : m = Kept(d) /\ m = (IF e \in 0..(n - 1) THEN e ELSE n)
  BY <1>2, <1>3 DEF Kept, W
<1>5. DOMAIN p = 1..(n + 1) /\ p[n + 1] = Nul /\ \A i \in 1..n : p[i] = W[i] /\ p[i] # Nul
  <2> HIDE DEF W
  <2>1. PICK S : W \in Seq(S)
    BY <1>1 DEF IsSeq
  <2>2. W \in Seq(S \cup {Nul}) /\ << Nul >> \in Seq(S \cup {Nul}) /\ Len(<< Nul >>) = 1 /\ << Nul >>[1] = Nul
    BY <2>1, SeqMonotonic
  <2> QED
    BY <1>1, <1>2, <2>2, ConcatProperties, LenProperties
<1> HIDE DEF p
<1>6. Strnlen(p, e)[1] = m
  <2>1. n + 1 \in Nat /\ m \in 0..((n + 1) - 1)
    BY <1>4
  <2>2. m = e \/ p[m + 1] = Nul
    BY <1>4, <1>5
  <2>3. \A i \in 1..m : i - 1 # e /\ p[i] # Nul
    BY <1>4, <1>5
  <2> QED
    BY <1>5, <2>1, <2>2, <2>3, StrnlenIs
<1>7. Chars(p, e, alt)[1] = Clean(d)
  <2>1. n + 1 \in Nat /\ m \in 0..((n + 1) - 1)
    BY <1>4
  <2>2. p[m + 1] = Nul \/ (e >= 0 /\ m + 1 > e)
    BY <1>4, <1>5
  <2>3. \A i \in 1..m : p[i] # Nul /\ ~(e >= 0 /\ i > e)
    BY <1>4, <1>5
  <2>4. Chars(p, e, alt)[1] = [i \in 1..m |-> CleanChar(p[i], alt)]
    BY <1>5, <2>1, <2>2, <2>3, CharsAre
  <2>5. m <= n /\ \A i \in 1..m : p[i] = W[i]
    BY <1>4, <1>5
  <2>6. Clean(d) = [i \in 1..m |-> CleanChar(W[i], alt)]
    BY <1>4 DEF Clean
  <2> HIDE DEF W, alt
  <2> QED
    BY <2>4, <2>5, <2>6
<1>8. /\ IsSeq(Clean(d)) /\ Len(Clean(d)) = m
      /\ Pad(d) = "-" => StringText(d) = Clean(d) \o Repeated(Blank, Width(d) - m)
      /\ Pad(d) # "-" => StringText(d) = Repeated(Pad(d), Width(d) - m) \o Clean(d)
  BY <1>4, StringTextIs
<1> DEFINE left == IF columns > 0 /\ Pad(d) # "-" THEN columns - m ELSE 0
           right == IF Pad(d) = "-" THEN columns - m ELSE 0
<1>9. StringPrinted(d.text, columns, e, Pad(d), alt) = Repeated(Pad(d), left) \o Clean(d) \o Repeated(Blank, right)
  <2> HIDE DEF alt
  <2> QED
    BY <1>6, <1>7, <1>8 DEF StringPrinted, p
<1> HIDE DEF alt
<1>10. \A c : Repeated(c, columns - m) = Repeated(c, Width(d) - m)
  BY <1>3, <1>4, SamePadding
<1>11. \A s : IsSeq(s) => s \o << >> = s
  <2> SUFFICES ASSUME NEW s, IsSeq(s) PROVE s \o << >> = s
    OBVIOUS
  <2>1. PICK S : s \in Seq(S)
    BY DEF IsSeq
  <2> QED
    BY <2>1, ConcatEmptySeq
<1>12. \A c : IsSeq(Repeated(c, Width(d) - m)) /\ Repeated(c, 0) = << >>
  BY <1>3, RepeatedIs, NoPadding
<1>13. CASE Pad(d) = "-"
  <2>1. Repeated(Pad(d), left) = << >> /\ right = columns - m
    BY <1>12, <1>13
  <2>2. Repeated(Blank, right) = Repeated(Blank, Width(d) - m)
    BY <1>10, <2>1
  <2>3. << >> \o Clean(d) = Clean(d)
    BY <1>8, MarksAre
  <2>4. IsSeq(Clean(d) \o Repeated(Blank, Width(d) - m))
    BY <1>8, <1>12, JoinIs DEF Joined
  <2> HIDE DEF left, right
  <2> QED
    BY <1>3, <1>8, <1>9, <1>13, <2>1, <2>2, <2>3, <2>4 DEF alt
<1>14. CASE Pad(d) # "-"
  <2>1. Repeated(Blank, right) = << >>
    BY <1>12, <1>14
  <2>2. Repeated(Pad(d), left) = Repeated(Pad(d), columns - m)
    <3>1. CASE columns > 0
      BY <1>14, <3>1
    <3>2. CASE ~(columns > 0)
      <4>1. left = 0 /\ columns - m \in Int /\ columns - m <= 0
        BY <3>2
      <4> QED
        BY <1>12, <4>1, NoPadding
    <3> QED
      BY <3>1, <3>2
  <2>3. Repeated(Pad(d), left) = Repeated(Pad(d), Width(d) - m)
    BY <1>10, <2>2
  <2>4. IsSeq(Repeated(Pad(d), Width(d) - m) \o Clean(d))
    BY <1>8, <1>12, JoinIs DEF Joined
  <2>5. (Repeated(Pad(d), Width(d) - m) \o Clean(d)) \o << >> = Repeated(Pad(d), Width(d) - m) \o Clean(d)
    BY <1>11, <2>4
  <2> HIDE DEF left, right
  <2> QED
    BY <1>3, <1>8, <1>9, <1>14, <2>1, <2>3, <2>4, <2>5 DEF alt
<1> QED
  BY <1>13, <1>14

(* What is printed for a directive is a sequence. *)
LEMMA DirectivePrintedIsSeq ==
    ASSUME NEW d, LegalDirective(d)
    PROVE  IsSeq(DirectivePrinted(d))
<1>0. Conversion(d) \notin Numeric => DirectivePrinted(d) = DirectiveText(d)
  BY PrintedBy
<1>1. CASE Conversion(d) = "c"
  <2>1. d.text \in Seq(STRING)
    BY DEF LegalDirective, DirectiveType
  <2> QED
    BY <1>0, <1>1, <2>1, TextIsBy DEF IsSeq, Numeric
<1>2. CASE Conversion(d) = "s"
  BY <1>0, <1>2, TextIsBy, StringsPrinted DEF Numeric
<1>3. CASE Conversion(d) = "e"
  <2>1. d.number \in Signed(Word)
    BY <1>3 DEF LegalDirective
  <2> QED
    BY <1>0, <1>3, <2>1, TextIsBy, ErrorsPrinted DEF Numeric
<1>4. CASE Conversion(d) \in Numeric
  <2>1. ASSUME NEW base \in 2..16, NEW n \in Nat PROVE IsSeq(printnum(n, base, Columns(d), Pad(d)))
    BY StarsAre, PrintnumIsSeq
  <2>2. CASE Conversion(d) = "d"
    <3> DEFINE num == Rewrapped(d)
               n == Wrap(IF num < 0 THEN -num ELSE num, Word * Word)
    <3>1. n \in Nat
      <4>1. PICK y \in Int, ww \in Nat : y = num /\ ww = Word * Word /\ ww > 0
        BY NumberIs, WordAssumption
      <4>2. PICK x \in Int : x = (IF num < 0 THEN -num ELSE num)
        BY <4>1
      <4>3. n = (x % ww)
        BY <4>1, <4>2 DEF Wrap
      <4> HIDE DEF n, num
      <4> QED
        BY <4>1, <4>2, <4>3
    <3>2. SignedPrinted(num, Columns(d), Pad(d)) = (IF num < 0 THEN << "-" >> ELSE << >>) \o printnum(n, 10, Columns(d), Pad(d))
      BY Zenon DEF SignedPrinted
    <3>3. 10 \in 2..16
      OBVIOUS
    <3> HIDE DEF n, num
    <3>4. IsSeq(printnum(n, 10, Columns(d), Pad(d)))
      BY <2>1, <3>1, <3>3
    <3>5. IsSeq((IF num < 0 THEN << "-" >> ELSE << >>) \o printnum(n, 10, Columns(d), Pad(d)))
      BY <3>4, JoinIs, MarksAre DEF Joined
    <3> QED
      BY <2>2, <3>2, <3>5, PrintedBy DEF num
  <2>3. CASE Conversion(d) \in {"u", "o", "x"}
    <3>1. Base(Conversion(d)) \in 2..16 /\ Unwrapped(d) \in Nat
      BY NumberIs DEF Base
    <3> QED
      BY <2>1, <2>3, <3>1, PrintedBy
  <2>4. CASE Conversion(d) = "p"
    <3>1. 16 \in 2..16 /\ Wrap(d.number, Word) \in Nat
      BY NumberIs
    <3>2. IsSeq(printnum(Wrap(d.number, Word), 16, Columns(d), Pad(d)))
      BY <2>1, <3>1
    <3>3. IsSeq(<< "0", "x" >> \o printnum(Wrap(d.number, Word), 16, Columns(d), Pad(d)))
      BY <3>2, JoinIs, MarksAre DEF Joined
    <3> QED
      BY <2>4, <3>3, PrintedBy
  <2> QED
    BY <1>4, <2>2, <2>3, <2>4 DEF Numeric
<1>5. CASE Conversion(d) = "%"
  BY <1>0, <1>5, TextIsBy, MarksAre DEF Numeric
<1>6. CASE Conversion(d) \notin {"c", "s", "e", "d", "p", "u", "o", "x", "%"}
  BY <1>0, <1>6, TextIsBy, WrittenIs DEF SpelledSo, Numeric
<1> QED
  BY <1>1, <1>2, <1>3, <1>4, <1>5, <1>6 DEF Numeric

(* Unless a number is to be padded on the right, what is printed for a directive
   is what the directive stands for. *)
LEMMA PrintedAsText ==
    ASSUME NEW d, LegalDirective(d), Conversion(d) \in Numeric => Pad(d) # "-"
    PROVE  DirectivePrinted(d) = DirectiveText(d)
<1>1. CASE Conversion(d) \in Numeric
  BY <1>1, NumbersPrinted, PrintedBy DEF Numeric
<1>2. CASE Conversion(d) \notin Numeric
  BY <1>2, PrintedBy
<1> QED
  BY <1>1, <1>2

(* The sum of the figures before end, each with the weight of its place. *)
Summed(s, end, radix) ==
    LET sum[k \in Nat] == IF k = 0 THEN 0 ELSE sum[k - 1] + Figure(s[end - k]) * Power(radix, k - 1) IN sum

(* The sum that a text is worth exists, figure by figure from its end. *)
LEMMA SummedIs ==
    ASSUME NEW s, NEW end, NEW radix \in Nat
    PROVE  /\ Summed(s, end, radix)[0] = 0
           /\ \A k \in Nat \ {0} :
                  /\ Summed(s, end, radix)[k - 1] \in Nat
                  /\ Summed(s, end, radix)[k]
                         = Summed(s, end, radix)[k - 1] + Figure(s[end - k]) * Power(radix, k - 1)
           /\ \A k \in Nat : Summed(s, end, radix)[k] \in Nat
<1> DEFINE e(k) == Figure(s[end - k]) * Power(radix, k - 1)
           Sat(f) == [k \in Nat |-> IF k = 0 THEN 0 ELSE f[k - 1] + e(k)]
           c == CHOOSE f : f = Sat(f)
           g == [k \in Nat |-> [x \in Nat |-> IF k = 0 THEN 0 ELSE x + e(k)]]
<1>1. Summed(s, end, radix) = c
  BY DEF Summed
<1>2. ASSUME NEW k \in Nat \ {0} PROVE e(k) \in Nat
  <2>1. PICK f \in 0..36 : f = Figure(s[end - k])
    BY FigureType
  <2>2. k - 1 \in Nat
    OBVIOUS
  <2>3. PICK p \in Nat : p = Power(radix, k - 1)
    BY <2>2, PowerIs
  <2>4. f * p \in Nat
    OBVIOUS
  <2> QED
    BY <2>1, <2>3, <2>4
<1> HIDE DEF e
<1>3. g \in [Nat -> [Nat -> Nat]] /\ 0 \in Nat
  <2>1. ASSUME NEW k \in Nat, NEW x \in Nat PROVE (IF k = 0 THEN 0 ELSE x + e(k)) \in Nat
    BY <1>2
  <2> QED
    BY <2>1
<1>4. PICK f \in [Nat -> Nat] : Builds(f, 0, g)
  <2> HIDE DEF g
  <2> QED
    BY <1>3, StepsExist
<1>5. f = Sat(f)
  <2>1. ASSUME NEW k \in Nat PROVE f[k] = IF k = 0 THEN 0 ELSE f[k - 1] + e(k)
    <3>1. CASE k = 0
      BY <1>4, <3>1 DEF Builds
    <3>2. CASE k # 0
      <4>1. k \in Nat \ {0} /\ f[k - 1] \in Nat
        BY <3>2
      <4>2. f[k] = g[k][f[k - 1]]
        BY <1>4, <4>1 DEF Builds
      <4> QED
        BY <3>2, <4>1, <4>2
    <3> QED
      BY <3>1, <3>2
  <2>2. f = [k \in Nat |-> f[k]]
    OBVIOUS
  <2> QED
    BY <2>1, <2>2
<1>6. c = Sat(c)
  <2> HIDE DEF Sat
  <2> QED
    BY <1>5
<1>7. \A k \in Nat : c[k] = IF k = 0 THEN 0 ELSE c[k - 1] + e(k)
  <2> HIDE DEF c
  <2> QED
    BY <1>6
<1> HIDE DEF c, Sat
<1> DEFINE T == {k \in Nat : c[k] \in Nat}
<1>8. ASSUME NEW k \in Nat, \A m \in 0..(k - 1) : m \in T PROVE k \in T
  <2>1. CASE k = 0
    BY <1>7, <2>1
  <2>2. CASE k # 0
    <3>1. c[k - 1] \in Nat /\ c[k] = c[k - 1] + e(k) /\ e(k) \in Nat
      BY <1>2, <1>7, <1>8, <2>2
    <3> QED
      BY <3>1
  <2> QED
    BY <2>1, <2>2
<1>9. \A k \in Nat : c[k] \in Nat
  <2>1. \A k \in Nat : k \in T
    <3> HIDE DEF T
    <3> QED
      BY <1>8, InductionOver
  <2> QED
    BY <2>1
<1>10. \A k \in Nat \ {0} : k - 1 \in Nat /\ c[k] = c[k - 1] + e(k)
  BY <1>7
<1> QED
  BY <1>1, <1>7, <1>9, <1>10 DEF e

(* What strtol reads of the figures before a character that is none: first the
   value so far, times what so many figures are worth. *)
ReadAs(neg, n, end) == [value |-> WrapSigned(IF neg THEN -n ELSE n, Word), end |-> end]
Worth(x, k, s, end, radix) == x * Power(radix, k) + Summed(s, end, radix)[k]

Weighs(x, s, end, radix) ==
    /\ Worth(x, 0, s, end, radix) = x
    /\ \A k \in Nat \ {0} :
           Worth(radix * x + Figure(s[end - k]), k - 1, s, end, radix) = Worth(x, k, s, end, radix)
    /\ \A k \in Nat : Worth(0, k, s, end, radix) = Summed(s, end, radix)[k]

(* What a text is worth is the sum of its figures, each weighed by the base. *)
LEMMA WorthIs ==
    ASSUME NEW s, NEW end, NEW radix \in Nat, NEW x \in Int
    PROVE  Weighs(x, s, end, radix)
<1> DEFINE sum == Summed(s, end, radix)
           P(k) == Power(radix, k)
<1>1. /\ sum[0] = 0
      /\ \A k \in Nat \ {0} : sum[k - 1] \in Nat /\ sum[k] = sum[k - 1] + Figure(s[end - k]) * P(k - 1)
      /\ \A k \in Nat : sum[k] \in Nat
  BY SummedIs
<1>2. \A k \in Nat : P(0) = 1 /\ P(k) \in Nat /\ P(k + 1) = radix * P(k)
  BY PowerIs
<1> HIDE DEF sum, P
<1>3. x * P(0) + sum[0] = x
  <2>1. P(0) = 1 /\ sum[0] = 0
    BY <1>1, <1>2
  <2> QED
    BY <2>1
<1>4. ASSUME NEW k \in Nat \ {0}
      PROVE  (radix * x + Figure(s[end - k])) * P(k - 1) + sum[k - 1] = x * P(k) + sum[k]
  <2>1. k - 1 \in Nat /\ (k - 1) + 1 = k
    OBVIOUS
  <2>2. PICK p \in Nat, r \in Nat, f \in 0..36 : p = P(k - 1) /\ r = sum[k - 1] /\ f = Figure(s[end - k])
    BY <1>1, <1>2, <2>1, FigureType
  <2>3. P(k) = radix * p
    BY <1>2, <2>1, <2>2
  <2>4. sum[k] = r + f * p
    BY <1>1, <2>2
  <2>5. (radix * x + f) * p + r = x * (radix * p) + (r + f * p)
    OBVIOUS
  <2> QED
    BY <2>2, <2>3, <2>4, <2>5
<1>5. ASSUME NEW k \in Nat PROVE 0 * P(k) + sum[k] = sum[k]
  <2>1. PICK p \in Nat, r \in Nat : p = P(k) /\ r = sum[k]
    BY <1>1, <1>2
  <2>2. 0 * p + r = r
    OBVIOUS
  <2> QED
    BY <2>1, <2>2
<1> QED
  <2>1. Worth(x, 0, s, end, radix) = x
    BY <1>3, Zenon DEF Worth, sum, P
  <2>2. ASSUME NEW k \in Nat \ {0}
        PROVE  Worth(radix * x + Figure(s[end - k]), k - 1, s, end, radix) = Worth(x, k, s, end, radix)
    BY <1>4, Zenon DEF Worth, sum, P
  <2>3. ASSUME NEW k \in Nat PROVE Worth(0, k, s, end, radix) = Summed(s, end, radix)[k]
    BY <1>5, Zenon DEF Worth, sum, P
  <2> QED
    BY <2>1, <2>2, <2>3, Zenon DEF Weighs

AreFigures(D, s, L, radix, neg, first, end) ==
    /\ L \in Nat /\ radix \in 2..36 /\ neg \in BOOLEAN /\ ReadsOn(D, s, L, radix, neg)
    /\ first \in 1..L /\ end \in first..L
    /\ Figure(s[end]) >= radix /\ \A j \in first..(end - 1) : Figure(s[j]) < radix

(* strtol's loop over figures gives what they sum up to, wrapped to a signed word. *)
LEMMA FiguresAre ==
    ASSUME NEW D, NEW s, NEW L, NEW radix, NEW neg, NEW first, NEW end,
           AreFigures(D, s, L, radix, neg, first, end)
    PROVE  D[first][0] = ReadAs(neg, Summed(s, end, radix)[end - first], end)
<1> DEFINE W(x, k) == Worth(x, k, s, end, radix)
           Good(k) == \A x \in Int : D[end - k][WrapSigned(x, Word)] = ReadAs(neg, W(x, k), end)
           T == {k \in Nat : k <= end - first => Good(k)}
<1> SUFFICES ASSUME L \in Nat, radix \in 2..36, neg \in BOOLEAN, ReadsOn(D, s, L, radix, neg),
                    first \in 1..L, end \in first..L,
                    Figure(s[end]) >= radix, \A j \in first..(end - 1) : Figure(s[j]) < radix
             PROVE  D[first][0] = ReadAs(neg, Summed(s, end, radix)[end - first], end)
  BY DEF AreFigures
<1>0. Figure(s[end]) >= radix /\ \A j \in first..(end - 1) : Figure(s[j]) < radix
  OBVIOUS
<1>1. ASSUME NEW x \in Int
      PROVE  /\ W(x, 0) = x
             /\ \A k \in Nat \ {0} : W(radix * x + Figure(s[end - k]), k - 1) = W(x, k)
             /\ \A k \in Nat : W(0, k) = Summed(s, end, radix)[k]
  <2>1. radix \in Nat
    OBVIOUS
  <2>2. Weighs(x, s, end, radix)
    BY <2>1, WorthIs
  <2> QED
    BY <2>2, Zenon DEF Weighs
<1> HIDE DEF W
<1> DEFINE Next(k, y) == WrapSigned(y * radix + Figure(s[k]), Word)
           Halt(k, y) == [value |-> IF neg THEN WrapSigned(-y, Word) ELSE y, end |-> k]
<1>2. \A k \in 1..L : \A y \in Int :
          /\ Figure(s[k]) >= radix => D[k][y] = Halt(k, y)
          /\ ~(Figure(s[k]) >= radix) => D[k][y] = D[k + 1][Next(k, y)]
  BY Zenon DEF ReadsOn
<1> HIDE DEF Next, Halt
<1>3. ASSUME NEW x \in Int PROVE D[end][WrapSigned(x, Word)] = ReadAs(neg, x, end)
  <2>1. PICK y \in Int : y = WrapSigned(x, Word)
    BY WrapType
  <2>2. end \in 1..L
    OBVIOUS
  <2>3. D[end][y] = [value |-> IF neg THEN WrapSigned(-y, Word) ELSE y, end |-> end]
    <3>1. D[end][y] = Halt(end, y)
      BY <1>0, <1>2, <2>2
    <3> QED
      BY <3>1 DEF Halt
  <2>4. WrapSigned(-y, Word) = WrapSigned(-x, Word)
    BY <2>1, WrapNegative
  <2> QED
    BY <2>1, <2>3, <2>4 DEF ReadAs
<1>4. ASSUME NEW k \in Nat \ {0}, k <= end - first, Good(k - 1) PROVE Good(k)
  <2> SUFFICES ASSUME NEW x \in Int PROVE D[end - k][WrapSigned(x, Word)] = ReadAs(neg, W(x, k), end)
    OBVIOUS
  <2>1. PICK j \in 1..L : j = end - k /\ j \in first..(end - 1) /\ j + 1 = end - (k - 1)
    BY <1>4
  <2>2. PICK dig \in Nat : dig = Figure(s[j]) /\ ~(dig >= radix)
    <3>1. Figure(s[j]) \in 0..36 /\ Figure(s[j]) < radix
      BY <1>0, <2>1, FigureType
    <3> QED
      BY <3>1
  <2>3. PICK y \in Int : y = WrapSigned(x, Word)
    BY WrapType
  <2>4. D[j][y] = D[j + 1][Next(j, y)] /\ Next(j, y) = WrapSigned(y * radix + dig, Word)
    <3>1. Next(j, y) = WrapSigned(y * radix + dig, Word)
      BY <2>2, Zenon DEF Next
    <3> QED
      BY <1>2, <2>2, <3>1
  <2>5. WrapSigned(y * radix + dig, Word) = WrapSigned(radix * x + dig, Word)
    <3>1. radix \in Nat
      OBVIOUS
    <3> QED
      BY <2>3, <3>1, WrapStep
  <2>6. PICK z \in Int : z = radix * x + dig
    OBVIOUS
  <2>7. D[j + 1][WrapSigned(z, Word)] = ReadAs(neg, W(z, k - 1), end)
    BY <1>4, <2>1
  <2>8. W(z, k - 1) = W(x, k)
    BY <1>1, <2>1, <2>2, <2>6
  <2> QED
    BY <2>1, <2>3, <2>4, <2>5, <2>6, <2>7, <2>8
<1>5. Good(0)
  <2>1. end - 0 = end
    OBVIOUS
  <2> QED
    BY <1>1, <1>3, <2>1
<1> HIDE DEF Good
<1>6. ASSUME NEW k \in Nat, \A m \in 0..(k - 1) : m \in T PROVE k \in T
  <2>1. CASE k = 0
    BY <1>5, <2>1
  <2>2. CASE k # 0
    <3>1. k - 1 \in 0..(k - 1) /\ k - 1 \in Nat /\ k \in Nat \ {0}
      BY <2>2
    <3> SUFFICES ASSUME k <= end - first PROVE Good(k)
      OBVIOUS
    <3>2. k - 1 <= end - first
      OBVIOUS
    <3>3. Good(k - 1)
      BY <1>6, <3>1, <3>2
    <3> QED
      BY <1>4, <3>1, <3>3
  <2> QED
    BY <2>1, <2>2
<1>7. Good(end - first)
  <2>1. \A k \in Nat : k \in T
    <3> HIDE DEF T
    <3> QED
      BY <1>6, InductionOver
  <2>2. end - first \in T /\ end - first \in Nat
    BY <2>1
  <2> QED
    BY <2>2
<1>8. PICK k \in Nat : k = end - first /\ end - k = first
  OBVIOUS
<1>9. D[first][WrapSigned(0, Word)] = ReadAs(neg, W(0, k), end)
  BY <1>7, <1>8 DEF Good
<1>10. W(0, k) = Summed(s, end, radix)[k]
  BY <1>1
<1> QED
  BY <1>8, <1>9, <1>10, WrapZero

(* Where something holds at last, it holds somewhere first. *)
LEMMA FirstPlace ==
    ASSUME NEW low \in Nat, NEW high \in Nat, low <= high, NEW E, high \in E
    PROVE  \E x \in low..high : x \in E /\ \A j \in low..(x - 1) : j \notin E
<1> DEFINE T == {i \in low..high : i \in E}
<1>1. T \subseteq Nat /\ T # {}
  <2>1. high \in T
    OBVIOUS
  <2> QED
    BY <2>1
<1>2. PICK i \in T : \A y \in T : i <= y
  <2> HIDE DEF T
  <2> QED
    BY <1>1, LeastElement
<1>3. i \in low..high /\ i \in E
  OBVIOUS
<1>4. ASSUME NEW j \in low..(i - 1), j \in E PROVE FALSE
  <2>1. j \in T
    BY <1>3, <1>4
  <2>2. i <= j
    BY <1>2, <2>1
  <2> QED
    BY <1>3, <2>2
<1> QED
  BY <1>3, <1>4

(* Where a string has a prefix, its base, and its end. *)
Begin(s) == CHOOSE i \in 1..Len(s) : s[i] \notin Blanks /\ \A j \in 1..(i - 1) : s[j] \in Blanks
Behind(s) == Begin(s) + (IF s[Begin(s)] \in {"+", "-"} THEN 1 ELSE 0)
Hex(s, base) == base \in {0, 16} /\ s[Behind(s)] = "0" /\ s[Behind(s) + 1] = "x"
Radix(s, base) == IF base # 0 THEN base ELSE IF Hex(s, base) THEN 16 ELSE IF s[Behind(s)] = "0" THEN 8 ELSE 10
Start(s, base) == Behind(s) + (IF Hex(s, base) THEN 2 ELSE 0)
Stop(s, base) == CHOOSE i \in Start(s, base)..Len(s) :
                     /\ ~(Figure(s[i]) < Radix(s, base))
                     /\ \A j \in Start(s, base)..(i - 1) : Figure(s[j]) < Radix(s, base)

(* The same, of the string with its Nul. *)
LEMMA MeaningIs ==
    ASSUME NEW s, IsSeq(s), NEW base \in {0} \cup 2..36, NEW t, t = s \o << Nul >>
    PROVE  /\ IsSeq(t) /\ Len(t) \in Nat /\ Len(t) >= 1 /\ DOMAIN t = 1..Len(t) /\ t[Len(t)] = Nul
           /\ Begin(t) \in 1..Len(t) /\ t[Begin(t)] \notin Blanks /\ \A j \in 1..(Begin(t) - 1) : t[j] \in Blanks
           /\ Behind(t) \in 1..Len(t) /\ Radix(t, base) \in 2..36
           /\ Start(t, base) \in 1..Len(t) /\ Stop(t, base) \in Start(t, base)..Len(t)
           /\ Figure(t[Stop(t, base)]) >= Radix(t, base)
           /\ \A j \in Start(t, base)..(Stop(t, base) - 1) : Figure(t[j]) < Radix(t, base)
<1>1. PICK L \in Nat : L = Len(t) /\ L >= 1 /\ DOMAIN t = 1..L /\ t[L] = Nul /\ IsSeq(t)
  <2>1. PICK S : s \in Seq(S)
    BY DEF IsSeq
  <2> DEFINE U == S \cup {Nul}
  <2>2. s \in Seq(U) /\ << Nul >> \in Seq(U) /\ Len(<< Nul >>) = 1 /\ << Nul >>[1] = Nul
    BY <2>1, SeqMonotonic
  <2>3. t \in Seq(U) /\ Len(t) = Len(s) + 1 /\ t[Len(s) + 1] = Nul /\ Len(s) \in Nat
    BY <2>2, ConcatProperties, LenProperties
  <2> HIDE DEF U
  <2>4. Len(t) \in Nat /\ DOMAIN t = 1..Len(t) /\ IsSeq(t)
    BY <2>3, LenProperties DEF IsSeq
  <2>5. Len(t) >= 1 /\ t[Len(t)] = Nul
    BY <2>3
  <2> QED
    BY <2>4, <2>5, Zenon
<1>2. t[L] \notin Blanks /\ Figure(t[L]) = 36
  BY <1>1, NulIsNoFigure
<1>3. PICK b \in 1..L : b = Begin(t) /\ t[b] \notin Blanks /\ \A j \in 1..(b - 1) : t[j] \in Blanks
  <2> DEFINE Q(i) == t[i] \notin Blanks /\ \A j \in 1..(i - 1) : t[j] \in Blanks
             E == {i \in 1..L : t[i] \notin Blanks}
  <2>1. 1 \in Nat /\ 1 <= L /\ L \in E
    BY <1>1, <1>2
  <2>2. PICK i \in 1..L : i \in E /\ \A j \in 1..(i - 1) : j \notin E
    <3> HIDE DEF E
    <3> QED
      BY <2>1, FirstPlace
  <2>3. Q(i)
    <3>1. \A j \in 1..(i - 1) : j \in 1..L
      OBVIOUS
    <3> QED
      BY <2>2, <3>1
  <2>4. Begin(t) = CHOOSE j \in 1..L : Q(j)
    BY <1>1 DEF Begin
  <2> HIDE DEF Q
  <2>5. Begin(t) \in 1..L /\ Q(Begin(t))
    BY <2>3, <2>4
  <2> QED
    BY <2>5 DEF Q
<1>4. PICK p \in 1..L : p = Behind(t) /\ p = b + (IF t[b] \in {"+", "-"} THEN 1 ELSE 0)
  <2>1. t[b] \in {"+", "-"} => b # L
    BY <1>1 DEF Nul
  <2>2. b + (IF t[b] \in {"+", "-"} THEN 1 ELSE 0) \in 1..L
    <3>1. CASE t[b] \in {"+", "-"}
      <4>1. b # L
        BY <2>1, <3>1
      <4>2. b + 1 \in 1..L
        BY ONLY b \in 1..L, L \in Nat, <4>1
      <4> QED
        BY <3>1, <4>2, Zenon
    <3>2. CASE t[b] \notin {"+", "-"}
      <4>1. b + 0 \in 1..L
        BY ONLY b \in 1..L, L \in Nat
      <4> QED
        BY <3>2, <4>1, Zenon
    <3> QED
      BY <3>1, <3>2
  <2> QED
    BY <1>3, <2>2 DEF Behind
<1>5. Hex(t, base) => p + 2 \in 1..L
  <2> SUFFICES ASSUME Hex(t, base) PROVE p + 2 \in 1..L
    OBVIOUS
  <2>1. t[p] = "0" /\ t[p + 1] = "x"
    BY <1>4 DEF Hex
  <2>2. p # L /\ p + 1 # L
    BY <1>1, <2>1 DEF Nul
  <2> QED
    BY <2>2
<1>6. PICK f \in 1..L : f = Start(t, base)
  <2>1. p + (IF Hex(t, base) THEN 2 ELSE 0) \in 1..L
    BY <1>5
  <2> QED
    BY <1>4, <2>1 DEF Start
<1>7. PICK r \in 2..36 : r = Radix(t, base)
  <2>1. Radix(t, base) \in 2..36
    BY DEF Radix
  <2> QED
    BY <2>1
<1>8. PICK e \in f..L : e = Stop(t, base) /\ Figure(t[e]) >= r /\ \A j \in f..(e - 1) : Figure(t[j]) < r
  <2> DEFINE Ends(i) == ~(Figure(t[i]) < r)
             Q(i) == Ends(i) /\ \A j \in f..(i - 1) : ~Ends(j)
             E == {i \in f..L : Ends(i)}
  <2>0. Ends(L)
    <3>1. ~(36 < r)
      BY ONLY r \in 2..36
    <3> QED
      BY <1>2, <3>1, Zenon
  <2>1. Stop(t, base) = CHOOSE j \in f..L : Q(j)
    BY <1>1, <1>6, <1>7 DEF Stop
  <2>2. ASSUME NEW i \in f..L, Ends(i) PROVE Figure(t[i]) >= r
    <3>1. PICK g \in 0..36 : g = Figure(t[i])
      BY FigureType
    <3>2. ~(g < r)
      BY <2>2, <3>1, Zenon
    <3>3. g >= r
      BY ONLY <3>2, g \in 0..36, r \in 2..36
    <3> QED
      BY <3>1, <3>3, Zenon
  <2> HIDE DEF Ends
  <2>3. f \in Nat /\ f <= L /\ L \in E
    BY <2>0
  <2>4. PICK i \in f..L : i \in E /\ \A j \in f..(i - 1) : j \notin E
    <3> HIDE DEF E
    <3> QED
      BY <2>3, FirstPlace
  <2>5. Q(i)
    <3>1. \A j \in f..(i - 1) : j \in f..L
      OBVIOUS
    <3> QED
      BY <2>4, <3>1
  <2> HIDE DEF Q
  <2>6. Stop(t, base) \in f..L /\ Q(Stop(t, base))
    BY <2>1, <2>5
  <2>7. PICK e \in f..L : e = Stop(t, base) /\ Q(e)
    BY <2>6
  <2>8. Figure(t[e]) >= r
    BY <2>2, <2>7 DEF Q
  <2>9. \A j \in f..(e - 1) : Figure(t[j]) < r
    BY <2>7 DEF Q, Ends
  <2> QED
    BY <2>7, <2>8, <2>9
<1> QED
  BY <1>1, <1>3, <1>4, <1>6, <1>7, <1>8

(* strtol, by the places of the string's parts. *)
LEMMA StrtolStops ==
    ASSUME NEW s, IsSeq(s), NEW base \in {0} \cup 2..36, NEW t, t = s \o << Nul >>
    PROVE  strtol(t, base) = ReadAs(t[Begin(t)] = "-",
                                    Summed(t, Stop(t, base), Radix(t, base))[Stop(t, base) - Start(t, base)], Stop(t, base))
<1>0. PICK L \in Nat, b \in 1..Len(t), p \in 1..Len(t), r \in 2..36, f \in 1..Len(t) :
          L = Len(t) /\ b = Begin(t) /\ p = Behind(t) /\ r = Radix(t, base) /\ f = Start(t, base)
  BY MeaningIs
<1>1. PICK e \in f..L :
          L = Len(t) /\ b = Begin(t) /\ p = Behind(t) /\ r = Radix(t, base) /\ f = Start(t, base) /\ e = Stop(t, base)
  BY <1>0, MeaningIs
<1>2. /\ L >= 1 /\ DOMAIN t = 1..L /\ t[L] = Nul
      /\ t[b] \notin Blanks /\ \A j \in 1..(b - 1) : t[j] \in Blanks
      /\ Figure(t[e]) >= r /\ \A j \in f..(e - 1) : Figure(t[j]) < r
  BY <1>1, MeaningIs
<1>3. Skip(t)[1] = b
  <2>1. t[L] \notin Blanks
    BY <1>2, NulIsNoFigure
  <2> QED
    BY <1>1, <1>2, <2>1, SkipIs
<1> DEFINE neg == t[b] = "-"
           next == Prefix(t, p, base).next
           D == Gathered(t, r, neg)
<1>4. p = IF t[b] \in {"+", "-"} THEN b + 1 ELSE b
  <2>1. p = b + (IF t[b] \in {"+", "-"} THEN 1 ELSE 0)
    BY <1>1 DEF Behind
  <2>2. b + 0 = b
    BY <1>1
  <2> QED
    BY <2>1, <2>2, Zenon
<1>5. /\ Prefix(t, p, base).base = r
      /\ Hex(t, base) => next = f
      /\ ~Hex(t, base) => f = p /\ next = IF base = 0 /\ t[p] = "0" THEN p + 1 ELSE p
  <2>1. Hex(t, base) <=> base \in {0, 16} /\ t[p] = "0" /\ t[p + 1] = "x"
    BY <1>1 DEF Hex
  <2>2. CASE Hex(t, base)
    <3>1. Prefix(t, p, base) = [next |-> p + 2, base |-> 16]
      BY <2>1, <2>2 DEF Prefix
    <3>2. f = p + 2
      BY <1>1, <2>2 DEF Start
    <3>3. r = 16
      BY <1>1, <2>1, <2>2 DEF Radix
    <3> QED
      BY <2>2, <3>1, <3>2, <3>3
  <2>3. CASE ~Hex(t, base)
    <3>1. f = p
      BY <1>1, <2>3 DEF Start
    <3>2. CASE base = 0 /\ t[p] = "0"
      <4>1. Prefix(t, p, base) = [next |-> p + 1, base |-> 8]
        BY <2>1, <2>3, <3>2 DEF Prefix
      <4>2. r = 8
        BY <1>1, <2>3, <3>2 DEF Radix
      <4> QED
        BY <2>3, <3>1, <3>2, <4>1, <4>2
    <3>3. CASE ~(base = 0 /\ t[p] = "0")
      <4>1. Prefix(t, p, base) = [next |-> p, base |-> IF base = 0 THEN 10 ELSE base]
        BY <2>1, <2>3, <3>3 DEF Prefix
      <4>2. r = IF base = 0 THEN 10 ELSE base
        BY <1>1, <2>3, <3>3 DEF Radix
      <4> QED
        BY <2>3, <3>1, <3>3, <4>1, <4>2
    <3> QED
      BY <3>2, <3>3
  <2> QED
    BY <2>2, <2>3
<1>6. strtol(t, base) = D[next][0]
  <2>1. strtol(t, base) = Gathered(t, Prefix(t, p, base).base, t[b] = "-")[Prefix(t, p, base).next][0]
    BY <1>3, <1>4, StrtolIs
  <2> QED
    BY <1>5, <2>1
<1>7. ReadsOn(D, t, L, r, neg)
  <2>1. neg \in BOOLEAN
    OBVIOUS
  <2> HIDE DEF neg
  <2> QED
    BY <1>2, <2>1, DigitsIs
<1> HIDE DEF D, next
<1>8. D[f][0] = ReadAs(neg, Summed(t, e, r)[e - f], e)
  <2>1. f \in 1..L /\ e \in f..L
    BY <1>1
  <2>2. PICK x \in BOOLEAN : x = neg
    OBVIOUS
  <2> HIDE DEF neg
  <2>6. PICK F : F = D
    OBVIOUS
  <2>3. ReadsOn(F, t, L, r, x)
    BY <1>7, <2>2, <2>6
  <2>4. AreFigures(F, t, L, r, x, f, e)
    BY <1>2, <2>1, <2>3 DEF AreFigures
  <2>5. F[f][0] = ReadAs(x, Summed(t, e, r)[e - f], e)
    BY <2>4, FiguresAre
  <2> QED
    BY <2>2, <2>5, <2>6
<1>9. D[next][0] = D[f][0]
  <2>1. CASE Hex(t, base) \/ ~(base = 0 /\ t[p] = "0")
    BY <1>5, <2>1
  <2>2. CASE ~Hex(t, base) /\ base = 0 /\ t[p] = "0"
    <3>1. f = p /\ next = p + 1
      BY <1>5, <2>2
    <3>2. Figure(t[p]) = 0
      <4>1. Lower[1] = "0" /\ 0 \in 0..35 /\ 0 + 1 = 1
        BY DEF Lower
      <4>2. Figure(Lower[0 + 1]) = 0
        BY <4>1, FigureOf
      <4>3. Lower[0 + 1] = "0"
        BY <4>1
      <4> QED
        BY <2>2, <4>2, <4>3
    <3>3. D[p][0] = D[p + 1][WrapSigned(0 * r + 0, Word)]
      <4>0. p \in 1..L
        BY <1>1
      <4>1. ~(0 >= r) /\ 0 \in Int
        BY ONLY r \in 2..36
      <4>2. D[p][0] = IF Figure(t[p]) >= r
                      THEN [value |-> IF neg THEN WrapSigned(-0, Word) ELSE 0, end |-> p]
                      ELSE D[p + 1][WrapSigned(0 * r + Figure(t[p]), Word)]
        BY <1>7, <4>0, <4>1, Zenon DEF ReadsOn
      <4> QED
        BY <3>2, <4>1, <4>2, Zenon
    <3>4. 0 * r + 0 = 0
      OBVIOUS
    <3> QED
      BY <3>1, <3>3, <3>4, WrapZero
  <2> QED
    BY <2>1, <2>2
<1> QED
  BY <1>1, <1>6, <1>8, <1>9

(* The sum is one of the figures alone. *)
LEMMA SameSum ==
    ASSUME NEW s, NEW t, NEW end, NEW radix \in Nat, NEW m \in Nat, \A k \in 1..m : s[end - k] = t[end - k]
    PROVE  Summed(s, end, radix)[m] = Summed(t, end, radix)[m]
<1> DEFINE x == Summed(s, end, radix)
           y == Summed(t, end, radix)
           T == {k \in Nat : k <= m => x[k] = y[k]}
<1>1. /\ x[0] = 0 /\ y[0] = 0
      /\ \A k \in Nat \ {0} : x[k] = x[k - 1] + Figure(s[end - k]) * Power(radix, k - 1)
      /\ \A k \in Nat \ {0} : y[k] = y[k - 1] + Figure(t[end - k]) * Power(radix, k - 1)
  BY SummedIs
<1> HIDE DEF x, y
<1>2. ASSUME NEW k \in Nat, \A j \in 0..(k - 1) : j \in T PROVE k \in T
  <2>1. CASE k = 0
    BY <1>1, <2>1
  <2>2. CASE k # 0
    <3> SUFFICES ASSUME k <= m PROVE x[k] = y[k]
      OBVIOUS
    <3>1. k - 1 \in 0..(k - 1) /\ k - 1 <= m /\ k \in Nat \ {0} /\ k \in 1..m
      BY <2>2
    <3>2. x[k - 1] = y[k - 1] /\ s[end - k] = t[end - k]
      BY <1>2, <3>1
    <3> QED
      BY <1>1, <3>1, <3>2
  <2> QED
    BY <2>1, <2>2
<1>3. \A k \in Nat : k \in T
  <2> HIDE DEF T
  <2> QED
    BY <1>2, InductionOver
<1> QED
  BY <1>3 DEF x, y

(* strtol returns the number that its text stands for, and where it ends, unless
   it has to know the prefix 0X (string.c, strtol). *)
THEOREM StrtolMeans ==
    ASSUME NEW s, IsSeq(s), NEW base \in {0} \cup 2..36, base = 16 => NoCapitalPrefix(s)
    PROVE  strtol(s \o << Nul >>, base) = Meaning(s, base)
<1> DEFINE t == s \o << Nul >>
           At(i)  == IF i \in DOMAIN s THEN s[i] ELSE Nul
           begin  == CHOOSE i \in 1..(Len(s) + 1) : At(i) \notin Blanks /\ \A j \in 1..(i - 1) : s[j] \in Blanks
           signed == begin + (IF At(begin) \in {"+", "-"} THEN 1 ELSE 0)
           hex    == /\ base \in {0, 16} /\ At(signed) = "0"
                     /\ At(signed + 1) = "x" \/ (base = 16 /\ At(signed + 1) = "X")
           radix  == IF base # 0 THEN base ELSE IF hex THEN 16 ELSE IF At(signed) = "0" THEN 8 ELSE 10
           first  == signed + (IF hex THEN 2 ELSE 0)
           end    == CHOOSE i \in first..(Len(s) + 1) :
                         ~(Figure(At(i)) < radix) /\ \A j \in first..(i - 1) : Figure(s[j]) < radix
           total  == Summed(s, end, radix)[end - first]
<1>1. Meaning(s, base) = ReadAs(At(begin) = "-", total, end)
  BY DEF Meaning, Summed, ReadAs
<1>2. PICK n \in Nat : n = Len(s) /\ Len(t) = n + 1 /\ DOMAIN s = 1..n /\ t[n + 1] = Nul /\ \A i \in 1..n : t[i] = s[i]
  <2>1. PICK S : s \in Seq(S)
    BY DEF IsSeq
  <2> DEFINE U == S \cup {Nul}
  <2>2. s \in Seq(U) /\ << Nul >> \in Seq(U) /\ Len(<< Nul >>) = 1 /\ << Nul >>[1] = Nul
    BY <2>1, SeqMonotonic
  <2>3. Len(t) = Len(s) + 1 /\ t[Len(s) + 1] = Nul /\ Len(s) \in Nat /\ DOMAIN s = 1..Len(s)
    BY <2>2, ConcatProperties, LenProperties
  <2>4. \A i \in 1..Len(s) : t[i] = s[i]
    BY <2>2, ConcatProperties, LenProperties
  <2> QED
    BY <2>3, <2>4, Zenon
<1>0. PICK b \in 1..(n + 1), p \in 1..(n + 1), r \in 2..36, f \in 1..(n + 1) :
          b = Begin(t) /\ p = Behind(t) /\ r = Radix(t, base) /\ f = Start(t, base)
  <2> HIDE DEF t
  <2> QED
    BY <1>2, MeaningIs DEF t
<1>3. PICK e \in f..(n + 1) :
          b = Begin(t) /\ p = Behind(t) /\ r = Radix(t, base) /\ f = Start(t, base) /\ e = Stop(t, base)
  <2> HIDE DEF t
  <2> QED
    BY <1>0, <1>2, MeaningIs DEF t
<1>4. /\ t[b] \notin Blanks /\ \A j \in 1..(b - 1) : t[j] \in Blanks
      /\ Figure(t[e]) >= r /\ \A j \in f..(e - 1) : Figure(t[j]) < r
  <2> HIDE DEF t
  <2> QED
    BY <1>3, MeaningIs DEF t
<1>5. strtol(t, base) = ReadAs(t[b] = "-", Summed(t, e, r)[e - f], e)
  <2>1. \A x : x = t => strtol(x, base) = ReadAs(x[Begin(x)] = "-",
                Summed(x, Stop(x, base), Radix(x, base))[Stop(x, base) - Start(x, base)], Stop(x, base))
    BY StrtolStops
  <2> HIDE DEF t
  <2> QED
    BY <1>3, <2>1
<1> HIDE DEF t
<1>6. /\ \A i \in 1..(n + 1) : At(i) = t[i]
      /\ \A i \in 1..n : s[i] = t[i]
      /\ At(n + 2) = Nul
  BY <1>2
<1> HIDE DEF At
<1>7. begin = b
  <2> DEFINE Q(i) == At(i) \notin Blanks /\ \A j \in 1..(i - 1) : s[j] \in Blanks
  <2>1. Q(b)
    BY <1>3, <1>4, <1>6
  <2>2. ASSUME NEW i \in 1..(n + 1), Q(i) PROVE i = b
    <3>1. ~(i < b)
      BY <1>3, <1>4, <1>6, <2>2
    <3>2. ~(b < i)
      BY <1>3, <1>4, <1>6, <2>2
    <3> QED
      BY <1>3, <3>1, <3>2
  <2>3. begin = CHOOSE i \in 1..(n + 1) : Q(i)
    BY <1>2
  <2> HIDE DEF Q, begin
  <2> QED
    BY <1>3, <2>1, <2>2, <2>3
<1> HIDE DEF begin
<1>8. signed = p
  <2>1. p = b + (IF t[b] \in {"+", "-"} THEN 1 ELSE 0)
    BY <1>3 DEF Behind
  <2>2. At(b) = t[b]
    BY <1>6
  <2> QED
    BY <1>7, <2>1, <2>2
<1> HIDE DEF signed
<1>9. hex <=> Hex(t, base)
  <2>1. Hex(t, base) <=> base \in {0, 16} /\ t[p] = "0" /\ t[p + 1] = "x"
    BY <1>3 DEF Hex
  <2>2. CASE p = n + 1
    <3>1. t[p] # "0" /\ At(p) # "0"
      BY <1>2, <1>6, <2>2 DEF Nul
    <3> QED
      BY <1>8, <2>1, <3>1
  <2>3. CASE p # n + 1
    <3>0. p \in 1..n /\ p + 1 \in 1..(n + 1)
      BY <1>3, <2>3
    <3>1. At(p) = t[p] /\ At(p + 1) = t[p + 1]
      BY <1>6, <3>0
    <3>2. ~(base = 16 /\ At(p) = "0" /\ At(p + 1) = "X")
      <4> SUFFICES ASSUME base = 16, At(p) = "0", At(p + 1) = "X" PROVE FALSE
        OBVIOUS
      <4>1. t[p + 1] # Nul
        BY <3>1 DEF Nul
      <4>2. p + 1 # n + 1
        BY <1>2, <4>1
      <4>3. p \in 1..(n - 1) /\ p + 1 \in 1..n
        BY <3>0, <4>2
      <4>4. s[p] = "0" /\ s[p + 1] = "X"
        BY <1>6, <3>1, <4>3
      <4> QED
        BY <1>2, <4>3, <4>4 DEF NoCapitalPrefix
    <3> QED
      BY <1>8, <2>1, <3>1, <3>2
  <2> QED
    BY <2>2, <2>3
<1> HIDE DEF hex
<1>10. radix = r
  <2>1. At(p) = t[p]
    BY <1>6
  <2> QED
    BY <1>3, <1>8, <1>9, <2>1 DEF Radix
<1> HIDE DEF radix
<1>11. first = f
  BY <1>3, <1>8, <1>9 DEF Start
<1> HIDE DEF first
<1>12. end = e
  <2> DEFINE Q(i) == ~(Figure(At(i)) < r) /\ \A j \in f..(i - 1) : Figure(s[j]) < r
  <2>0. ASSUME NEW i, Figure(i) >= r PROVE ~(Figure(i) < r)
    <3>1. PICK g \in 0..36 : g = Figure(i)
      BY FigureType
    <3>2. g >= r
      BY <2>0, <3>1, Zenon
    <3>3. ~(g < r)
      BY ONLY <3>2, g \in 0..36, r \in 2..36
    <3> QED
      BY <3>1, <3>3, Zenon
  <2>1. Q(e)
    <3>1. e \in 1..(n + 1) /\ \A j \in f..(e - 1) : j \in 1..n
      BY <1>3
    <3>2. At(e) = t[e] /\ ~(Figure(t[e]) < r)
      BY <1>4, <1>6, <2>0, <3>1
    <3> QED
      BY <1>4, <1>6, <3>1, <3>2
  <2>2. ASSUME NEW i \in f..(n + 1), Q(i) PROVE i = e
    <3>1. ASSUME i < e PROVE FALSE
      <4>1. i \in f..(e - 1) /\ i \in 1..(n + 1)
        BY <3>1
      <4>2. Figure(t[i]) < r /\ At(i) = t[i]
        BY <1>4, <1>6, <4>1
      <4> QED
        BY <2>2, <4>2
    <3>2. ASSUME e < i PROVE FALSE
      <4>1. e \in f..(i - 1) /\ e \in 1..n
        BY <3>2
      <4>2. Figure(s[e]) < r /\ s[e] = t[e]
        BY <1>6, <2>2, <4>1
      <4>3. ~(Figure(t[e]) < r)
        BY <1>4, <2>0
      <4> QED
        BY <4>2, <4>3
    <3> QED
      BY <1>3, <3>1, <3>2
  <2>3. end = CHOOSE i \in f..(n + 1) : Q(i)
    BY <1>2, <1>10, <1>11
  <2> HIDE DEF Q, end
  <2> QED
    BY <1>3, <2>1, <2>2, <2>3
<1> HIDE DEF end
<1>13. Summed(s, e, r)[e - f] = Summed(t, e, r)[e - f]
  <2>1. PICK m \in Nat : m = e - f
    BY <1>3
  <2>2. \A k \in 1..m : s[e - k] = t[e - k]
    <3>1. \A k \in 1..m : e - k \in 1..n
      BY <1>3, <2>1
    <3> QED
      BY <1>6, <3>1
  <2>3. r \in Nat
    OBVIOUS
  <2> QED
    BY <2>1, <2>2, <2>3, SameSum
<1> QED
  BY <1>1, <1>5, <1>6, <1>7, <1>10, <1>11, <1>12, <1>13 DEF t

(* A text and the Nul, and a text in two parts and the Nul. *)
LEMMA EndedIs ==
    ASSUME NEW x, IsSeq(x)
    PROVE  /\ IsSeq(x \o << Nul >>) /\ Len(x \o << Nul >>) = Len(x) + 1
           /\ \A y : IsSeq(y) => (y \o x) \o << Nul >> = y \o (x \o << Nul >>)
<1>1. PICK S : x \in Seq(S)
  BY DEF IsSeq
<1>2. << Nul >> \in Seq({Nul}) /\ Len(<< Nul >>) = 1
  OBVIOUS
<1>3. IsSeq(x \o << Nul >>) /\ Len(x \o << Nul >>) = Len(x) + 1
  <2>1. IsSeq(<< Nul >>)
    BY <1>2 DEF IsSeq
  <2> QED
    BY <1>2, <2>1, JoinIs DEF Joined
<1>4. ASSUME NEW y, IsSeq(y) PROVE (y \o x) \o << Nul >> = y \o (x \o << Nul >>)
  <2>1. PICK U : y \in Seq(U)
    BY <1>4 DEF IsSeq
  <2> DEFINE T == (S \cup U) \cup {Nul}
  <2>2. S \subseteq T /\ U \subseteq T /\ {Nul} \subseteq T
    OBVIOUS
  <2> HIDE DEF T
  <2>3. x \in Seq(T) /\ y \in Seq(T) /\ << Nul >> \in Seq(T)
    BY <1>1, <1>2, <2>1, <2>2, SeqMonotonic
  <2> QED
    BY <2>3, ConcatAssociative
<1> QED
  BY <1>3, <1>4

(* A field of at most one character leaves no room for padding. *)
LEMMA NarrowIs ==
    ASSUME NEW d, LegalDirective(d), Width(d) <= 1, NEW base \in 2..16, NEW n \in Nat, NEW c, NEW e
    PROVE  printnum(n, base, Columns(d), c) = printnum(n, base, Columns(d), e)
<1>1. Columns(d) \in Int /\ Columns(d) <= 1
  BY StarsAre DEF Columns
<1>2. /\ printnum(n, base, Columns(d), c) = Repeated(c, Columns(d) - Len(Numeral(n, base))) \o Numeral(n, base)
      /\ printnum(n, base, Columns(d), e) = Repeated(e, Columns(d) - Len(Numeral(n, base))) \o Numeral(n, base)
      /\ IsNumeral(Numeral(n, base), n, base)
  BY <1>1, PrintnumPads
<1>3. PICK m \in Nat : m = Len(Numeral(n, base)) /\ m >= 1
  BY <1>2, LenProperties DEF IsNumeral
<1>4. PICK r \in Int : r = Columns(d) - m /\ r <= 0
  BY <1>1, <1>3
<1>5. Repeated(c, r) = << >> /\ Repeated(e, r) = << >>
  BY <1>4, NoPadding
<1> QED
  BY <1>2, <1>3, <1>4, <1>5

(* strtol reads x, which is not terminated yet, as n and to its end. *)
IsReadAs(x, base, n) ==
    strtol(x \o << Nul >>, base) = [value |-> WrapSigned(n, Word), end |-> Len(x) + 1]

(* It reads the figures of a number behind its padding. *)
LEMMA PlainIsRead ==
    ASSUME NEW base \in 2..16, NEW n \in Nat, NEW columns \in Int, NEW c \in {Blank, "0"}
    PROVE  IsReadAs(printnum(n, base, columns, c), base, n)
<1> DEFINE y == printnum(n, base, columns, c)
<1>0. PICK neg \in BOOLEAN : ~neg
  OBVIOUS
<1>1. IsSeq(y)
  BY PrintnumIsSeq
<1>2. PICK e : e = y \o << Nul >> /\ IsSeq(e) /\ Len(e) = Len(y) + 1
  BY <1>1, EndedIs
<1>3. IsReadBack(neg, n, base, columns, c)
  <2>1. c \in {" ", "0"} /\ (neg => c = "0")
    BY <1>0, Zenon DEF Blank
  <2> QED
    BY <2>1, PrintedIsRead, Zenon
<1>4. Printed(neg, n, base, columns, c) = e
  <2>1. Sign(neg) = << >>
    BY <1>0 DEF Sign
  <2>2. Printed(neg, n, base, columns, c) = << >> \o e
    BY <1>2, <2>1, Zenon DEF Printed
  <2> QED
    BY <1>2, <2>2, MarksAre
<1>5. (IF neg THEN -n ELSE n) = n
  BY <1>0
<1> QED
  BY <1>2, <1>3, <1>4, <1>5, Zenon DEF IsReadBack, IsReadAs


(* It reads the figures of a negative number behind its sign and zeros. *)
LEMMA NegativeIsRead ==
    ASSUME NEW n \in Nat, NEW columns \in Int
    PROVE  IsReadAs(<< "-" >> \o printnum(n, 10, columns, "0"), 10, -n)
<1> DEFINE y == printnum(n, 10, columns, "0")
<1>0. PICK neg \in BOOLEAN : neg
  OBVIOUS
<1>1. IsSeq(y)
  <2>1. 10 \in 2..16
    OBVIOUS
  <2> QED
    BY <2>1, PrintnumIsSeq
<1>2. PICK x : x = << "-" >> \o y
  OBVIOUS
<1>3. IsSeq(x) /\ x \o << Nul >> = << "-" >> \o (y \o << Nul >>)
  BY <1>1, <1>2, EndedIs, JoinIs, MarksAre DEF Joined
<1>4. Len(x \o << Nul >>) = Len(x) + 1
  BY <1>3, EndedIs
<1>5. IsReadBack(neg, n, 10, columns, "0")
  <2>1. "0" \in {" ", "0"} /\ (neg => "0" = "0") /\ 10 \in 2..16
    OBVIOUS
  <2> QED
    BY <2>1, PrintedIsRead, Zenon
<1>6. Printed(neg, n, 10, columns, "0") = x \o << Nul >>
  <2>1. Sign(neg) = << "-" >>
    BY <1>0 DEF Sign
  <2> QED
    BY <1>3, <2>1, Zenon DEF Printed
<1>7. (IF neg THEN -n ELSE n) = -n
  BY <1>0
<1> QED
  BY <1>2, <1>4, <1>5, <1>6, <1>7, Zenon DEF IsReadBack, IsReadAs

(* It reads the figures of a pointer behind its prefix and zeros. *)
LEMMA PrefixedIsRead ==
    ASSUME NEW n \in Nat, NEW columns \in Int
    PROVE  IsReadAs(<< "0", "x" >> \o printnum(n, 16, columns, "0"), 16, n)
<1> DEFINE y == printnum(n, 16, columns, "0")
<1>1. IsSeq(y)
  <2>1. 16 \in 2..16
    OBVIOUS
  <2> QED
    BY <2>1, PrintnumIsSeq
<1>2. PICK x : x = << "0", "x" >> \o y
  OBVIOUS
<1>3. IsSeq(x) /\ x \o << Nul >> = << "0", "x" >> \o (y \o << Nul >>)
  BY <1>1, <1>2, EndedIs, JoinIs, MarksAre DEF Joined
<1>4. Len(x \o << Nul >>) = Len(x) + 1
  BY <1>3, EndedIs
<1>5. Pointed(n, columns) = x \o << Nul >>
  <2>1. Lower[1] = "0"
    BY DEF Lower
  <2> QED
    BY <1>3, <2>1, Zenon DEF Pointed, PointerMark
<1> QED
  BY <1>2, <1>4, <1>5, PointerIsRead, Zenon DEF IsReadAs

(* What a long keeps of a directive's number, however it was taken. *)
LEMMA WordKept ==
    ASSUME NEW d, LegalDirective(d)
    PROVE  /\ WrapSigned(Rewrapped(d), Word) = WrapSigned(d.number, Word)
           /\ WrapSigned(Unwrapped(d), Word) = WrapSigned(d.number, Word)
           /\ WrapSigned(Wrap(d.number, Word), Word) = WrapSigned(d.number, Word)
<1>1. Unwrapped(d) \in Int /\ d.number \in Int
  BY NumberIs
<1>2. PICK m \in Int : Rewrapped(d) = Unwrapped(d) + Word * m
  BY NumberIs
<1>3. PICK k \in Int : d.number = Unwrapped(d) + Word * k
  BY NumberIs
<1>4. PICK w \in Nat : w = Word /\ w > 0
  BY WordAssumption
<1>5. PICK x \in Int : x = d.number
  BY <1>1
<1>6. PICK q \in Int, r \in Int : r = (x % w) /\ x = r + w * q
  <2>1. x = w * (x \div w) + (x % w) /\ (x \div w) \in Int /\ (x % w) \in Int
    BY <1>4
  <2>2. PICK q \in Int, r \in Int : q = x \div w /\ r = (x % w)
    BY <2>1
  <2>3. x = w * q + r
    BY <2>1, <2>2, Zenon
  <2>4. x = r + w * q
    <3>1. w * q \in Int
      OBVIOUS
    <3> QED
      BY <2>3, <3>1
  <2> QED
    BY <2>2, <2>4, Zenon
<1>7. WrapSigned(Unwrapped(d) + Word * m, Word) = WrapSigned(Unwrapped(d), Word)
  BY <1>1, WrapShift
<1>8. WrapSigned(Unwrapped(d) + Word * k, Word) = WrapSigned(Unwrapped(d), Word)
  BY <1>1, WrapShift
<1>9. WrapSigned(r + Word * q, Word) = WrapSigned(r, Word)
  BY <1>6, WrapShift
<1>10. Wrap(d.number, Word) = r
  BY <1>4, <1>5, <1>6 DEF Wrap
<1> QED
  BY <1>2, <1>3, <1>4, <1>5, <1>6, <1>7, <1>8, <1>9, <1>10, Zenon

(* The padding is blanks, minus signs or zeros: the last of the flags that tell it. *)
LEMMA PadIs ==
    ASSUME NEW d, LegalDirective(d)
    PROVE  Pad(d) \in {Blank, "-", "0"} /\ (Pad(d) = "-" => Contains(d.flags, "-"))
<1>1. PICK n \in Nat : n = Len(d.flags) /\ DOMAIN d.flags = 1..n
  <2>1. d.flags \in Seq({"-", "0", "#"})
    BY DEF LegalDirective, DirectiveType
  <2> QED
    BY <2>1, LenProperties
<1> DEFINE pads == {i \in DOMAIN d.flags : d.flags[i] \in {"-", "0"}}
           last == CHOOSE i \in pads : \A j \in pads : j <= i
           back == {n - i : i \in pads}
<1>2. Pad(d) = IF pads = {} THEN Blank ELSE d.flags[last]
  BY Zenon DEF Pad, Blank
<1>3. CASE pads = {}
  BY <1>2, <1>3 DEF Blank
<1>4. CASE pads # {}
  <2>1. back \subseteq Nat /\ back # {}
    <3>1. \A i \in pads : i \in 1..n /\ n - i \in Nat
      BY <1>1
    <3> HIDE DEF pads
    <3> QED
      BY <1>4, <3>1
  <2>2. PICK x \in back : \A y \in back : x <= y
    <3> HIDE DEF back
    <3> QED
      BY <2>1, LeastElement
  <2>3. PICK i \in pads : x = n - i
    OBVIOUS
  <2>4. \A j \in pads : j <= i
    <3> TAKE j \in pads
    <3>1. n - j \in back /\ i \in 1..n /\ j \in 1..n
      BY <1>1
    <3>2. n - i <= n - j
      BY <2>2, <2>3, <3>1
    <3> QED
      BY <3>1, <3>2
  <2>5. last \in pads
    <3>1. \E l \in pads : \A j \in pads : j <= l
      BY <2>4
    <3> HIDE DEF pads
    <3> QED
      BY <3>1, Zenon
  <2>6. d.flags[last] \in {"-", "0"}
    <3> HIDE DEF last
    <3> QED
      BY <2>5
  <2>7. Contains(d.flags, d.flags[last])
    <3>1. last \in 1..n
      <4> HIDE DEF last
      <4> QED
        BY <1>1, <2>5
    <3> HIDE DEF last
    <3> QED
      BY <1>1, <3>1 DEF Contains
  <2>8. Pad(d) = d.flags[last]
    BY <1>2, <1>4
  <2> HIDE DEF last
  <2> QED
    BY <2>6, <2>7, <2>8
<1> QED
  BY <1>3, <1>4

(* A field that has zeros for padding, or none at all. *)
LEMMA ZeroFilled ==
    ASSUME NEW d, LegalDirective(d), Pad(d) # "-", Pad(d) = Blank => Width(d) <= 1, NEW base \in 2..16, NEW n \in Nat
    PROVE  printnum(n, base, Columns(d), Pad(d)) = printnum(n, base, Columns(d), "0")
<1>1. CASE Pad(d) = Blank
  BY <1>1, NarrowIs
<1>2. CASE Pad(d) # Blank
  <2>1. Pad(d) = "0"
    BY <1>2, PadIs
  <2> QED
    BY <2>1
<1> QED
  BY <1>1, <1>2

(* strtol, asked for a directive's base, reads the text of a directive that
   prints a number as the number that was given, as far as a long holds it, and
   to its end - unless a sign or a prefix comes behind padding that strtol does
   not pass, or the padding is minus signs. *)
THEOREM NumbersAreRead ==
    ASSUME NEW d, LegalDirective(d), Conversion(d) \in Numeric, Pad(d) # "-",
           Pad(d) = Blank /\ DirectiveText(d)[1] \in {"-", "0"} => Width(d) <= 1
    PROVE  IsReadAs(DirectiveText(d), Base(Conversion(d)), d.number)
<1>1. Columns(d) \in Int /\ Pad(d) \in {Blank, "0"}
  BY StarsAre, PadIs
<1>2. /\ Unwrapped(d) \in Nat /\ Rewrapped(d) \in Int /\ Wrap(d.number, Word) \in Nat
      /\ (Rewrapped(d) < 0 => -Rewrapped(d) \in 0..((Word * Word) - 1))
      /\ (~(Rewrapped(d) < 0) => Rewrapped(d) = Unwrapped(d))
  BY NumberIs
<1>3. PICK ww \in Nat, u \in Nat, y \in Int, n \in Nat :
          ww = Word * Word /\ u = Unwrapped(d) /\ y = Rewrapped(d) /\ n = Wrap(d.number, Word)
  BY <1>2, WordAssumption
<1>4. WrapSigned(y, Word) = WrapSigned(d.number, Word) /\ WrapSigned(u, Word) = WrapSigned(d.number, Word)
      /\ WrapSigned(n, Word) = WrapSigned(d.number, Word)
  BY <1>3, WordKept
<1>5. ASSUME NEW x, NEW base, NEW m, IsReadAs(x, base, m), WrapSigned(m, Word) = WrapSigned(d.number, Word)
      PROVE  IsReadAs(x, base, d.number)
  BY <1>5, Zenon DEF IsReadAs
<1>6. CASE Conversion(d) = "d" /\ y < 0
  <2>1. -y \in Nat /\ -y \in 0..(ww - 1) /\ -(-y) = y
    BY <1>2, <1>3, <1>6
  <2>2. PICK k \in Nat : k = -y /\ -k = y /\ k \in 0..(ww - 1)
    BY <2>1
  <2>3. Wrap(k, ww) = k
    BY <2>2, SmallRest DEF Wrap
  <2>4. DirectiveText(d) = << "-" >> \o printnum(k, 10, Columns(d), Pad(d))
    <3>1. DirectiveText(d) = SignedPrinted(y, Columns(d), Pad(d))
      BY <1>3, <1>6, NumbersPrinted
    <3> QED
      BY <1>3, <1>6, <2>2, <2>3, <3>1 DEF SignedPrinted
  <2>5. 10 \in 2..16 /\ Base(Conversion(d)) = 10
    BY <1>6 DEF Base
  <2>6. DirectiveText(d)[1] = "-"
    <3>1. IsSeq(printnum(k, 10, Columns(d), Pad(d)))
      BY <1>1, <2>5, PrintnumIsSeq
    <3>2. Joined(<< "-" >>, printnum(k, 10, Columns(d), Pad(d)))
      BY <3>1, JoinIs, MarksAre
    <3>3. 1 \in 1..Len(<< "-" >>) /\ << "-" >>[1] = "-"
      BY MarksAre
    <3> QED
      BY <2>4, <3>2, <3>3 DEF Joined
  <2>7. printnum(k, 10, Columns(d), Pad(d)) = printnum(k, 10, Columns(d), "0")
    <3>1. Pad(d) = Blank => Width(d) <= 1
      BY <2>6
    <3> QED
      BY <2>5, <3>1, ZeroFilled
  <2>8. IsReadAs(DirectiveText(d), 10, y)
    <3>1. IsReadAs(<< "-" >> \o printnum(k, 10, Columns(d), "0"), 10, -k)
      BY <1>1, NegativeIsRead
    <3> QED
      BY <2>2, <2>4, <2>7, <3>1, Zenon
  <2> QED
    BY <1>4, <1>5, <2>5, <2>8, Zenon
<1>7. CASE Conversion(d) = "d" /\ ~(y < 0)
  <2>1. y = u /\ Wrap(u, ww) = u
    <3>1. y = u /\ u \in 0..(ww - 1)
      <4>1. Unwrapped(d) < Word * Word
        BY NumberIs
      <4> QED
        BY <1>2, <1>3, <1>7, <4>1
    <3> QED
      BY <3>1, SmallRest DEF Wrap
  <2>2. 10 \in 2..16 /\ Base(Conversion(d)) = 10
    BY <1>7 DEF Base
  <2>3. DirectiveText(d) = printnum(u, 10, Columns(d), Pad(d))
    <3>1. DirectiveText(d) = SignedPrinted(y, Columns(d), Pad(d))
      BY <1>3, <1>7, NumbersPrinted
    <3>2. DirectiveText(d) = << >> \o printnum(u, 10, Columns(d), Pad(d))
      BY <1>3, <1>7, <2>1, <3>1 DEF SignedPrinted
    <3>3. IsSeq(printnum(u, 10, Columns(d), Pad(d)))
      BY <1>1, <2>2, PrintnumIsSeq
    <3> QED
      BY <3>2, <3>3, MarksAre
  <2>4. IsReadAs(DirectiveText(d), 10, u)
    BY <1>1, <2>2, <2>3, PlainIsRead
  <2> QED
    BY <1>4, <1>5, <2>2, <2>4, Zenon
<1>8. CASE Conversion(d) \in {"u", "o", "x"}
  <2>1. PICK base \in 2..16 : base = Base(Conversion(d))
    BY DEF Base
  <2>2. DirectiveText(d) = printnum(u, base, Columns(d), Pad(d))
    BY <1>3, <1>8, <2>1, NumbersPrinted
  <2>3. IsReadAs(DirectiveText(d), base, u)
    BY <1>1, <2>2, PlainIsRead
  <2> QED
    BY <1>4, <1>5, <2>1, <2>3, Zenon
<1>9. CASE Conversion(d) = "p"
  <2>1. 16 \in 2..16 /\ Base(Conversion(d)) = 16
    BY <1>9 DEF Base
  <2>2. DirectiveText(d) = << "0", "x" >> \o printnum(n, 16, Columns(d), Pad(d))
    BY <1>3, <1>9, NumbersPrinted
  <2>3. DirectiveText(d)[1] = "0"
    <3>1. IsSeq(printnum(n, 16, Columns(d), Pad(d)))
      BY <1>1, <2>1, PrintnumIsSeq
    <3>2. Joined(<< "0", "x" >>, printnum(n, 16, Columns(d), Pad(d)))
      BY <3>1, JoinIs, MarksAre
    <3>3. 1 \in 1..Len(<< "0", "x" >>) /\ << "0", "x" >>[1] = "0"
      OBVIOUS
    <3> QED
      BY <2>2, <3>2, <3>3 DEF Joined
  <2>4. printnum(n, 16, Columns(d), Pad(d)) = printnum(n, 16, Columns(d), "0")
    <3>1. Pad(d) = Blank => Width(d) <= 1
      BY <2>3
    <3> QED
      BY <2>1, <3>1, ZeroFilled
  <2>5. IsReadAs(DirectiveText(d), 16, n)
    <3>1. IsReadAs(<< "0", "x" >> \o printnum(n, 16, Columns(d), "0"), 16, n)
      BY <1>1, PrefixedIsRead
    <3> QED
      BY <2>2, <2>4, <3>1, Zenon
  <2> QED
    BY <1>4, <1>5, <2>1, <2>5, Zenon
<1> QED
  BY <1>6, <1>7, <1>8, <1>9 DEF Numeric

-----------------------------------------------------------------------------
(* The parts of a call. *)
(* A call's parts: the text before each directive and behind the last one, and
   where these, the directives' arguments and their texts lie. *)
Count(c)        == Len(c.directives)
Before(c, k)    == IF k = Count(c) + 1 THEN c.after ELSE c.directives[k].before
SpellingsOf(c)  == [k \in DOMAIN c.directives |-> c.directives[k].before \o Written(c.directives[k])]
ArgumentsOf(c)  == [k \in DOMAIN c.directives |-> Arguments(c.directives[k])]
TextsOf(c)      == [k \in DOMAIN c.directives |-> c.directives[k].before \o DirectivePrinted(c.directives[k])]
Printout(c)     == FlattenSeq(TextsOf(c)) \o c.after
Character(c, i) == (Spelled(c) \o << Nul >>)[i]
Argument(c, i)  == FlattenSeq(ArgumentsOf(c))[i]
FmtAt(c) == CHOOSE off : Layout(off, SpellingsOf(c), Count(c))
ArgAt(c) == CHOOSE off : Layout(off, ArgumentsOf(c), Count(c))
TxtAt(c) == CHOOSE off : Layout(off, TextsOf(c), Count(c))
Place(c, k) == FmtAt(c)[k - 1] + Len(Before(c, k)) + 1
Said(c, k)  == TxtAt(c)[k - 1] + Len(Before(c, k))
FormatCall(c) == c \in Calls /\ c.function \in {"vsnprintf", "vcprintf"}

(* What a call is made of, by the assumption on the calls. *)
LEMMA LegalCall ==
    ASSUME NEW c \in Calls
    PROVE  /\ Count(c) \in Nat /\ DOMAIN c.directives = 1..Count(c) /\ IsSeq(c.after) /\ Len(c.after) \in Nat
           /\ \A i \in 1..Len(c.after) : c.after[i] # Nul
           /\ c.size \in Nat /\ c.size < Room /\ Room \in Nat /\ c.base \in {0} \cup 2..36
           /\ c.function \in {"vsnprintf", "vcprintf", "cputs", "strtol"}
           /\ FormatCall(c) => \A i \in 1..Len(c.after) : c.after[i] # "%"
           /\ ~FormatCall(c) => Count(c) = 0
           /\ \A k \in 1..Count(c) :
                  /\ LegalDirective(c.directives[k])
                  /\ c.directives[k].conv = << >> => k = Count(c) /\ Len(c.after) = 0
<1>1. c \in CallType /\ c.size < Room /\ Room \in Nat /\ Without(c.after, Nul)
  BY CallsAssumption
<1>2. /\ c.directives \in Seq(DirectiveType) /\ c.after \in Seq(STRING) /\ c.base \in {0} \cup 2..36
      /\ c.size \in 0..Room /\ c.function \in {"vsnprintf", "vcprintf", "cputs", "strtol"}
  BY <1>1 DEF CallType
<1>3. PICK n \in Nat : n = Count(c) /\ DOMAIN c.directives = 1..n
  BY <1>2, LenProperties DEF Count
<1>4. PICK m \in Nat : m = Len(c.after) /\ DOMAIN c.after = 1..m
  BY <1>2, LenProperties
<1>5. IF c.function \in {"cputs", "strtol"} THEN c.directives = << >> ELSE Without(c.after, "%")
  BY CallsAssumption
<1>6. \A k \in 1..n : LegalDirective(c.directives[k]) /\ (c.directives[k].conv = << >> => k = n /\ c.after = << >>)
  BY <1>3, CallsAssumption DEF Count
<1>7. IsSeq(c.after)
  BY <1>2 DEF IsSeq
<1>8. FormatCall(c) => \A i \in 1..m : c.after[i] # "%"
  <2>1. FormatCall(c) => c.function \notin {"cputs", "strtol"}
    BY DEF FormatCall
  <2> QED
    BY <1>4, <1>5, <2>1 DEF Without
<1>9. ~FormatCall(c) => n = 0
  <2> SUFFICES ASSUME ~FormatCall(c) PROVE n = 0
    OBVIOUS
  <2>1. c.function \in {"cputs", "strtol"}
    BY <1>2 DEF FormatCall
  <2>2. c.directives = << >>
    BY <1>5, <2>1
  <2> QED
    BY <1>3, <2>2 DEF Count
<1>10. c.after = << >> => m = 0
  BY <1>4
<1> QED
  BY <1>1, <1>2, <1>3, <1>4, <1>6, <1>7, <1>8, <1>9, <1>10 DEF Without

(* What a call prints is the text that it stands for, if its flags keep to what the
   comments say. *)
LEMMA PrintoutIsText ==
    ASSUME NEW c \in Calls, AsDocumented(c)
    PROVE  Printout(c) = Text(c)
<1> DEFINE T == [k \in DOMAIN c.directives |-> c.directives[k].before \o DirectiveText(c.directives[k])]
<1>1. \A k \in DOMAIN c.directives : DirectivePrinted(c.directives[k]) = DirectiveText(c.directives[k])
  <2> SUFFICES ASSUME NEW k \in DOMAIN c.directives
               PROVE  DirectivePrinted(c.directives[k]) = DirectiveText(c.directives[k])
    OBVIOUS
  <2>1. PICK d : d = c.directives[k] /\ LegalDirective(d)
    BY LegalCall
  <2>2. Contains(d.flags, "-") => Conversion(d) \notin Numeric
    BY <2>1 DEF AsDocumented
  <2>3. Conversion(d) \in Numeric => Pad(d) # "-"
    BY <2>1, <2>2, PadIs
  <2> QED
    BY <2>1, <2>3, PrintedAsText
<1>2. TextsOf(c) = T
  BY <1>1, Zenon DEF TextsOf
<1>3. Text(c) = FlattenSeq(T) \o c.after
  BY Zenon DEF Text
<1> QED
  BY <1>2, <1>3, Zenon DEF Printout

(* A directive's arguments: its stars, then its own. *)
TakesOne(d) == Conversion(d) \in {"c", "s", "e"} \cup Numeric
Taken(d) == [number |-> d.number, text |-> d.text]

(* A directive takes the numbers of its stars, then the value it prints. *)
LEMMA ArgumentsAre ==
    ASSUME NEW d, LegalDirective(d)
    PROVE  /\ IsSeq(Arguments(d)) /\ Len(Arguments(d)) = Len(d.stars) + (IF TakesOne(d) THEN 1 ELSE 0)
           /\ \A i \in 1..Len(d.stars) : Arguments(d)[i].number = d.stars[i]
           /\ TakesOne(d) => Arguments(d)[Len(d.stars) + 1] = Taken(d)
<1> DEFINE x == [i \in DOMAIN d.stars |-> [number |-> d.stars[i], text |-> NULL]]
           y == IF TakesOne(d) THEN << Taken(d) >> ELSE << >>
<1>1. Arguments(d) = x \o y
  BY DEF Arguments, TakesOne, Taken
<1>2. PICK n \in Nat : n = Len(d.stars) /\ DOMAIN d.stars = 1..n
  <2>1. d.stars \in Seq(Int)
    BY StarsAre
  <2> QED
    BY <2>1, LenProperties
<1>3. IsSeq(x) /\ Len(x) = n /\ \A i \in 1..n : x[i].number = d.stars[i]
  <2> DEFINE S == {[number |-> d.stars[i], text |-> NULL] : i \in 1..n}
  <2>1. x \in [1..n -> S]
    BY <1>2
  <2>2. \A i \in 1..n : x[i].number = d.stars[i]
    BY <1>2
  <2> HIDE DEF x, S
  <2>3. x \in Seq(S) /\ Len(x) = n
    BY <2>1
  <2> QED
    BY <2>2, <2>3 DEF IsSeq
<1>4. IsSeq(y) /\ Len(y) = (IF TakesOne(d) THEN 1 ELSE 0) /\ (TakesOne(d) => y[1] = Taken(d))
  <2> DEFINE t == Taken(d)
  <2> HIDE DEF t
  <2>1. << t >> \in Seq({t}) /\ << >> \in Seq({t}) /\ Len(<< t >>) = 1 /\ << t >>[1] = t /\ Len(<< >>) = 0
    OBVIOUS
  <2>2. y = IF TakesOne(d) THEN << t >> ELSE << >>
    BY DEF t
  <2> HIDE DEF y
  <2>3. y \in Seq({t})
    BY <2>1, <2>2
  <2> QED
    BY <2>1, <2>2, <2>3 DEF IsSeq, t
<1> HIDE DEF x, y
<1>5. Joined(x, y)
  BY <1>3, <1>4, JoinIs
<1> QED
  BY <1>1, <1>2, <1>3, <1>4, <1>5 DEF Joined

(* Format, arguments and text of a call lie directive by directive. *)
LEMMA LayoutsAre ==
    ASSUME NEW c \in Calls
    PROVE  /\ Layout(FmtAt(c), SpellingsOf(c), Count(c)) /\ Layout(ArgAt(c), ArgumentsOf(c), Count(c))
           /\ Layout(TxtAt(c), TextsOf(c), Count(c))
           /\ \A k \in 1..Count(c) :
                  /\ IsSeq(c.directives[k].before)
                  /\ Joined(c.directives[k].before, Written(c.directives[k]))
                  /\ Joined(c.directives[k].before, DirectivePrinted(c.directives[k]))
                  /\ SpellingsOf(c)[k] = c.directives[k].before \o Written(c.directives[k])
                  /\ TextsOf(c)[k] = c.directives[k].before \o DirectivePrinted(c.directives[k])
                  /\ ArgumentsOf(c)[k] = Arguments(c.directives[k])
<1>1. PICK n \in Nat : n = Count(c) /\ DOMAIN c.directives = 1..n /\ \A k \in 1..n : LegalDirective(c.directives[k])
  BY LegalCall
<1>2. ASSUME NEW k \in 1..n
      PROVE  /\ IsSeq(c.directives[k].before)
             /\ Joined(c.directives[k].before, Written(c.directives[k]))
             /\ Joined(c.directives[k].before, DirectivePrinted(c.directives[k]))
             /\ SpellingsOf(c)[k] = c.directives[k].before \o Written(c.directives[k])
             /\ TextsOf(c)[k] = c.directives[k].before \o DirectivePrinted(c.directives[k])
             /\ ArgumentsOf(c)[k] = Arguments(c.directives[k])
             /\ IsSeq(SpellingsOf(c)[k]) /\ IsSeq(TextsOf(c)[k]) /\ IsSeq(ArgumentsOf(c)[k])
  <2>1. PICK d : d = c.directives[k] /\ LegalDirective(d)
    BY <1>1
  <2>2. IsSeq(d.before)
    BY <2>1 DEF LegalDirective, DirectiveType, IsSeq
  <2>3. Joined(d.before, Written(d))
    BY <2>1, <2>2, WrittenIs, JoinIs DEF SpelledSo
  <2>4. Joined(d.before, DirectivePrinted(d))
    BY <2>1, <2>2, DirectivePrintedIsSeq, JoinIs
  <2>5. IsSeq(Arguments(d))
    BY <2>1, ArgumentsAre
  <2>6. /\ SpellingsOf(c)[k] = d.before \o Written(d)
        /\ TextsOf(c)[k] = d.before \o DirectivePrinted(d)
        /\ ArgumentsOf(c)[k] = Arguments(d)
    BY <1>1, <2>1 DEF SpellingsOf, TextsOf, ArgumentsOf
  <2> QED
    BY <2>1, <2>2, <2>3, <2>4, <2>5, <2>6 DEF Joined
<1>3. /\ DOMAIN SpellingsOf(c) = 1..n /\ SpellingsOf(c) = [k \in 1..n |-> SpellingsOf(c)[k]]
      /\ DOMAIN ArgumentsOf(c) = 1..n /\ ArgumentsOf(c) = [k \in 1..n |-> ArgumentsOf(c)[k]]
      /\ DOMAIN TextsOf(c) = 1..n /\ TextsOf(c) = [k \in 1..n |-> TextsOf(c)[k]]
  BY <1>1 DEF SpellingsOf, ArgumentsOf, TextsOf
<1>4. Layout(FmtAt(c), SpellingsOf(c), n)
  <2>1. \E off : Layout(off, SpellingsOf(c), n)
    BY <1>2, <1>3, LayoutIs
  <2> QED
    BY <1>1, <2>1 DEF FmtAt
<1>5. Layout(ArgAt(c), ArgumentsOf(c), n)
  <2>1. \E off : Layout(off, ArgumentsOf(c), n)
    BY <1>2, <1>3, LayoutIs
  <2> QED
    BY <1>1, <2>1 DEF ArgAt
<1>6. Layout(TxtAt(c), TextsOf(c), n)
  <2>1. \E off : Layout(off, TextsOf(c), n)
    BY <1>2, <1>3, LayoutIs
  <2> QED
    BY <1>1, <2>1 DEF TxtAt
<1> QED
  BY <1>1, <1>2, <1>4, <1>5, <1>6

(* The text before a directive, or behind the last one, lies in the format and
   in what is printed; a directive and its text behind it. *)
LiesBefore(c, k) ==
    /\ FmtAt(c)[k - 1] \in Nat /\ TxtAt(c)[k - 1] \in Nat /\ ArgAt(c)[k - 1] \in Nat /\ Len(Before(c, k)) \in Nat
    /\ Place(c, k) <= Len(Spelled(c)) + 1 /\ Said(c, k) <= Len(Printout(c)) /\ ArgAt(c)[k - 1] <= Len(FlattenSeq(ArgumentsOf(c)))
    /\ Len(Spelled(c)) \in Nat /\ Len(Printout(c)) \in Nat /\ Len(FlattenSeq(ArgumentsOf(c))) \in Nat
    /\ \A j \in 1..Len(Before(c, k)) :
           /\ Character(c, FmtAt(c)[k - 1] + j) = Before(c, k)[j] /\ Before(c, k)[j] # Nul
           /\ FormatCall(c) => Before(c, k)[j] # "%"
           /\ Printout(c)[TxtAt(c)[k - 1] + j] = Before(c, k)[j]
    /\ k = Count(c) + 1
           => /\ Character(c, Place(c, k)) = Nul /\ Said(c, k) = Len(Printout(c)) /\ Place(c, k) = Len(Spelled(c)) + 1

LiesBehind(c, k, d) ==
    /\ FmtAt(c)[k] = Place(c, k) + Len(Written(d)) - 1 /\ FmtAt(c)[k] <= Len(Spelled(c))
    /\ TxtAt(c)[k] = Said(c, k) + Len(DirectivePrinted(d)) /\ TxtAt(c)[k] <= Len(Printout(c))
    /\ ArgAt(c)[k] = ArgAt(c)[k - 1] + Len(Arguments(d)) /\ ArgAt(c)[k] <= Len(FlattenSeq(ArgumentsOf(c)))
    /\ Len(Written(d)) \in Nat /\ Len(DirectivePrinted(d)) \in Nat
    /\ \A j \in 1..Len(Written(d)) : Character(c, Place(c, k) + j - 1) = Written(d)[j]
    /\ \A j \in 1..Len(DirectivePrinted(d)) : Printout(c)[Said(c, k) + j] = DirectivePrinted(d)[j]
    /\ \A j \in 1..Len(Arguments(d)) : Argument(c, ArgAt(c)[k - 1] + j) = Arguments(d)[j]
    /\ d.conv = << >> => Character(c, Place(c, k) + Len(Written(d))) = Nul

(* Each part of a call lies at its place in the format, in the arguments and in the
   text. *)
LEMMA CallLies ==
    ASSUME NEW c \in Calls
    PROVE  /\ \A k \in 1..(Count(c) + 1) : LiesBefore(c, k)
           /\ \A k \in 1..Count(c) : LiesBehind(c, k, c.directives[k])
<1>0. PICK n \in Nat : n = Count(c)
  BY LegalCall
<1>1. PICK fo \in [0..n -> Nat], ao \in [0..n -> Nat], to \in [0..n -> Nat] :
          n = Count(c) /\ fo = FmtAt(c) /\ ao = ArgAt(c) /\ to = TxtAt(c)
  BY <1>0, LayoutsAre DEF Layout
<1> DEFINE F == FlattenSeq(SpellingsOf(c))
           A == FlattenSeq(ArgumentsOf(c))
           X == FlattenSeq(TextsOf(c))
<1>2. /\ IsSeq(F) /\ fo[0] = 0 /\ fo[n] = Len(F)
      /\ IsSeq(A) /\ ao[0] = 0 /\ ao[n] = Len(A)
      /\ IsSeq(X) /\ to[0] = 0 /\ to[n] = Len(X)
  BY <1>1, LayoutsAre DEF Layout
<1>3. PICK after : after = c.after
  OBVIOUS
<1>3a. PICK m \in Nat : m = Len(after) /\ IsSeq(after)
  BY <1>3, LegalCall
<1>3b. \A i \in 1..m : after[i] # Nul /\ (FormatCall(c) => after[i] # "%")
  BY <1>3, <1>3a, LegalCall
<1>4. Spelled(c) = F \o after /\ Printout(c) = X \o after
  BY <1>3, <1>3a DEF Spelled, Printout, SpellingsOf, TextsOf
<1> HIDE DEF F, A, X
<1>5. PICK lf \in Nat, lx \in Nat, la \in Nat : lf = fo[n] /\ lx = to[n] /\ la = ao[n]
  OBVIOUS
<1>6. /\ Len(F) = lf /\ Len(X) = lx /\ Len(A) = la
      /\ Joined(F, after) /\ Joined(X, after) /\ IsSeq(<< Nul >>)
  <2>1. IsSeq(<< Nul >>)
    <3>1. << Nul >> \in Seq({Nul})
      OBVIOUS
    <3> QED
      BY <3>1 DEF IsSeq
  <2> QED
    BY <1>2, <1>3, <1>3a, <1>5, <2>1, JoinIs
<1>7. /\ Len(Spelled(c)) = lf + m /\ Len(Printout(c)) = lx + m
      /\ \A i \in 1..lf : Spelled(c)[i] = F[i]
      /\ \A i \in 1..m : Spelled(c)[lf + i] = after[i]
      /\ \A i \in 1..lx : Printout(c)[i] = X[i]
      /\ \A i \in 1..m : Printout(c)[lx + i] = after[i]
      /\ IsSeq(Spelled(c))
  <2>1. /\ Len(F \o after) = lf + m /\ IsSeq(F \o after)
        /\ \A i \in 1..lf : (F \o after)[i] = F[i]
        /\ \A i \in 1..m : (F \o after)[lf + i] = after[i]
    BY <1>3a, <1>6, Zenon DEF Joined
  <2>2. /\ Len(X \o after) = lx + m
        /\ \A i \in 1..lx : (X \o after)[i] = X[i]
        /\ \A i \in 1..m : (X \o after)[lx + i] = after[i]
    BY <1>3a, <1>6, Zenon DEF Joined
  <2> QED
    BY <1>4, <2>1, <2>2, Zenon
<1>8. /\ \A i \in 1..(lf + m) : Character(c, i) = Spelled(c)[i]
      /\ Character(c, lf + m + 1) = Nul
  <2>1. Joined(Spelled(c), << Nul >>)
    BY <1>6, <1>7, JoinIs
  <2>2. Len(<< Nul >>) = 1 /\ << Nul >>[1] = Nul /\ 1 \in 1..1
    OBVIOUS
  <2>3. (Spelled(c) \o << Nul >>)[(lf + m) + 1] = Nul
    BY <1>7, <2>1, <2>2 DEF Joined
  <2>4. \A i \in 1..(lf + m) : (Spelled(c) \o << Nul >>)[i] = Spelled(c)[i]
    BY <1>7, <2>1 DEF Joined
  <2> QED
    BY <2>3, <2>4 DEF Character
<1>9. ASSUME NEW k \in 1..n
      PROVE  /\ fo[k] <= lf /\ to[k] <= lx /\ ao[k] <= la
             /\ fo[k - 1] \in Nat /\ to[k - 1] \in Nat /\ ao[k - 1] \in Nat
             /\ fo[k] = fo[k - 1] + Len(SpellingsOf(c)[k])
             /\ to[k] = to[k - 1] + Len(TextsOf(c)[k])
             /\ ao[k] = ao[k - 1] + Len(ArgumentsOf(c)[k])
             /\ \A j \in 1..Len(SpellingsOf(c)[k]) : F[fo[k - 1] + j] = SpellingsOf(c)[k][j]
             /\ \A j \in 1..Len(TextsOf(c)[k]) : X[to[k - 1] + j] = TextsOf(c)[k][j]
             /\ \A j \in 1..Len(ArgumentsOf(c)[k]) : A[ao[k - 1] + j] = ArgumentsOf(c)[k][j]
  <2>1. k - 1 \in 0..n
    OBVIOUS
  <2> QED
    BY <1>1, <1>5, <2>1, LayoutsAre DEF Layout, F, A, X
<1>10. ASSUME NEW k \in 1..n
       PROVE  LiesBefore(c, k) /\ LiesBehind(c, k, c.directives[k])
  <2>1. PICK d, x, y, z : d = c.directives[k] /\ x = d.before /\ y = Written(d) /\ z = DirectivePrinted(d)
    OBVIOUS
  <2>2. LegalDirective(d) /\ Joined(x, y) /\ Joined(x, z) /\ IsSeq(x)
    BY <1>1, <2>1, LegalCall, LayoutsAre
  <2>3. PICK lb \in Nat, ly \in Nat, lz \in Nat, ld \in Nat :
            lb = Len(x) /\ ly = Len(y) /\ lz = Len(z) /\ ld = Len(Arguments(d))
    <3>1. Len(Arguments(d)) \in Nat
      <4>1. IsSeq(Arguments(d))
        BY <2>2, ArgumentsAre
      <4>2. PICK S : Arguments(d) \in Seq(S)
        BY <4>1 DEF IsSeq
      <4> QED
        BY <4>2, LenProperties
    <3> QED
      BY <2>2, <3>1 DEF Joined
  <2>4. SpellingsOf(c)[k] = x \o y /\ TextsOf(c)[k] = x \o z /\ ArgumentsOf(c)[k] = Arguments(d)
    BY <1>1, <2>1, LayoutsAre
  <2>5. Before(c, k) = x
    BY <1>1, <2>1 DEF Before
  <2>6. PICK f0 \in Nat, t0 \in Nat, a0 \in Nat : f0 = fo[k - 1] /\ t0 = to[k - 1] /\ a0 = ao[k - 1]
    BY <1>9
  <2>7. /\ fo[k] = f0 + (lb + ly) /\ fo[k] <= lf
        /\ to[k] = t0 + (lb + lz) /\ to[k] <= lx
        /\ ao[k] = a0 + ld /\ ao[k] <= la
        /\ \A j \in 1..(lb + ly) : F[f0 + j] = (x \o y)[j]
        /\ \A j \in 1..(lb + lz) : X[t0 + j] = (x \o z)[j]
        /\ \A j \in 1..ld : A[a0 + j] = Arguments(d)[j]
    <3>1. Len(x \o y) = lb + ly /\ Len(x \o z) = lb + lz
      BY <2>2, <2>3, Zenon DEF Joined
    <3>2. /\ fo[k] = f0 + Len(x \o y) /\ to[k] = t0 + Len(x \o z) /\ ao[k] = a0 + ld
          /\ \A j \in 1..Len(x \o y) : F[f0 + j] = (x \o y)[j]
          /\ \A j \in 1..Len(x \o z) : X[t0 + j] = (x \o z)[j]
          /\ \A j \in 1..ld : A[a0 + j] = Arguments(d)[j]
      BY <1>9, <2>3, <2>4, <2>6, Zenon
    <3> QED
      BY <1>9, <3>1, <3>2, Zenon
  <2>7a. /\ f0 + (lb + ly) <= lf /\ t0 + (lb + lz) <= lx /\ a0 + ld <= la
    BY <2>7, Zenon
  <2>8. /\ \A j \in 1..lb : (x \o y)[j] = x[j] /\ (x \o z)[j] = x[j]
        /\ \A j \in 1..ly : (x \o y)[lb + j] = y[j]
        /\ \A j \in 1..lz : (x \o z)[lb + j] = z[j]
    BY <2>2, <2>3 DEF Joined
  <2>9. Place(c, k) = f0 + lb + 1 /\ Said(c, k) = t0 + lb
    BY <1>1, <2>3, <2>5, <2>6 DEF Place, Said
  <2>10. ASSUME NEW j \in 1..lb
         PROVE  /\ Character(c, f0 + j) = x[j] /\ Printout(c)[t0 + j] = x[j] /\ x[j] # Nul /\ x[j] # "%"
    <3>1. f0 + j \in 1..lf /\ t0 + j \in 1..lx /\ f0 + j \in 1..(lf + m) /\ j \in 1..(lb + ly) /\ j \in 1..(lb + lz)
      BY <2>7a
    <3>2. x[j] # Nul /\ x[j] # "%"
      <4>1. Without(x, Nul) /\ Without(x, "%")
        BY <2>1, <2>2 DEF LegalDirective
      <4>2. j \in DOMAIN x
        <5>1. PICK S : x \in Seq(S)
          BY <2>2 DEF IsSeq
        <5> QED
          BY <2>3, <5>1, LenProperties
      <4> QED
        BY <4>1, <4>2 DEF Without
    <3>3. Character(c, f0 + j) = F[f0 + j] /\ Printout(c)[t0 + j] = X[t0 + j]
      BY <1>7, <1>8, <3>1, Zenon
    <3>4. F[f0 + j] = (x \o y)[j] /\ X[t0 + j] = (x \o z)[j]
      BY <2>7, <3>1, Zenon
    <3> QED
      BY <2>8, <3>2, <3>3, <3>4, Zenon
  <2>11. LiesBefore(c, k)
    <3>1. Len(Spelled(c)) \in Nat /\ Len(Printout(c)) \in Nat /\ Place(c, k) <= Len(Spelled(c)) + 1 /\ Said(c, k) <= Len(Printout(c))
      <4>1. Len(Spelled(c)) = lf + m /\ Len(Printout(c)) = lx + m
        BY <1>7, Zenon
      <4>2. f0 + lb + 1 <= lf + m + 1 /\ t0 + lb <= lx + m /\ lf + m \in Nat /\ lx + m \in Nat
        BY <2>7a
      <4> QED
        BY <2>9, <4>1, <4>2, Zenon
    <3>2. k # n + 1 /\ a0 <= Len(FlattenSeq(ArgumentsOf(c))) /\ Len(FlattenSeq(ArgumentsOf(c))) \in Nat
      BY <1>6, <2>7a DEF A
    <3> QED
      BY <1>1, <2>3, <2>5, <2>6, <2>10, <3>1, <3>2 DEF LiesBefore
  <2>12. ASSUME NEW j \in 1..ly PROVE Character(c, Place(c, k) + j - 1) = y[j]
    <3>1. /\ Place(c, k) + j - 1 = f0 + (lb + j) /\ f0 + (lb + j) \in 1..lf /\ f0 + (lb + j) \in 1..(lf + m)
          /\ lb + j \in 1..(lb + ly)
      BY <2>7a, <2>9
    <3>2. Character(c, f0 + (lb + j)) = F[f0 + (lb + j)]
      BY <1>7, <1>8, <3>1, Zenon
    <3>3. F[f0 + (lb + j)] = (x \o y)[lb + j]
      BY <2>7, <3>1, Zenon
    <3> QED
      BY <2>8, <3>1, <3>2, <3>3, Zenon
  <2>13. ASSUME NEW j \in 1..lz PROVE Printout(c)[Said(c, k) + j] = z[j]
    <3>1. Said(c, k) + j = t0 + (lb + j) /\ t0 + (lb + j) \in 1..lx /\ lb + j \in 1..(lb + lz)
      BY <2>7a, <2>9
    <3>2. Printout(c)[t0 + (lb + j)] = X[t0 + (lb + j)]
      BY <1>7, <3>1, Zenon
    <3>3. X[t0 + (lb + j)] = (x \o z)[lb + j]
      BY <2>7, <3>1, Zenon
    <3> QED
      BY <2>8, <3>1, <3>2, <3>3, Zenon
  <2>14. d.conv = << >> => Character(c, Place(c, k) + ly) = Nul
    <3> SUFFICES ASSUME d.conv = << >> PROVE Character(c, Place(c, k) + ly) = Nul
      OBVIOUS
    <3>1. k = n /\ m = 0
      BY <1>1, <1>3, <1>3a, <2>1, LegalCall
    <3>2. fo[k] = lf
      BY <1>5, <3>1
    <3>3. Place(c, k) + ly = lf + m + 1
      <4>1. lf = f0 + (lb + ly)
        BY <2>7, <3>2, Zenon
      <4> QED
        BY <2>9, <3>1, <4>1
    <3> QED
      BY <1>8, <3>3
  <2>15. LiesBehind(c, k, d)
    <3>1. /\ fo[k] = Place(c, k) + ly - 1 /\ fo[k] <= Len(Spelled(c))
          /\ to[k] = Said(c, k) + lz /\ to[k] <= Len(Printout(c))
          /\ ao[k] = a0 + ld /\ ao[k] <= Len(FlattenSeq(ArgumentsOf(c)))
      <4>1. fo[k] = f0 + (lb + ly) /\ to[k] = t0 + (lb + lz) /\ ao[k] = a0 + ld
        BY <2>7, Zenon
      <4>2. Len(Spelled(c)) = lf + m /\ Len(Printout(c)) = lx + m /\ Len(FlattenSeq(ArgumentsOf(c))) = la
        BY <1>6, <1>7, Zenon DEF A
      <4>3. /\ f0 + (lb + ly) = (f0 + lb + 1) + ly - 1 /\ f0 + (lb + ly) <= lf + m
            /\ t0 + (lb + lz) = (t0 + lb) + lz /\ t0 + (lb + lz) <= lx + m
            /\ a0 + ld <= la
        BY <2>7a
      <4> QED
        BY <2>9, <4>1, <4>2, <4>3, Zenon
    <3>2. \A j \in 1..ld : Argument(c, a0 + j) = Arguments(d)[j]
      BY <2>7 DEF Argument, A
    <3> QED
      BY <1>1, <2>1, <2>3, <2>6, <2>12, <2>13, <2>14, <3>1, <3>2 DEF LiesBehind
  <2> QED
    BY <2>1, <2>11, <2>15
<1>11. LiesBefore(c, n + 1)
  <2>1. Before(c, n + 1) = after /\ (n + 1) - 1 = n
    BY <1>1, <1>3 DEF Before
  <2>2. Place(c, n + 1) = lf + m + 1 /\ Said(c, n + 1) = lx + m
    BY <1>1, <1>3, <1>3a, <1>5, <2>1 DEF Place, Said
  <2>3. ASSUME NEW j \in 1..m
        PROVE  /\ Character(c, lf + j) = after[j] /\ Printout(c)[lx + j] = after[j] /\ after[j] # Nul
               /\ FormatCall(c) => after[j] # "%"
    <3>1. lf + j \in 1..(lf + m)
      OBVIOUS
    <3>2. after[j] # Nul /\ (FormatCall(c) => after[j] # "%")
      BY <1>3b
    <3> QED
      BY <1>7, <1>8, <3>1, <3>2
  <2>4. /\ Len(Spelled(c)) \in Nat /\ Len(Printout(c)) \in Nat /\ Place(c, n + 1) <= Len(Spelled(c)) + 1
        /\ Said(c, n + 1) <= Len(Printout(c)) /\ la <= Len(FlattenSeq(ArgumentsOf(c)))
        /\ Len(FlattenSeq(ArgumentsOf(c))) \in Nat
        /\ Character(c, Place(c, n + 1)) = Nul /\ Said(c, n + 1) = Len(Printout(c)) /\ Place(c, n + 1) = Len(Spelled(c)) + 1
    BY <1>6, <1>7, <1>8, <2>2 DEF A
  <2> QED
    BY <1>1, <1>3, <1>3a, <1>5, <2>1, <2>3, <2>4 DEF LiesBefore
<1> QED
  <2>1. ASSUME NEW k \in 1..(n + 1) PROVE LiesBefore(c, k)
    <3>1. k \in 1..n \/ k = n + 1
      OBVIOUS
    <3> QED
      BY <1>10, <1>11, <3>1
  <2> QED
    BY <1>1, <1>10, <2>1

(* The ten digits, none of which is a flag, a letter of the switch or a Nul. *)
Marks == {"-", "#", ".", "*", "l", "%", Nul, "c", "e", "s", "d", "u", "o", "x", "p"}

(* No mark of a directive is a digit. *)
LEMMA DigitsAre == "0" \in Digits /\ \A m \in Marks : m \notin Digits
<1>1. Lower[1] = "0" /\ 1 \in 1..10
  BY DEF Lower
<1>2. \A i \in 1..10 : Lower[i] \notin Marks
  BY DEF Lower, Marks, Nul
<1> QED
  BY <1>1, <1>2, Zenon DEF Digits

(* The values that are gone through when a width or a precision is read. *)
ValueAt(n) == CHOOSE v : Counts(v, n)
Figured(n) == Len(Numeral(n, 10))

(* A width or a precision is spelled from p on. *)
Numbered(c, p, n) ==
    /\ Figured(n) \in Nat \ {0}
    /\ ValueAt(n) \in [0..Figured(n) -> Nat] /\ ValueAt(n)[0] = 0 /\ ValueAt(n)[Figured(n)] = n
    /\ \A j \in 1..Figured(n) :
           /\ Character(c, p + j - 1) \in Digits
           /\ ValueAt(n)[j] = ValueAt(n)[j - 1] * 10 + Figure(Character(c, p + j - 1))
    /\ Character(c, p) # "0"

(* A width or a precision that is written as a number is one. *)
LEMMA NumberedIs ==
    ASSUME NEW n \in Nat \ {0}, NEW c, NEW p \in Nat,
           \A j \in 1..Len(Field(n)) : Character(c, p + j - 1) = Field(n)[j]
    PROVE  Numbered(c, p, n) /\ Len(Field(n)) = Figured(n)
<1>1. Field(n) = Numeral(n, 10)
  BY DEF Field, Star
<1>2. Counts(ValueAt(n), n)
  BY DecimalIs DEF ValueAt
<1>3. PICK s, v : s = Numeral(n, 10) /\ v = ValueAt(n)
  OBVIOUS
<1>4. /\ s \in Seq(Figures) /\ Len(s) >= 1
      /\ v \in [0..Len(s) -> Nat] /\ v[0] = 0 /\ v[Len(s)] = n
      /\ \A k \in 1..Len(s) : s[k] \in Digits /\ v[k] = v[k - 1] * 10 + Figure(s[k])
      /\ s[1] # "0"
  BY <1>2, <1>3 DEF Counts
<1>5. PICK l \in Nat \ {0} : l = Len(s)
  <2>1. Len(s) \in Nat
    BY <1>4, LenProperties
  <2> QED
    BY <1>4, <2>1
<1>6. \A j \in 1..l : Character(c, p + j - 1) = s[j]
  BY <1>1, <1>3, <1>5, Zenon
<1>7. Character(c, p) = s[1]
  <2>1. 1 \in 1..l /\ p + 1 - 1 = p
    OBVIOUS
  <2> QED
    BY <1>6, <2>1, Zenon
<1>8. \A j \in 1..l : Character(c, p + j - 1) \in Digits /\ v[j] = v[j - 1] * 10 + Figure(Character(c, p + j - 1))
  BY <1>4, <1>5, <1>6, Zenon
<1>9. Figured(n) = l /\ Len(Field(n)) = l
  BY <1>1, <1>3, <1>5 DEF Figured
<1> QED
  BY <1>3, <1>4, <1>5, <1>7, <1>8, <1>9, Zenon DEF Numbered

(* The character that a directive ends with. *)
Ending(d) == IF d.conv = << >> THEN Nul ELSE Conversion(d)

(* The characters of a directive, as the switch meets them. *)
SpellsFlags(c, p, d) ==
    /\ Character(c, p) = "%"
    /\ \A i \in 0..(Len(d.flags) - 1) :
           Character(c, p + 1 + i) = d.flags[i + 1] /\ d.flags[i + 1] \in {"-", "0", "#"}

SpellsWidth(c, p, d) ==
    /\ d.width = None => WidthEnd(d) = FlagsEnd(d)
    /\ d.width = Star => WidthEnd(d) = FlagsEnd(d) + 1 /\ Character(c, p + FlagsEnd(d)) = "*"
    /\ d.width \notin {None, Star}
           => WidthEnd(d) = FlagsEnd(d) + Figured(d.width) /\ Numbered(c, p + FlagsEnd(d), d.width)

SpellsPrecision(c, p, d) ==
    /\ d.precision = None => PrecisionEnd(d) = WidthEnd(d)
    /\ d.precision # None => Character(c, p + WidthEnd(d)) = "."
    /\ d.precision = Star => PrecisionEnd(d) = WidthEnd(d) + 2 /\ Character(c, p + WidthEnd(d) + 1) = "*"
    /\ d.precision \notin {None, Star}
           => /\ PrecisionEnd(d) = WidthEnd(d) + 1 + Figured(d.precision)
              /\ Numbered(c, p + WidthEnd(d) + 1, d.precision)

SpellsEnd(c, p, d) ==
    /\ \A i \in 0..(d.longs - 1) : Character(c, p + PrecisionEnd(d) + i) = "l"
    /\ Character(c, p + LongsEnd(d)) = Ending(d)
    /\ Ending(d) \notin {"-", "#", ".", "*", "l"} \cup Digits

Spells(c, p, d) ==
    /\ Len(d.flags) \in Nat /\ Len(WidthField(d)) \in Nat /\ Len(PrecisionField(d)) \in Nat
    /\ d.longs \in 0..2 /\ Len(d.conv) \in 0..1
    /\ SpellsFlags(c, p, d) /\ SpellsWidth(c, p, d) /\ SpellsPrecision(c, p, d) /\ SpellsEnd(c, p, d)
    /\ \A j \in 1..(LongsEnd(d) - 1) : Character(c, p + j) \notin {"%", Nul}

(* The characters of a width's field are what the reader of a width meets. *)
LEMMA WidthSpelled ==
    ASSUME NEW d, LegalDirective(d), NEW c, NEW p \in Nat, SpelledSo(Written(d), d),
           NEW f \in Nat, f = FlagsEnd(d),
           \A i \in 1..Len(WidthField(d)) : Character(c, p + f + i - 1) = WidthField(d)[i]
    PROVE  /\ SpellsWidth(c, p, d)
           /\ \A i \in 1..Len(WidthField(d)) : Character(c, p + f + i - 1) \in Digits \cup {"*"}
<1>1. d.width \in {None} \cup {Star} \cup (Nat \ {0})
  BY DEF LegalDirective
<1>2. PICK w \in Nat : w = Len(WidthField(d)) /\ WidthEnd(d) = f + w
  BY DEF SpelledSo, WidthEnd
<1>3. CASE d.width = None
  <2>1. WidthField(d) = << >>
    BY <1>3 DEF WidthField
  <2>2. w = 0
    BY <1>2, <2>1
  <2> QED
    BY <1>2, <1>3, <2>2 DEF SpellsWidth, None, Star
<1>4. CASE d.width = Star
  <2> DEFINE m == "*"
  <2>1. WidthField(d) = << m >>
    BY <1>4 DEF WidthField, Field, None, Star
  <2>2. w = 1 /\ \A i \in 1..w : Character(c, p + f + i - 1) = m
    BY <1>2, <2>1
  <2>3. Character(c, p + f) = m
    <3>1. 1 \in 1..w /\ p + f + 1 - 1 = p + f
      BY <2>2
    <3> QED
      BY <2>2, <3>1, Zenon
  <2> QED
    BY <1>2, <1>4, <2>2, <2>3 DEF SpellsWidth, None, Star
<1>5. CASE d.width \notin {None, Star}
  <2>1. d.width \in Nat \ {0} /\ WidthField(d) = Field(d.width)
    BY <1>1, <1>5 DEF WidthField
  <2>2. p + f \in Nat
    OBVIOUS
  <2>3. Numbered(c, p + f, d.width) /\ w = Figured(d.width)
    <3>1. \A i \in 1..Len(Field(d.width)) : Character(c, (p + f) + i - 1) = Field(d.width)[i]
      BY <2>1, Zenon
    <3> HIDE DEF SpelledSo
    <3> QED
      BY <1>2, <2>1, <2>2, <3>1, NumberedIs
  <2>4. \A i \in 1..w : Character(c, p + f + i - 1) \in Digits
    BY <2>3 DEF Numbered
  <2> QED
    BY <1>2, <1>5, <2>3, <2>4 DEF SpellsWidth
<1> QED
  BY <1>3, <1>4, <1>5

(* The characters of a precision's field are what the reader of a precision meets. *)
LEMMA PrecisionSpelled ==
    ASSUME NEW d, LegalDirective(d), NEW c, NEW p \in Nat, SpelledSo(Written(d), d),
           NEW f \in Nat, f = WidthEnd(d),
           \A i \in 1..Len(PrecisionField(d)) : Character(c, p + f + i - 1) = PrecisionField(d)[i]
    PROVE  /\ SpellsPrecision(c, p, d)
           /\ \A i \in 1..Len(PrecisionField(d)) : Character(c, p + f + i - 1) \in Digits \cup {"*", "."}
<1> DEFINE point == "."
<1>1. d.precision \in {None} \cup {Star} \cup (Nat \ {0})
  BY DEF LegalDirective
<1>2. PICK w \in Nat : w = Len(PrecisionField(d)) /\ PrecisionEnd(d) = f + w
  BY DEF SpelledSo, PrecisionEnd
<1>3. CASE d.precision = None
  <2>1. PrecisionField(d) = << >>
    BY <1>3 DEF PrecisionField
  <2>2. w = 0
    BY <1>2, <2>1
  <2> QED
    BY <1>2, <1>3, <2>2 DEF SpellsPrecision, None, Star
<1>4. CASE d.precision # None
  <2>1. d.precision \in {Star} \cup (Nat \ {0})
    BY <1>1, <1>4
  <2>2. PrecisionField(d) = << point >> \o Field(d.precision) /\ Joined(<< point >>, Field(d.precision))
    BY <1>4, <2>1, FieldIs DEF PrecisionField
  <2>3. Len(<< point >>) = 1 /\ << point >>[1] = point
    OBVIOUS
  <2>4. PICK l \in Nat : l = Len(Field(d.precision))
    BY <2>2 DEF Joined
  <2>5. w = 1 + l /\ PrecisionField(d)[1] = point /\ \A i \in 1..l : PrecisionField(d)[1 + i] = Field(d.precision)[i]
    <3>1. 1 \in 1..1
      OBVIOUS
    <3> HIDE DEF point
    <3> QED
      BY <1>2, <2>2, <2>3, <2>4, <3>1, Zenon DEF Joined
  <2>6. Character(c, p + f) = point
    <3>1. 1 \in 1..w /\ p + f + 1 - 1 = p + f
      BY <2>5
    <3> QED
      BY <1>2, <2>5, <3>1, Zenon
  <2>7. ASSUME NEW i \in 1..l PROVE Character(c, (p + f + 1) + i - 1) = Field(d.precision)[i]
    <3>1. 1 + i \in 1..w /\ p + f + (1 + i) - 1 = (p + f + 1) + i - 1
      BY <2>5
    <3> QED
      BY <1>2, <2>5, <3>1, Zenon
  <2>8. CASE d.precision = Star
    <3> DEFINE m == "*"
    <3>1. Field(d.precision) = << m >>
      BY <2>8 DEF Field
    <3>2. l = 1 /\ \A i \in 1..l : Character(c, (p + f + 1) + i - 1) = m
      BY <2>4, <2>7, <3>1
    <3>3. Character(c, p + f + 1) = m
      <4>1. 1 \in 1..l /\ (p + f + 1) + 1 - 1 = p + f + 1
        BY <3>2
      <4> QED
        BY <3>2, <4>1, Zenon
    <3>4. SpellsPrecision(c, p, d)
      BY <1>2, <1>4, <2>5, <2>6, <2>8, <3>2, <3>3 DEF SpellsPrecision, None, Star
    <3>5. ASSUME NEW i \in 1..w PROVE Character(c, p + f + i - 1) \in {m, point}
      <4>1. (i = 1 /\ p + f + i - 1 = p + f) \/ (i = 2 /\ p + f + i - 1 = p + f + 1)
        BY <2>5, <3>2
      <4> QED
        BY <2>6, <3>3, <4>1
    <3> QED
      BY <1>2, <3>4, <3>5
  <2>9. CASE d.precision # Star
    <3>1. d.precision \in Nat \ {0} /\ p + f + 1 \in Nat
      BY <2>1, <2>9
    <3>2. Numbered(c, p + f + 1, d.precision) /\ l = Figured(d.precision)
      <4>1. \A i \in 1..Len(Field(d.precision)) : Character(c, (p + f + 1) + i - 1) = Field(d.precision)[i]
        BY <2>4, <2>7, Zenon
      <4> QED
        BY <2>4, <3>1, <4>1, NumberedIs
    <3>3. SpellsPrecision(c, p, d)
      BY <1>2, <1>4, <2>5, <2>6, <2>9, <3>2 DEF SpellsPrecision
    <3>4. ASSUME NEW i \in 1..w PROVE Character(c, p + f + i - 1) \in Digits \cup {point}
      <4>1. (i = 1 /\ p + f + i - 1 = p + f) \/ (i - 1 \in 1..l /\ p + f + i - 1 = (p + f + 1) + (i - 1) - 1)
        BY <2>5
      <4>2. \A j \in 1..l : Character(c, (p + f + 1) + j - 1) \in Digits
        BY <3>2 DEF Numbered
      <4> QED
        BY <2>6, <4>1, <4>2
    <3> QED
      BY <1>2, <3>3, <3>4
  <2> QED
    BY <2>8, <2>9
<1> QED
  BY <1>3, <1>4

(* A directive of a call is spelled so in its format. *)
LEMMA DirectiveSpelled ==
    ASSUME NEW c \in Calls, NEW k \in 1..Count(c), NEW d, d = c.directives[k]
    PROVE  Spells(c, Place(c, k), d)
<1>1. LegalDirective(d) /\ LiesBehind(c, k, d) /\ LiesBefore(c, k)
  <2>1. k \in 1..(Count(c) + 1)
    BY LegalCall
  <2> QED
    BY <2>1, LegalCall, CallLies
<1>2. SpelledSo(Written(d), d)
  BY <1>1, WrittenIs
<1>3. PICK nf \in Nat, nw \in Nat, np \in Nat, nl \in 0..2, nc \in 0..1 :
          /\ nf = Len(d.flags) /\ nw = Len(WidthField(d)) /\ np = Len(PrecisionField(d)) /\ nl = d.longs
          /\ nc = Len(d.conv)
  BY <1>2 DEF SpelledSo
<1>4. PICK s : s = Written(d)
  OBVIOUS
<1>5. PICK p \in Nat : p = Place(c, k)
  BY <1>1 DEF LiesBefore, Place
<1>6. /\ FlagsEnd(d) = 1 + nf /\ WidthEnd(d) = 1 + nf + nw /\ PrecisionEnd(d) = 1 + nf + nw + np
      /\ LongsEnd(d) = 1 + nf + nw + np + nl /\ Len(s) = 1 + nf + nw + np + nl + nc
  BY <1>2, <1>3, <1>4 DEF SpelledSo, FlagsEnd, WidthEnd, PrecisionEnd, LongsEnd
<1>7. PICK e \in Nat : e = 1 + nf + nw + np + nl
  OBVIOUS
<1>8. \A j \in 1..(e + nc) : Character(c, p + j - 1) = s[j]
  BY <1>1, <1>4, <1>5, <1>6, <1>7 DEF LiesBehind
<1>9. Character(c, p) = "%"
  <2>1. s[1] = "%"
    BY <1>2, <1>4 DEF SpelledSo
  <2>2. 1 \in 1..(e + nc) /\ p + 1 - 1 = p
    BY <1>7
  <2> QED
    BY <1>8, <2>1, <2>2, Zenon
<1>10. \A i \in 1..nf : Character(c, p + i) = d.flags[i] /\ d.flags[i] \in {"-", "0", "#"}
  <2> TAKE i \in 1..nf
  <2>1. 1 + i \in 1..(e + nc) /\ p + (1 + i) - 1 = p + i
    BY <1>7
  <2>2. s[1 + i] = d.flags[i]
    BY <1>2, <1>3, <1>4, Zenon DEF SpelledSo
  <2>3. d.flags[i] \in {"-", "0", "#"}
    <3>1. d.flags \in Seq({"-", "0", "#"})
      BY <1>1 DEF LegalDirective, DirectiveType
    <3> QED
      BY <1>3, <3>1
  <2> QED
    BY <1>8, <2>1, <2>2, <2>3, Zenon
<1>11. PICK fe \in Nat : fe = FlagsEnd(d) /\ fe = 1 + nf
  BY <1>6
<1>12. \A i \in 1..nw : Character(c, p + fe + i - 1) = WidthField(d)[i]
  <2> TAKE i \in 1..nw
  <2>1. fe + i \in 1..(e + nc) /\ p + (fe + i) - 1 = p + fe + i - 1
    BY <1>7, <1>11
  <2>2. s[fe + i] = WidthField(d)[i]
    BY <1>2, <1>3, <1>4, <1>11, Zenon DEF SpelledSo
  <2> QED
    BY <1>8, <2>1, <2>2, Zenon
<1>13. PICK we \in Nat : we = WidthEnd(d) /\ we = fe + nw
  BY <1>6, <1>11
<1>14. \A i \in 1..np : Character(c, p + we + i - 1) = PrecisionField(d)[i]
  <2> TAKE i \in 1..np
  <2>1. we + i \in 1..(e + nc) /\ p + (we + i) - 1 = p + we + i - 1
    BY <1>7, <1>11, <1>13
  <2>2. s[we + i] = PrecisionField(d)[i]
    BY <1>2, <1>3, <1>4, <1>13, Zenon DEF SpelledSo
  <2> QED
    BY <1>8, <2>1, <2>2, Zenon
<1>15. PICK pe \in Nat : pe = PrecisionEnd(d) /\ pe = we + np /\ e = pe + nl
  BY <1>6, <1>7, <1>11, <1>13
<1>16. \A i \in 1..nl : Character(c, p + pe + i - 1) = "l"
  <2> TAKE i \in 1..nl
  <2>1. pe + i \in 1..(e + nc) /\ p + (pe + i) - 1 = p + pe + i - 1
    BY <1>15
  <2>2. s[pe + i] = "l"
    BY <1>2, <1>3, <1>4, <1>15, Zenon DEF SpelledSo
  <2> QED
    BY <1>8, <2>1, <2>2, Zenon
<1>17. Character(c, p + e) = Ending(d)
  <2>1. d.conv \in Seq(STRING)
    BY <1>1 DEF LegalDirective, DirectiveType
  <2>2. CASE nc = 0
    <3>1. d.conv = << >>
      BY <1>3, <2>1, <2>2, EmptySeq
    <3>2. Len(s) = e
      BY <1>6, <1>7, <2>2
    <3> QED
      BY <1>1, <1>4, <1>5, <3>1, <3>2, Zenon DEF LiesBehind, Ending
  <2>3. CASE nc = 1
    <3>1. d.conv # << >>
      <4>1. Len(<< >>) # nc
        BY <2>3
      <4> QED
        BY <1>3, <4>1, Zenon
    <3>2. s[e + 1] = d.conv[1]
      <4>1. 1 \in 1..Len(d.conv) /\ LongsEnd(d) = e
        BY <1>3, <1>6, <1>7, <2>3
      <4> QED
        BY <1>2, <1>4, <4>1, Zenon DEF SpelledSo
    <3>3. e + 1 \in 1..(e + nc) /\ p + (e + 1) - 1 = p + e
      BY <2>3
    <3> QED
      BY <1>8, <3>1, <3>2, <3>3, Zenon DEF Ending, Conversion
  <2> QED
    BY <2>2, <2>3
<1>18. Ending(d) \notin {"-", "#", ".", "*", "l"} \cup Digits
  <2>1. Conversion(d) \notin {"-", "#", ".", "*", "l"} \cup Digits
    BY <1>1 DEF LegalDirective
  <2>2. Nul \notin {"-", "#", ".", "*", "l"} \cup Digits
    BY DigitsAre DEF Nul, Marks
  <2> QED
    BY <2>1, <2>2 DEF Ending
<1>19. SpellsFlags(c, p, d)
  <2>1. ASSUME NEW i \in 0..(nf - 1)
        PROVE  Character(c, p + 1 + i) = d.flags[i + 1] /\ d.flags[i + 1] \in {"-", "0", "#"}
    <3>1. i + 1 \in 1..nf /\ p + 1 + i = p + (i + 1)
      OBVIOUS
    <3> QED
      BY <1>10, <3>1, Zenon
  <2> QED
    BY <1>3, <1>9, <2>1 DEF SpellsFlags
<1>20. SpellsWidth(c, p, d) /\ \A i \in 1..nw : Character(c, p + fe + i - 1) \in Digits \cup {"*"}
  <2>1. \A i \in 1..Len(WidthField(d)) : Character(c, p + fe + i - 1) = WidthField(d)[i]
    BY <1>3, <1>11, <1>12, Zenon
  <2>2. /\ SpellsWidth(c, p, d)
        /\ \A i \in 1..Len(WidthField(d)) : Character(c, p + fe + i - 1) \in Digits \cup {"*"}
    BY <1>1, <1>2, <1>11, <2>1, WidthSpelled
  <2> QED
    BY <1>3, <2>2, Zenon
<1>21. SpellsPrecision(c, p, d) /\ \A i \in 1..np : Character(c, p + we + i - 1) \in Digits \cup {"*", "."}
  <2>1. \A i \in 1..Len(PrecisionField(d)) : Character(c, p + we + i - 1) = PrecisionField(d)[i]
    BY <1>3, <1>13, <1>14, Zenon
  <2>2. /\ SpellsPrecision(c, p, d)
        /\ \A i \in 1..Len(PrecisionField(d)) : Character(c, p + we + i - 1) \in Digits \cup {"*", "."}
    BY <1>1, <1>2, <1>13, <2>1, PrecisionSpelled
  <2> QED
    BY <1>3, <2>2, Zenon
<1>22. SpellsEnd(c, p, d)
  <2>1. ASSUME NEW i \in 0..(nl - 1) PROVE Character(c, p + pe + i) = "l"
    <3>1. i + 1 \in 1..nl /\ p + pe + (i + 1) - 1 = p + pe + i
      OBVIOUS
    <3> QED
      BY <1>16, <3>1, Zenon
  <2>2. LongsEnd(d) = e
    BY <1>6, <1>7
  <2> QED
    BY <1>3, <1>15, <1>17, <1>18, <2>1, <2>2 DEF SpellsEnd
<1>23. ASSUME NEW j \in 1..(e - 1) PROVE Character(c, p + j) \notin {"%", Nul}
  <2>1. CASE j \in 1..nf
    BY <1>10, <2>1 DEF Nul
  <2>2. CASE j \in fe..(we - 1)
    <3>1. j - fe + 1 \in 1..nw /\ p + fe + (j - fe + 1) - 1 = p + j
      BY <1>13, <2>2
    <3>2. Character(c, p + j) \in Digits \cup {"*"}
      BY <1>20, <3>1, Zenon
    <3> QED
      BY <3>2, DigitsAre DEF Marks, Nul
  <2>3. CASE j \in we..(pe - 1)
    <3>1. j - we + 1 \in 1..np /\ p + we + (j - we + 1) - 1 = p + j
      BY <1>15, <2>3
    <3>2. Character(c, p + j) \in Digits \cup {"*", "."}
      BY <1>21, <3>1, Zenon
    <3> QED
      BY <3>2, DigitsAre DEF Marks, Nul
  <2>4. CASE j \in pe..(e - 1)
    <3>1. j - pe + 1 \in 1..nl /\ p + pe + (j - pe + 1) - 1 = p + j
      BY <1>15, <2>4
    <3>2. Character(c, p + j) = "l"
      BY <1>16, <3>1, Zenon
    <3> QED
      BY <3>2 DEF Nul
  <2> QED
    BY <1>11, <1>13, <1>15, <2>1, <2>2, <2>3, <2>4
<1>24. LongsEnd(d) = e
  BY <1>6, <1>7
<1> QED
  BY <1>3, <1>5, <1>19, <1>20, <1>21, <1>22, <1>23, <1>24, Zenon DEF Spells

(* The last r characters before a directive, or before the end, are printed as
   they are. *)
Plain(c, k, r) ==
    /\ r \in Nat /\ r < Place(c, k) /\ r <= Said(c, k) /\ Place(c, k) \in Nat /\ Said(c, k) \in Nat
    /\ \A i \in 1..r :
           /\ Character(c, Place(c, k) - i) = Printout(c)[Said(c, k) - i + 1]
           /\ Character(c, Place(c, k) - i) \notin {"%", Nul}

(* The text before a directive is printed as it is. *)
LEMMA PlainBefore ==
    ASSUME NEW c \in Calls, FormatCall(c), NEW k \in 1..(Count(c) + 1)
    PROVE  Plain(c, k, Len(Before(c, k)))
<1>1. LiesBefore(c, k)
  BY CallLies
<1>2. PICK f \in Nat, t \in Nat, l \in Nat, p \in Nat, q \in Nat :
          /\ f = FmtAt(c)[k - 1] /\ t = TxtAt(c)[k - 1] /\ l = Len(Before(c, k))
          /\ p = Place(c, k) /\ q = Said(c, k) /\ p = f + l + 1 /\ q = t + l
  <2>1. FmtAt(c)[k - 1] \in Nat /\ TxtAt(c)[k - 1] \in Nat /\ Len(Before(c, k)) \in Nat
    BY <1>1, Zenon DEF LiesBefore
  <2>2. PICK f \in Nat, t \in Nat, l \in Nat :
            f = FmtAt(c)[k - 1] /\ t = TxtAt(c)[k - 1] /\ l = Len(Before(c, k))
    BY <2>1, Zenon
  <2>3. Place(c, k) = f + l + 1 /\ Said(c, k) = t + l
    BY <2>2, Zenon DEF Place, Said
  <2>4. f + l + 1 \in Nat /\ t + l \in Nat
    OBVIOUS
  <2> QED
    BY <2>2, <2>3, <2>4, Zenon
<1>2a. p = f + l + 1 /\ q = t + l
  BY <1>2
<1>3. ASSUME NEW i \in 1..l
      PROVE  Character(c, p - i) = Printout(c)[q - i + 1] /\ Character(c, p - i) \notin {"%", Nul}
  <2>1. PICK j \in 1..l : j = l + 1 - i
    OBVIOUS
  <2>2. p - i = f + j /\ q - i + 1 = t + j
    BY <1>2a, <2>1
  <2>3. Character(c, f + j) = Printout(c)[t + j] /\ Character(c, f + j) \notin {"%", Nul}
    BY <1>1, <1>2 DEF LiesBefore
  <2> QED
    BY <2>2, <2>3, Zenon
<1>4. l < p /\ l <= q
  BY <1>2a
<1> QED
  BY <1>2, <1>3, <1>4 DEF Plain

-----------------------------------------------------------------------------
(* What the first i flags set. *)
Alt(d) == IF Contains(d.flags, "#") THEN 1 ELSE 0
MarkedBy(d, i, fill, alt) ==
    /\ \/ fill = Blank /\ \A j \in 1..i : d.flags[j] = "#"
       \/ \E j \in 1..i : fill = d.flags[j] /\ d.flags[j] # "#" /\ \A l \in (j + 1)..i : d.flags[l] = "#"
    /\ \/ alt = 0 /\ \A j \in 1..i : d.flags[j] # "#"
       \/ alt = 1 /\ \E j \in 1..i : d.flags[j] = "#"

(* All flags set the padding and the alternative form that the directive stands for. *)
LEMMA MarkedAll ==
    ASSUME NEW d, LegalDirective(d), NEW fill, NEW alt, MarkedBy(d, Len(d.flags), fill, alt)
    PROVE  fill = Pad(d) /\ alt = Alt(d) /\ Pad(d) \in {Blank, "-", "0"} /\ Alt(d) \in 0..1
<1>1. PICK n \in Nat : n = Len(d.flags) /\ DOMAIN d.flags = 1..n /\ \A i \in 1..n : d.flags[i] \in {"-", "0", "#"}
  <2>1. d.flags \in Seq({"-", "0", "#"})
    BY DEF LegalDirective, DirectiveType
  <2> QED
    BY <2>1, LenProperties
<1>2. alt = Alt(d)
  BY <1>1 DEF MarkedBy, Alt, Contains
<1> DEFINE pads == {i \in DOMAIN d.flags : d.flags[i] \in {"-", "0"}}
           last == CHOOSE i \in pads : \A j \in pads : j <= i
<1>3. Pad(d) = IF pads = {} THEN Blank ELSE d.flags[last]
  BY Zenon DEF Pad, Blank
<1>4. CASE fill = Blank /\ \A j \in 1..n : d.flags[j] = "#"
  <2>1. pads = {}
    BY <1>1, <1>4
  <2> QED
    BY <1>2, <1>3, <1>4, <2>1 DEF Alt
<1>5. CASE \E j \in 1..n : fill = d.flags[j] /\ d.flags[j] # "#" /\ \A l \in (j + 1)..n : d.flags[l] = "#"
  <2>1. PICK j \in 1..n : fill = d.flags[j] /\ d.flags[j] # "#" /\ \A l \in (j + 1)..n : d.flags[l] = "#"
    BY <1>5
  <2>2. j \in pads /\ \A l \in pads : l <= j /\ l \in Nat
    <3>1. j \in pads
      BY <1>1, <2>1
    <3>2. ASSUME NEW l \in pads PROVE l <= j /\ l \in Nat
      <4>1. l \in 1..n /\ d.flags[l] # "#"
        BY <1>1
      <4>2. l \notin (j + 1)..n
        BY <2>1, <4>1
      <4> QED
        BY <4>1, <4>2
    <3> QED
      BY <3>1, <3>2
  <2> HIDE DEF pads
  <2>3. last \in pads /\ \A l \in pads : l <= last
    BY <2>2
  <2> HIDE DEF last
  <2>4. last = j
    BY <2>2, <2>3
  <2>5. Pad(d) = fill /\ fill \in {"-", "0"}
    BY <1>1, <1>3, <2>1, <2>2, <2>4
  <2> QED
    BY <1>2, <2>5 DEF Alt
<1> QED
  BY <1>1, <1>4, <1>5 DEF MarkedBy

(* A flag more. *)
LEMMA MarkedOneMore ==
    ASSUME NEW d, NEW i \in Nat, NEW fill, NEW alt, MarkedBy(d, i, fill, alt)
    PROVE  /\ d.flags[i + 1] = "#" => MarkedBy(d, i + 1, fill, 1)
           /\ d.flags[i + 1] # "#" => MarkedBy(d, i + 1, d.flags[i + 1], alt)
<1>1. 1..(i + 1) = 1..i \cup {i + 1} /\ i + 1 \in 1..(i + 1) /\ (i + 1 + 1)..(i + 1) = {}
  OBVIOUS
<1>2. \A j \in 1..i : (j + 1)..(i + 1) = (j + 1)..i \cup {i + 1}
  OBVIOUS
<1>3. ASSUME d.flags[i + 1] = "#" PROVE MarkedBy(d, i + 1, fill, 1)
  BY <1>1, <1>2, <1>3 DEF MarkedBy
<1>4. ASSUME d.flags[i + 1] # "#" PROVE MarkedBy(d, i + 1, d.flags[i + 1], alt)
  BY <1>1, <1>4 DEF MarkedBy
<1> QED
  BY <1>3, <1>4

(* No flag yet. *)
LEMMA MarkedByNone == ASSUME NEW d PROVE MarkedBy(d, 0, Blank, 0)
  BY DEF MarkedBy

(* Padding and form are of their types as the flags are read. *)
LEMMA MarkedType ==
    ASSUME NEW d, LegalDirective(d), NEW i \in 0..Len(d.flags), NEW fill, NEW alt, MarkedBy(d, i, fill, alt)
    PROVE  fill \in {Blank, "-", "0"} /\ alt \in 0..1
<1>1. PICK n \in Nat : n = Len(d.flags) /\ DOMAIN d.flags = 1..n /\ \A j \in 1..n : d.flags[j] \in {"-", "0", "#"}
  <2>1. d.flags \in Seq({"-", "0", "#"})
    BY DEF LegalDirective, DirectiveType
  <2> QED
    BY <2>1, LenProperties
<1> QED
  BY <1>1 DEF MarkedBy
=============================================================================
