---------------------------- MODULE Typing_proofs ----------------------------
(***************************************************************************)
(* Proofs about Typing, for any of the keys, any number of them held at    *)
(* once, and any number of bytes waiting on the wire; and about            *)
(* kbd_proc_data alone.                                                    *)
(*                                                                         *)
(* The typist is ahead of the driver by the bytes on the wire, so what the *)
(* flags have to do with the keys is said of the flags that the driver     *)
(* will have when it has taken them.                                       *)
(***************************************************************************)
EXTENDS Typing, SequenceTheorems, TLAPS

-----------------------------------------------------------------------------
(* kbd_proc_data, for every state of shift and every byte. *)

(* The rows of the three maps hold bytes. *)
LEMMA RowsHoldBytes ==
    /\ \A k \in 1..55 : NormalRows[k] \in Byte
    /\ \A k \in 1..55 : ShiftRows[k] \in Byte
    /\ \A k \in 1..55 : CtlRows[k] \in Byte
    /\ \A k \in 1..29 : Keypad[k] \in Byte
    /\ \A k \in 1..13 : Navigation[k] \in Byte
<1>1. \A k \in 1..55 : NormalRows[k] \in Byte
  BY DEF NormalRows, NO, Byte
<1>2. \A k \in 1..55 : ShiftRows[k] \in Byte
  BY DEF ShiftRows, NO, Byte
<1>3. \A k \in 1..55 : CtlRows[k] \in Byte
  BY DEF CtlRows, NO, Byte
<1>4. \A k \in 1..29 : Keypad[k] \in Byte
  BY DEF Keypad, NO, Byte
<1>5. \A k \in 1..13 : Navigation[k] \in Byte
  BY DEF Navigation, NO, KEY_DEL, Byte
<1> QED
  BY <1>1, <1>2, <1>3, <1>4, <1>5

(* A map made of rows of bytes is a map from bytes to bytes. *)
LEMMA CharMapType ==
    ASSUME NEW rows, \A k \in 1..55 : rows[k] \in Byte
    PROVE  \A data \in Byte : CharMap(rows)[data] \in Byte
<1> SUFFICES ASSUME NEW data \in Byte
             PROVE  CharMap(rows)[data] \in Byte
  OBVIOUS
<1> DEFINE entry ==
        IF data < 55 THEN rows[data + 1]
        ELSE IF data < 84 THEN Keypad[data - 54]
        ELSE IF data = 156 THEN 10
        ELSE IF data = 181 THEN 47
        ELSE IF data \in 199..211 THEN Navigation[data - 198]
        ELSE NO
<1>1. CharMap(rows)[data] = entry
  BY DEF CharMap
<1>2. data < 55 => rows[data + 1] \in Byte
  BY DEF Byte
<1>3. data >= 55 /\ data < 84 => Keypad[data - 54] \in Byte
  <2>1. data >= 55 /\ data < 84 => data - 54 \in 1..29
    BY DEF Byte
  <2> QED
    BY <2>1, RowsHoldBytes
<1>4. data \in 199..211 => Navigation[data - 198] \in Byte
  <2>1. data \in 199..211 => data - 198 \in 1..13
    BY DEF Byte
  <2> QED
    BY <2>1, RowsHoldBytes
<1>5. data \in Int /\ NO \in Byte /\ 10 \in Byte /\ 47 \in Byte
  BY DEF Byte, NO
<1>6. entry \in Byte
  BY <1>2, <1>3, <1>4, <1>5
<1> QED
  BY <1>1, <1>6

(* All three maps take a byte to a byte. *)
LEMMA MapsType ==
    \A data \in Byte :
        normalmap[data] \in Byte /\ shiftmap[data] \in Byte /\ ctlmap[data] \in Byte
<1> SUFFICES ASSUME NEW data \in Byte
             PROVE  normalmap[data] \in Byte /\ shiftmap[data] \in Byte /\ ctlmap[data] \in Byte
  OBVIOUS
<1>1. normalmap[data] \in Byte
  BY RowsHoldBytes, CharMapType DEF normalmap
<1>2. shiftmap[data] \in Byte
  BY RowsHoldBytes, CharMapType DEF shiftmap
<1> DEFINE entry ==
        IF data < 55 THEN CtlRows[data + 1]
        ELSE IF data = 151 THEN 224
        ELSE IF data = 181 THEN 239
        ELSE IF data \in 200..211 THEN Navigation[data - 198]
        ELSE NO
<1>3. ctlmap[data] = entry
  BY DEF ctlmap
<1>4. data < 55 => CtlRows[data + 1] \in Byte
  <2>1. data < 55 => data + 1 \in 1..55
    BY DEF Byte
  <2> QED
    BY <2>1, RowsHoldBytes
<1>5. data \in 200..211 => Navigation[data - 198] \in Byte
  <2>1. data \in 200..211 => data - 198 \in 1..13
    BY DEF Byte
  <2> QED
    BY <2>1, RowsHoldBytes
<1>6. NO \in Byte /\ 224 \in Byte /\ 239 \in Byte
  BY DEF Byte, NO
<1>7. entry \in Byte
  BY <1>4, <1>5, <1>6
<1> QED
  BY <1>1, <1>2, <1>3, <1>7

(* A pressed key gives a byte, which fits the console buffer, and flags. *)
LEMMA PressType ==
    ASSUME NEW s, s \subseteq Flags, NEW data \in Byte, data < 128
    PROVE  /\ Press(s, data).shift \subseteq Flags
           /\ Press(s, data).c \in Byte
           /\ Press(s, data).reboot \in BOOLEAN
<1> DEFINE code  == IF "E0ESC" \in s THEN Extended(data) ELSE data
           flags == SymmetricDifference((s \ {"E0ESC"}) \cup shiftcode(code), togglecode(code))
           char  == charcode(flags)[code]
           c     == IF "CAPSLOCK" \in flags THEN flipcase(char) ELSE char
<1>1. code \in Byte
  BY DEF Extended, Byte
<1>2. shiftcode(code) \subseteq Flags /\ togglecode(code) \subseteq Flags
  BY DEF shiftcode, togglecode, Flags, Modifiers, Locks
<1> HIDE DEF code
<1>3. flags \subseteq Flags
  BY <1>2 DEF SymmetricDifference
<1> HIDE DEF flags
<1>4. char \in Byte
  BY <1>1, MapsType DEF charcode
<1> HIDE DEF char
<1>5. c \in Byte
  BY <1>4 DEF flipcase, Byte
<1> HIDE DEF c
<1>6. Press(s, data) =
         [shift |-> flags, c |-> c, reboot |-> {"CTL", "ALT"} \subseteq flags /\ c = KEY_DEL]
  BY DEF Press, code, flags, char, c
<1> QED
  BY <1>3, <1>5, <1>6

(* kbd_proc_data returns a byte, never anything a slot of the console buffer
   could not hold, and keeps shift a set of flags. *)
THEOREM KbdProcDataType ==
    ASSUME NEW s, s \subseteq Flags, NEW data \in Byte
    PROVE  /\ kbd_proc_data(s, data).shift \subseteq Flags
           /\ kbd_proc_data(s, data).c \in Byte
           /\ kbd_proc_data(s, data).reboot \in BOOLEAN
<1>1. CASE data = E0
  BY <1>1 DEF kbd_proc_data, Prefix, Flags, NO, Byte
<1>2. CASE data # E0 /\ data >= 128
  BY <1>2 DEF kbd_proc_data, Release, NO, Byte
<1>3. CASE data # E0 /\ data < 128
  <2>1. kbd_proc_data(s, data) = Press(s, data)
    BY <1>3 DEF kbd_proc_data, Byte
  <2> QED
    BY <1>3, <2>1, PressType
<1> QED
  BY <1>1, <1>2, <1>3 DEF Byte

(* The prefix flag is set after a byte exactly when that byte is the prefix, in
   every state of shift: a prefix holds for the one byte after it. *)
THEOREM PrefixFlag ==
    ASSUME NEW s, s \subseteq Flags, NEW data \in Byte
    PROVE  ("E0ESC" \in kbd_proc_data(s, data).shift) <=> (data = E0)
<1>1. CASE data = E0
  BY <1>1 DEF kbd_proc_data, Prefix
<1>2. CASE data # E0 /\ data >= 128
  BY <1>2 DEF kbd_proc_data, Release
<1>3. CASE data # E0 /\ data < 128
  <2> DEFINE code  == IF "E0ESC" \in s THEN Extended(data) ELSE data
             flags == SymmetricDifference((s \ {"E0ESC"}) \cup shiftcode(code), togglecode(code))
  <2>1. "E0ESC" \notin shiftcode(code) /\ "E0ESC" \notin togglecode(code)
    BY DEF shiftcode, togglecode
  <2> HIDE DEF code
  <2>2. "E0ESC" \notin flags
    BY <2>1 DEF SymmetricDifference
  <2>3. kbd_proc_data(s, data).shift = flags
    BY <1>3 DEF kbd_proc_data, Press, code, Byte
  <2> QED
    BY <1>3, <2>2, <2>3
<1> QED
  BY <1>1, <1>2, <1>3 DEF Byte

(* A break code never sets a flag and always clears the modifier its key stands
   for, so no sequence of bytes before it can make a modifier stick. *)
THEOREM ReleaseClears ==
    ASSUME NEW s, s \subseteq Flags, NEW data \in Byte, data >= 128, data # E0
    PROVE  LET code == IF "E0ESC" \in s THEN data ELSE Plain(data) IN
           /\ kbd_proc_data(s, data).shift \subseteq s
           /\ kbd_proc_data(s, data).shift \cap shiftcode(code) = {}
<1> DEFINE code == IF "E0ESC" \in s THEN data ELSE Plain(data)
<1>1. kbd_proc_data(s, data).shift = s \ (shiftcode(code) \cup {"E0ESC"})
  BY DEF kbd_proc_data, Release
<1> HIDE DEF code
<1>2. /\ kbd_proc_data(s, data).shift \subseteq s
      /\ kbd_proc_data(s, data).shift \cap shiftcode(code) = {}
  BY <1>1
<1> QED
  BY <1>2 DEF code

-----------------------------------------------------------------------------
(* The typist and the wire. *)

(* What a byte may complete, and what is on the wire. *)
Happenings ==
    {Part} \cup [kind : {"event"}, keys : SUBSET Keys, blurred : SUBSET Modifiers, caps : BOOLEAN,
                 meant : [c : Byte, reboot : BOOLEAN]]
Nodes == [data : Byte, completes : Happenings]

(* The flags s agree with the keys that are down. *)
Agrees(keys, blurs, capsOn, s) ==
    /\ "E0ESC" \notin s
    /\ \A m \in Modifiers : /\ m \in s => Down(m, keys)
                            /\ Down(m, keys) /\ m \notin blurs => m \in s
    /\ ("CAPSLOCK" \in s) <=> capsOn

(* The result r of kbd_proc_data is right for what the byte completes. *)
Right(e, r) ==
    IF e.kind = "event"
    THEN /\ Agrees(e.keys, e.blurred, e.caps, r.shift)
         /\ e.blurred = {} => r.c = e.meant.c /\ (e.meant.reboot => r.reboot)
         /\ r.reboot => e.meant.reboot
    ELSE r.c = NO /\ ~r.reboot

(* Taking the byte of a node takes the flags from s to s2, rightly ... *)
Step(s, node, s2) ==
    /\ kbd_proc_data(s, node.data).shift = s2
    /\ Right(node.completes, kbd_proc_data(s, node.data))

(* ... and so do the bytes of w, one after the other. *)
Runs(w, s, s2) ==
    \E states \in [1..(Len(w) + 1) -> SUBSET Flags] :
        /\ states[1] = s /\ states[Len(w) + 1] = s2
        /\ \A j \in 1..Len(w) : Step(states[j], w[j], states[j + 1])

TypingInv ==
    /\ held \subseteq Keys \ {"Pause"} /\ caps \in BOOLEAN /\ blurred \subseteq Modifiers
    /\ wire \in Seq(Nodes) /\ Len(wire) <= Backlog + 6
    /\ shift \subseteq Flags /\ reply \in [c : Byte, reboot : BOOLEAN]
    /\ prefixed \in BOOLEAN /\ seen \in Happenings
    /\ ("E0ESC" \in shift) <=> prefixed
    /\ Right(seen, [shift |-> shift, c |-> reply.c, reboot |-> reply.reboot])
    /\ \E s \in SUBSET Flags : Runs(wire, shift, s) /\ Agrees(held, blurred, caps, s)

-----------------------------------------------------------------------------
(* Runs of bytes. *)

(* No bytes leave the flags as they are. *)
LEMMA RunsNothing == ASSUME NEW s \in SUBSET Flags PROVE Runs(<< >>, s, s)
<1> DEFINE states == [j \in 1..1 |-> s]
<1>1. states \in [1..(Len(<< >>) + 1) -> SUBSET Flags] /\ states[1] = s /\ states[Len(<< >>) + 1] = s
  OBVIOUS
<1>2. \A j \in 1..Len(<< >>) : Step(states[j], << >>[j], states[j + 1])
  OBVIOUS
<1> HIDE DEF states
<1> QED
  BY <1>1, <1>2 DEF Runs

(* Two runs, the second from where the first ends, are one. *)
LEMMA RunsConcat ==
    ASSUME NEW w \in Seq(Nodes), NEW v \in Seq(Nodes), NEW s, NEW s2, NEW s3, Runs(w, s, s2), Runs(v, s2, s3)
    PROVE  Runs(w \o v, s, s3)
<1> DEFINE l == Len(w)
           n == Len(v)
           u == w \o v
<1>1. l \in Nat /\ n \in Nat
  OBVIOUS
<1>2. Len(u) = l + n /\ \A j \in 1..(l + n) : u[j] = IF j <= l THEN w[j] ELSE v[j - l]
  BY ConcatProperties
<1>3. PICK f \in [1..(l + 1) -> SUBSET Flags] :
          /\ f[1] = s /\ f[l + 1] = s2 /\ \A j \in 1..l : Step(f[j], w[j], f[j + 1])
  BY DEF Runs
<1>4. PICK g \in [1..(n + 1) -> SUBSET Flags] :
          /\ g[1] = s2 /\ g[n + 1] = s3 /\ \A j \in 1..n : Step(g[j], v[j], g[j + 1])
  BY DEF Runs
<1> HIDE DEF l, n, u
<1> DEFINE states == [j \in 1..(l + n + 1) |-> IF j <= l THEN f[j] ELSE g[j - l]]
<1>5. \A j \in 1..(l + n + 1) : states[j] = IF j <= l THEN f[j] ELSE g[j - l]
  OBVIOUS
<1>6. states \in [1..(l + n + 1) -> SUBSET Flags]
  <2> SUFFICES ASSUME NEW j \in 1..(l + n + 1) PROVE (IF j <= l THEN f[j] ELSE g[j - l]) \in SUBSET Flags
    OBVIOUS
  <2>1. CASE j <= l
    <3>1. j \in 1..(l + 1)
      BY <1>1, <2>1
    <3> QED
      BY <1>3, <2>1, <3>1
  <2>2. CASE ~(j <= l)
    <3>1. j - l \in 1..(n + 1)
      BY <1>1, <2>2
    <3> QED
      BY <1>4, <2>2, <3>1
  <2> QED
    BY <2>1, <2>2
<1> HIDE DEF states
<1>7. states[1] = s
  <2>1. CASE l = 0
    <3>1. 1 \in 1..(l + n + 1) /\ ~(1 <= l) /\ 1 - l = 1 /\ l + 1 = 1
      BY <1>1, <2>1
    <3> QED
      BY <1>3, <1>4, <1>5, <3>1
  <2>2. CASE l # 0
    <3>1. 1 \in 1..(l + n + 1) /\ 1 <= l
      BY <1>1, <2>2
    <3> QED
      BY <1>3, <1>5, <3>1
  <2> QED
    BY <2>1, <2>2
<1>8. states[l + n + 1] = s3
  <2>1. l + n + 1 \in 1..(l + n + 1) /\ ~(l + n + 1 <= l) /\ (l + n + 1) - l = n + 1
    BY <1>1
  <2> QED
    BY <1>4, <1>5, <2>1
<1>9. ASSUME NEW j \in 1..(l + n) PROVE Step(states[j], u[j], states[j + 1])
  <2>1. j \in 1..(l + n + 1) /\ j + 1 \in 1..(l + n + 1)
    BY <1>1
  <2>2. CASE j < l
    <3>1. j <= l /\ j + 1 <= l /\ j \in 1..l
      BY <1>1, <2>2
    <3> QED
      BY <1>2, <1>3, <1>5, <2>1, <3>1
  <2>3. CASE j = l
    <3>1. j <= l /\ ~(j + 1 <= l) /\ j \in 1..l /\ (j + 1) - l = 1
      BY <1>1, <2>3
    <3>2. states[j] = f[l] /\ states[j + 1] = f[l + 1] /\ u[j] = w[l]
      BY <1>2, <1>3, <1>4, <1>5, <2>1, <2>3, <3>1
    <3> QED
      BY <1>3, <2>3, <3>1, <3>2
  <2>4. CASE j > l
    <3>1. ~(j <= l) /\ ~(j + 1 <= l) /\ j - l \in 1..n /\ (j + 1) - l = (j - l) + 1
      BY <1>1, <2>4
    <3> QED
      BY <1>2, <1>4, <1>5, <2>1, <3>1
  <2> QED
    BY <1>1, <2>2, <2>3, <2>4
<1> QED
  BY <1>2, <1>6, <1>7, <1>8, <1>9 DEF Runs, u

(* A run is its first byte's step and a run over the rest. *)
LEMMA RunsTail ==
    ASSUME NEW w \in Seq(Nodes), w # << >>, NEW s, NEW s2, Runs(w, s, s2)
    PROVE  \E t \in SUBSET Flags : Step(s, Head(w), t) /\ Runs(Tail(w), t, s2)
<1> DEFINE l == Len(w)
           v == Tail(w)
<1>1. l \in Nat \ {0} /\ Head(w) = w[1]
  BY EmptySeq
<1>2. v \in Seq(Nodes) /\ Len(v) = l - 1 /\ \A j \in 1..(l - 1) : v[j] = w[j + 1]
  BY HeadTailProperties
<1>3. PICK f \in [1..(l + 1) -> SUBSET Flags] :
          /\ f[1] = s /\ f[l + 1] = s2 /\ \A j \in 1..l : Step(f[j], w[j], f[j + 1])
  BY DEF Runs
<1> HIDE DEF l, v
<1> DEFINE states == [j \in 1..l |-> f[j + 1]]
<1>4. states \in [1..(Len(v) + 1) -> SUBSET Flags]
  <2>1. (Len(v) + 1) = l /\ \A j \in 1..l : j + 1 \in 1..(l + 1)
    BY <1>1, <1>2
  <2> QED
    BY <1>3, <2>1
<1>5. \A j \in 1..l : states[j] = f[j + 1]
  OBVIOUS
<1> HIDE DEF states
<1>6. states[1] = f[2] /\ states[Len(v) + 1] = s2
  <2>1. 1 \in 1..l /\ 1 + 1 = 2 /\ l \in 1..l /\ Len(v) + 1 = l
    BY <1>1, <1>2
  <2> QED
    BY <1>3, <1>5, <2>1
<1>7. ASSUME NEW j \in 1..Len(v) PROVE Step(states[j], v[j], states[j + 1])
  <2>1. j \in 1..(l - 1) /\ j \in 1..l /\ j + 1 \in 1..l
    BY <1>1, <1>2
  <2> QED
    BY <1>2, <1>3, <1>5, <2>1
<1>8. Runs(v, f[2], s2)
  BY <1>4, <1>6, <1>7 DEF Runs
<1>9. Step(s, w[1], f[2]) /\ f[2] \in SUBSET Flags
  <2>1. 1 \in 1..l /\ 1 + 1 = 2 /\ 2 \in 1..(l + 1)
    BY <1>1
  <2> QED
    BY <1>3, <2>1
<1> QED
  BY <1>1, <1>8, <1>9 DEF v

(* The runs of one, two, four and six bytes. *)
LEMMA RunsOne ==
    ASSUME NEW a, NEW s1 \in SUBSET Flags, NEW s2 \in SUBSET Flags, Step(s1, a, s2)
    PROVE  Runs(<< a >>, s1, s2)
<1> DEFINE states == << s1, s2 >>
<1>1. Len(<< a >>) = 1 /\ states \in [1..2 -> SUBSET Flags] /\ states[1] = s1 /\ states[2] = s2
  OBVIOUS
<1>2. \A j \in 1..1 : Step(states[j], << a >>[j], states[j + 1])
  OBVIOUS
<1> HIDE DEF states
<1> QED
  BY <1>1, <1>2 DEF Runs

(* Two steps are a run. *)
LEMMA RunsTwo ==
    ASSUME NEW a, NEW b, NEW s1 \in SUBSET Flags, NEW s2 \in SUBSET Flags, NEW s3 \in SUBSET Flags,
           Step(s1, a, s2), Step(s2, b, s3)
    PROVE  Runs(<< a, b >>, s1, s3)
<1> DEFINE states == << s1, s2, s3 >>
<1>1. Len(<< a, b >>) = 2 /\ states \in [1..3 -> SUBSET Flags] /\ states[1] = s1 /\ states[3] = s3
  OBVIOUS
<1>2. \A j \in 1..2 : Step(states[j], << a, b >>[j], states[j + 1])
  OBVIOUS
<1> HIDE DEF states
<1> QED
  BY <1>1, <1>2 DEF Runs

(* Four steps are a run. *)
LEMMA RunsFour ==
    ASSUME NEW a, NEW b, NEW c, NEW d, NEW s1 \in SUBSET Flags, NEW s2 \in SUBSET Flags,
           NEW s3 \in SUBSET Flags, NEW s4 \in SUBSET Flags, NEW s5 \in SUBSET Flags,
           Step(s1, a, s2), Step(s2, b, s3), Step(s3, c, s4), Step(s4, d, s5)
    PROVE  Runs(<< a, b, c, d >>, s1, s5)
<1> DEFINE states == << s1, s2, s3, s4, s5 >>
<1>1. Len(<< a, b, c, d >>) = 4 /\ states \in [1..5 -> SUBSET Flags] /\ states[1] = s1 /\ states[5] = s5
  OBVIOUS
<1>2. \A j \in 1..4 : Step(states[j], << a, b, c, d >>[j], states[j + 1])
  OBVIOUS
<1> HIDE DEF states
<1> QED
  BY <1>1, <1>2 DEF Runs

(* Six steps are a run. *)
LEMMA RunsSix ==
    ASSUME NEW a, NEW b, NEW c, NEW d, NEW e, NEW f, NEW s1 \in SUBSET Flags, NEW s2 \in SUBSET Flags,
           NEW s3 \in SUBSET Flags, NEW s4 \in SUBSET Flags, NEW s5 \in SUBSET Flags,
           NEW s6 \in SUBSET Flags, NEW s7 \in SUBSET Flags,
           Step(s1, a, s2), Step(s2, b, s3), Step(s3, c, s4), Step(s4, d, s5), Step(s5, e, s6), Step(s6, f, s7)
    PROVE  Runs(<< a, b, c, d, e, f >>, s1, s7)
<1> DEFINE states == << s1, s2, s3, s4, s5, s6, s7 >>
<1>1. /\ Len(<< a, b, c, d, e, f >>) = 6 /\ states \in [1..7 -> SUBSET Flags]
      /\ states[1] = s1 /\ states[7] = s7
  OBVIOUS
<1>2. \A j \in 1..6 : Step(states[j], << a, b, c, d, e, f >>[j], states[j + 1])
  OBVIOUS
<1> HIDE DEF states
<1> QED
  BY <1>1, <1>2 DEF Runs

-----------------------------------------------------------------------------
(* The keys' codes.  All keys but Print Screen and Pause have one code, the
   extended ones after a prefix. *)

ExtendedKeys == {"RCtrl", "RAlt", "Delete", "KpEnter"}
Simple       == KeyNames \ {"PrtSc", "Pause"}

(* The last byte of the make code. *)
LastByte(key) ==
    CASE key = "LShift"   -> 42
      [] key = "RShift"   -> 54
      [] key \in {"LCtrl", "RCtrl"} -> 29
      [] key \in {"LAlt", "RAlt"}   -> 56
      [] key = "CapsLock" -> 58
      [] key = "A"        -> 30
      [] key = "One"      -> 2
      [] key \in {"Delete", "KpDelete"} -> 83
      [] key = "KpEnter"  -> 28

(* Where the driver's tables hold the key. *)
CodeOf(key) == IF key \in ExtendedKeys THEN LastByte(key) + 128 ELSE LastByte(key)

Codes(key, byte) == IF key \in ExtendedKeys THEN << E0, byte >> ELSE << byte >>

(* The keys with one code, without and with the prefix. *)
LEMMA SimpleKeys ==
    \A key \in Simple : \/ key \in {"LShift", "RShift", "LCtrl", "LAlt", "CapsLock", "A", "One", "KpDelete"}
                        \/ key \in {"RCtrl", "RAlt", "Delete", "KpEnter"}
BY DEF Simple, KeyNames

(* The make code of a key, behind the prefix if it has one. *)
LEMMA MakeIs ==
    ASSUME NEW key \in Simple
    PROVE  LastByte(key) \in 1..83 /\ Make(key) = Codes(key, LastByte(key))
<1>1. CASE key \in {"LShift", "RShift", "LCtrl", "LAlt", "CapsLock", "A", "One", "KpDelete"}
  BY <1>1 DEF Make, LastByte, Codes, ExtendedKeys
<1>2. CASE key \in {"RCtrl", "RAlt", "Delete", "KpEnter"}
  BY <1>2 DEF Make, LastByte, Codes, ExtendedKeys
<1> QED
  BY <1>1, <1>2, SimpleKeys

(* The break code is the make code with bit 7. *)
LEMMA BreakIs ==
    ASSUME NEW key \in Simple
    PROVE  Break(key) = Codes(key, LastByte(key) + 128)
<1> DEFINE b == LastByte(key)
<1>1. b \in 1..83 /\ Make(key) = Codes(key, b)
  BY MakeIs
<1>2. Break(key) = [k \in DOMAIN Make(key) |-> IF Make(key)[k] = E0 THEN E0 ELSE Make(key)[k] + 128]
  BY DEF Break, Simple
<1> HIDE DEF b
<1>3. CASE key \in ExtendedKeys
  <2>1. Make(key) = << E0, b >>
    BY <1>1, <1>3 DEF Codes
  <2>2. Break(key) = << E0, b + 128 >>
    BY <1>1, <1>2, <2>1 DEF E0
  <2> QED
    BY <1>3, <2>2 DEF Codes, b
<1>4. CASE key \notin ExtendedKeys
  <2>1. Make(key) = << b >>
    BY <1>1, <1>4 DEF Codes
  <2>2. Break(key) = << b + 128 >>
    BY <1>1, <1>2, <2>1 DEF E0
  <2> QED
    BY <1>4, <2>2 DEF Codes, b
<1> QED
  BY <1>3, <1>4

(* The tables hold what the keys stand for. *)
LEMMA ModifierOfKey ==
    ASSUME NEW key \in Simple
    PROVE  /\ CodeOf(key) \in Byte
           /\ shiftcode(CodeOf(key)) = ModifiersOf(key)
           /\ togglecode(CodeOf(key)) = IF key = "CapsLock" THEN {"CAPSLOCK"} ELSE {}
<1>1. CASE key \in {"LShift", "RShift", "LCtrl", "LAlt", "CapsLock", "A", "One", "KpDelete"}
  BY <1>1 DEF CodeOf, LastByte, ExtendedKeys, Byte, shiftcode, togglecode, ModifiersOf, Modifiers, KeysOf
<1>2. CASE key \in {"RCtrl", "RAlt", "Delete", "KpEnter"}
  BY <1>2 DEF CodeOf, LastByte, ExtendedKeys, Byte, shiftcode, togglecode, ModifiersOf, Modifiers, KeysOf
<1> QED
  BY <1>1, <1>2, SimpleKeys

(* The rows of the keys that have one. *)
LEMMA RowEntries ==
    /\ NormalRows[43] = NO /\ NormalRows[55] = NO /\ NormalRows[30] = NO /\ NormalRows[31] = 97 /\ NormalRows[3] = 49
    /\ ShiftRows[43] = NO /\ ShiftRows[55] = NO /\ ShiftRows[30] = NO /\ ShiftRows[31] = 65 /\ ShiftRows[3] = 33
    /\ CtlRows[43] = NO /\ CtlRows[55] = NO /\ CtlRows[30] = NO /\ CtlRows[31] = 1 /\ CtlRows[3] = NO
    /\ Keypad[2] = NO /\ Keypad[4] = NO /\ Keypad[29] = 46 /\ Navigation[13] = KEY_DEL
<1>1. NormalRows[43] = NO /\ NormalRows[55] = NO /\ NormalRows[30] = NO /\ NormalRows[31] = 97 /\ NormalRows[3] = 49
  BY DEF NormalRows
<1>2. ShiftRows[43] = NO /\ ShiftRows[55] = NO /\ ShiftRows[30] = NO /\ ShiftRows[31] = 65 /\ ShiftRows[3] = 33
  BY DEF ShiftRows
<1>3. CtlRows[43] = NO /\ CtlRows[55] = NO /\ CtlRows[30] = NO /\ CtlRows[31] = 1 /\ CtlRows[3] = NO
  BY DEF CtlRows
<1>4. Keypad[2] = NO /\ Keypad[4] = NO /\ Keypad[29] = 46 /\ Navigation[13] = KEY_DEL
  BY DEF Keypad, Navigation
<1> QED
  BY <1>1, <1>2, <1>3, <1>4

(* The tables give a key the characters that Meaning has for it. *)
LEMMA CharacterOfKey ==
    ASSUME NEW key \in Simple
    PROVE  /\ normalmap[CodeOf(key)] = Meaning(key)[1]
           /\ shiftmap[CodeOf(key)] = Meaning(key)[2]
           /\ ctlmap[CodeOf(key)] = Meaning(key)[3]
<1> DEFINE code == CodeOf(key)
           char(rows) == IF code < 55 THEN rows[code + 1]
                         ELSE IF code < 84 THEN Keypad[code - 54]
                         ELSE IF code = 156 THEN 10
                         ELSE IF code = 181 THEN 47
                         ELSE IF code \in 199..211 THEN Navigation[code - 198]
                         ELSE NO
           ctl == IF code < 55 THEN CtlRows[code + 1]
                  ELSE IF code = 151 THEN 224
                  ELSE IF code = 181 THEN 239
                  ELSE IF code \in 200..211 THEN Navigation[code - 198]
                  ELSE NO
<1>1. code \in Byte
  BY ModifierOfKey
<1>2. normalmap[code] = char(NormalRows) /\ shiftmap[code] = char(ShiftRows) /\ ctlmap[code] = ctl
  BY <1>1 DEF normalmap, shiftmap, ctlmap, CharMap
<1>3. CASE key \in {"LShift", "RShift", "LCtrl", "LAlt", "CapsLock"}
  <2>1. code \in {42, 54, 29, 56, 58} /\ Meaning(key) = << NO, NO, NO >>
    BY <1>3 DEF CodeOf, LastByte, ExtendedKeys, Meaning
  <2> HIDE DEF code
  <2>2. char(NormalRows) = Meaning(key)[1] /\ char(ShiftRows) = Meaning(key)[2]
    BY <2>1, RowEntries
  <2>3. ctl = Meaning(key)[3]
    BY <2>1, RowEntries
  <2> QED
    BY <1>2, <2>2, <2>3 DEF code
<1>4. CASE key = "A"
  <2>1. code = 30 /\ Meaning(key) = << 97, 65, 1 >>
    BY <1>4 DEF CodeOf, LastByte, ExtendedKeys, Meaning
  <2> HIDE DEF code
  <2>2. char(NormalRows) = Meaning(key)[1] /\ char(ShiftRows) = Meaning(key)[2]
    BY <2>1, RowEntries
  <2>3. ctl = Meaning(key)[3]
    BY <2>1, RowEntries
  <2> QED
    BY <1>2, <2>2, <2>3 DEF code
<1>5. CASE key = "One"
  <2>1. code = 2 /\ Meaning(key) = << 49, 33, NO >>
    BY <1>5 DEF CodeOf, LastByte, ExtendedKeys, Meaning
  <2> HIDE DEF code
  <2>2. char(NormalRows) = Meaning(key)[1] /\ char(ShiftRows) = Meaning(key)[2]
    BY <2>1, RowEntries
  <2>3. ctl = Meaning(key)[3]
    BY <2>1, RowEntries
  <2> QED
    BY <1>2, <2>2, <2>3 DEF code
<1>6. CASE key = "KpDelete"
  <2>1. code = 83 /\ Meaning(key) = << 46, 46, NO >>
    BY <1>6 DEF CodeOf, LastByte, ExtendedKeys, Meaning
  <2> HIDE DEF code
  <2>2. char(NormalRows) = Meaning(key)[1] /\ char(ShiftRows) = Meaning(key)[2]
    BY <2>1, RowEntries
  <2>3. ctl = Meaning(key)[3]
    BY <2>1, RowEntries
  <2> QED
    BY <1>2, <2>2, <2>3 DEF code
<1>7. CASE key \in {"RCtrl", "RAlt"}
  <2>1. code \in {157, 184} /\ Meaning(key) = << NO, NO, NO >>
    BY <1>7 DEF CodeOf, LastByte, ExtendedKeys, Meaning
  <2> HIDE DEF code
  <2>2. char(NormalRows) = Meaning(key)[1] /\ char(ShiftRows) = Meaning(key)[2]
    BY <2>1, RowEntries
  <2>3. ctl = Meaning(key)[3]
    BY <2>1, RowEntries
  <2> QED
    BY <1>2, <2>2, <2>3 DEF code
<1>8. CASE key = "Delete"
  <2>1. code = 211 /\ Meaning(key) = << KEY_DEL, KEY_DEL, KEY_DEL >>
    BY <1>8 DEF CodeOf, LastByte, ExtendedKeys, Meaning
  <2> HIDE DEF code
  <2>2. char(NormalRows) = Meaning(key)[1] /\ char(ShiftRows) = Meaning(key)[2]
    BY <2>1, RowEntries
  <2>3. ctl = Meaning(key)[3]
    BY <2>1, RowEntries
  <2> QED
    BY <1>2, <2>2, <2>3 DEF code
<1>9. CASE key = "KpEnter"
  <2>1. code = 156 /\ Meaning(key) = << 10, 10, NO >>
    BY <1>9 DEF CodeOf, LastByte, ExtendedKeys, Meaning
  <2> HIDE DEF code
  <2>2. char(NormalRows) = Meaning(key)[1] /\ char(ShiftRows) = Meaning(key)[2]
    BY <2>1, RowEntries
  <2>3. ctl = Meaning(key)[3]
    BY <2>1, RowEntries
  <2> QED
    BY <1>2, <2>2, <2>3 DEF code
<1> QED
  BY <1>3, <1>4, <1>5, <1>6, <1>7, <1>8, <1>9, SimpleKeys

-----------------------------------------------------------------------------
(* What the driver makes of the bytes. *)

(* The prefix only sets its flag. *)
LEMMA PrefixIs ==
    ASSUME NEW s \in SUBSET Flags
    PROVE  kbd_proc_data(s, E0) = [shift |-> s \cup {"E0ESC"}, c |-> NO, reboot |-> FALSE]
BY DEF kbd_proc_data, Prefix

(* The flags before the last byte of a key's code. *)
Before(s, key) == IF key \in ExtendedKeys THEN s \cup {"E0ESC"} ELSE s

MakeResult(s, key)  == kbd_proc_data(Before(s, key), LastByte(key))
BreakResult(s, key) == kbd_proc_data(Before(s, key), LastByte(key) + 128)

(* The character of a key under flags. *)
CharOf(key, flags) ==
    LET char == Meaning(key)[IF "CTL" \in flags THEN 3 ELSE IF "SHIFT" \in flags THEN 2 ELSE 1] IN
    IF "CAPSLOCK" \in flags THEN flipcase(char) ELSE char

(* A make code sets the modifier's flag, toggles the lock, gives the character, and
   resets by the chord only. *)
LEMMA MakeResultIs ==
    ASSUME NEW s \in SUBSET Flags, "E0ESC" \notin s, NEW key \in Simple
    PROVE  LET r == MakeResult(s, key) IN
           /\ r.shift \in SUBSET Flags /\ "E0ESC" \notin r.shift
           /\ \A m \in Modifiers : m \in r.shift <=> m \in s \/ m \in ModifiersOf(key)
           /\ ("CAPSLOCK" \in r.shift) <=> ("CAPSLOCK" \in s) # (key = "CapsLock")
           /\ r.c = CharOf(key, r.shift)
           /\ r.reboot <=> "CTL" \in r.shift /\ "ALT" \in r.shift /\ r.c = KEY_DEL
<1> DEFINE s0    == Before(s, key)
           d     == LastByte(key)
           code  == IF "E0ESC" \in s0 THEN Extended(d) ELSE d
           flags == SymmetricDifference((s0 \ {"E0ESC"}) \cup shiftcode(code), togglecode(code))
           char  == charcode(flags)[code]
           c     == IF "CAPSLOCK" \in flags THEN flipcase(char) ELSE char
           r     == MakeResult(s, key)
<1>1. d \in 1..83
  BY MakeIs
<1>2. "E0ESC" \in s0 <=> key \in ExtendedKeys
  BY DEF Before
<1>3. code = CodeOf(key) /\ s0 \ {"E0ESC"} = s
  BY <1>1, <1>2 DEF CodeOf, Extended, Before
<1>4. r = [shift |-> flags, c |-> c, reboot |-> {"CTL", "ALT"} \subseteq flags /\ c = KEY_DEL]
  BY <1>1 DEF MakeResult, kbd_proc_data, Press, E0
<1>5. flags = SymmetricDifference(s \cup ModifiersOf(key), IF key = "CapsLock" THEN {"CAPSLOCK"} ELSE {})
  BY <1>3, ModifierOfKey
<1>6. char = Meaning(key)[IF "CTL" \in flags THEN 3 ELSE IF "SHIFT" \in flags THEN 2 ELSE 1]
  <2> HIDE DEF flags
  <2> QED
    BY <1>3, CharacterOfKey DEF charcode
<1> HIDE DEF r, char, code, s0, flags
<1>7. c = CharOf(key, flags)
  BY <1>6 DEF CharOf
<1>8. ModifiersOf(key) \subseteq Modifiers /\ Modifiers \subseteq Flags \ {"E0ESC", "CAPSLOCK"} /\ "CAPSLOCK" \in Flags
  BY DEF ModifiersOf, Modifiers, Flags, Locks
<1>9. /\ flags \subseteq Flags /\ "E0ESC" \notin flags
      /\ \A m \in Modifiers : m \in flags <=> m \in s \/ m \in ModifiersOf(key)
      /\ ("CAPSLOCK" \in flags) <=> ("CAPSLOCK" \in s) # (key = "CapsLock")
  <2>1. CASE key = "CapsLock"
    BY <1>5, <1>8, <2>1 DEF SymmetricDifference
  <2>2. CASE key # "CapsLock"
    BY <1>5, <1>8, <2>2 DEF SymmetricDifference
  <2> QED
    BY <2>1, <2>2
<1> HIDE DEF c
<1>10. r.shift = flags /\ r.c = c /\ (r.reboot <=> {"CTL", "ALT"} \subseteq flags /\ c = KEY_DEL)
  BY <1>4
<1> QED
  BY <1>7, <1>9, <1>10 DEF r

(* A break code clears the modifier's flag and does nothing else. *)
LEMMA BreakResultIs ==
    ASSUME NEW s \in SUBSET Flags, "E0ESC" \notin s, NEW key \in Simple
    PROVE  BreakResult(s, key) = [shift |-> s \ ModifiersOf(key), c |-> NO, reboot |-> FALSE]
<1> DEFINE s0    == Before(s, key)
           d     == LastByte(key)
           code  == IF "E0ESC" \in s0 THEN d + 128 ELSE Plain(d + 128)
<1>1. d \in 1..83
  BY MakeIs
<1>2. "E0ESC" \in s0 <=> key \in ExtendedKeys
  BY DEF Before
<1>3. Plain(d + 128) = d
  BY <1>1 DEF Plain
<1>4. code = CodeOf(key) /\ s0 \ {"E0ESC"} = s
  BY <1>2, <1>3 DEF CodeOf, Before
<1>5. BreakResult(s, key) = [shift |-> s0 \ (shiftcode(code) \cup {"E0ESC"}), c |-> NO, reboot |-> FALSE]
  BY <1>1 DEF BreakResult, kbd_proc_data, Release, E0
<1>6. shiftcode(code) = ModifiersOf(key)
  BY <1>4, ModifierOfKey
<1> HIDE DEF s0, code
<1>7. s0 \ (shiftcode(code) \cup {"E0ESC"}) = s \ ModifiersOf(key)
  BY <1>4, <1>6
<1> QED
  BY <1>5, <1>7

(* The characters of the keys. *)
LEMMA MeaningIs ==
    ASSUME NEW key \in KeyNames, NEW j \in 1..3
    PROVE  /\ Meaning(key)[j] \in Byte
           /\ Meaning(key)[j] = KEY_DEL <=> key = "Delete"
           /\ flipcase(Meaning(key)[j]) = KEY_DEL <=> key = "Delete"
           /\ key # "A" => flipcase(Meaning(key)[j]) = Meaning(key)[j]
           /\ key = "A" => /\ Meaning(key)[1] = 97 /\ Meaning(key)[2] = 65 /\ Meaning(key)[3] = 1
                           /\ flipcase(97) = 65 /\ flipcase(65) = 97 /\ flipcase(1) = 1
<1>1. j = 1 \/ j = 2 \/ j = 3
  OBVIOUS
<1>2. CASE key \in {"LShift", "RShift", "LCtrl", "RCtrl", "LAlt", "RAlt", "CapsLock", "PrtSc", "Pause"}
  <2>1. Meaning(key) = << NO, NO, NO >>
    BY <1>2 DEF Meaning
  <2>2. Meaning(key)[j] = 0
    BY <1>1, <2>1 DEF NO
  <2> QED
    BY <1>2, <2>2 DEF Byte, KEY_DEL, flipcase
<1>3. CASE key = "A"
  <2>1. Meaning(key) = << 97, 65, 1 >>
    BY <1>3 DEF Meaning
  <2>2. Meaning(key)[j] \in {97, 65, 1} /\ Meaning(key)[1] = 97 /\ Meaning(key)[2] = 65 /\ Meaning(key)[3] = 1
    BY <1>1, <2>1
  <2> QED
    BY <1>3, <2>2 DEF Byte, KEY_DEL, flipcase
<1>4. CASE key = "Delete"
  <2>1. Meaning(key) = << KEY_DEL, KEY_DEL, KEY_DEL >>
    BY <1>4 DEF Meaning
  <2>2. Meaning(key)[j] = KEY_DEL
    BY <1>1, <2>1
  <2> QED
    BY <1>4, <2>2 DEF Byte, KEY_DEL, flipcase
<1>5. CASE key \in {"One", "KpDelete", "KpEnter"}
  <2>1. Meaning(key) \in {<< 49, 33, NO >>, << 46, 46, NO >>, << 10, 10, NO >>}
    BY <1>5 DEF Meaning
  <2>2. Meaning(key)[j] \in {49, 33, 46, 10, 0}
    BY <1>1, <2>1 DEF NO
  <2> QED
    BY <1>5, <2>2 DEF Byte, KEY_DEL, flipcase
<1> QED
  BY <1>2, <1>3, <1>4, <1>5 DEF KeyNames

(* A key adds to the keys that are down the modifiers it stands for. *)
LEMMA DownWith ==
    ASSUME NEW m \in Modifiers, NEW keys, NEW key
    PROVE  Down(m, keys \cup {key}) <=> Down(m, keys) \/ m \in ModifiersOf(key)
BY DEF Down, ModifiersOf

(* A key that is none of a modifier's own does not matter to it. *)
LEMMA DownWithout ==
    ASSUME NEW m \in Modifiers, NEW keys, NEW key, m \notin ModifiersOf(key)
    PROVE  Down(m, keys \ {key}) <=> Down(m, keys)
BY DEF Down, ModifiersOf

-----------------------------------------------------------------------------
(* A key's code leaves the flags in agreement with the keys. *)

(* What a key event means is a character and whether to reset. *)
LEMMA MeantType ==
    ASSUME NEW key \in KeyNames, NEW keys, NEW capsOn
    PROVE  Meant(key, keys, capsOn) \in [c : Byte, reboot : BOOLEAN]
<1> DEFINE j     == IF Down("CTL", keys) THEN 3 ELSE IF Down("SHIFT", keys) THEN 2 ELSE 1
           plain == Meaning(key)[j]
           c     == IF key = "A" /\ ~Down("CTL", keys) /\ capsOn THEN (IF plain = 97 THEN 65 ELSE 97) ELSE plain
           boot  == key = "Delete" /\ Down("CTL", keys) /\ Down("ALT", keys)
<1>1. j \in 1..3
  OBVIOUS
<1>2. plain \in Byte
  BY <1>1, MeaningIs
<1> HIDE DEF plain
<1>3. c \in Byte
  BY <1>2 DEF Byte
<1>4. Meant(key, keys, capsOn) = [c |-> c, reboot |-> boot]
  BY DEF Meant, plain
<1>5. boot \in BOOLEAN
  OBVIOUS
<1> HIDE DEF c, boot
<1> QED
  BY <1>3, <1>4, <1>5

(* The character that is meant is the one that the flags give. *)
LEMMA MeantIs ==
    ASSUME NEW key \in KeyNames, NEW keys, NEW capsOn \in BOOLEAN, NEW flags,
           ("CTL" \in flags) <=> Down("CTL", keys), ("SHIFT" \in flags) <=> Down("SHIFT", keys),
           key = "A" => (("CAPSLOCK" \in flags) <=> capsOn)
    PROVE  Meant(key, keys, capsOn).c = CharOf(key, flags)
<1> DEFINE j     == IF Down("CTL", keys) THEN 3 ELSE IF Down("SHIFT", keys) THEN 2 ELSE 1
           plain == Meaning(key)[j]
           c     == IF key = "A" /\ ~Down("CTL", keys) /\ capsOn THEN (IF plain = 97 THEN 65 ELSE 97) ELSE plain
<1>1. j \in 1..3 /\ (Down("CTL", keys) <=> j = 3)
  OBVIOUS
<1>2. Meant(key, keys, capsOn).c = c
  BY DEF Meant
<1>3. CharOf(key, flags) = IF "CAPSLOCK" \in flags THEN flipcase(plain) ELSE plain
  BY DEF CharOf
<1>4. CASE key = "A"
  <2>1. (j = 3 => plain = 1) /\ (j = 2 => plain = 65) /\ (j = 1 => plain = 97)
    BY <1>4, MeaningIs
  <2>2. flipcase(97) = 65 /\ flipcase(65) = 97 /\ flipcase(1) = 1
    BY <1>4, MeaningIs
  <2> HIDE DEF plain, j
  <2> QED
    BY <1>1, <1>2, <1>3, <1>4, <2>1, <2>2
<1>5. CASE key # "A"
  <2>1. flipcase(plain) = plain
    BY <1>1, <1>5, MeaningIs
  <2> HIDE DEF plain, j
  <2> QED
    BY <1>2, <1>3, <1>5, <2>1
<1> QED
  BY <1>4, <1>5

(* Which characters are KEY_DEL. *)
LEMMA DeleteIs ==
    ASSUME NEW key \in KeyNames, NEW flags
    PROVE  CharOf(key, flags) = KEY_DEL <=> key = "Delete"
<1> DEFINE j == IF "CTL" \in flags THEN 3 ELSE IF "SHIFT" \in flags THEN 2 ELSE 1
<1>1. j \in 1..3
  OBVIOUS
<1>2. CharOf(key, flags) = IF "CAPSLOCK" \in flags THEN flipcase(Meaning(key)[j]) ELSE Meaning(key)[j]
  BY DEF CharOf
<1> HIDE DEF j
<1> QED
  BY <1>1, <1>2, MeaningIs

(* A key event is a happening. *)
LEMMA EventType ==
    ASSUME NEW keys \in SUBSET Keys, NEW blurs \in SUBSET Modifiers, NEW capsOn \in BOOLEAN,
           NEW meant \in [c : Byte, reboot : BOOLEAN]
    PROVE  Event(keys, blurs, capsOn, meant) \in Happenings
BY DEF Event, Happenings

(* kbd_proc_data does with a make code what the press means. *)
LEMMA PressRight ==
    ASSUME NEW s \in SUBSET Flags, NEW key \in Simple, NEW keys, NEW blurs, NEW capsOn \in BOOLEAN,
           Agrees(keys, blurs, capsOn, s)
    PROVE  Right(Event(keys \cup {key}, blurs \ ModifiersOf(key), IF key = "CapsLock" THEN ~capsOn ELSE capsOn,
                       Meant(key, keys \cup {key}, capsOn)),
                 MakeResult(s, key))
<1> DEFINE r     == MakeResult(s, key)
           keys2 == keys \cup {key}
           blur2 == blurs \ ModifiersOf(key)
           caps2 == IF key = "CapsLock" THEN ~capsOn ELSE capsOn
           meant == Meant(key, keys2, capsOn)
           e     == Event(keys2, blur2, caps2, meant)
<1>1. /\ r.shift \in SUBSET Flags /\ "E0ESC" \notin r.shift
      /\ \A m \in Modifiers : m \in r.shift <=> m \in s \/ m \in ModifiersOf(key)
      /\ ("CAPSLOCK" \in r.shift) <=> ("CAPSLOCK" \in s) # (key = "CapsLock")
      /\ r.c = CharOf(key, r.shift)
      /\ r.reboot <=> "CTL" \in r.shift /\ "ALT" \in r.shift /\ r.c = KEY_DEL
  BY MakeResultIs DEF Agrees
<1>2. \A m \in Modifiers : Down(m, keys2) <=> Down(m, keys) \/ m \in ModifiersOf(key)
  BY DownWith
<1>3. e.kind = "event" /\ e.keys = keys2 /\ e.blurred = blur2 /\ e.caps = caps2 /\ e.meant = meant
  <2> HIDE DEF keys2, blur2, caps2, meant
  <2> QED
    BY DEF Event
<1>4. /\ "CTL" \in Modifiers /\ "SHIFT" \in Modifiers /\ "ALT" \in Modifiers /\ key \in KeyNames
  BY DEF Modifiers, Simple
<1>5. meant.reboot <=> key = "Delete" /\ Down("CTL", keys2) /\ Down("ALT", keys2)
  BY DEF Meant
<1> HIDE DEF r, keys2, blur2, e
<1>6. \A m \in Modifiers : m \in r.shift => Down(m, keys2)
  BY <1>1, <1>2 DEF Agrees
<1>7. \A m \in Modifiers : Down(m, keys2) /\ m \notin blur2 => m \in r.shift
  BY <1>1, <1>2 DEF Agrees, blur2
<1>8. ("CAPSLOCK" \in r.shift) <=> caps2
  BY <1>1 DEF Agrees
<1>9. Agrees(keys2, blur2, caps2, r.shift)
  BY <1>1, <1>6, <1>7, <1>8 DEF Agrees
<1>10. r.c = KEY_DEL <=> key = "Delete"
  BY <1>1, <1>4, DeleteIs
<1>11. r.reboot => meant.reboot
  BY <1>1, <1>4, <1>5, <1>6, <1>10
<1>12. ASSUME blur2 = {} PROVE r.c = meant.c /\ (meant.reboot => r.reboot)
  <2>1. \A m \in Modifiers : m \in r.shift <=> Down(m, keys2)
    BY <1>6, <1>7, <1>12
  <2>2. key = "A" => (("CAPSLOCK" \in r.shift) <=> capsOn)
    BY <1>8
  <2>3. meant.c = CharOf(key, r.shift)
    BY <1>4, <2>1, <2>2, MeantIs
  <2> QED
    BY <1>1, <1>4, <1>5, <1>10, <2>1, <2>3
<1> HIDE DEF meant, caps2
<1>13. Right(e, r)
  BY <1>3, <1>9, <1>11, <1>12 DEF Right
<1> QED
  BY <1>13 DEF e, r, keys2, blur2, caps2, meant

(* kbd_proc_data does with a break code what the release means. *)
LEMMA ReleaseRight ==
    ASSUME NEW s \in SUBSET Flags, NEW key \in Simple, NEW keys, NEW blurs, NEW capsOn \in BOOLEAN,
           Agrees(keys, blurs, capsOn, s)
    PROVE  Right(Event(keys \ {key}, {m \in blurs \cup ModifiersOf(key) : Down(m, keys \ {key})}, capsOn, Silence),
                 BreakResult(s, key))
<1> DEFINE r     == BreakResult(s, key)
           keys2 == keys \ {key}
           blur2 == {m \in blurs \cup ModifiersOf(key) : Down(m, keys2)}
           e     == Event(keys2, blur2, capsOn, Silence)
<1>1. r.shift = s \ ModifiersOf(key) /\ r.c = NO /\ r.reboot = FALSE
  BY BreakResultIs DEF Agrees
<1>2. \A m \in Modifiers : m \notin ModifiersOf(key) => (Down(m, keys2) <=> Down(m, keys))
  BY DownWithout
<1>3. e.kind = "event" /\ e.keys = keys2 /\ e.blurred = blur2 /\ e.caps = capsOn /\ e.meant = Silence
  <2> HIDE DEF keys2, blur2
  <2> QED
    BY DEF Event
<1>4. "CAPSLOCK" \notin ModifiersOf(key)
  BY DEF ModifiersOf, Modifiers
<1>5. \A m : m \in blur2 <=> (m \in blurs \/ m \in ModifiersOf(key)) /\ Down(m, keys2)
  OBVIOUS
<1> HIDE DEF r, keys2, blur2, e
<1>6. Agrees(keys2, blur2, capsOn, r.shift)
  BY <1>1, <1>2, <1>4, <1>5 DEF Agrees
<1>7. Right(e, r)
  BY <1>1, <1>3, <1>6 DEF Right, Silence
<1> QED
  BY <1>7 DEF e, r, keys2, blur2

-----------------------------------------------------------------------------
(* Whole codes on the wire. *)

Delivers(codes, e, s) ==
    /\ Bytes(codes, e) \in Seq(Nodes) /\ Len(Bytes(codes, e)) <= 6
    /\ \E s2 \in SUBSET Flags : Runs(Bytes(codes, e), s, s2) /\ Agrees(e.keys, e.blurred, e.caps, s2)

(* A call of kbd_proc_data is a step of the flags. *)
LEMMA StepIs ==
    ASSUME NEW s, NEW data, NEW e, NEW s2, kbd_proc_data(s, data).shift = s2, Right(e, kbd_proc_data(s, data))
    PROVE  Step(s, [data |-> data, completes |-> e], s2)
BY DEF Step

(* A byte that completes nothing gives no character and restarts nothing. *)
LEMMA PartStep ==
    ASSUME NEW s, NEW data, NEW s2, kbd_proc_data(s, data) = [shift |-> s2, c |-> NO, reboot |-> FALSE]
    PROVE  Step(s, [data |-> data, completes |-> Part], s2)
BY DEF Step, Right, Part

(* The codes of a key with one code deliver its event. *)
LEMMA SimpleDelivers ==
    ASSUME NEW s \in SUBSET Flags, NEW key \in Simple, NEW byte \in Byte, NEW e \in Happenings,
           e.kind = "event", kbd_proc_data(Before(s, key), byte).shift \in SUBSET Flags,
           Right(e, kbd_proc_data(Before(s, key), byte))
    PROVE  Delivers(Codes(key, byte), e, s)
<1> DEFINE r    == kbd_proc_data(Before(s, key), byte)
           s2   == r.shift
           last == [data |-> byte, completes |-> e]
           pre  == [data |-> E0, completes |-> Part]
<1>1. last \in Nodes /\ pre \in Nodes
  BY DEF Nodes, Happenings, E0, Byte
<1>2. Agrees(e.keys, e.blurred, e.caps, s2)
  BY DEF Right
<1>3. Step(Before(s, key), last, s2) /\ Before(s, key) \in SUBSET Flags
  BY StepIs DEF Before, Flags
<1>4. CASE key \in ExtendedKeys
  <2>1. Codes(key, byte) = << E0, byte >> /\ Before(s, key) = s \cup {"E0ESC"}
    BY <1>4 DEF Codes, Before
  <2>2. Bytes(<< E0, byte >>, e) = << pre, last >>
    BY DEF Bytes
  <2>3. Step(s, pre, s \cup {"E0ESC"})
    BY PrefixIs, PartStep
  <2> HIDE DEF pre, last, s2, r
  <2>4. << pre, last >> \in Seq(Nodes) /\ Len(<< pre, last >>) <= 6
    BY <1>1
  <2>5. Runs(<< pre, last >>, s, s2)
    BY <1>3, <2>1, <2>3, RunsTwo DEF s2, r
  <2> QED
    BY <1>2, <2>1, <2>2, <2>4, <2>5 DEF Delivers, s2, r
<1>5. CASE key \notin ExtendedKeys
  <2>1. Codes(key, byte) = << byte >> /\ Before(s, key) = s
    BY <1>5 DEF Codes, Before
  <2>2. Bytes(<< byte >>, e) = << last >>
    BY DEF Bytes
  <2> HIDE DEF last, s2, r
  <2>4. << last >> \in Seq(Nodes) /\ Len(<< last >>) <= 6
    BY <1>1
  <2>5. Runs(<< last >>, s, s2)
    BY <1>3, <2>1, RunsOne DEF s2, r
  <2> QED
    BY <1>2, <2>1, <2>2, <2>4, <2>5 DEF Delivers, s2, r
<1> QED
  BY <1>4, <1>5

(* Print Screen: the fake Shift and the codes of the key itself change nothing. *)
LEMMA Neutral ==
    ASSUME NEW s \in SUBSET Flags, "E0ESC" \notin s
    PROVE  /\ \A d \in {42, 55} :
                 kbd_proc_data(s \cup {"E0ESC"}, d) = [shift |-> s, c |-> NO, reboot |-> FALSE]
           /\ \A d \in {183, 170} :
                 kbd_proc_data(s \cup {"E0ESC"}, d) = [shift |-> s, c |-> NO, reboot |-> FALSE]
           /\ \A d \in {225, 197} :
                 kbd_proc_data(s, d) = [shift |-> s, c |-> NO, reboot |-> FALSE]
<1> DEFINE s0 == s \cup {"E0ESC"}
<1>1. "E0ESC" \in s0 /\ s0 \ {"E0ESC"} = s
  OBVIOUS
<1>2. ASSUME NEW d \in {42, 55} PROVE kbd_proc_data(s0, d) = [shift |-> s, c |-> NO, reboot |-> FALSE]
  <2> DEFINE code  == d + 128
             flags == SymmetricDifference(s \cup shiftcode(code), togglecode(code))
             char  == charcode(flags)[code]
             c     == IF "CAPSLOCK" \in flags THEN flipcase(char) ELSE char
  <2>1. code \in {170, 183} /\ code \in Byte
    BY DEF Byte
  <2>2. flags = s
    BY <2>1 DEF SymmetricDifference, shiftcode, togglecode
  <2>3. normalmap[code] = NO /\ shiftmap[code] = NO /\ ctlmap[code] = NO
    BY <2>1 DEF normalmap, shiftmap, ctlmap, CharMap
  <2>4. char = NO
    BY <2>3 DEF charcode
  <2>5. c = 0 /\ c = NO
    BY <2>4 DEF flipcase, NO
  <2>6. kbd_proc_data(s0, d)
          = [shift |-> flags, c |-> c, reboot |-> {"CTL", "ALT"} \subseteq flags /\ c = KEY_DEL]
    <3>1. d # E0 /\ ~(d >= 128) /\ Extended(d) = code
      BY DEF E0, Extended
    <3> HIDE DEF s0, code
    <3>2. kbd_proc_data(s0, d) = Press(s0, d)
      BY <3>1 DEF kbd_proc_data
    <3> QED
      BY <1>1, <3>1, <3>2 DEF Press
  <2> DEFINE boot == {"CTL", "ALT"} \subseteq flags /\ c = KEY_DEL
  <2>7. boot = FALSE
    BY <2>5 DEF KEY_DEL
  <2>8. kbd_proc_data(s0, d) = [shift |-> flags, c |-> c, reboot |-> boot]
    BY <2>6
  <2> HIDE DEF boot, c, flags, code, s0
  <2> QED
    BY <2>2, <2>5, <2>7, <2>8
<1>3. ASSUME NEW d \in {183, 170} PROVE kbd_proc_data(s0, d) = [shift |-> s, c |-> NO, reboot |-> FALSE]
  <2>1. kbd_proc_data(s0, d) = [shift |-> s0 \ (shiftcode(d) \cup {"E0ESC"}), c |-> NO, reboot |-> FALSE]
    BY <1>1 DEF kbd_proc_data, Release, E0
  <2> DEFINE left == s0 \ (shiftcode(d) \cup {"E0ESC"})
  <2>2. shiftcode(d) = {}
    BY DEF shiftcode
  <2>3. left = s
    BY <1>1, <2>2
  <2> HIDE DEF s0, left
  <2> QED
    BY <2>1, <2>3 DEF left
<1>4. ASSUME NEW d \in {225, 197} PROVE kbd_proc_data(s, d) = [shift |-> s, c |-> NO, reboot |-> FALSE]
  <2>1. kbd_proc_data(s, d) = [shift |-> s \ (shiftcode(Plain(d)) \cup {"E0ESC"}), c |-> NO, reboot |-> FALSE]
    BY DEF kbd_proc_data, Release, E0
  <2>2. Plain(d) \in {97, 69}
    BY DEF Plain
  <2> DEFINE left == s \ (shiftcode(Plain(d)) \cup {"E0ESC"})
  <2>3. shiftcode(Plain(d)) = {}
    BY <2>2 DEF shiftcode
  <2>4. left = s
    BY <2>3
  <2> HIDE DEF left
  <2> QED
    BY <2>1, <2>4 DEF left
<1> QED
  BY <1>2, <1>3, <1>4

(* The codes of Print Screen, with its fake shift, deliver its event. *)
LEMMA PrtScDelivers ==
    ASSUME NEW s \in SUBSET Flags, "E0ESC" \notin s, NEW e \in Happenings, e.kind = "event",
           NEW codes \in {Make("PrtSc"), Break("PrtSc")},
           Agrees(e.keys, e.blurred, e.caps, s), e.meant.c = NO, ~e.meant.reboot
    PROVE  Delivers(codes, e, s)
<1>1. PICK x \in {42, 183}, y \in {55, 170} :
          codes = << E0, x, E0, y >>
  BY DEF Make, Break
<1> DEFINE s0 == s \cup {"E0ESC"}
           a == [data |-> E0, completes |-> Part]
           b == [data |-> x, completes |-> Part]
           d == [data |-> y, completes |-> e]
<1>2. Bytes(<< E0, x, E0, y >>, e) = << a, b, a, d >>
  BY DEF Bytes
<1>3. a \in Nodes /\ b \in Nodes /\ d \in Nodes
  BY DEF Nodes, Happenings, E0, Byte
<1>4. s0 \in SUBSET Flags
  BY DEF Flags
<1>5. Step(s, a, s0)
  BY PrefixIs, PartStep
<1>6. kbd_proc_data(s0, x) = [shift |-> s, c |-> NO, reboot |-> FALSE]
  BY Neutral
<1>7. kbd_proc_data(s0, y) = [shift |-> s, c |-> NO, reboot |-> FALSE]
  BY Neutral
<1>8. Step(s0, b, s)
  BY <1>6, PartStep
<1>9. Step(s0, d, s)
  <2>1. Right(e, kbd_proc_data(s0, y))
    BY <1>7 DEF Right
  <2> QED
    BY <1>7, <2>1, StepIs
<1> HIDE DEF s0, a, b, d
<1>10. Runs(<< a, b, a, d >>, s, s)
  BY <1>4, <1>5, <1>8, <1>9, RunsFour
<1>11. << a, b, a, d >> \in Seq(Nodes) /\ Len(<< a, b, a, d >>) <= 6
  BY <1>3
<1> QED
  BY <1>1, <1>2, <1>10, <1>11 DEF Delivers

(* Pause: Ctrl and Num Lock go down and up within the sequence. *)
LEMMA PauseDelivers ==
    ASSUME NEW s \in SUBSET Flags, "E0ESC" \notin s, "CTL" \notin s, NEW e \in Happenings, e.kind = "event",
           Agrees(e.keys, e.blurred, e.caps, s), e.meant.c = NO, ~e.meant.reboot
    PROVE  Delivers(Make("Pause"), e, s)
<1> DEFINE ctl == s \cup {"CTL"}
           num == SymmetricDifference(ctl, {"NUMLOCK"})
           s2  == num \ {"CTL"}
           n(x) == [data |-> x, completes |-> Part]
           last == [data |-> 197, completes |-> e]
<1>1. Make("Pause") = << 225, 29, 69, 225, 157, 197 >>
  BY DEF Make
<1>2. Bytes(<< 225, 29, 69, 225, 157, 197 >>, e) = << n(225), n(29), n(69), n(225), n(157), last >>
  BY DEF Bytes
<1>3. n(225) \in Nodes /\ n(29) \in Nodes /\ n(69) \in Nodes /\ n(157) \in Nodes /\ last \in Nodes
  BY DEF Nodes, Happenings, Byte
<1>4. /\ ctl \in SUBSET Flags /\ num \in SUBSET Flags /\ s2 \in SUBSET Flags
      /\ "E0ESC" \notin ctl /\ "E0ESC" \notin num /\ "E0ESC" \notin s2
      /\ \A f \in Flags \ {"NUMLOCK"} : f \in s2 <=> f \in s
  BY DEF Flags, Modifiers, Locks, SymmetricDifference
<1>5. Step(s, n(225), s)
  BY Neutral, PartStep
<1>6. kbd_proc_data(s, 29).shift = ctl /\ kbd_proc_data(s, 29).c = NO /\ ~kbd_proc_data(s, 29).reboot
  <2> DEFINE flags == SymmetricDifference((s \ {"E0ESC"}) \cup shiftcode(29), togglecode(29))
             char  == charcode(flags)[29]
             c     == IF "CAPSLOCK" \in flags THEN flipcase(char) ELSE char
  <2>1. kbd_proc_data(s, 29)
          = [shift |-> flags, c |-> c, reboot |-> {"CTL", "ALT"} \subseteq flags /\ c = KEY_DEL]
    BY DEF kbd_proc_data, Press, E0
  <2>2. flags = ctl
    BY DEF SymmetricDifference, shiftcode, togglecode
  <2>3. char = ctlmap[29]
    BY <2>2 DEF charcode
  <2>4. ctlmap[29] = 0
    BY RowEntries DEF ctlmap, Byte, NO
  <2>5. c = 0 /\ c = NO
    BY <2>3, <2>4 DEF flipcase, NO
  <2> DEFINE boot == {"CTL", "ALT"} \subseteq flags /\ c = KEY_DEL
  <2>6. boot = FALSE
    BY <2>5 DEF KEY_DEL
  <2>7. kbd_proc_data(s, 29) = [shift |-> flags, c |-> c, reboot |-> boot]
    BY <2>1
  <2> HIDE DEF boot, c, flags, ctl
  <2> QED
    BY <2>2, <2>5, <2>6, <2>7
<1>7. kbd_proc_data(ctl, 69).shift = num /\ kbd_proc_data(ctl, 69).c = NO /\ ~kbd_proc_data(ctl, 69).reboot
  <2> DEFINE flags == SymmetricDifference((ctl \ {"E0ESC"}) \cup shiftcode(69), togglecode(69))
             char  == charcode(flags)[69]
             c     == IF "CAPSLOCK" \in flags THEN flipcase(char) ELSE char
  <2>1. kbd_proc_data(ctl, 69)
          = [shift |-> flags, c |-> c, reboot |-> {"CTL", "ALT"} \subseteq flags /\ c = KEY_DEL]
    BY <1>4 DEF kbd_proc_data, Press, E0
  <2>2. flags = num
    BY <1>4 DEF SymmetricDifference, shiftcode, togglecode
  <2>3. char = ctlmap[69]
    BY <2>2 DEF charcode, SymmetricDifference
  <2>4. ctlmap[69] = 0
    BY DEF ctlmap, Byte, NO
  <2>5. c = 0 /\ c = NO
    BY <2>3, <2>4 DEF flipcase, NO
  <2> DEFINE boot == {"CTL", "ALT"} \subseteq flags /\ c = KEY_DEL
  <2>6. boot = FALSE
    BY <2>5 DEF KEY_DEL
  <2>7. kbd_proc_data(ctl, 69) = [shift |-> flags, c |-> c, reboot |-> boot]
    BY <2>1
  <2> HIDE DEF boot, c, flags, ctl, num
  <2> QED
    BY <2>2, <2>5, <2>6, <2>7
<1>8. Step(s, n(29), ctl) /\ Step(ctl, n(69), num)
  BY <1>6, <1>7 DEF Step, Right, Part
<1>9. Step(num, n(225), num)
  BY <1>4, Neutral, PartStep
<1>10. kbd_proc_data(num, 157) = [shift |-> s2, c |-> NO, reboot |-> FALSE]
  <2>1. kbd_proc_data(num, 157) = [shift |-> num \ (shiftcode(Plain(157)) \cup {"E0ESC"}), c |-> NO, reboot |-> FALSE]
    BY <1>4 DEF kbd_proc_data, Release, E0
  <2>2. Plain(157) = 29 /\ shiftcode(29) = {"CTL"}
    BY DEF Plain, shiftcode
  <2>3. num \ ({"CTL"} \cup {"E0ESC"}) = s2
    BY <1>4
  <2> HIDE DEF num, s2
  <2> QED
    BY <2>1, <2>2, <2>3
<1>11. Step(num, n(157), s2)
  BY <1>10, PartStep
<1>12. kbd_proc_data(s2, 197) = [shift |-> s2, c |-> NO, reboot |-> FALSE]
  BY <1>4, Neutral
<1>13. Agrees(e.keys, e.blurred, e.caps, s2)
  <2>1. "CAPSLOCK" \in Flags \ {"NUMLOCK"} /\ Modifiers \subseteq Flags \ {"NUMLOCK"}
    BY DEF Flags, Modifiers, Locks
  <2> HIDE DEF s2
  <2> QED
    BY <1>4, <2>1 DEF Agrees
<1>14. Step(s2, last, s2)
  <2>1. Right(e, kbd_proc_data(s2, 197))
    BY <1>12, <1>13 DEF Right
  <2> QED
    BY <1>12, <2>1, StepIs
<1> DEFINE n1 == n(225)
           n2 == n(29)
           n3 == n(69)
           n5 == n(157)
<1>15. Step(s, n1, s) /\ Step(s, n2, ctl) /\ Step(ctl, n3, num) /\ Step(num, n1, num) /\ Step(num, n5, s2)
  BY <1>5, <1>8, <1>9, <1>11
<1>16. n1 \in Nodes /\ n2 \in Nodes /\ n3 \in Nodes /\ n5 \in Nodes
  BY <1>3
<1>17. Bytes(Make("Pause"), e) = << n1, n2, n3, n1, n5, last >>
  BY <1>1, <1>2
<1> HIDE DEF n1, n2, n3, n5, last, s2, num, ctl
<1>18. Runs(<< n1, n2, n3, n1, n5, last >>, s, s2)
  BY <1>4, <1>14, <1>15, RunsSix
<1>19. << n1, n2, n3, n1, n5, last >> \in Seq(Nodes) /\ Len(<< n1, n2, n3, n1, n5, last >>) <= 6
  BY <1>3, <1>16
<1> QED
  BY <1>4, <1>13, <1>17, <1>18, <1>19 DEF Delivers

-----------------------------------------------------------------------------
(* The steps of the typist and of the driver. *)

(* An event whose codes deliver it keeps the invariant when it is sent. *)
LEMMA SendStep ==
    ASSUME TypingInv, NEW codes, NEW meant, Send(codes, meant),
           held' \subseteq Keys \ {"Pause"}, caps' \in BOOLEAN, blurred' \subseteq Modifiers,
           \A s \in SUBSET Flags :
               Agrees(held, blurred, caps, s) => Delivers(codes, Event(held', blurred', caps', meant), s)
    PROVE  TypingInv'
<1> DEFINE e == Event(held', blurred', caps', meant)
           v == Bytes(codes, e)
<1>1. /\ Len(wire) <= Backlog /\ wire' = wire \o v
      /\ shift' = shift /\ reply' = reply /\ prefixed' = prefixed /\ seen' = seen
  BY DEF Send
<1>2. wire \in Seq(Nodes) /\ Backlog \in Nat
  BY TypingAssumption DEF TypingInv
<1>3. PICK s \in SUBSET Flags : Runs(wire, shift, s) /\ Agrees(held, blurred, caps, s)
  BY DEF TypingInv
<1>4. Delivers(codes, e, s)
  BY <1>3
<1>5. e.keys = held' /\ e.blurred = blurred' /\ e.caps = caps'
  BY DEF Event
<1> HIDE DEF e
<1>6. PICK s2 \in SUBSET Flags : Runs(v, s, s2) /\ Agrees(held', blurred', caps', s2)
  BY <1>4, <1>5 DEF Delivers
<1>7. v \in Seq(Nodes) /\ Len(v) <= 6
  BY <1>4 DEF Delivers
<1> HIDE DEF v
<1>8. wire' \in Seq(Nodes) /\ Len(wire') = Len(wire) + Len(v)
  BY <1>1, <1>2, <1>7, ConcatProperties
<1>9. Len(wire') <= Backlog + 6
  <2>1. Len(wire) \in Nat /\ Len(v) \in Nat
    BY <1>2, <1>7
  <2> QED
    BY <1>1, <1>2, <1>7, <1>8, <2>1
<1>10. Runs(wire', shift', s2)
  BY <1>1, <1>2, <1>3, <1>6, <1>7, RunsConcat
<1> QED
  BY <1>1, <1>6, <1>8, <1>9, <1>10 DEF TypingInv

(* A make code with the key down from then on. *)
LEMMA MakeDelivers ==
    ASSUME NEW s \in SUBSET Flags, NEW key \in KeyNames \ {"Pause"}, NEW keys \in SUBSET Keys,
           NEW blurs \in SUBSET Modifiers, NEW capsOn \in BOOLEAN, Agrees(keys, blurs, capsOn, s), key \in Keys
    PROVE  Delivers(Make(key), Event(keys \cup {key}, blurs \ ModifiersOf(key),
                                     IF key = "CapsLock" THEN ~capsOn ELSE capsOn,
                                     Meant(key, keys \cup {key}, capsOn)), s)
<1> DEFINE keys2 == keys \cup {key}
           blur2 == blurs \ ModifiersOf(key)
           caps2 == IF key = "CapsLock" THEN ~capsOn ELSE capsOn
           meant == Meant(key, keys2, capsOn)
           e     == Event(keys2, blur2, caps2, meant)
<1>1. e \in Happenings
  <2>1. keys2 \in SUBSET Keys /\ blur2 \in SUBSET Modifiers /\ caps2 \in BOOLEAN
    OBVIOUS
  <2>2. meant \in [c : Byte, reboot : BOOLEAN]
    BY MeantType
  <2> HIDE DEF keys2, blur2, caps2, meant
  <2> QED
    BY <2>1, <2>2, EventType
<1>2. e.kind = "event" /\ e.keys = keys2 /\ e.blurred = blur2 /\ e.caps = caps2 /\ e.meant = meant
  <2> HIDE DEF keys2, blur2, caps2, meant
  <2> QED
    BY DEF Event
<1>3. "E0ESC" \notin s
  BY DEF Agrees
<1>4. CASE key \in Simple
  <2>1. Right(e, MakeResult(s, key))
    BY <1>4, PressRight
  <2>2. MakeResult(s, key).shift \in SUBSET Flags
    BY <1>3, <1>4, MakeResultIs
  <2>3. LastByte(key) \in Byte /\ Make(key) = Codes(key, LastByte(key))
    BY <1>4, MakeIs DEF Byte
  <2> HIDE DEF e
  <2>4. Delivers(Codes(key, LastByte(key)), e, s)
    BY <1>1, <1>2, <1>4, <2>1, <2>2, <2>3, SimpleDelivers DEF MakeResult
  <2> QED
    BY <2>3, <2>4 DEF e
<1>5. CASE key = "PrtSc"
  <2>1. ModifiersOf(key) = {}
    BY <1>5 DEF ModifiersOf, Modifiers, KeysOf
  <2>2. \A m \in Modifiers : Down(m, keys2) <=> Down(m, keys)
    BY <2>1, DownWith
  <2>3. blur2 = blurs /\ caps2 = capsOn
    BY <1>5, <2>1
  <2>4. meant.c = NO /\ ~meant.reboot
    <3>1. Meaning(key) = << NO, NO, NO >>
      BY <1>5 DEF Meaning
    <3> DEFINE j == IF Down("CTL", keys2) THEN 3 ELSE IF Down("SHIFT", keys2) THEN 2 ELSE 1
    <3>2. Meaning(key)[j] = NO
      BY <3>1
    <3>3. meant.c = Meaning(key)[j] /\ meant.reboot = FALSE
      BY <1>5 DEF Meant
    <3> QED
      BY <3>2, <3>3
  <2> HIDE DEF keys2, blur2, caps2, meant, e
  <2>5. Agrees(keys2, blur2, caps2, s)
    BY <2>2, <2>3 DEF Agrees
  <2>6. Delivers(Make("PrtSc"), e, s)
    BY <1>1, <1>2, <1>3, <2>4, <2>5, PrtScDelivers
  <2> QED
    BY <1>5, <2>6 DEF e, keys2, blur2, caps2, meant
<1> QED
  BY <1>4, <1>5 DEF Simple

(* The break codes of every key but Pause deliver its release. *)
LEMMA BreakDelivers ==
    ASSUME NEW s \in SUBSET Flags, NEW key \in KeyNames \ {"Pause"}, NEW keys \in SUBSET Keys,
           NEW blurs \in SUBSET Modifiers, NEW capsOn \in BOOLEAN, Agrees(keys, blurs, capsOn, s)
    PROVE  Delivers(Break(key), Event(keys \ {key}, {m \in blurs \cup ModifiersOf(key) : Down(m, keys \ {key})},
                                      capsOn, Silence), s)
<1> DEFINE keys2 == keys \ {key}
           blur2 == {m \in blurs \cup ModifiersOf(key) : Down(m, keys2)}
           e     == Event(keys2, blur2, capsOn, Silence)
<1>1. e \in Happenings
  <2>1. keys2 \in SUBSET Keys /\ blur2 \in SUBSET Modifiers
    BY DEF ModifiersOf
  <2>2. Silence \in [c : Byte, reboot : BOOLEAN]
    BY DEF Silence, NO, Byte
  <2> HIDE DEF keys2, blur2
  <2> QED
    BY <2>1, <2>2, EventType
<1>2. e.kind = "event" /\ e.keys = keys2 /\ e.blurred = blur2 /\ e.caps = capsOn /\ e.meant = Silence
  <2> HIDE DEF keys2, blur2
  <2> QED
    BY DEF Event
<1>3. "E0ESC" \notin s
  BY DEF Agrees
<1>4. CASE key \in Simple
  <2>1. Right(e, BreakResult(s, key))
    BY <1>4, ReleaseRight
  <2>2. BreakResult(s, key).shift \in SUBSET Flags
    BY <1>3, <1>4, BreakResultIs
  <2>3. LastByte(key) + 128 \in Byte /\ Break(key) = Codes(key, LastByte(key) + 128)
    BY <1>4, MakeIs, BreakIs DEF Byte
  <2> HIDE DEF e
  <2>4. Delivers(Codes(key, LastByte(key) + 128), e, s)
    BY <1>1, <1>2, <1>4, <2>1, <2>2, <2>3, SimpleDelivers DEF BreakResult
  <2> QED
    BY <2>3, <2>4 DEF e
<1>5. CASE key = "PrtSc"
  <2>1. ModifiersOf(key) = {}
    BY <1>5 DEF ModifiersOf, Modifiers, KeysOf
  <2>2. \A m \in Modifiers : Down(m, keys2) <=> Down(m, keys)
    BY <2>1, DownWithout
  <2>3. \A m \in Modifiers : m \in blur2 <=> m \in blurs /\ Down(m, keys2)
    BY <2>1
  <2> HIDE DEF keys2, blur2, e
  <2>4. Agrees(keys2, blur2, capsOn, s)
    BY <2>2, <2>3 DEF Agrees
  <2>5. Silence.c = NO /\ ~Silence.reboot
    BY DEF Silence
  <2>6. Delivers(Break("PrtSc"), e, s)
    BY <1>1, <1>2, <1>3, <2>4, <2>5, PrtScDelivers
  <2> QED
    BY <1>5, <2>6 DEF e, keys2, blur2
<1> QED
  BY <1>4, <1>5 DEF Simple

(* A key pressed keeps the invariant. *)
LEMMA PressStep == ASSUME TypingInv, NEW key \in Keys, PressKey(key) PROVE TypingInv'
<1>1. /\ key \notin held /\ ~(key = "Pause" /\ Down("CTL", held))
      /\ held' = held \cup ({key} \ {"Pause"}) /\ caps' = (IF key = "CapsLock" THEN ~caps ELSE caps)
      /\ blurred' = blurred \ ModifiersOf(key) /\ Send(Make(key), Meant(key, held', caps))
  BY DEF PressKey
<1>2. held \in SUBSET Keys /\ "Pause" \notin held /\ caps \in BOOLEAN /\ blurred \in SUBSET Modifiers /\ key \in KeyNames
  BY TypingAssumption DEF TypingInv
<1>3. held' \subseteq Keys \ {"Pause"} /\ caps' \in BOOLEAN /\ blurred' \subseteq Modifiers
  BY <1>1, <1>2
<1>4. ASSUME NEW s \in SUBSET Flags, Agrees(held, blurred, caps, s)
      PROVE  Delivers(Make(key), Event(held', blurred', caps', Meant(key, held', caps)), s)
  <2>1. CASE key # "Pause"
    <3>1. held' = held \cup {key} /\ key \in KeyNames \ {"Pause"}
      BY <1>1, <1>2, <2>1
    <3> QED
      BY <1>1, <1>2, <1>4, <3>1, MakeDelivers
  <2>2. CASE key = "Pause"
    <3> DEFINE meant == Meant(key, held', caps)
               e     == Event(held', blurred', caps', meant)
    <3>1. held' = held /\ caps' = caps /\ blurred' = blurred
      BY <1>1, <2>2 DEF ModifiersOf, Modifiers, KeysOf
    <3>2. meant.c = NO /\ ~meant.reboot
      <4> DEFINE j == IF Down("CTL", held') THEN 3 ELSE IF Down("SHIFT", held') THEN 2 ELSE 1
      <4>1. Meaning(key) = << NO, NO, NO >>
        BY <2>2 DEF Meaning
      <4>2. Meaning(key)[j] = NO
        BY <4>1
      <4>3. meant.c = Meaning(key)[j] /\ meant.reboot = FALSE
        BY <2>2 DEF Meant
      <4> QED
        BY <4>2, <4>3
    <3>3. meant \in [c : Byte, reboot : BOOLEAN]
      BY <1>2, MeantType
    <3> HIDE DEF meant
    <3>4. e \in Happenings
      BY <1>3, <3>3, EventType
    <3>5. e.kind = "event" /\ e.keys = held' /\ e.blurred = blurred' /\ e.caps = caps' /\ e.meant = meant
      BY DEF Event
    <3> HIDE DEF e
    <3>6. "E0ESC" \notin s /\ "CTL" \notin s
      BY <1>1, <1>4, <2>2 DEF Agrees, Modifiers
    <3>7. Agrees(e.keys, e.blurred, e.caps, s)
      BY <1>4, <3>1, <3>5
    <3>8. Delivers(Make("Pause"), e, s)
      BY <3>2, <3>4, <3>5, <3>6, <3>7, PauseDelivers
    <3> QED
      BY <2>2, <3>8 DEF e, meant
  <2> QED
    BY <2>1, <2>2
<1> QED
  BY <1>1, <1>3, <1>4, SendStep

(* A key that repeats keeps the invariant. *)
LEMMA RepeatStep == ASSUME TypingInv, NEW key \in Keys, RepeatKey(key) PROVE TypingInv'
<1>1. /\ key \in held /\ held' = held /\ caps' = (IF key = "CapsLock" THEN ~caps ELSE caps)
      /\ blurred' = blurred \ ModifiersOf(key) /\ Send(Make(key), Meant(key, held, caps))
  BY DEF RepeatKey
<1>2. held \in SUBSET Keys /\ caps \in BOOLEAN /\ blurred \in SUBSET Modifiers /\ key \in KeyNames \ {"Pause"}
  BY <1>1, TypingAssumption DEF TypingInv
<1>3. held' \subseteq Keys \ {"Pause"} /\ caps' \in BOOLEAN /\ blurred' \subseteq Modifiers
  BY <1>1, <1>2 DEF TypingInv
<1>4. held' = held \cup {key} /\ held = held \cup {key}
  BY <1>1
<1>5. ASSUME NEW s \in SUBSET Flags, Agrees(held, blurred, caps, s)
      PROVE  Delivers(Make(key), Event(held', blurred', caps', Meant(key, held, caps)), s)
  BY <1>1, <1>2, <1>4, <1>5, MakeDelivers
<1> QED
  BY <1>1, <1>3, <1>5, SendStep

(* A key released keeps the invariant. *)
LEMMA ReleaseStep == ASSUME TypingInv, NEW key \in Keys, ReleaseKey(key) PROVE TypingInv'
<1>1. /\ key \in held /\ held' = held \ {key} /\ caps' = caps
      /\ blurred' = {m \in blurred \cup ModifiersOf(key) : Down(m, held \ {key})} /\ Send(Break(key), Silence)
  BY DEF ReleaseKey
<1>2. held \in SUBSET Keys /\ caps \in BOOLEAN /\ blurred \in SUBSET Modifiers /\ key \in KeyNames \ {"Pause"}
  BY <1>1, TypingAssumption DEF TypingInv
<1>3. held' \subseteq Keys \ {"Pause"} /\ caps' \in BOOLEAN /\ blurred' \subseteq Modifiers
  BY <1>1, <1>2 DEF TypingInv, ModifiersOf
<1>4. ASSUME NEW s \in SUBSET Flags, Agrees(held, blurred, caps, s)
      PROVE  Delivers(Break(key), Event(held', blurred', caps', Silence), s)
  BY <1>1, <1>2, <1>4, BreakDelivers
<1> QED
  BY <1>1, <1>3, <1>4, SendStep

(* A byte taken by the driver keeps the invariant. *)
LEMMA TakeStep == ASSUME TypingInv, TakeByte PROVE TypingInv'
<1> DEFINE node == Head(wire)
           r    == kbd_proc_data(shift, node.data)
<1>1. /\ wire # << >> /\ shift' = r.shift /\ reply' = [c |-> r.c, reboot |-> r.reboot]
      /\ prefixed' = (node.data = E0) /\ seen' = node.completes /\ wire' = Tail(wire)
      /\ held' = held /\ caps' = caps /\ blurred' = blurred
  BY DEF TakeByte
<1>2. /\ wire \in Seq(Nodes) /\ Len(wire) <= Backlog + 6 /\ shift \subseteq Flags /\ Backlog \in Nat
      /\ held \subseteq Keys \ {"Pause"} /\ caps \in BOOLEAN /\ blurred \subseteq Modifiers
  BY TypingAssumption DEF TypingInv
<1>3. node \in Nodes /\ Tail(wire) \in Seq(Nodes) /\ Len(Tail(wire)) = Len(wire) - 1
  BY <1>1, <1>2, HeadTailProperties
<1>4. node.data \in Byte /\ node.completes \in Happenings
  BY <1>3 DEF Nodes
<1>5. r.shift \subseteq Flags /\ r.c \in Byte /\ r.reboot \in BOOLEAN
  BY <1>2, <1>4, KbdProcDataType
<1>6. ("E0ESC" \in r.shift) <=> (node.data = E0)
  BY <1>2, <1>4, PrefixFlag
<1>7. PICK s \in SUBSET Flags : Runs(wire, shift, s) /\ Agrees(held, blurred, caps, s)
  BY DEF TypingInv
<1>8. PICK t \in SUBSET Flags : Step(shift, node, t) /\ Runs(Tail(wire), t, s)
  BY <1>1, <1>2, <1>7, RunsTail
<1>9. t = r.shift /\ Right(node.completes, r)
  BY <1>8 DEF Step
<1> HIDE DEF r, node
<1>10. Right(seen', [shift |-> shift', c |-> reply'.c, reboot |-> reply'.reboot])
  <2> DEFINE q == [shift |-> shift', c |-> reply'.c, reboot |-> reply'.reboot]
  <2>1. q.shift = r.shift /\ q.c = r.c /\ q.reboot = r.reboot
    BY <1>1
  <2> HIDE DEF q
  <2>2. Right(seen', q)
    BY <1>1, <1>9, <2>1 DEF Right
  <2> QED
    BY <2>2 DEF q
<1>11. Runs(wire', shift', s) /\ Agrees(held', blurred', caps', s)
  BY <1>1, <1>7, <1>8, <1>9
<1>12. Len(wire') <= Backlog + 6
  <2>1. Len(wire) \in Nat
    BY <1>2
  <2> QED
    BY <1>1, <1>2, <1>3, <2>1
<1>13. reply' \in [c : Byte, reboot : BOOLEAN] /\ prefixed' \in BOOLEAN /\ (("E0ESC" \in shift') <=> prefixed')
  BY <1>1, <1>5, <1>6
<1> QED
  BY <1>1, <1>2, <1>3, <1>4, <1>5, <1>10, <1>11, <1>12, <1>13 DEF TypingInv

(* No byte sent and no key held: the invariant holds. *)
LEMMA TypingInit == Init => TypingInv
<1> SUFFICES ASSUME Init PROVE TypingInv
  OBVIOUS
<1>1. /\ held = {} /\ caps = FALSE /\ blurred = {} /\ wire = << >> /\ shift = {} /\ reply = Silence
      /\ prefixed = FALSE /\ seen = Event({}, {}, FALSE, Silence)
  BY DEF Init
<1>2. Silence \in [c : Byte, reboot : BOOLEAN] /\ Silence.reboot = FALSE /\ Silence.c = NO
  BY DEF Silence, NO, Byte
<1>3. seen \in Happenings
  BY <1>1, <1>2, EventType
<1>4. /\ seen.kind = "event" /\ seen.keys = {} /\ seen.blurred = {} /\ seen.caps = FALSE /\ seen.meant = Silence
  BY <1>1 DEF Event
<1>5. Agrees({}, {}, FALSE, {})
  BY DEF Agrees, Down
<1>6. Right(seen, [shift |-> shift, c |-> reply.c, reboot |-> reply.reboot])
  BY <1>1, <1>2, <1>4, <1>5 DEF Right
<1>7. Runs(<< >>, {}, {}) /\ {} \in SUBSET Flags
  BY RunsNothing
<1>8. wire \in Seq(Nodes) /\ Len(wire) <= Backlog + 6
  BY <1>1, TypingAssumption
<1> QED
  BY <1>1, <1>2, <1>3, <1>5, <1>6, <1>7, <1>8 DEF TypingInv

(* The invariant always holds. *)
LEMMA TypingInvariant == Spec => []TypingInv
<1>1. Init => TypingInv
  BY TypingInit
<1>2. TypingInv /\ [Next]_typingVars => TypingInv'
  <2> SUFFICES ASSUME TypingInv, [Next]_typingVars PROVE TypingInv'
    OBVIOUS
  <2>1. CASE UNCHANGED typingVars
    BY <2>1 DEF typingVars, TypingInv
  <2> QED
    BY <2>1, PressStep, RepeatStep, ReleaseStep, TakeStep DEF Next
<1> QED
  BY <1>1, <1>2, PTL DEF Spec

-----------------------------------------------------------------------------
(* The theorems. *)

(* The driver's flags, its reply and the wire keep their types: what one call of
   kbd_proc_data returns fits a slot of the console buffer (104console.c:224, 397). *)
THEOREM TypingTypeCorrect == Spec => []TypeOK
<1>1. TypingInv => TypeOK
  <2> SUFFICES ASSUME TypingInv PROVE TypeOK
    OBVIOUS
  <2>1. \A k \in DOMAIN wire : wire[k].data \in Byte
    <3>1. wire \in Seq(Nodes)
      BY DEF TypingInv
    <3>2. DOMAIN wire = 1..Len(wire) /\ \A k \in 1..Len(wire) : wire[k] \in Nodes
      BY <3>1, LenProperties, ElementOfSeq
    <3> QED
      BY <3>2 DEF Nodes
  <2>2. seen.kind \in {"part", "event"}
    BY DEF TypingInv, Happenings, Part
  <2> QED
    BY <2>1, <2>2 DEF TypingInv, TypeOK
<1> QED
  BY <1>1, TypingInvariant, PTL

(* Whatever keys are held, whatever sequences come between and however far the
   driver is behind, a modifier flag is set at the end of a key event only if a
   key that stands for it is down, and is set if one is down and none went up. *)
THEOREM ModifiersAgree == Spec => [](NoStuckModifier /\ NoLostModifier)
<1>1. TypingInv => NoStuckModifier /\ NoLostModifier
  BY DEF TypingInv, NoStuckModifier, NoLostModifier, AtEvent, Right, Agrees
<1> QED
  BY <1>1, TypingInvariant, PTL

(* Caps Lock is as many times turned over as its key sent make codes. *)
THEOREM CapsLockFollows == Spec => []CapsFollows
<1>1. TypingInv => CapsFollows
  BY DEF TypingInv, CapsFollows, AtEvent, Right, Agrees
<1> QED
  BY <1>1, TypingInvariant, PTL

(* Every event gives the character that is meant: the tables, the choice of the
   map and the change of case together (104console.c:380-389); and no other byte
   of a sequence gives one. *)
THEOREM CharacterIsRight == Spec => []RightCharacter
<1>1. TypingInv => RightCharacter
  BY DEF TypingInv, RightCharacter, AtEvent, Right
<1> QED
  BY <1>1, TypingInvariant, PTL

(* The machine restarts at Ctrl-Alt-Del and at nothing else, whatever bytes the
   driver took before (104console.c:391-396). *)
THEOREM RebootIsMeant == Spec => []RebootOnlyByChord
<1>1. TypingInv => RebootOnlyByChord
  BY DEF TypingInv, RebootOnlyByChord, AtEvent, Right, Happenings, Part
<1> QED
  BY <1>1, TypingInvariant, PTL

(* The prefix flag is the memory of one byte (104console.c:362-375). *)
THEOREM PrefixIsRemembered == Spec => []PrefixRemembered
<1>1. TypingInv => PrefixRemembered
  BY DEF TypingInv, PrefixRemembered
<1> QED
  BY <1>1, TypingInvariant, PTL
=============================================================================
