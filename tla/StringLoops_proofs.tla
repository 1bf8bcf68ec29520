-------------------------- MODULE StringLoops_proofs --------------------------
(***************************************************************************)
(* The functions of string.c keep their promises, first those in assembly, *)
(* then all of them, for every memory, all calls and any number of them.   *)
(***************************************************************************)
EXTENDS StringLoops, TLAPS

-----------------------------------------------------------------------------
(* The string instructions. *)

(* The bytes that a copy has still to do: words, then the bytes left over. *)
Remaining == IF pc = "movsl" THEN 4 * ecx + (call.n % 4) ELSE ecx

(* The upward copy: the destination's lower part is done.  No byte that is
   still to be read was written. *)
UpwardInv ==
    pc \in {"movsl", "movsb"} =>
        LET done == call.n - Remaining IN
        /\ call.function \in {"memmove", "memcpy"}
        /\ call.dst < call.src \/ Apart(call.dst, call.src, call.n)
        /\ Remaining \in 0..call.n
        /\ edi = call.dst + done /\ esi = call.src + done
        /\ memory = Copied(before, call.dst, call.src, done)

(* Copying the bytes from h on, downwards. *)
CopiedFrom(m, dst, src, n, h) ==
    [a \in Address |-> IF a \in (dst + h)..(dst + n - 1) THEN m[src + (a - dst)] ELSE m[a]]

(* The downward copy: the destination's upper part is done. *)
DownwardInv ==
    pc = "std" =>
        /\ call.function = "memmove"
        /\ call.dst >= call.src
        /\ ecx \in 0..call.n
        /\ edi = call.dst + ecx - 1 /\ esi = call.src + ecx - 1
        /\ memory = CopiedFrom(before, call.dst, call.src, call.n, ecx)

(* The filling. *)
FillInv ==
    pc = "stosb" =>
        /\ call.function = "memset"
        /\ ecx \in 0..call.n
        /\ edi = call.dst + (call.n - ecx)
        /\ memory = Filled(before, call.dst, call.n - ecx, call.c)

(* The copy of a string: its end is not reached yet. *)
StringInv ==
    pc = "lodsb" =>
        LET done == esi - call.src IN
        /\ call.function = "strcpy"
        /\ done \in Nat /\ edi = call.dst + done
        /\ \A j \in 0..(done - 1) : before[call.src + j] # 0
        /\ memory = Copied(before, call.dst, call.src, done)

(* The comparison: the strings agree so far and neither has ended. *)
CompareInv ==
    pc = "scasb" =>
        LET done == esi - call.dst IN
        /\ call.function = "strcmp"
        /\ done \in Nat /\ edi = call.src + done
        /\ \A j \in 0..(done - 1) :
               before[call.dst + j] = before[call.src + j] /\ before[call.dst + j] # 0
        /\ memory = before

CallInv == pc # "caller" => call \in Calls /\ Legal(before, call)

IInv == TypeOK /\ CallInv /\ UpwardInv /\ DownwardInv /\ FillInv /\ StringInv /\ CompareInv

(* The fields of a call. *)
LEMMA CallFields ==
    ASSUME NEW c \in CallType
    PROVE  c.dst \in Nat /\ c.src \in Nat /\ c.n \in Nat /\ c.c \in Byte
  BY DEF CallType

(* Copying and filling give memories. *)
LEMMA CopiedType ==
    ASSUME NEW m \in [Address -> Byte], NEW dst \in Nat, NEW src \in Nat, NEW n \in Nat,
           n = 0 \/ src + n <= MemSize
    PROVE  Copied(m, dst, src, n) \in [Address -> Byte]
<1>1. MemSize \in Nat
  BY StringAssumption
<1>2. \A a \in Address : a \in dst..(dst + n - 1) => src + (a - dst) \in Address
  BY <1>1 DEF Address
<1> QED
  BY <1>2 DEF Copied

(* Nothing copied is nothing changed. *)
LEMMA CopiedNothing ==
    ASSUME NEW m \in [Address -> Byte], NEW dst \in Nat, NEW src \in Nat
    PROVE  Copied(m, dst, src, 0) = m
<1>1. \A a \in Address : a \notin dst..(dst + 0 - 1)
  BY DEF Address
<1> QED
  BY <1>1 DEF Copied

(* Some more bytes copied upwards: the bytes read have their old values. *)
LEMMA CopyMore ==
    ASSUME NEW m \in [Address -> Byte], NEW dst \in Nat, NEW src \in Nat,
           NEW n \in Nat, NEW h \in Nat, NEW w \in Nat, h + w <= n,
           dst + n <= MemSize, src + n <= MemSize,
           dst < src \/ Apart(dst, src, n)
    PROVE  Copied(Copied(m, dst, src, h), dst + h, src + h, w) = Copied(m, dst, src, h + w)
<1>1. MemSize \in Nat
  BY StringAssumption
<1> DEFINE part == Copied(m, dst, src, h)
<1>2. ASSUME NEW a \in Address, a \in (dst + h)..((dst + h) + w - 1)
      PROVE  part[(src + h) + (a - (dst + h))] = m[src + (a - dst)]
  <2> DEFINE b == (src + h) + (a - (dst + h))
  <2>1. b = src + (a - dst) /\ b \in Address
    BY <1>1, <1>2 DEF Address
  <2>2. b \notin dst..(dst + h - 1)
    BY <1>1, <1>2 DEF Address, Apart
  <2> QED
    BY <2>1, <2>2 DEF Copied
<1>3. ASSUME NEW a \in Address, a \notin (dst + h)..((dst + h) + w - 1)
      PROVE  part[a] = Copied(m, dst, src, h + w)[a]
  <2>1. a \in dst..(dst + h - 1) <=> a \in dst..(dst + (h + w) - 1)
    BY <1>3 DEF Address
  <2> QED
    BY <2>1 DEF Copied
<1>4. ASSUME NEW a \in Address, a \in (dst + h)..((dst + h) + w - 1)
      PROVE  Copied(m, dst, src, h + w)[a] = m[src + (a - dst)]
  <2>1. a \in dst..(dst + (h + w) - 1)
    BY <1>4 DEF Address
  <2> QED
    BY <2>1 DEF Copied
<1>5. \A a \in Address : Copied(m, dst, src, h + w)[a]
          = IF a \in (dst + h)..((dst + h) + w - 1)
            THEN part[(src + h) + (a - (dst + h))] ELSE part[a]
  BY <1>2, <1>3, <1>4
<1>6. Copied(m, dst, src, h + w) = [a \in Address |-> Copied(m, dst, src, h + w)[a]]
  BY DEF Copied
<1>7. Copied(part, dst + h, src + h, w)
        = [a \in Address |-> IF a \in (dst + h)..((dst + h) + w - 1)
                             THEN part[(src + h) + (a - (dst + h))] ELSE part[a]]
  BY Zenon DEF Copied
<1> QED
  BY <1>5, <1>6, <1>7

(* One more byte copied downwards. *)
LEMMA CopyDown ==
    ASSUME NEW m \in [Address -> Byte], NEW dst \in Nat, NEW src \in Nat,
           NEW n \in Nat, NEW h \in 1..n,
           dst + n <= MemSize, src + n <= MemSize, dst >= src
    PROVE  /\ CopiedFrom(m, dst, src, n, h) \in [Address -> Byte]
           /\ Copied(CopiedFrom(m, dst, src, n, h), dst + h - 1, src + h - 1, 1)
                = CopiedFrom(m, dst, src, n, h - 1)
<1>1. MemSize \in Nat
  BY StringAssumption
<1> DEFINE part == CopiedFrom(m, dst, src, n, h)
           next == CopiedFrom(m, dst, src, n, h - 1)
<1>2. part \in [Address -> Byte]
  <2>1. \A a \in Address : a \in (dst + h)..(dst + n - 1) => src + (a - dst) \in Address
    BY <1>1 DEF Address
  <2> QED
    BY <2>1 DEF CopiedFrom
<1>3. ASSUME NEW a \in Address, a \in (dst + h - 1)..((dst + h - 1) + 1 - 1)
      PROVE  part[(src + h - 1) + (a - (dst + h - 1))] = next[a]
  <2> DEFINE b == (src + h - 1) + (a - (dst + h - 1))
  <2>1. b = src + (a - dst) /\ b \in Address /\ b \notin (dst + h)..(dst + n - 1)
    BY <1>1, <1>3 DEF Address
  <2>2. a \in (dst + (h - 1))..(dst + n - 1)
    BY <1>3 DEF Address
  <2> QED
    BY <2>1, <2>2 DEF CopiedFrom
<1>4. ASSUME NEW a \in Address, a \notin (dst + h - 1)..((dst + h - 1) + 1 - 1)
      PROVE  part[a] = next[a]
  <2>1. a \in (dst + h)..(dst + n - 1) <=> a \in (dst + (h - 1))..(dst + n - 1)
    BY <1>4 DEF Address
  <2> QED
    BY <2>1 DEF CopiedFrom
<1>5. \A a \in Address : next[a]
          = IF a \in (dst + h - 1)..((dst + h - 1) + 1 - 1)
            THEN part[(src + h - 1) + (a - (dst + h - 1))] ELSE part[a]
  BY <1>3, <1>4
<1>6. next = [a \in Address |-> next[a]]
  BY DEF CopiedFrom
<1>7. Copied(part, dst + h - 1, src + h - 1, 1)
        = [a \in Address |-> IF a \in (dst + h - 1)..((dst + h - 1) + 1 - 1)
                             THEN part[(src + h - 1) + (a - (dst + h - 1))] ELSE part[a]]
  BY Zenon DEF Copied
<1> QED
  BY <1>2, <1>5, <1>6, <1>7

(* One more byte filled. *)
LEMMA FillMore ==
    ASSUME NEW m \in [Address -> Byte], NEW dst \in Nat, NEW h \in Nat, NEW c \in Byte,
           dst + h < MemSize
    PROVE  [Filled(m, dst, h, c) EXCEPT ![dst + h] = c] = Filled(m, dst, h + 1, c)
<1>1. MemSize \in Nat
  BY StringAssumption
<1>2. dst + h \in Address
  BY <1>1 DEF Address
<1>3. \A a \in Address : a \in dst..(dst + (h + 1) - 1) <=> a \in dst..(dst + h - 1) \/ a = dst + h
  BY DEF Address
<1> QED
  BY <1>2, <1>3 DEF Filled

(* Nothing filled, everything filled. *)
LEMMA FilledType ==
    ASSUME NEW m \in [Address -> Byte], NEW dst \in Nat, NEW h \in Nat, NEW c \in Byte
    PROVE  Filled(m, dst, h, c) \in [Address -> Byte] /\ Filled(m, dst, 0, c) = m
<1>1. \A a \in Address : a \notin dst..(dst + 0 - 1)
  BY DEF Address
<1> QED
  BY <1>1 DEF Filled

(* What the invariant says of a call under way. *)
LEMMA CallFacts ==
    ASSUME IInv
    PROVE  /\ call \in CallType
           /\ call.dst \in Nat /\ call.src \in Nat /\ call.n \in Nat /\ call.c \in Byte
           /\ before \in [Address -> Byte] /\ memory \in [Address -> Byte]
           /\ MemSize \in Nat
           /\ pc \in {"movsl", "movsb", "std", "stosb"} /\ call.function \in {"memmove", "memcpy", "memset"}
                 => call.dst + call.n <= MemSize
           /\ pc \in {"movsl", "movsb", "std"} /\ call.function \in {"memmove", "memcpy"}
                 => call.src + call.n <= MemSize
<1>1. call \in CallType /\ before \in [Address -> Byte] /\ memory \in [Address -> Byte]
  BY DEF IInv, TypeOK
<1>2. pc # "caller" => Legal(before, call)
  BY DEF IInv, CallInv
<1>3. MemSize \in Nat
  BY StringAssumption
<1> QED
  BY <1>1, <1>2, <1>3, CallFields DEF Legal

(* The initial states satisfy the invariant. *)
LEMMA InitIInv == OpsInit => IInv
<1> SUFFICES ASSUME OpsInit PROVE IInv
  OBVIOUS
<1>1. memory \in [Address -> Byte] /\ before \in [Address -> Byte]
  BY StringAssumption DEF OpsInit, Init
<1>2. call \in CallType
  BY DEF OpsInit, Init, NoCall, CallType, FunctionNames, Byte
<1>3. TypeOK
  BY <1>1, <1>2, MaxCallsAssumption DEF OpsInit, Init, TypeOK
<1> QED
  BY <1>3 DEF OpsInit, Init, IInv, CallInv, UpwardInv, DownwardInv, FillInv, StringInv, CompareInv

(* What entering a function establishes, whichever it is. *)
LEMMA EnterFacts ==
    ASSUME IInv, NEW c \in Calls, NEW function, Enter(c, function)
    PROVE  /\ c \in CallType /\ c.dst \in Nat /\ c.src \in Nat /\ c.n \in Nat /\ c.c \in Byte
           /\ call' = c /\ call'.function = function
           /\ memory \in [Address -> Byte] /\ memory' = memory /\ before' = memory
           /\ value' = value /\ value \in Int
           /\ calls' \in 0..MaxCalls
           /\ Legal(before', call') /\ call' \in Calls
           /\ pc = "caller" /\ df = 0
<1>1. c \in CallType
  BY StringAssumption
<1>2. calls' \in 0..MaxCalls
  BY MaxCallsAssumption DEF IInv, TypeOK, Enter
<1> QED
  BY <1>1, <1>2, CallFields DEF Enter, IInv, TypeOK

(* The division of a length into words and bytes. *)
LEMMA WordsAndBytes ==
    ASSUME NEW n \in Nat
    PROVE  n \div 4 \in Nat /\ n % 4 \in 0..3 /\ 4 * (n \div 4) + (n % 4) = n
  OBVIOUS

(* An upward copy begins. *)
LEMMA WordsStart ==
    ASSUME IInv, NEW c \in Calls, NEW function \in {"memmove", "memcpy"}, Enter(c, function),
           Words(c), c.dst < c.src \/ Apart(c.dst, c.src, c.n)
    PROVE  IInv'
<1>1. /\ call' = c /\ pc' = "movsl" /\ ecx' = c.n \div 4 /\ edi' = c.dst /\ esi' = c.src
      /\ df' = 0
  BY EnterFacts DEF Words
<1>2. c.dst \in Nat /\ c.src \in Nat /\ c.n \in Nat
  BY EnterFacts
<1>3. Remaining' = c.n
  BY <1>1, <1>2, WordsAndBytes DEF Remaining
<1>4. TypeOK'
  BY <1>1, <1>2, EnterFacts, WordsAndBytes DEF TypeOK
<1>5. memory' = Copied(before', c.dst, c.src, 0)
  BY <1>2, EnterFacts, CopiedNothing
<1>6. c.n - Remaining' = 0
  BY <1>2, <1>3
<1>7. UpwardInv'
  <2>1. call'.function \in {"memmove", "memcpy"}
    BY EnterFacts
  <2>2. edi' = call'.dst + 0 /\ esi' = call'.src + 0 /\ Remaining' \in 0..call'.n
    BY <1>1, <1>2, <1>3
  <2> QED
    BY <1>1, <1>5, <1>6, <2>1, <2>2 DEF UpwardInv
<1> QED
  BY <1>1, <1>4, <1>7, EnterFacts
     DEF IInv, CallInv, DownwardInv, FillInv, StringInv, CompareInv

(* A downward copy begins. *)
LEMMA DownwardStart ==
    ASSUME IInv, NEW c \in Calls, __memmove(c), ~(c.dst < c.src)
    PROVE  IInv'
<1>1. Enter(c, "memmove")
  BY DEF __memmove
<1>2. /\ call' = c /\ pc' = "std" /\ ecx' = c.n /\ df' = 1
      /\ esi' = c.n - 1 + c.src /\ edi' = c.n - 1 + c.dst
  BY <1>1, EnterFacts DEF __memmove
<1>3. c.dst \in Nat /\ c.src \in Nat /\ c.n \in Nat
  BY <1>1, EnterFacts
<1>4. TypeOK'
  BY <1>1, <1>2, <1>3, EnterFacts DEF TypeOK
<1>5. memory' = CopiedFrom(before', c.dst, c.src, c.n, c.n)
  <2>1. \A a \in Address : a \notin (c.dst + c.n)..(c.dst + c.n - 1)
    BY <1>3 DEF Address
  <2> QED
    BY <1>1, <2>1, EnterFacts DEF CopiedFrom
<1>6. DownwardInv'
  <2>1. edi' = c.dst + c.n - 1 /\ esi' = c.src + c.n - 1 /\ c.dst >= c.src /\ c.n \in 0..c.n
    BY <1>2, <1>3
  <2>2. call'.function = "memmove"
    BY <1>1, EnterFacts
  <2> QED
    BY <1>2, <1>5, <2>1, <2>2 DEF DownwardInv
<1> QED
  BY <1>1, <1>2, <1>4, <1>6, EnterFacts
     DEF IInv, CallInv, UpwardInv, FillInv, StringInv, CompareInv

(* A filling begins. *)
LEMMA FillStart ==
    ASSUME IInv, NEW c \in Calls, __memset(c)
    PROVE  IInv'
<1>1. Enter(c, "memset")
  BY DEF __memset
<1>2. /\ call' = c /\ pc' = "stosb" /\ ecx' = c.n /\ edi' = c.dst
      /\ esi' = esi /\ df' = 0
  BY <1>1, EnterFacts DEF __memset
<1>3. c.dst \in Nat /\ c.n \in Nat /\ c.c \in Byte /\ esi \in Int
  BY <1>1, EnterFacts DEF IInv, TypeOK
<1>4. TypeOK'
  BY <1>1, <1>2, <1>3, EnterFacts DEF TypeOK
<1>5. memory' = Filled(before', c.dst, 0, c.c)
  BY <1>1, <1>3, EnterFacts, FilledType
<1>6. FillInv'
  <2>1. c.n - c.n = 0 /\ c.dst + 0 = c.dst /\ c.n \in 0..c.n
    BY <1>3
  <2> QED
    BY <1>1, <1>2, <1>5, <2>1, EnterFacts DEF FillInv
<1> QED
  BY <1>1, <1>2, <1>4, <1>6, EnterFacts
     DEF IInv, CallInv, UpwardInv, DownwardInv, StringInv, CompareInv

(* The copy of a string begins. *)
LEMMA StringStart ==
    ASSUME IInv, NEW c \in Calls, __strcpy(c)
    PROVE  IInv'
<1>1. Enter(c, "strcpy")
  BY DEF __strcpy
<1>2. /\ call' = c /\ pc' = "lodsb" /\ edi' = c.dst /\ esi' = c.src
      /\ ecx' = ecx /\ df' = 0
  BY <1>1, EnterFacts DEF __strcpy
<1>3. c.dst \in Nat /\ c.src \in Nat /\ ecx \in Nat
  BY <1>1, EnterFacts DEF IInv, TypeOK
<1>4. TypeOK'
  BY <1>1, <1>2, <1>3, EnterFacts DEF TypeOK
<1>5. memory' = Copied(before', c.dst, c.src, 0)
  BY <1>1, <1>3, EnterFacts, CopiedNothing
<1>6. StringInv'
  <2>1. c.src - c.src = 0 /\ c.dst + 0 = c.dst /\ \A j \in 0..(0 - 1) : FALSE
    BY <1>3
  <2> QED
    BY <1>1, <1>2, <1>5, <2>1, EnterFacts DEF StringInv
<1> QED
  BY <1>1, <1>2, <1>4, <1>6, EnterFacts
     DEF IInv, CallInv, UpwardInv, DownwardInv, FillInv, CompareInv

(* A comparison begins. *)
LEMMA CompareStart ==
    ASSUME IInv, NEW c \in Calls, __strcmp(c)
    PROVE  IInv'
<1>1. Enter(c, "strcmp")
  BY DEF __strcmp
<1>2. /\ call' = c /\ pc' = "scasb" /\ esi' = c.dst /\ edi' = c.src
      /\ ecx' = ecx /\ df' = 0
  BY <1>1, EnterFacts DEF __strcmp
<1>3. c.dst \in Nat /\ c.src \in Nat /\ ecx \in Nat
  BY <1>1, EnterFacts DEF IInv, TypeOK
<1>4. TypeOK'
  BY <1>1, <1>2, <1>3, EnterFacts DEF TypeOK
<1>5. CompareInv'
  <2>1. c.dst - c.dst = 0 /\ c.src + 0 = c.src /\ \A j \in 0..(0 - 1) : FALSE
    BY <1>3
  <2> QED
    BY <1>1, <1>2, <2>1, EnterFacts DEF CompareInv
<1> QED
  BY <1>1, <1>2, <1>4, <1>5, EnterFacts
     DEF IInv, CallInv, UpwardInv, DownwardInv, FillInv, StringInv

(* One more word of an upward copy. *)
LEMMA MovslStep == IInv /\ movsl => IInv'
<1> SUFFICES ASSUME IInv, movsl PROVE IInv'
  OBVIOUS
<1> DEFINE h == call.n - Remaining
<1>1. /\ pc = "movsl" /\ pc' = "movsl" /\ ecx > 0 /\ ecx' = ecx - 1 /\ df = 0
      /\ esi' = esi + 4 /\ edi' = edi + 4 /\ memory' = Copied(memory, edi, esi, 4)
      /\ UNCHANGED <<value, call, df, calls, before>>
  BY DEF movsl, Transfer, Moved, IInv, TypeOK
<1>2. /\ call.dst \in Nat /\ call.src \in Nat /\ call.n \in Nat /\ before \in [Address -> Byte]
      /\ ecx \in Nat /\ call.n % 4 \in Nat
  BY CallFacts, WordsAndBytes DEF IInv, TypeOK
<1>3. /\ call.function \in {"memmove", "memcpy"}
      /\ call.dst < call.src \/ Apart(call.dst, call.src, call.n)
      /\ Remaining \in 0..call.n
      /\ edi = call.dst + h /\ esi = call.src + h
      /\ memory = Copied(before, call.dst, call.src, h)
  BY <1>1 DEF IInv, UpwardInv
<1>4. call.dst + call.n <= MemSize /\ call.src + call.n <= MemSize
  BY <1>1, <1>3, CallFacts
<1>5. /\ Remaining' = Remaining - 4 /\ Remaining - 4 \in 0..call.n
      /\ h \in Nat /\ h + 4 <= call.n /\ call.n - (Remaining - 4) = h + 4
  BY <1>1, <1>2, <1>3 DEF Remaining
<1> HIDE DEF h
<1>6. memory' = Copied(before, call.dst, call.src, h + 4)
  <2> DEFINE dst == call.dst  src == call.src  n == call.n
  <2>1. /\ before \in [Address -> Byte] /\ dst \in Nat /\ src \in Nat /\ n \in Nat /\ h \in Nat
        /\ MemSize \in Nat /\ h + 4 <= n /\ dst + n <= MemSize /\ src + n <= MemSize
        /\ dst < src \/ Apart(dst, src, n)
    BY <1>2, <1>3, <1>4, <1>5, CallFacts
  <2>2. Copied(Copied(before, dst, src, h), dst + h, src + h, 4) = Copied(before, dst, src, h + 4)
    <3> HIDE DEF dst, src, n
    <3> QED
      BY <2>1, CopyMore
  <2> QED
    BY <1>1, <1>3, <2>2
<1>7. UpwardInv'
  <2>1. edi' = call.dst + (h + 4) /\ esi' = call.src + (h + 4)
    BY <1>1, <1>2, <1>3, <1>5
  <2>2. call'.n - Remaining' = h + 4
    BY <1>1, <1>5
  <2> QED
    BY <1>1, <1>3, <1>5, <1>6, <2>1, <2>2 DEF UpwardInv
<1>8. TypeOK'
  <2>1. memory' \in [Address -> Byte]
    <3>1. call.src + (h + 4) <= MemSize /\ h + 4 \in Nat
      BY <1>2, <1>4, <1>5, CallFacts
    <3> QED
      BY <1>2, <1>6, <3>1, CopiedType
  <2> QED
    BY <1>1, <1>2, <1>3, <1>5, <2>1 DEF IInv, TypeOK
<1> QED
  BY <1>1, <1>7, <1>8 DEF IInv, CallInv, DownwardInv, FillInv, StringInv, CompareInv

(* The words are done: the bytes left over are what Remaining says. *)
LEMMA RestStep == IInv /\ rest => IInv'
<1> SUFFICES ASSUME IInv, rest PROVE IInv'
  OBVIOUS
<1>1. /\ pc = "movsl" /\ pc' = "movsb" /\ ecx = 0 /\ ecx' = call.n % 4
      /\ UNCHANGED <<memory, value, call, esi, edi, df, calls, before>>
  BY DEF rest
<1>2. call.n \in Nat /\ call.n % 4 \in 0..3
  BY CallFacts, WordsAndBytes
<1>3. Remaining' = Remaining
  BY <1>1, <1>2 DEF Remaining
<1>4. UpwardInv'
  BY <1>1, <1>3 DEF IInv, UpwardInv
<1>5. TypeOK'
  BY <1>1, <1>2 DEF IInv, TypeOK
<1> QED
  BY <1>1, <1>4, <1>5 DEF IInv, CallInv, DownwardInv, FillInv, StringInv, CompareInv

(* One more byte of an upward copy. *)
LEMMA UpwardByteStep == IInv /\ movsb /\ pc = "movsb" => IInv'
<1> SUFFICES ASSUME IInv, movsb, pc = "movsb" PROVE IInv'
  OBVIOUS
<1> DEFINE h == call.n - ecx
<1>1. /\ pc' = "movsb" /\ ecx > 0 /\ ecx' = ecx - 1 /\ df = 0
      /\ esi' = esi + 1 /\ edi' = edi + 1 /\ memory' = Copied(memory, edi, esi, 1)
      /\ UNCHANGED <<value, call, df, calls, before>>
  BY DEF movsb, Transfer, Moved, IInv, TypeOK
<1>2. /\ call.dst \in Nat /\ call.src \in Nat /\ call.n \in Nat /\ before \in [Address -> Byte]
      /\ ecx \in Nat
  BY CallFacts DEF IInv, TypeOK
<1>3. /\ call.function \in {"memmove", "memcpy"}
      /\ call.dst < call.src \/ Apart(call.dst, call.src, call.n)
      /\ ecx \in 0..call.n
      /\ edi = call.dst + h /\ esi = call.src + h
      /\ memory = Copied(before, call.dst, call.src, h)
  BY DEF IInv, UpwardInv, Remaining
<1>4. call.dst + call.n <= MemSize /\ call.src + call.n <= MemSize
  BY <1>3, CallFacts
<1>5. /\ Remaining' = ecx - 1 /\ ecx - 1 \in 0..call.n
      /\ h \in Nat /\ h + 1 <= call.n /\ call.n - (ecx - 1) = h + 1
  BY <1>1, <1>2, <1>3 DEF Remaining
<1> HIDE DEF h
<1>6. memory' = Copied(before, call.dst, call.src, h + 1)
  <2> DEFINE dst == call.dst  src == call.src  n == call.n
  <2>1. /\ before \in [Address -> Byte] /\ dst \in Nat /\ src \in Nat /\ n \in Nat /\ h \in Nat
        /\ MemSize \in Nat /\ h + 1 <= n /\ dst + n <= MemSize /\ src + n <= MemSize
        /\ dst < src \/ Apart(dst, src, n)
    BY <1>2, <1>3, <1>4, <1>5, CallFacts
  <2>2. Copied(Copied(before, dst, src, h), dst + h, src + h, 1) = Copied(before, dst, src, h + 1)
    <3> HIDE DEF dst, src, n
    <3> QED
      BY <2>1, CopyMore
  <2> QED
    BY <1>1, <1>3, <2>2
<1>7. UpwardInv'
  <2>1. edi' = call.dst + (h + 1) /\ esi' = call.src + (h + 1)
    BY <1>1, <1>2, <1>3, <1>5
  <2>2. call'.n - Remaining' = h + 1
    BY <1>1, <1>5
  <2> QED
    BY <1>1, <1>3, <1>5, <1>6, <2>1, <2>2 DEF UpwardInv
<1>8. TypeOK'
  <2>1. memory' \in [Address -> Byte]
    <3>1. call.src + (h + 1) <= MemSize /\ h + 1 \in Nat
      BY <1>2, <1>4, <1>5, CallFacts
    <3> QED
      BY <1>2, <1>6, <3>1, CopiedType
  <2> QED
    BY <1>1, <1>2, <1>3, <1>5, <2>1 DEF IInv, TypeOK
<1> QED
  BY <1>1, <1>7, <1>8 DEF IInv, CallInv, DownwardInv, FillInv, StringInv, CompareInv

(* One more byte of a downward copy. *)
LEMMA DownwardByteStep == IInv /\ movsb /\ pc = "std" => IInv'
<1> SUFFICES ASSUME IInv, movsb, pc = "std" PROVE IInv'
  OBVIOUS
<1>1. /\ pc' = "std" /\ ecx > 0 /\ ecx' = ecx - 1 /\ df = 1
      /\ esi' = esi - 1 /\ edi' = edi - 1 /\ memory' = Copied(memory, edi, esi, 1)
      /\ UNCHANGED <<value, call, df, calls, before>>
  BY DEF movsb, Transfer, Moved, IInv, TypeOK
<1>2. /\ call.dst \in Nat /\ call.src \in Nat /\ call.n \in Nat /\ before \in [Address -> Byte]
      /\ ecx \in Nat
  BY CallFacts DEF IInv, TypeOK
<1>3. /\ call.function = "memmove" /\ call.dst >= call.src
      /\ ecx \in 1..call.n
      /\ edi = call.dst + ecx - 1 /\ esi = call.src + ecx - 1
      /\ memory = CopiedFrom(before, call.dst, call.src, call.n, ecx)
  BY <1>1, <1>2 DEF IInv, DownwardInv
<1>4. call.dst + call.n <= MemSize /\ call.src + call.n <= MemSize
  BY <1>3, CallFacts
<1>5. memory' = CopiedFrom(before, call.dst, call.src, call.n, ecx - 1)
  BY <1>1, <1>2, <1>3, <1>4, CopyDown
<1>6. DownwardInv'
  <2>1. edi' = call.dst + (ecx - 1) - 1 /\ esi' = call.src + (ecx - 1) - 1 /\ ecx - 1 \in 0..call.n
    BY <1>1, <1>2, <1>3
  <2> QED
    BY <1>1, <1>3, <1>5, <2>1 DEF DownwardInv
<1>7. TypeOK'
  <2>1. memory' \in [Address -> Byte]
    <3>1. \A a \in Address : a \in (call.dst + (ecx - 1))..(call.dst + call.n - 1)
                             => call.src + (a - call.dst) \in Address
      <4>1. MemSize \in Nat /\ ecx \in Nat /\ call.dst \in Nat /\ call.src \in Nat /\ call.n \in Nat
        BY <1>2, CallFacts
      <4> QED
        BY <1>3, <1>4, <4>1 DEF Address
    <3> QED
      BY <1>2, <1>5, <3>1 DEF CopiedFrom
  <2> QED
    BY <1>1, <1>2, <1>3, <2>1 DEF IInv, TypeOK
<1> QED
  BY <1>1, <1>6, <1>7 DEF IInv, CallInv, UpwardInv, FillInv, StringInv, CompareInv

(* One more byte filled. *)
LEMMA StosbStep == IInv /\ stosb => IInv'
<1> SUFFICES ASSUME IInv, stosb PROVE IInv'
  OBVIOUS
<1> DEFINE h == call.n - ecx
<1>1. /\ pc = "stosb" /\ pc' = "stosb" /\ ecx > 0 /\ ecx' = ecx - 1 /\ df = 0
      /\ edi' = edi + 1 /\ memory' = [memory EXCEPT ![edi] = call.c]
      /\ UNCHANGED <<value, call, df, calls, before, esi>>
  BY DEF stosb, Moved, IInv, TypeOK
<1>2. /\ call.dst \in Nat /\ call.n \in Nat /\ call.c \in Byte /\ before \in [Address -> Byte]
      /\ ecx \in Nat /\ MemSize \in Nat
  BY CallFacts DEF IInv, TypeOK
<1>3. /\ call.function = "memset" /\ ecx \in 0..call.n /\ edi = call.dst + h
      /\ memory = Filled(before, call.dst, h, call.c)
  BY <1>1 DEF IInv, FillInv
<1>4. /\ ecx - 1 \in 0..call.n /\ h \in Nat /\ h + 1 \in Nat /\ call.n - (ecx - 1) = h + 1
      /\ call.dst + h < MemSize
  BY <1>1, <1>2, <1>3, CallFacts
<1> HIDE DEF h
<1>5. memory' = Filled(before, call.dst, h + 1, call.c)
  <2> DEFINE dst == call.dst  c == call.c
  <2>1. dst \in Nat /\ c \in Byte /\ dst + h < MemSize
    BY <1>2, <1>4
  <2>2. [Filled(before, dst, h, c) EXCEPT ![dst + h] = c] = Filled(before, dst, h + 1, c)
    <3> HIDE DEF dst, c
    <3> QED
      BY <1>2, <1>4, <2>1, FillMore
  <2> QED
    BY <1>1, <1>3, <2>2
<1>6. FillInv'
  BY <1>1, <1>2, <1>3, <1>4, <1>5 DEF FillInv
<1>7. memory' \in [Address -> Byte]
  BY <1>2, <1>4, <1>5, FilledType
<1>8. TypeOK'
  BY <1>1, <1>2, <1>3, <1>4, <1>7 DEF IInv, TypeOK
<1> QED
  BY <1>1, <1>6, <1>8 DEF IInv, CallInv, UpwardInv, DownwardInv, StringInv, CompareInv

(* A byte of a string is copied, and it is the string's own: the end of the
   source was not overwritten before it was read. *)
LEMMA LodsbFacts ==
    ASSUME IInv, lodsb
    PROVE  LET done == esi - call.src IN
           /\ call.function = "strcpy" /\ call.src \in Nat /\ call.dst \in Nat
           /\ done \in Nat /\ call.src + done \in Address
           /\ esi = call.src + done /\ edi = call.dst + done
           /\ esi' = call.src + (done + 1) /\ edi' = call.dst + (done + 1)
           /\ \A j \in 0..(done - 1) : before[call.src + j] # 0
           /\ memory[esi] = before[call.src + done]
           /\ memory' = Copied(before, call.dst, call.src, done + 1)
           /\ memory' \in [Address -> Byte]
<1> DEFINE done == esi - call.src  dst == call.dst  src == call.src
<1>1. /\ pc = "lodsb" /\ esi' = esi + 1 /\ edi' = edi + 1
      /\ memory' = Copied(memory, edi, esi, 1)
  BY DEF lodsb, Moved, IInv, TypeOK
<1>2. /\ dst \in Nat /\ src \in Nat /\ before \in [Address -> Byte] /\ MemSize \in Nat
      /\ esi \in Int
  BY CallFacts DEF IInv, TypeOK
<1>3. /\ call.function = "strcpy" /\ done \in Nat /\ edi = dst + done /\ esi = src + done
      /\ \A j \in 0..(done - 1) : before[src + j] # 0
      /\ memory = Copied(before, dst, src, done)
  BY <1>1, <1>2 DEF IInv, StringInv
<1> HIDE DEF done, dst, src
<1>4. PICK h \in Address : EndsAt(before, src, h) /\ dst + h < MemSize /\ Apart(dst, src, h + 1)
  BY <1>1, <1>3 DEF IInv, CallInv, Legal, dst, src
<1>5. h \in Nat /\ src + h \in Address /\ before[src + h] = 0
  BY <1>2, <1>4 DEF EndsAt, Address
<1>6. done + 1 <= h + 1
  BY <1>3, <1>5
<1>7. h + 1 \in Nat /\ dst + (h + 1) <= MemSize /\ src + (h + 1) <= MemSize
  BY <1>2, <1>4, <1>5 DEF Address
<1>8. src + done \in Address
  BY <1>2, <1>3, <1>6, <1>7 DEF Address
<1>9. memory[src + done] = before[src + done]
  <2>1. src + done \notin dst..(dst + done - 1)
    BY <1>2, <1>3, <1>4, <1>5, <1>6 DEF Apart
  <2> QED
    BY <1>3, <1>8, <2>1 DEF Copied
<1>10. Copied(Copied(before, dst, src, done), dst + done, src + done, 1)
         = Copied(before, dst, src, done + 1)
  <2> DEFINE n == h + 1
  <2>1. /\ n \in Nat /\ dst + n <= MemSize /\ src + n <= MemSize /\ done + 1 <= n
        /\ Apart(dst, src, n)
    BY <1>4, <1>6, <1>7
  <2> HIDE DEF n
  <2> QED
    BY <1>2, <1>3, <2>1, CopyMore
<1>11. Copied(before, dst, src, done + 1) \in [Address -> Byte]
  <2>1. done + 1 \in Nat /\ src + (done + 1) <= MemSize
    BY <1>2, <1>3, <1>6, <1>7
  <2> QED
    BY <1>2, <2>1, CopiedType
<1>12. esi' = src + (done + 1) /\ edi' = dst + (done + 1)
  BY <1>1, <1>2, <1>3
<1> QED
  BY <1>1, <1>2, <1>3, <1>8, <1>9, <1>10, <1>11, <1>12 DEF done, dst, src

(* One more byte of a string, the last one or another. *)
LEMMA LodsbStep == IInv /\ lodsb => IInv'
<1> SUFFICES ASSUME IInv, lodsb PROVE IInv'
  OBVIOUS
<1> DEFINE done == esi - call.src
<1>1. /\ pc' = (IF memory[esi] = 0 THEN "caller" ELSE "lodsb")
      /\ pc = "lodsb" /\ df = 0 /\ UNCHANGED <<value, call, ecx, df, calls, before>>
  BY DEF lodsb, IInv, TypeOK
<1>2. TypeOK'
  BY <1>1, LodsbFacts DEF IInv, TypeOK
<1>3. StringInv'
  <2> SUFFICES ASSUME pc' = "lodsb" PROVE StringInv'
    BY DEF StringInv
  <2>1. /\ call.function = "strcpy" /\ call.src \in Nat /\ done \in Nat
        /\ esi' = call.src + (done + 1) /\ edi' = call.dst + (done + 1)
        /\ \A j \in 0..(done - 1) : before[call.src + j] # 0
        /\ memory[esi] = before[call.src + done]
        /\ memory' = Copied(before, call.dst, call.src, done + 1)
    BY LodsbFacts
  <2>2. before[call.src + done] # 0
    BY <1>1, <2>1
  <2> HIDE DEF done
  <2>3. esi' - call'.src = done + 1 /\ done + 1 \in Nat
    BY <1>1, <2>1
  <2>4. \A j \in 0..((done + 1) - 1) : before[call.src + j] # 0
    <3>1. \A j \in 0..((done + 1) - 1) : j \in 0..(done - 1) \/ j = done
      BY <2>1
    <3> QED
      BY <2>1, <2>2, <3>1
  <2> QED
    BY <1>1, <2>1, <2>3, <2>4 DEF StringInv
<1> QED
  BY <1>1, <1>2, <1>3 DEF IInv, CallInv, UpwardInv, DownwardInv, FillInv, CompareInv

(* There is one first difference, which decides; or none before the end. *)
LEMMA SignDecided ==
    ASSUME NEW m \in [Address -> Byte], NEW s \in Nat, NEW t \in Nat, NEW h \in Address,
           s + h \in Address, t + h \in Address,
           \A j \in 0..(h - 1) : m[s + j] = m[t + j] /\ m[s + j] # 0
    PROVE  /\ m[s + h] # m[t + h] => Sign(m, s, t) = (IF m[s + h] < m[t + h] THEN -1 ELSE 1)
           /\ m[s + h] = m[t + h] /\ m[s + h] = 0 => Sign(m, s, t) = 0
<1>1. MemSize \in Nat /\ h \in Nat /\ \A a \in Address : a \in Nat
  BY StringAssumption DEF Address
<1>2. ASSUME NEW l \in Address, Differ(m, s, t, l)
      PROVE  /\ l >= h
             /\ l > h => m[s + h] = m[t + h] /\ m[s + h] # 0
  <2>1. ~(l < h)
    BY <1>1, <1>2 DEF Differ
  <2>2. ASSUME l > h PROVE m[s + h] = m[t + h] /\ m[s + h] # 0
    <3>1. h \in 0..(l - 1)
      BY <1>1, <2>2
    <3> QED
      BY <1>2, <3>1 DEF Differ
  <2> QED
    BY <1>1, <2>1, <2>2
<1>3. ASSUME m[s + h] # m[t + h]
      PROVE  Sign(m, s, t) = (IF m[s + h] < m[t + h] THEN -1 ELSE 1)
  <2>1. Differ(m, s, t, h)
    BY <1>3 DEF Differ
  <2>2. \A l \in Address : Differ(m, s, t, l) => l = h
    BY <1>1, <1>2, <1>3
  <2>3. (CHOOSE l \in Address : Differ(m, s, t, l)) = h
    BY <2>1, <2>2
  <2> QED
    BY <2>1, <2>3 DEF Sign
<1>4. ASSUME m[s + h] = m[t + h], m[s + h] = 0
      PROVE  Sign(m, s, t) = 0
  <2>1. \A l \in Address : ~Differ(m, s, t, l)
    <3>1. ~Differ(m, s, t, h)
      BY <1>4 DEF Differ
    <3> QED
      BY <1>1, <1>2, <1>4, <3>1
  <2> QED
    BY <2>1 DEF Sign
<1> QED
  BY <1>3, <1>4

(* Two bytes are compared: what is returned when the comparison ends is right. *)
LEMMA ScasbFacts ==
    ASSUME IInv, scasb
    PROVE  LET done == esi - call.dst IN
           /\ call.function = "strcmp" /\ call.src \in Nat /\ call.dst \in Nat
           /\ done \in Nat /\ memory = before /\ memory' = before
           /\ esi = call.dst + done /\ edi = call.src + done
           /\ esi' = call.dst + (done + 1) /\ edi' = call.src + (done + 1)
           /\ \A j \in 0..(done - 1) :
                  before[call.dst + j] = before[call.src + j] /\ before[call.dst + j] # 0
           /\ pc' = "caller" => value' = Sign(before, call.dst, call.src)
           /\ value' \in Int
           /\ pc' # "caller" => /\ pc' = "scasb" /\ value' = value
                               /\ before[call.dst + done] = before[call.src + done]
                               /\ before[call.dst + done] # 0
<1> DEFINE done == esi - call.dst  s == call.dst  t == call.src
<1>1. /\ pc = "scasb" /\ esi' = esi + 1 /\ edi' = edi + 1
      /\ UNCHANGED <<memory, before>> /\ value \in Int
  BY DEF scasb, Moved, IInv, TypeOK
<1>2. /\ s \in Nat /\ t \in Nat /\ before \in [Address -> Byte] /\ MemSize \in Nat
      /\ esi \in Int
  BY CallFacts DEF IInv, TypeOK
<1>3. /\ call.function = "strcmp" /\ done \in Nat /\ edi = t + done /\ esi = s + done
      /\ \A j \in 0..(done - 1) : before[s + j] = before[t + j] /\ before[s + j] # 0
      /\ memory = before
  BY <1>1, <1>2 DEF IInv, CompareInv
<1>4. /\ pc' = IF before[esi] = before[edi] /\ before[esi] # 0 THEN "scasb" ELSE "caller"
      /\ value' = IF before[esi] < before[edi] THEN -1 ELSE
                  IF before[esi] > before[edi] THEN 1 ELSE
                  IF before[esi] = 0 THEN 0 ELSE value
  BY <1>3 DEF scasb
<1> HIDE DEF done, s, t
<1>5. IsString(before, s) /\ IsString(before, t)
  BY <1>1, <1>3 DEF IInv, CallInv, Legal, s, t
<1>6. PICK h \in Address : EndsAt(before, s, h)
  BY <1>5 DEF IsString
<1>7. PICK l \in Address : EndsAt(before, t, l)
  BY <1>5 DEF IsString
<1>8. h \in Nat /\ s + h \in Address /\ before[s + h] = 0
  BY <1>2, <1>6 DEF EndsAt, Address
<1>9. l \in Nat /\ t + l \in Address /\ before[t + l] = 0
  BY <1>2, <1>7 DEF EndsAt, Address
<1>10. done <= h /\ done <= l
  <2>1. h \notin 0..(done - 1)
    BY <1>3, <1>8
  <2>2. l \notin 0..(done - 1)
    BY <1>3, <1>9
  <2> QED
    BY <1>3, <1>8, <1>9, <2>1, <2>2
<1>11. done \in Address /\ s + done \in Address /\ t + done \in Address
  BY <1>2, <1>3, <1>8, <1>9, <1>10 DEF Address
<1>12. before[s + done] \in Int /\ before[t + done] \in Int
  BY <1>2, <1>11 DEF Byte
<1>13. /\ before[s + done] # before[t + done]
            => Sign(before, s, t) = (IF before[s + done] < before[t + done] THEN -1 ELSE 1)
       /\ before[s + done] = before[t + done] /\ before[s + done] = 0 => Sign(before, s, t) = 0
  BY <1>2, <1>3, <1>11, SignDecided
<1>14. pc' = "caller" => value' = Sign(before, s, t)
  BY <1>3, <1>4, <1>12, <1>13
<1>15. value' \in Int
  BY <1>1, <1>4
<1>16. pc' # "caller" => /\ pc' = "scasb" /\ value' = value
                         /\ before[s + done] = before[t + done] /\ before[s + done] # 0
  BY <1>3, <1>4, <1>12
<1>17. esi' = s + (done + 1) /\ edi' = t + (done + 1)
  BY <1>1, <1>2, <1>3
<1> QED
  BY <1>1, <1>2, <1>3, <1>14, <1>15, <1>16, <1>17 DEF done, s, t

(* Two bytes more are compared. *)
LEMMA ScasbStep == IInv /\ scasb => IInv'
<1> SUFFICES ASSUME IInv, scasb PROVE IInv'
  OBVIOUS
<1> DEFINE done == esi - call.dst
<1>1. /\ pc' \in {"scasb", "caller"} /\ pc = "scasb" /\ df = 0
      /\ UNCHANGED <<memory, call, ecx, df, calls, before>>
  BY DEF scasb, IInv, TypeOK
<1>2. TypeOK'
  BY <1>1, ScasbFacts DEF IInv, TypeOK
<1>3. CompareInv'
  <2> SUFFICES ASSUME pc' = "scasb" PROVE CompareInv'
    BY DEF CompareInv
  <2>1. /\ call.function = "strcmp" /\ call.src \in Nat /\ call.dst \in Nat
        /\ done \in Nat /\ memory' = before
        /\ esi' = call.dst + (done + 1) /\ edi' = call.src + (done + 1)
        /\ \A j \in 0..(done - 1) :
                  before[call.dst + j] = before[call.src + j] /\ before[call.dst + j] # 0
        /\ before[call.dst + done] = before[call.src + done] /\ before[call.dst + done] # 0
    BY ScasbFacts
  <2> HIDE DEF done
  <2>2. esi' - call'.dst = done + 1 /\ done + 1 \in Nat
    BY <1>1, <2>1
  <2>3. \A j \in 0..((done + 1) - 1) :
            before[call.dst + j] = before[call.src + j] /\ before[call.dst + j] # 0
    <3>1. \A j \in 0..((done + 1) - 1) : j \in 0..(done - 1) \/ j = done
      BY <2>1
    <3> QED
      BY <2>1, <3>1
  <2> QED
    BY <1>1, <2>1, <2>2, <2>3 DEF CompareInv
<1> QED
  BY <1>1, <1>2, <1>3 DEF IInv, CallInv, UpwardInv, DownwardInv, FillInv, StringInv

(* A call is made. *)
LEMMA CallStep ==
    ASSUME IInv, NEW c \in Calls,
           __memmove(c) \/ __memcpy(c) \/ __memset(c) \/ __strcpy(c) \/ __strcmp(c)
    PROVE  IInv'
<1>1. CASE __memmove(c) /\ c.dst < c.src
  <2>1. Enter(c, "memmove") /\ Words(c)
    BY <1>1 DEF __memmove
  <2> QED
    BY <1>1, <2>1, WordsStart
<1>2. CASE __memmove(c) /\ ~(c.dst < c.src)
  BY <1>2, DownwardStart
<1>3. CASE __memcpy(c)
  <2>1. Enter(c, "memcpy") /\ Words(c)
    BY <1>3 DEF __memcpy
  <2>2. Apart(c.dst, c.src, c.n)
    BY <2>1 DEF Enter, Legal
  <2> QED
    BY <2>1, <2>2, WordsStart
<1>4. CASE __memset(c)
  BY <1>4, FillStart
<1>5. CASE __strcpy(c)
  BY <1>5, StringStart
<1>6. CASE __strcmp(c)
  BY <1>6, CompareStart
<1> QED
  BY <1>1, <1>2, <1>3, <1>4, <1>5, <1>6

(* A call returns from a repeated instruction. *)
LEMMA EndStep == IInv /\ (movsb_ends \/ cld \/ stosb_ends) => IInv'
<1> SUFFICES ASSUME IInv, movsb_ends \/ cld \/ stosb_ends PROVE IInv'
  OBVIOUS
<1>1. /\ pc' = "caller" /\ df' = 0
      /\ UNCHANGED <<memory, value, call, ecx, esi, edi, calls, before>>
  BY DEF IInv, TypeOK, movsb_ends, cld, stosb_ends, machine
<1>2. TypeOK'
  BY <1>1 DEF IInv, TypeOK
<1> QED
  BY <1>1, <1>2 DEF IInv, CallInv, UpwardInv, DownwardInv, FillInv, StringInv, CompareInv

(* The invariant is inductive. *)
LEMMA StepIInv == IInv /\ [OpsNext]_opsVars => IInv'
<1> SUFFICES ASSUME IInv, [OpsNext]_opsVars PROVE IInv'
  OBVIOUS
<1>1. CASE \E c \in Calls : __memmove(c) \/ __memcpy(c) \/ __memset(c) \/ __strcpy(c) \/ __strcmp(c)
  BY <1>1, CallStep
<1>2. CASE movsl
  BY <1>2, MovslStep
<1>3. CASE rest
  BY <1>3, RestStep
<1>4. CASE movsb
  <2>1. pc = "movsb" \/ pc = "std"
    BY <1>4 DEF movsb
  <2> QED
    BY <1>4, <2>1, UpwardByteStep, DownwardByteStep
<1>5. CASE movsb_ends \/ cld \/ stosb_ends
  BY <1>5, EndStep
<1>6. CASE stosb
  BY <1>6, StosbStep
<1>7. CASE lodsb
  BY <1>7, LodsbStep
<1>8. CASE scasb
  BY <1>8, ScasbStep
<1>9. CASE UNCHANGED opsVars
  BY <1>9 DEF opsVars, machine, IInv, TypeOK, CallInv, UpwardInv, Remaining, DownwardInv, FillInv,
              StringInv, CompareInv
<1> QED
  BY <1>1, <1>2, <1>3, <1>4, <1>5, <1>6, <1>7, <1>8, <1>9 DEF OpsNext, Runs

(* Whatever is called, the types hold; the direction flag is clear whenever the
   caller runs, and no repetition starts with it set but memmove's own. *)
THEOREM StringsTyped == OpsSpec => []TypeOK
<1>1. IInv => TypeOK
  BY DEF IInv
<1> QED
  BY <1>1, InitIInv, StepIInv, PTL DEF OpsSpec

(* The promise's operators mean the same of the state it is seen in. *)
LEMMA SameOperators ==
    ASSUME NEW m, NEW dst, NEW src, NEW n, NEW c
    PROVE  /\ Promise!Copied(m, dst, src, n) = Copied(m, dst, src, n)
           /\ Promise!Filled(m, dst, n, c) = Filled(m, dst, n, c)
           /\ Promise!EndsAt(m, src, n) <=> EndsAt(m, src, n)
           /\ Promise!Sign(m, dst, src) = Sign(m, dst, src)
           /\ Promise!Legal(m, c) <=> Legal(m, c)
<1>1. Promise!Copied(m, dst, src, n) = Copied(m, dst, src, n)
  BY Zenon DEF Promise!Copied, Promise!Address, Copied, Address
<1>2. Promise!Filled(m, dst, n, c) = Filled(m, dst, n, c)
  BY Zenon DEF Promise!Filled, Promise!Address, Filled, Address
<1>3. \A x, y, z : Promise!EndsAt(x, y, z) <=> EndsAt(x, y, z)
  BY Zenon DEF Promise!EndsAt, Promise!Address, EndsAt, Address
<1>4. Promise!Sign(m, dst, src) = Sign(m, dst, src)
  BY Zenon DEF Promise!Sign, Promise!Differ, Promise!Address, Sign, Differ, Address
<1>5. Promise!Legal(m, c) <=> Legal(m, c)
  <2>1. \A x, y : Promise!IsString(x, y) <=> IsString(x, y)
    BY <1>3, Zenon DEF Promise!IsString, Promise!Address, IsString, Address
  <2>2. \A x, y, z : Promise!Apart(x, y, z) <=> Apart(x, y, z)
    BY Zenon DEF Promise!Apart, Apart
  <2>3. \A x, y, z : Promise!Readable(x, y, z) <=> Readable(x, y, z)
    BY <2>1, Zenon DEF Promise!Readable, Readable
  <2>4. (\E x \in Promise!Address : Promise!EndsAt(m, c.src, x) /\ c.dst + x < MemSize /\ Promise!Apart(c.dst, c.src, x + 1))
        <=> (\E x \in Address : EndsAt(m, c.src, x) /\ c.dst + x < MemSize /\ Apart(c.dst, c.src, x + 1))
    BY <1>3, <2>2, Zenon DEF Promise!Address, Address
  <2> QED
    BY <2>1, <2>2, <2>3, <2>4 DEF Promise!Legal, Legal
<1> QED
  BY <1>1, <1>2, <1>3, <1>4, <1>5

(* The memory that the promise sees: as it was when the call began. *)
Seen == IF pc = "caller" THEN memory ELSE before

(* Entering a function is the promise's step too. *)
LEMMA EnterPromise ==
    ASSUME NEW c \in Calls, NEW function, Enter(c, function), pc' # "caller"
    PROVE  Promise!Next
<1>1. /\ pc = "caller" /\ Legal(memory, c) /\ call' = c /\ before' = memory
      /\ UNCHANGED <<memory, value>>
  BY DEF Enter
<1>2. Seen = memory /\ Seen' = memory /\ Promise!Legal(Seen, c)
  BY <1>1, SameOperators DEF Seen
<1>3. Promise!Called(c)
  BY <1>1, <1>2 DEF Promise!Called, Seen
<1> QED
  BY <1>3 DEF Promise!Next

(* An upward copy returns. *)
LEMMA MovsbEndsPromise == IInv /\ movsb_ends => Promise!Next
<1> SUFFICES ASSUME IInv, movsb_ends PROVE Promise!Next
  OBVIOUS
<1>1. /\ pc = "movsb" /\ ecx = 0 /\ pc' = "caller"
      /\ UNCHANGED <<memory, value, call, before>>
  BY DEF movsb_ends
<1>2. /\ call.function \in {"memmove", "memcpy"}
      /\ memory = Copied(before, call.dst, call.src, call.n)
  <2>1. call.n - Remaining = call.n
    BY <1>1, CallFacts DEF Remaining
  <2> QED
    BY <1>1, <2>1 DEF IInv, UpwardInv
<1>3. Seen' = Promise!Copied(Seen, call.dst, call.src, call.n)
  BY <1>1, <1>2, SameOperators DEF Seen
<1>4. Promise!Returns
  BY <1>1, <1>2, <1>3 DEF Promise!Returns, Promise!Move, Seen
<1> QED
  BY <1>1, <1>4 DEF Promise!Next

(* A downward copy returns. *)
LEMMA CldPromise == IInv /\ cld => Promise!Next
<1> SUFFICES ASSUME IInv, cld PROVE Promise!Next
  OBVIOUS
<1>1. /\ pc = "std" /\ ecx = 0 /\ pc' = "caller"
      /\ UNCHANGED <<memory, value, call, before>>
  BY DEF cld
<1>2. /\ call.function = "memmove"
      /\ memory = CopiedFrom(before, call.dst, call.src, call.n, 0)
  BY <1>1 DEF IInv, DownwardInv
<1>3. CopiedFrom(before, call.dst, call.src, call.n, 0) = Copied(before, call.dst, call.src, call.n)
  <2>1. call.dst + 0 = call.dst
    BY CallFacts
  <2> QED
    BY <2>1, Zenon DEF CopiedFrom, Copied
<1>4. Seen' = Promise!Copied(Seen, call.dst, call.src, call.n)
  BY <1>1, <1>2, <1>3, SameOperators DEF Seen
<1>5. Promise!Returns
  BY <1>1, <1>2, <1>4 DEF Promise!Returns, Promise!Move, Seen
<1> QED
  BY <1>1, <1>5 DEF Promise!Next

(* A filling returns. *)
LEMMA StosbEndsPromise == IInv /\ stosb_ends => Promise!Next
<1> SUFFICES ASSUME IInv, stosb_ends PROVE Promise!Next
  OBVIOUS
<1>1. /\ pc = "stosb" /\ ecx = 0 /\ pc' = "caller"
      /\ UNCHANGED <<memory, value, call, before>>
  BY DEF stosb_ends
<1>2. call.function = "memset" /\ memory = Filled(before, call.dst, call.n, call.c)
  <2>1. call.n - ecx = call.n
    BY <1>1, CallFacts
  <2> QED
    BY <1>1, <2>1 DEF IInv, FillInv
<1>3. Seen' = Promise!Filled(Seen, call.dst, call.n, call.c)
  BY <1>1, <1>2, SameOperators DEF Seen
<1>4. Promise!Returns
  BY <1>1, <1>2, <1>3 DEF Promise!Returns, Promise!Set, Seen
<1> QED
  BY <1>1, <1>4 DEF Promise!Next

(* The byte that ends a string is copied; until then nothing is seen. *)
LEMMA LodsbPromise == IInv /\ lodsb => [Promise!Next]_(Promise!stringVars)
<1> SUFFICES ASSUME IInv, lodsb PROVE [Promise!Next]_(Promise!stringVars)
  OBVIOUS
<1> DEFINE done == esi - call.src
<1>1. /\ pc = "lodsb" /\ pc' = (IF memory[esi] = 0 THEN "caller" ELSE "lodsb")
      /\ UNCHANGED <<value, call, before>>
  BY DEF lodsb
<1>2. CASE memory[esi] # 0
  BY <1>1, <1>2 DEF Promise!stringVars
<1>3. CASE memory[esi] = 0
  <2>1. /\ call.function = "strcpy" /\ call.src \in Nat
        /\ done \in Nat /\ call.src + done \in Address
        /\ \A j \in 0..(done - 1) : before[call.src + j] # 0
        /\ memory[esi] = before[call.src + done]
        /\ memory' = Copied(before, call.dst, call.src, done + 1)
    BY LodsbFacts
  <2> HIDE DEF done
  <2>2. EndsAt(before, call.src, done)
    BY <1>3, <2>1 DEF EndsAt
  <2>3. done \in Promise!Address
    BY <2>1, StringAssumption DEF Address, Promise!Address
  <2>4. Seen' = Promise!Copied(Seen, call.dst, call.src, done + 1) /\ Promise!EndsAt(Seen, call.src, done)
    BY <1>1, <1>3, <2>1, <2>2, SameOperators DEF Seen
  <2>5. Promise!CopyString(call.dst, call.src)
    BY <1>1, <2>3, <2>4 DEF Promise!CopyString, Promise!Move, Seen
  <2>6. Promise!Returns
    BY <1>1, <1>3, <2>1, <2>5 DEF Promise!Returns, lodsb
  <2> QED
    BY <1>1, <2>6 DEF Promise!Next
<1> QED
  BY <1>2, <1>3

(* The comparison ends; until then nothing is seen. *)
LEMMA ScasbPromise == IInv /\ scasb => [Promise!Next]_(Promise!stringVars)
<1> SUFFICES ASSUME IInv, scasb PROVE [Promise!Next]_(Promise!stringVars)
  OBVIOUS
<1>1. pc = "scasb" /\ UNCHANGED <<memory, call, before>>
  BY DEF scasb
<1>2. /\ call.function = "strcmp" /\ memory = before
      /\ pc' = "caller" => value' = Sign(before, call.dst, call.src)
      /\ pc' # "caller" => value' = value
  BY ScasbFacts
<1>3. CASE pc' # "caller"
  BY <1>1, <1>2, <1>3 DEF Promise!stringVars
<1>4. CASE pc' = "caller"
  <2>1. value' = Promise!Sign(Seen, call.dst, call.src) /\ Seen' = Seen
    BY <1>1, <1>2, <1>4, SameOperators DEF Seen
  <2>2. Promise!Returns
    BY <1>1, <1>2, <1>4, <2>1 DEF Promise!Returns, Promise!Compare, Seen
  <2> QED
    BY <1>1, <2>2 DEF Promise!Next
<1> QED
  BY <1>3, <1>4

(* Every instruction is unseen, or is a step of the promise. *)
LEMMA StepPromise == IInv /\ [OpsNext]_opsVars => [Promise!Next]_(Promise!stringVars)
<1> SUFFICES ASSUME IInv, [OpsNext]_opsVars PROVE [Promise!Next]_(Promise!stringVars)
  OBVIOUS
<1>1. CASE \E c \in Calls : __memmove(c) \/ __memcpy(c) \/ __memset(c) \/ __strcpy(c) \/ __strcmp(c)
  <2>1. PICK c \in Calls : __memmove(c) \/ __memcpy(c) \/ __memset(c) \/ __strcpy(c) \/ __strcmp(c)
    BY <1>1
  <2>2. PICK function : Enter(c, function)
    BY <2>1 DEF __memmove, __memcpy, __memset, __strcpy, __strcmp
  <2>3. pc' # "caller"
    BY <2>1 DEF __memmove, __memcpy, __memset, __strcpy, __strcmp, Words
  <2> QED
    BY <2>2, <2>3, EnterPromise
<1>2. CASE movsl \/ rest \/ movsb \/ stosb
  <2>1. pc # "caller" /\ pc' # "caller" /\ UNCHANGED <<before, value, call>>
    BY <1>2 DEF movsl, rest, movsb, stosb, Transfer
  <2> QED
    BY <2>1 DEF Promise!stringVars
<1>3. CASE movsb_ends
  BY <1>3, MovsbEndsPromise
<1>4. CASE cld
  BY <1>4, CldPromise
<1>5. CASE stosb_ends
  BY <1>5, StosbEndsPromise
<1>6. CASE lodsb
  BY <1>6, LodsbPromise
<1>7. CASE scasb
  BY <1>7, ScasbPromise
<1>8. CASE UNCHANGED opsVars
  BY <1>8 DEF opsVars, Promise!stringVars
<1> QED
  BY <1>1, <1>2, <1>3, <1>4, <1>5, <1>6, <1>7, <1>8 DEF OpsNext, Runs

(* The assembly does what string.c promises, whatever memory holds, whatever is
   called, however often, and however the areas of a memmove overlap. *)
THEOREM StringsKeepPromise == OpsSpec => KeepsPromise
<1>1. OpsInit => Promise!Init
  BY DEF OpsInit, Init, Promise!Init, NoCall, Promise!NoCall
<1> QED
  BY <1>1, InitIInv, StepIInv, StepPromise, PTL DEF OpsSpec, KeepsPromise, Promise!Spec

-----------------------------------------------------------------------------
(* The loops in C. *)

LoopNames == {"strlen", "strnlen", "strncpy", "strncmp", "strchr", "strfind", "memcmp"}

(* The bytes that were counted are no Nul. *)
CountInv ==
    pc \in {"strlen", "strnlen"} =>
        /\ call.function = pc /\ memory = before
        /\ k \in Nat /\ p = call.dst + k
        /\ pc = "strnlen" => k <= call.n
        /\ \A j \in 0..(k - 1) : before[call.dst + j] # 0

(* The bytes that were passed are not looked for. *)
SearchInv ==
    pc \in {"strchr", "strfind"} =>
        /\ call.function = pc /\ memory = before
        /\ p \in Int /\ p - call.dst \in Nat
        /\ \A j \in 0..(p - call.dst - 1) : before[call.dst + j] \notin {0, call.c}

(* The bytes that were compared agree. *)
MatchInv ==
    pc \in {"strncmp", "memcmp"} =>
        LET done == call.n - k IN
        /\ call.function = pc /\ memory = before
        /\ k \in 0..call.n /\ p = call.dst + done /\ q = call.src + done
        /\ \A j \in 0..(done - 1) : /\ before[call.dst + j] = before[call.src + j]
                                    /\ pc = "strncmp" => before[call.dst + j] # 0

(* The destination's lower part is done; the source stays at its Nul. *)
PadInv ==
    pc = "strncpy" =>
        LET done == call.n - k IN
        /\ call.function = pc
        /\ k \in 0..call.n /\ p = call.dst + done
        /\ q \in call.src..(call.src + done)
        /\ \A j \in 0..(q - call.src - 1) : before[call.src + j] # 0
        /\ q # call.src + done => q \in Address /\ before[q] = 0
        /\ memory = CopiedPadded(before, call.dst, call.src, done)

LoopInv == CountInv /\ SearchInv /\ MatchInv /\ PadInv

(* As long as no byte was the Nul, a string goes on inside memory. *)
LEMMA StringReach ==
    ASSUME NEW m \in [Address -> Byte], NEW s \in Nat, NEW d \in Nat, IsString(m, s),
           \A j \in 0..(d - 1) : m[s + j] # 0
    PROVE  d \in Address /\ s + d \in Address
<1>1. MemSize \in Nat
  BY StringAssumption
<1>2. PICK e \in Address : EndsAt(m, s, e)
  BY DEF IsString
<1>3. e \in Nat /\ s + e \in Address /\ m[s + e] = 0
  BY <1>1, <1>2 DEF EndsAt, Address
<1>4. e \notin 0..(d - 1)
  BY <1>3
<1> QED
  BY <1>1, <1>3, <1>4 DEF Address

(* And so do the bytes that may be read. *)
LEMMA ReadableReach ==
    ASSUME NEW m \in [Address -> Byte], NEW s \in Nat, NEW n \in Nat, NEW d \in Nat,
           d < n, Readable(m, s, n), \A j \in 0..(d - 1) : m[s + j] # 0
    PROVE  s + d \in Address /\ d \in Address
<1>1. MemSize \in Nat
  BY StringAssumption
<1>2. CASE s + n <= MemSize
  BY <1>1, <1>2 DEF Address
<1>3. CASE IsString(m, s)
  BY <1>3, StringReach
<1> QED
  BY <1>2, <1>3 DEF Readable

(* What holds of a call under way in a loop. *)
LEMMA LoopFacts ==
    ASSUME IInv, pc \in LoopNames
    PROVE  /\ call.dst \in Nat /\ call.src \in Nat /\ call.n \in Nat /\ call.c \in Byte
           /\ before \in [Address -> Byte] /\ memory \in [Address -> Byte] /\ MemSize \in Nat
           /\ Legal(before, call) /\ call \in Calls /\ value \in Int
           /\ pc # "caller" /\ df = 0
<1>1. Legal(before, call) /\ call \in Calls
  BY DEF IInv, CallInv, LoopNames
<1>2. value \in Int /\ df = 0
  BY DEF IInv, TypeOK, LoopNames
<1> QED
  BY <1>1, <1>2, CallFacts DEF LoopNames

(* A turn of a loop leaves the invariant of the assembly alone, and nothing of
   it is seen. *)
LEMMA TurnStep ==
    ASSUME IInv, pc \in LoopNames, memory' \in [Address -> Byte],
           UNCHANGED <<value, call, pc, machine, calls, before>>
    PROVE  IInv' /\ [Promise!Next]_(Promise!stringVars)
<1>1. TypeOK'
  BY DEF IInv, TypeOK, machine, LoopNames
<1>2. CallInv'
  BY DEF IInv, CallInv
<1>3. UpwardInv' /\ DownwardInv' /\ FillInv' /\ StringInv' /\ CompareInv'
  BY DEF UpwardInv, DownwardInv, FillInv, StringInv, CompareInv, LoopNames
<1>4. UNCHANGED Promise!stringVars
  BY DEF Promise!stringVars, LoopNames
<1> QED
  BY <1>1, <1>2, <1>3, <1>4 DEF IInv

(* The promise's operators on what a function returns. *)
LEMMA SameAnswer ==
    ASSUME NEW m, NEW c, NEW v
    PROVE  Promise!Answer(m, c, v) <=> Answer(m, c, v)
<1>1. \A x, y, z : Promise!EndsAt(x, y, z) <=> EndsAt(x, y, z)
  BY Zenon DEF Promise!EndsAt, Promise!Address, EndsAt, Address
<1>2. \A x, y, z, n : Promise!SignWithin(x, y, z, n) = SignWithin(x, y, z, n)
  <2>1. \A x, y, z : Promise!Sign(x, y, z) = Sign(x, y, z)
    BY SameOperators
  <2> QED
    BY <2>1, Zenon DEF Promise!SignWithin, Promise!Differ, Promise!Address, SignWithin, Differ, Address
<1>3. \A x, y, z, b : Promise!First(x, y, z, b) <=> First(x, y, z, b)
  BY Zenon DEF Promise!First, Promise!Address, First, Address
<1>4. \A x, y, z, n : Promise!Greater(x, y, z, n) <=> Greater(x, y, z, n)
  BY Zenon DEF Promise!Greater, Greater
<1>5. \A x : x \in Promise!Address <=> x \in Address
  BY DEF Promise!Address, Address
<1> QED
  BY <1>1, <1>2, <1>3, <1>4, <1>5, Zenon DEF Promise!Answer, Answer

(* A loop that only reads returns. *)
LEMMA AnswerStep ==
    ASSUME IInv, pc \in LoopNames, memory = before, NEW v \in -1..MemSize, Answer(before, call, v),
           Return(v)
    PROVE  IInv' /\ LoopInv' /\ Promise!Next
<1>1. /\ pc' = "caller" /\ value' = v /\ UNCHANGED <<memory, call, machine, calls, before>>
  BY DEF Return
<1>2. v \in Int
  BY StringAssumption
<1>3. TypeOK'
  BY <1>1, <1>2 DEF IInv, TypeOK, machine, LoopNames
<1>4. IInv' /\ LoopInv'
  BY <1>1, <1>3 DEF IInv, CallInv, UpwardInv, DownwardInv, FillInv, StringInv, CompareInv,
                    LoopInv, CountInv, SearchInv, MatchInv, PadInv
<1>5. Seen = before /\ Seen' = before /\ pc # "caller"
  BY <1>1 DEF Seen, LoopNames
<1>6. Promise!Answer(before, call, v)
  BY SameAnswer
<1>7. Promise!Returns
  BY <1>1, <1>5, <1>6 DEF Promise!Returns, Seen
<1> QED
  BY <1>4, <1>7 DEF Promise!Next

(* strlen counts one byte more, or returns the length. *)
LEMMA StrlenStep == IInv /\ LoopInv /\ strlen => IInv' /\ LoopInv' /\ [Promise!Next]_(Promise!stringVars)
<1> SUFFICES ASSUME IInv, LoopInv, strlen PROVE IInv' /\ LoopInv' /\ [Promise!Next]_(Promise!stringVars)
  OBVIOUS
<1>1. pc = "strlen" /\ pc \in LoopNames
  BY DEF strlen, LoopNames
<1>2. /\ call.function = "strlen" /\ memory = before /\ k \in Nat /\ p = call.dst + k
      /\ \A j \in 0..(k - 1) : before[call.dst + j] # 0
  BY <1>1 DEF LoopInv, CountInv
<1>3. IsString(before, call.dst)
  BY <1>1, <1>2, LoopFacts DEF Legal
<1>4. k \in Address /\ p \in Address
  BY <1>1, <1>2, <1>3, LoopFacts, StringReach
<1>5. CASE memory[p] # 0
  <2>1. /\ k' = k + 1 /\ p' = p + 1
        /\ UNCHANGED <<memory, value, call, pc, machine, calls, before>>
    BY <1>1, <1>5 DEF strlen, Turn
  <2>2. IInv' /\ [Promise!Next]_(Promise!stringVars)
    BY <1>1, <2>1, LoopFacts, TurnStep
  <2>3. \A j \in 0..((k + 1) - 1) : before[call.dst + j] # 0
    BY <1>2, <1>5
  <2>4. CountInv'
    BY <1>1, <1>2, <2>1, <2>3, LoopFacts DEF CountInv
  <2> QED
    BY <1>1, <2>1, <2>2, <2>4 DEF LoopInv, SearchInv, MatchInv, PadInv
<1>6. CASE memory[p] = 0
  <2>1. Return(k)
    BY <1>1, <1>6 DEF strlen
  <2>2. Answer(before, call, k)
    BY <1>2, <1>4, <1>6 DEF Answer, EndsAt
  <2>3. k \in -1..MemSize
    BY <1>1, <1>4, LoopFacts DEF Address
  <2> QED
    BY <1>1, <1>2, <2>1, <2>2, <2>3, AnswerStep
<1> QED
  BY <1>5, <1>6

(* strnlen counts one byte more, but no more than it may, or returns. *)
LEMMA StrnlenStep == IInv /\ LoopInv /\ strnlen => IInv' /\ LoopInv' /\ [Promise!Next]_(Promise!stringVars)
<1> SUFFICES ASSUME IInv, LoopInv, strnlen PROVE IInv' /\ LoopInv' /\ [Promise!Next]_(Promise!stringVars)
  OBVIOUS
<1>1. pc = "strnlen" /\ pc \in LoopNames
  BY DEF strnlen, LoopNames
<1>2. /\ call.function = "strnlen" /\ memory = before /\ k \in Nat /\ p = call.dst + k /\ k <= call.n
      /\ \A j \in 0..(k - 1) : before[call.dst + j] # 0
  BY <1>1 DEF LoopInv, CountInv
<1>3. Readable(before, call.dst, call.n)
  BY <1>1, <1>2, LoopFacts DEF Legal
<1>4. CASE k < call.n /\ memory[p] # 0
  <2>1. /\ k' = k + 1 /\ p' = p + 1
        /\ UNCHANGED <<memory, value, call, pc, machine, calls, before>>
    BY <1>1, <1>4 DEF strnlen, Turn
  <2>2. IInv' /\ [Promise!Next]_(Promise!stringVars)
    BY <1>1, <2>1, LoopFacts, TurnStep
  <2>3. \A j \in 0..((k + 1) - 1) : before[call.dst + j] # 0
    BY <1>2, <1>4
  <2>4. CountInv'
    BY <1>1, <1>2, <1>4, <2>1, <2>3, LoopFacts DEF CountInv
  <2> QED
    BY <1>1, <2>1, <2>2, <2>4 DEF LoopInv, SearchInv, MatchInv, PadInv
<1>5. CASE ~(k < call.n /\ memory[p] # 0)
  <2>1. Return(k)
    BY <1>1, <1>5 DEF strnlen
  <2>2. k = call.n \/ before[call.dst + k] = 0
    BY <1>1, <1>2, <1>5, LoopFacts
  <2>3. Answer(before, call, k)
    BY <1>2, <2>2 DEF Answer
  <2>4. k <= MemSize
    <3>1. CASE call.dst + call.n <= MemSize
      BY <1>1, <1>2, <3>1, LoopFacts
    <3>2. CASE IsString(before, call.dst)
      <4>1. k \in Address
        BY <1>1, <1>2, <3>2, LoopFacts, StringReach
      <4> QED
        BY <1>1, <4>1, LoopFacts DEF Address
    <3> QED
      BY <1>3, <3>1, <3>2 DEF Readable
  <2>5. k \in -1..MemSize
    BY <1>1, <1>2, <2>4, LoopFacts
  <2> QED
    BY <1>1, <1>2, <2>1, <2>3, <2>5, AnswerStep
<1> QED
  BY <1>4, <1>5

(* strchr and strfind pass one byte more, or find the one looked for or the end. *)
LEMMA SearchStep == IInv /\ LoopInv /\ (strchr \/ strfind) => IInv' /\ LoopInv' /\ [Promise!Next]_(Promise!stringVars)
<1> SUFFICES ASSUME IInv, LoopInv, strchr \/ strfind
             PROVE  IInv' /\ LoopInv' /\ [Promise!Next]_(Promise!stringVars)
  OBVIOUS
<1> DEFINE d == p - call.dst
<1>1. pc \in {"strchr", "strfind"} /\ pc \in LoopNames
  BY DEF strchr, strfind, LoopNames
<1>2. /\ call.function = pc /\ memory = before /\ p \in Int /\ d \in Nat
      /\ \A j \in 0..(d - 1) : before[call.dst + j] \notin {0, call.c}
  BY <1>1 DEF LoopInv, SearchInv
<1>3. p = call.dst + d
  BY <1>1, <1>2, LoopFacts
<1>4. IsString(before, call.dst)
  BY <1>1, <1>2, LoopFacts DEF Legal
<1>5. \A j \in 0..(d - 1) : before[call.dst + j] # 0
  BY <1>2
<1> HIDE DEF d
<1>6. d \in Address /\ p \in Address
  BY <1>1, <1>2, <1>3, <1>4, <1>5, LoopFacts, StringReach
<1>7. p \in Nat /\ p <= MemSize
  BY <1>1, <1>6, LoopFacts DEF Address
<1>8. CASE memory[p] \notin {0, call.c}
  <2>1. /\ p' = p + 1
        /\ UNCHANGED <<memory, value, call, pc, machine, calls, before>>
    BY <1>1, <1>8 DEF strchr, strfind, Turn
  <2>2. IInv' /\ [Promise!Next]_(Promise!stringVars)
    BY <1>1, <2>1, LoopFacts, TurnStep
  <2>3. \A j \in 0..((d + 1) - 1) : before[call.dst + j] \notin {0, call.c}
    BY <1>2, <1>3, <1>8
  <2>4. p' - call'.dst = d + 1
    BY <1>1, <1>2, <1>3, <2>1, LoopFacts
  <2>5. SearchInv'
    BY <1>1, <1>2, <1>7, <2>1, <2>3, <2>4 DEF SearchInv
  <2> QED
    BY <1>1, <2>1, <2>2, <2>5 DEF LoopInv, CountInv, MatchInv, PadInv
<1>9. CASE memory[p] \in {0, call.c}
  <2>1. First(before, call.dst, d, {0, call.c})
    BY <1>2, <1>3, <1>6, <1>9 DEF First
  <2>2. p - call.dst = d
    BY DEF d
  <2>3. CASE pc = "strfind"
    <3>1. Return(p)
      BY <1>1, <1>9, <2>3 DEF strchr, strfind
    <3>2. Answer(before, call, p)
      BY <1>2, <2>1, <2>2, <2>3 DEF Answer
    <3> QED
      BY <1>1, <1>2, <1>7, <3>1, <3>2, AnswerStep, LoopFacts
  <2>4. CASE pc = "strchr" /\ memory[p] = 0
    <3>1. Return(-1)
      BY <1>1, <1>9, <2>4 DEF strchr, strfind
    <3>2. \E x \in Address : First(before, call.dst, x, {0, call.c}) /\ before[call.dst + x] = 0
      BY <1>2, <1>3, <1>6, <2>1, <2>4
    <3>3. Answer(before, call, -1)
      BY <1>2, <2>4, <3>2 DEF Answer
    <3>4. -1 \in -1..MemSize
      BY <1>1, LoopFacts
    <3> QED
      BY <1>1, <1>2, <3>1, <3>3, <3>4, AnswerStep
  <2>5. CASE pc = "strchr" /\ memory[p] # 0
    <3>1. Return(p)
      BY <1>1, <1>9, <2>5 DEF strchr, strfind
    <3>2. p # -1
      BY <1>7
    <3>3. Answer(before, call, p)
      BY <1>2, <2>1, <2>2, <2>5, <3>2 DEF Answer
    <3> QED
      BY <1>1, <1>2, <1>7, <3>1, <3>3, AnswerStep, LoopFacts
  <2> QED
    BY <1>1, <2>3, <2>4, <2>5
<1> QED
  BY <1>8, <1>9

(* The sign within a bound, decided by the first difference or by an end. *)
LEMMA SignWithinDecided ==
    ASSUME NEW m \in [Address -> Byte], NEW s \in Nat, NEW t \in Nat, NEW n \in Nat, NEW d \in Nat, d <= n,
           \A j \in 0..(d - 1) : m[s + j] = m[t + j] /\ m[s + j] # 0,
           d < n => s + d \in Address /\ t + d \in Address /\ d \in Address
    PROVE  /\ d = n => SignWithin(m, s, t, n) = 0
           /\ d < n /\ m[s + d] = 0 /\ m[t + d] = 0 => SignWithin(m, s, t, n) = 0
           /\ d < n /\ m[s + d] # m[t + d]
                 => SignWithin(m, s, t, n) = (IF m[s + d] < m[t + d] THEN -1 ELSE 1)
<1>1. ASSUME d = n PROVE SignWithin(m, s, t, n) = 0
  <2>1. \A x \in 0..(n - 1) : m[s + x] = m[t + x]
    BY <1>1
  <2> QED
    BY <2>1 DEF SignWithin, Differ
<1>2. ASSUME d < n, m[s + d] = 0, m[t + d] = 0 PROVE SignWithin(m, s, t, n) = 0
  <2>1. s + d \in Address /\ t + d \in Address /\ d \in Address /\ m[s + d] = m[t + d]
    BY <1>2
  <2>2. Sign(m, s, t) = 0
    BY <1>2, <2>1, SignDecided
  <2> QED
    BY <2>2 DEF SignWithin
<1>3. ASSUME d < n, m[s + d] # m[t + d]
      PROVE  SignWithin(m, s, t, n) = (IF m[s + d] < m[t + d] THEN -1 ELSE 1)
  <2>1. Sign(m, s, t) = (IF m[s + d] < m[t + d] THEN -1 ELSE 1)
    BY <1>3, SignDecided
  <2>2. d \in 0..(n - 1) /\ Differ(m, s, t, d)
    BY <1>3 DEF Differ
  <2> QED
    BY <2>1, <2>2 DEF SignWithin
<1> QED
  BY <1>1, <1>2, <1>3

(* The two comparisons of memcmp, decided by the first difference. *)
LEMMA GreaterDecided ==
    ASSUME NEW m \in [Address -> Byte], NEW s \in Nat, NEW t \in Nat, NEW n \in Nat, NEW d \in Nat, d <= n,
           \A j \in 0..(d - 1) : m[s + j] = m[t + j],
           s + n <= MemSize, t + n <= MemSize, d < n => m[s + d] # m[t + d]
    PROVE  Greater(m, s, t, n) <=> d < n /\ m[s + d] > m[t + d]
<1>0. \A x \in 0..(n - 1) : m[s + x] \in Int /\ m[t + x] \in Int
  <2>1. \A x \in 0..(n - 1) : s + x \in Address /\ t + x \in Address
    BY StringAssumption DEF Address
  <2> QED
    BY <2>1 DEF Byte
<1>1. ASSUME NEW x \in 0..(n - 1), m[s + x] > m[t + x], \A j \in 0..(x - 1) : m[s + j] = m[t + j]
      PROVE  d < n /\ m[s + d] > m[t + d]
  <2>1. ~(x < d)
    <3> SUFFICES ASSUME x < d PROVE FALSE
      OBVIOUS
    <3>1. m[s + x] = m[t + x]
      OBVIOUS
    <3>2. m[s + x] \in Int /\ m[t + x] \in Int
      BY <1>0
    <3>3. \A y, z \in Int : y > z => y # z
      OBVIOUS
    <3> QED
      BY <1>1, <3>1, <3>2, <3>3
  <2>2. ~(d < x)
    BY <1>1
  <2>3. x = d
    BY <2>1, <2>2
  <2> QED
    BY <1>1, <2>3
<1>2. ASSUME d < n, m[s + d] > m[t + d] PROVE Greater(m, s, t, n)
  <2>1. d \in 0..(n - 1)
    BY <1>2
  <2> QED
    BY <1>2, <2>1 DEF Greater
<1> QED
  BY <1>1, <1>2 DEF Greater

(* What memcmp returns is right, at the first difference and without one. *)
LEMMA MemcmpAnswer ==
    ASSUME NEW c, c.function = "memcmp", NEW m \in [Address -> Byte],
           c.dst \in Nat, c.src \in Nat, c.n \in Nat, NEW d \in Nat, d <= c.n,
           c.dst + c.n <= MemSize, c.src + c.n <= MemSize,
           \A j \in 0..(d - 1) : m[c.dst + j] = m[c.src + j],
           d < c.n => m[c.dst + d] # m[c.src + d]
    PROVE  Answer(m, c, IF d = c.n THEN 0 ELSE Difference(m[c.dst + d], m[c.src + d]))
<1> DEFINE v == IF d = c.n THEN 0 ELSE Difference(m[c.dst + d], m[c.src + d])
<1>1. /\ Greater(m, c.dst, c.src, c.n) <=> d < c.n /\ m[c.dst + d] > m[c.src + d]
      /\ Greater(m, c.src, c.dst, c.n) <=> d < c.n /\ m[c.src + d] > m[c.dst + d]
  BY GreaterDecided
<1>2. d < c.n => m[c.dst + d] \in Int /\ m[c.src + d] \in Int
  <2>1. d < c.n => c.dst + d \in Address /\ c.src + d \in Address
    BY StringAssumption DEF Address
  <2> QED
    BY <2>1 DEF Byte
<1>3. v = IF Greater(m, c.dst, c.src, c.n) THEN 1 ELSE IF Greater(m, c.src, c.dst, c.n) THEN -1 ELSE 0
  BY <1>1, <1>2 DEF Difference
<1> HIDE DEF v
<1>4. Answer(m, c, v)
  BY <1>3 DEF Answer
<1> QED
  BY <1>4 DEF v

(* What strncmp returns is right. *)
LEMMA StrncmpAnswer ==
    ASSUME NEW c, c.function = "strncmp", NEW m \in [Address -> Byte],
           c.dst \in Nat, c.src \in Nat, c.n \in Nat, NEW d \in Nat, d <= c.n,
           \A j \in 0..(d - 1) : m[c.dst + j] = m[c.src + j] /\ m[c.dst + j] # 0,
           d < c.n => /\ c.dst + d \in Address /\ c.src + d \in Address /\ d \in Address
                      /\ m[c.dst + d] = 0 \/ m[c.dst + d] # m[c.src + d]
    PROVE  Answer(m, c, IF d = c.n THEN 0 ELSE Difference(m[c.dst + d], m[c.src + d]))
<1> DEFINE v == IF d = c.n THEN 0 ELSE Difference(m[c.dst + d], m[c.src + d])
<1>1. /\ d = c.n => SignWithin(m, c.dst, c.src, c.n) = 0
      /\ d < c.n /\ m[c.dst + d] = 0 /\ m[c.src + d] = 0 => SignWithin(m, c.dst, c.src, c.n) = 0
      /\ d < c.n /\ m[c.dst + d] # m[c.src + d]
            => SignWithin(m, c.dst, c.src, c.n) = (IF m[c.dst + d] < m[c.src + d] THEN -1 ELSE 1)
  BY SignWithinDecided
<1>2. d < c.n => m[c.dst + d] \in Int /\ m[c.src + d] \in Int
  BY DEF Byte
<1>3. v = SignWithin(m, c.dst, c.src, c.n)
  <2>1. CASE d = c.n
    BY <1>1, <2>1
  <2>2. CASE d < c.n /\ m[c.dst + d] = m[c.src + d]
    BY <1>1, <1>2, <2>2 DEF Difference
  <2>3. CASE d < c.n /\ m[c.dst + d] # m[c.src + d]
    BY <1>1, <1>2, <2>3 DEF Difference
  <2> QED
    BY <2>1, <2>2, <2>3
<1> HIDE DEF v
<1>4. Answer(m, c, v)
  BY <1>3 DEF Answer
<1> QED
  BY <1>4 DEF v

(* strncmp and memcmp compare one byte more, or return. *)
LEMMA MatchStep == IInv /\ LoopInv /\ (strncmp \/ memcmp) => IInv' /\ LoopInv' /\ [Promise!Next]_(Promise!stringVars)
<1> SUFFICES ASSUME IInv, LoopInv, strncmp \/ memcmp
             PROVE  IInv' /\ LoopInv' /\ [Promise!Next]_(Promise!stringVars)
  OBVIOUS
<1> DEFINE d == call.n - k
<1>1. pc \in {"strncmp", "memcmp"} /\ pc \in LoopNames
  BY DEF strncmp, memcmp, LoopNames
<1>2. /\ call.function = pc /\ memory = before /\ k \in 0..call.n
      /\ p = call.dst + d /\ q = call.src + d
      /\ \A j \in 0..(d - 1) : /\ before[call.dst + j] = before[call.src + j]
                               /\ pc = "strncmp" => before[call.dst + j] # 0
  BY <1>1 DEF LoopInv, MatchInv
<1>3. d \in Nat /\ d <= call.n /\ k = call.n - d /\ (d = call.n <=> k = 0)
  BY <1>1, <1>2, LoopFacts
<1> HIDE DEF d
<1>4. pc = "strncmp" => Readable(before, call.dst, call.n) /\ Readable(before, call.src, call.n)
  BY <1>1, <1>2, LoopFacts DEF Legal
<1>5. pc = "memcmp" => call.dst + call.n <= MemSize /\ call.src + call.n <= MemSize
  BY <1>1, <1>2, LoopFacts DEF Legal
<1>6. ASSUME pc = "strncmp", d < call.n
      PROVE  call.dst + d \in Address /\ call.src + d \in Address /\ d \in Address
  <2>1. /\ \A j \in 0..(d - 1) : before[call.dst + j] # 0
        /\ \A j \in 0..(d - 1) : before[call.src + j] # 0
    BY <1>2, <1>6
  <2> QED
    BY <1>1, <1>3, <1>4, <1>6, <2>1, LoopFacts, ReadableReach
<1>7. CASE k > 0 /\ memory[p] = memory[q] /\ (pc = "strncmp" => memory[p] # 0)
  <2>1. /\ k' = k - 1 /\ p' = p + 1 /\ q' = q + 1
        /\ UNCHANGED <<memory, value, call, pc, machine, calls, before>>
    BY <1>1, <1>2, <1>7 DEF strncmp, memcmp, Turn
  <2>2. IInv' /\ [Promise!Next]_(Promise!stringVars)
    BY <1>1, <2>1, LoopFacts, TurnStep
  <2>3. \A j \in 0..((d + 1) - 1) : /\ before[call.dst + j] = before[call.src + j]
                                    /\ pc = "strncmp" => before[call.dst + j] # 0
    BY <1>2, <1>3, <1>7
  <2>4. /\ call'.n - k' = d + 1 /\ p' = call.dst + (d + 1) /\ q' = call.src + (d + 1)
        /\ k' \in 0..call.n
    BY <1>1, <1>2, <1>3, <1>7, <2>1, LoopFacts
  <2>5. MatchInv'
    BY <1>1, <1>2, <2>1, <2>3, <2>4 DEF MatchInv
  <2> QED
    BY <1>1, <2>1, <2>2, <2>5 DEF LoopInv, CountInv, SearchInv, PadInv
<1>8. CASE ~(k > 0 /\ memory[p] = memory[q] /\ (pc = "strncmp" => memory[p] # 0))
  <2> DEFINE v == IF d = call.n THEN 0 ELSE Difference(before[call.dst + d], before[call.src + d])
  <2>1. Return(IF k = 0 THEN 0 ELSE Difference(memory[p], memory[q]))
    BY <1>1, <1>8 DEF strncmp, memcmp
  <2>2. Return(v)
    BY <1>2, <1>3, <2>1
  <2>3. v \in -1..MemSize
    <3>1. MemSize \in Nat /\ (d < call.n => MemSize >= 1)
      <4>1. MemSize \in Nat
        BY StringAssumption
      <4>2. ASSUME d < call.n PROVE MemSize >= 1
        <5>1. CASE pc = "strncmp"
          BY <1>6, <4>1, <4>2, <5>1 DEF Address
        <5>2. CASE pc = "memcmp"
          BY <1>1, <1>3, <1>5, <4>1, <4>2, <5>2, LoopFacts
        <5> QED
          BY <1>1, <5>1, <5>2
      <4> QED
        BY <4>1, <4>2
    <3>2. v \in {-1, 0, 1} /\ (d = call.n => v = 0)
      BY DEF Difference
    <3> QED
      BY <1>1, <1>3, <3>1, <3>2, LoopFacts
  <2>4. Answer(before, call, v)
    <3>1. CASE pc = "strncmp"
      <4>1. d < call.n => before[call.dst + d] = 0 \/ before[call.dst + d] # before[call.src + d]
        BY <1>1, <1>2, <1>3, <1>8, <3>1, LoopFacts
      <4> QED
        BY <1>1, <1>2, <1>3, <1>6, <3>1, <4>1, LoopFacts, StrncmpAnswer
    <3>2. CASE pc = "memcmp"
      <4>1. d < call.n => before[call.dst + d] # before[call.src + d]
        BY <1>1, <1>2, <1>3, <1>8, <3>2, LoopFacts
      <4> QED
        BY <1>1, <1>2, <1>3, <1>5, <3>2, <4>1, LoopFacts, MemcmpAnswer
    <3> QED
      BY <1>1, <3>1, <3>2
  <2> HIDE DEF v
  <2> QED
    BY <1>1, <1>2, <2>2, <2>3, <2>4, AnswerStep
<1> QED
  BY <1>7, <1>8

(* strncpy, of n bytes, has written d of them and reads the next one at s. *)
PadReads(m, dst, src, n, d, s) ==
    /\ d < n /\ dst + n <= MemSize /\ Readable(m, src, n) /\ Apart(dst, src, n)
    /\ s \in src..(src + d) /\ \A j \in 0..(s - src - 1) : m[src + j] # 0
    /\ s # src + d => s \in Address /\ m[s] = 0
    /\ CopiedPadded(m, dst, src, d) \in [Address -> Byte]

PadWrites(m, dst, src, d, s) ==
    /\ s \in Address /\ dst + d \in Address
    /\ CopiedPadded(m, dst, src, d)[s] = m[s]
    /\ [CopiedPadded(m, dst, src, d) EXCEPT ![dst + d] = m[s]] = CopiedPadded(m, dst, src, d + 1)

(* It writes one byte more: the source's, or again its Nul. *)
LEMMA PadMore ==
    ASSUME NEW m \in [Address -> Byte], NEW dst \in Nat, NEW src \in Nat, NEW n \in Nat, NEW d \in Nat,
           NEW s \in Nat, PadReads(m, dst, src, n, d, s)
    PROVE  PadWrites(m, dst, src, d, s)
<1>0. /\ d < n /\ dst + n <= MemSize /\ Readable(m, src, n) /\ Apart(dst, src, n)
      /\ s \in src..(src + d) /\ \A j \in 0..(s - src - 1) : m[src + j] # 0
      /\ s # src + d => s \in Address /\ m[s] = 0
      /\ CopiedPadded(m, dst, src, d) \in [Address -> Byte]
  BY DEF PadReads
<1> DEFINE part == CopiedPadded(m, dst, src, d)
<1>1. MemSize \in Nat
  BY StringAssumption
<1>2. s \in Address
  <2>1. CASE s = src + d
    <3>1. \A j \in 0..(d - 1) : m[src + j] # 0
      BY <1>0, <2>1
    <3> QED
      BY <1>0, <2>1, <3>1, ReadableReach
  <2> QED
    BY <1>0, <2>1
<1>3. dst + d \in Address
  BY <1>0, <1>1 DEF Address
<1>4. part[s] = m[s]
  <2>1. s \notin dst..(dst + d - 1)
    BY <1>0, <1>1 DEF Apart
  <2> QED
    BY <1>0, <1>2, <2>1 DEF CopiedPadded
<1>5. m[s] = IF \E j \in 0..d : m[src + j] = 0 THEN 0 ELSE m[src + d]
  <2>1. CASE s = src + d
    <3>1. \A j \in 0..(d - 1) : m[src + j] # 0
      BY <1>0, <2>1
    <3>2. (\E j \in 0..d : m[src + j] = 0) => m[src + d] = 0
      BY <1>0, <3>1
    <3> QED
      BY <1>0, <2>1, <3>2
  <2>2. CASE s # src + d
    <3>1. s - src \in 0..d /\ src + (s - src) = s
      BY <1>0, <2>2
    <3>2. m[s] = 0 /\ m[src + (s - src)] = 0
      BY <1>0, <2>2, <3>1
    <3> QED
      BY <3>1, <3>2
  <2> QED
    BY <2>1, <2>2
<1>6. ASSUME NEW a \in Address, a # dst + d
      PROVE  part[a] = CopiedPadded(m, dst, src, d + 1)[a]
  <2>1. a \in dst..(dst + d - 1) <=> a \in dst..(dst + (d + 1) - 1)
    BY <1>0, <1>6 DEF Address
  <2> QED
    BY <1>0, <2>1 DEF CopiedPadded
<1>7. CopiedPadded(m, dst, src, d + 1)[dst + d] = m[s]
  <2>1. dst + d \in dst..(dst + (d + 1) - 1) /\ (dst + d) - dst = d
    BY <1>0
  <2>2. CopiedPadded(m, dst, src, d + 1)[dst + d]
            = IF \E j \in 0..((dst + d) - dst) : m[src + j] = 0 THEN 0 ELSE m[src + ((dst + d) - dst)]
    BY <1>0, <1>3, <2>1 DEF CopiedPadded
  <2> QED
    BY <1>0, <1>5, <2>1, <2>2
<1>8. CopiedPadded(m, dst, src, d + 1) = [a \in Address |-> CopiedPadded(m, dst, src, d + 1)[a]]
  BY DEF CopiedPadded
<1> HIDE DEF part
<1>9. part \in [Address -> Byte]
  BY <1>0 DEF part
<1>10. [part EXCEPT ![dst + d] = m[s]] = CopiedPadded(m, dst, src, d + 1)
  BY <1>3, <1>6, <1>7, <1>8, <1>9
<1> QED
  BY <1>2, <1>3, <1>4, <1>10 DEF part, PadWrites

(* A turn of strncpy keeps both invariants, and the promise. *)
LEMMA PadStep == IInv /\ LoopInv /\ strncpy => IInv' /\ LoopInv' /\ [Promise!Next]_(Promise!stringVars)
<1> SUFFICES ASSUME IInv, LoopInv, strncpy
             PROVE  IInv' /\ LoopInv' /\ [Promise!Next]_(Promise!stringVars)
  OBVIOUS
<1> DEFINE d == call.n - k
<1>1. pc = "strncpy" /\ pc \in LoopNames
  BY DEF strncpy, LoopNames
<1>2. /\ call.function = "strncpy" /\ k \in 0..call.n /\ p = call.dst + d
      /\ q \in call.src..(call.src + d)
      /\ \A j \in 0..(q - call.src - 1) : before[call.src + j] # 0
      /\ q # call.src + d => q \in Address /\ before[q] = 0
      /\ memory = CopiedPadded(before, call.dst, call.src, d)
  BY <1>1 DEF LoopInv, PadInv
<1>3. d \in Nat /\ d <= call.n /\ k = call.n - d
  BY <1>1, <1>2, LoopFacts
<1> HIDE DEF d
<1>4. /\ call.dst + call.n <= MemSize /\ Apart(call.dst, call.src, call.n)
      /\ Readable(before, call.src, call.n)
  BY <1>1, <1>2, LoopFacts DEF Legal
<1>5. CASE k > 0
  <2>1. d < call.n
    BY <1>1, <1>3, <1>5, LoopFacts
  <2>2. /\ q \in Address /\ p \in Address /\ memory[q] = before[q]
        /\ [memory EXCEPT ![p] = before[q]] = CopiedPadded(before, call.dst, call.src, d + 1)
    <3> DEFINE part == CopiedPadded(before, call.dst, call.src, d)
    <3>1. part \in [Address -> Byte]
      BY <1>1, <1>2, LoopFacts
    <3>2. /\ q \in Address /\ call.dst + d \in Address /\ part[q] = before[q]
          /\ [part EXCEPT ![call.dst + d] = before[q]] = CopiedPadded(before, call.dst, call.src, d + 1)
      <4>1. before \in [Address -> Byte] /\ call.dst \in Nat /\ call.src \in Nat /\ call.n \in Nat
        BY <1>1, LoopFacts
      <4>2. q \in Nat
        BY <1>2, <1>3, <4>1
      <4>3. PadReads(before, call.dst, call.src, call.n, d, q)
        BY <1>2, <1>4, <2>1, <3>1 DEF PadReads
      <4>4. PadWrites(before, call.dst, call.src, d, q)
        BY <1>3, <4>1, <4>2, <4>3, PadMore
      <4> QED
        BY <4>4 DEF PadWrites
    <3>3. memory = part
      BY <1>2
    <3> QED
      BY <1>2, <3>2, <3>3
  <2>3. /\ memory' = CopiedPadded(before, call.dst, call.src, d + 1)
        /\ p' = p + 1 /\ q' = q + (IF before[q] = 0 THEN 0 ELSE 1) /\ k' = k + (-1)
        /\ UNCHANGED <<value, call, pc, machine, calls, before>>
    BY <1>5, <2>2 DEF strncpy, Turn
  <2>4. memory' \in [Address -> Byte]
    <3>1. before[q] \in Byte
      BY <1>1, <2>2, LoopFacts
    <3> QED
      BY <1>1, <2>2, <2>3, <3>1, LoopFacts
  <2>5. IInv' /\ [Promise!Next]_(Promise!stringVars)
    BY <1>1, <2>3, <2>4, TurnStep
  <2>6. /\ call.n - k' = d + 1 /\ k' \in 0..call.n /\ p' = call.dst + (d + 1)
    BY <1>1, <1>2, <1>3, <1>5, <2>3, LoopFacts
  <2>7. /\ q' \in call.src..(call.src + (d + 1))
        /\ \A j \in 0..(q' - call.src - 1) : before[call.src + j] # 0
        /\ q' # call.src + (d + 1) => q' \in Address /\ before[q'] = 0
    <3>1. CASE before[q] = 0
      <4>1. q' = q
        BY <1>2, <2>3, <3>1
      <4> QED
        BY <1>1, <1>2, <1>3, <2>2, <3>1, <4>1, LoopFacts
    <3>2. CASE before[q] # 0
      <4>1. q = call.src + d /\ q' = call.src + (d + 1)
        BY <1>1, <1>2, <1>3, <2>3, <3>2, LoopFacts
      <4>2. q - call.src = d /\ q' - call.src = d + 1
        BY <1>1, <1>3, <4>1, LoopFacts
      <4>3. \A j \in 0..((d + 1) - 1) : before[call.src + j] # 0
        BY <1>2, <1>3, <3>2, <4>1, <4>2
      <4> QED
        BY <1>1, <1>3, <4>1, <4>2, <4>3, LoopFacts
    <3> QED
      BY <3>1, <3>2
  <2>8. PadInv'
    BY <1>2, <2>3, <2>6, <2>7 DEF PadInv
  <2> QED
    BY <1>1, <2>3, <2>5, <2>8 DEF LoopInv, CountInv, SearchInv, MatchInv
<1>6. CASE ~(k > 0)
  <2>1. d = call.n
    BY <1>1, <1>2, <1>3, <1>6, LoopFacts
  <2>2. /\ pc' = "caller" /\ value' = value /\ UNCHANGED <<memory, call, machine, calls, before>>
    BY <1>6 DEF strncpy, Return
  <2>3. TypeOK'
    BY <1>1, <2>2 DEF IInv, TypeOK, machine
  <2>4. IInv' /\ LoopInv'
    BY <2>2, <2>3 DEF IInv, CallInv, UpwardInv, DownwardInv, FillInv, StringInv, CompareInv,
                      LoopInv, CountInv, SearchInv, MatchInv, PadInv
  <2>5. Seen = before /\ Seen' = CopiedPadded(Seen, call.dst, call.src, call.n)
    BY <1>1, <1>2, <2>1, <2>2 DEF Seen
  <2>6. \A x, y, z, n : Promise!CopiedPadded(x, y, z, n) = CopiedPadded(x, y, z, n)
    BY Zenon DEF Promise!CopiedPadded, Promise!Address, CopiedPadded, Address
  <2>7. Seen' = Promise!CopiedPadded(Seen, call.dst, call.src, call.n)
    BY <2>5, <2>6
  <2>8. Promise!Returns
    BY <1>1, <1>2, <2>2, <2>7 DEF Promise!Returns, Seen
  <2> QED
    BY <2>4, <2>8 DEF Promise!Next
<1> QED
  BY <1>5, <1>6

(* A loop is entered. *)
LEMMA LoopStart ==
    ASSUME IInv, NEW c \in Calls, Loop(c)
    PROVE  IInv' /\ LoopInv' /\ Promise!Next
<1>1. /\ c.function \in LoopNames /\ pc' = c.function /\ Enter(c, c.function)
      /\ p' = c.dst /\ q' = c.src /\ k' = IF c.function \in {"strlen", "strnlen"} THEN 0 ELSE c.n
      /\ UNCHANGED machine
  BY DEF Loop, LoopNames
<1>2. /\ c \in CallType /\ c.dst \in Nat /\ c.src \in Nat /\ c.n \in Nat /\ c.c \in Byte
      /\ call' = c /\ call'.function = c.function
      /\ memory \in [Address -> Byte] /\ memory' = memory /\ before' = memory
      /\ value' = value /\ value \in Int
      /\ calls' \in 0..MaxCalls
      /\ Legal(before', call') /\ call' \in Calls
      /\ pc = "caller" /\ df = 0
  BY <1>1, EnterFacts
<1>3. TypeOK'
  BY <1>1, <1>2 DEF IInv, TypeOK, machine, LoopNames, FunctionNames
<1>4. IInv'
  BY <1>1, <1>2, <1>3 DEF IInv, CallInv, UpwardInv, DownwardInv, FillInv, StringInv, CompareInv, LoopNames
<1>5. CountInv'
  BY <1>1, <1>2 DEF CountInv
<1>6. SearchInv'
  BY <1>1, <1>2 DEF SearchInv
<1>7. MatchInv'
  BY <1>1, <1>2 DEF MatchInv
<1>8. PadInv'
  <2> SUFFICES ASSUME pc' = "strncpy" PROVE PadInv'
    BY DEF PadInv
  <2>1. k' = c.n /\ c.n - c.n = 0
    BY <1>1, <1>2
  <2>2. CopiedPadded(memory, c.dst, c.src, 0) = memory
    <3>1. \A a \in Address : a \notin c.dst..(c.dst + 0 - 1)
      BY <1>2 DEF Address
    <3> QED
      BY <1>2, <3>1 DEF CopiedPadded
  <2> QED
    BY <1>1, <1>2, <2>1, <2>2 DEF PadInv
<1>9. Promise!Next
  <2>1. pc' # "caller"
    BY <1>1 DEF LoopNames
  <2> QED
    BY <1>1, <2>1, EnterPromise
<1> QED
  BY <1>4, <1>5, <1>6, <1>7, <1>8, <1>9 DEF LoopInv

(* The functions in assembly leave the loops alone. *)
LEMMA OpsStep ==
    ASSUME IInv, LoopInv, OpsNext, UNCHANGED loopVars
    PROVE  IInv' /\ LoopInv' /\ [Promise!Next]_(Promise!stringVars)
<1>1. IInv' /\ [Promise!Next]_(Promise!stringVars)
  BY StepIInv, StepPromise
<1>2. pc' \notin LoopNames
  BY DEF OpsNext, Runs, __memmove, __memcpy, __memset, __strcpy, __strcmp, Words,
         movsl, rest, movsb, movsb_ends, cld, stosb, stosb_ends, lodsb, scasb, Transfer, LoopNames
<1> QED
  BY <1>1, <1>2 DEF LoopInv, CountInv, SearchInv, MatchInv, PadInv, LoopNames

(* Both invariants hold before the first call. *)
LEMMA LoopsInitInv == LoopsInit => IInv /\ LoopInv
  BY InitIInv DEF LoopsInit, OpsInit, Init, LoopInv, CountInv, SearchInv, MatchInv, PadInv

(* Every step keeps both invariants, and is one of the promise or none. *)
LEMMA LoopsStepInv ==
    IInv /\ LoopInv /\ [LoopsNext]_<<opsVars, loopVars>>
        => IInv' /\ LoopInv' /\ [Promise!Next]_(Promise!stringVars)
<1> SUFFICES ASSUME IInv, LoopInv, [LoopsNext]_<<opsVars, loopVars>>
             PROVE  IInv' /\ LoopInv' /\ [Promise!Next]_(Promise!stringVars)
  OBVIOUS
<1>1. CASE OpsNext /\ UNCHANGED loopVars
  BY <1>1, OpsStep
<1>2. CASE \E c \in Calls : Loop(c)
  BY <1>2, LoopStart
<1>3. CASE strlen
  BY <1>3, StrlenStep
<1>4. CASE strnlen
  BY <1>4, StrnlenStep
<1>5. CASE strncpy
  BY <1>5, PadStep
<1>6. CASE strchr \/ strfind
  BY <1>6, SearchStep
<1>7. CASE strncmp \/ memcmp
  BY <1>7, MatchStep
<1>8. CASE UNCHANGED <<opsVars, loopVars>>
  <2>1. IInv' /\ [Promise!Next]_(Promise!stringVars)
    BY <1>8, StepIInv, StepPromise
  <2> QED
    BY <1>8, <2>1 DEF opsVars, loopVars, LoopInv, CountInv, SearchInv, MatchInv, PadInv
<1> QED
  BY <1>1, <1>2, <1>3, <1>4, <1>5, <1>6, <1>7, <1>8 DEF LoopsNext, LoopRuns

(* Whatever is called, in assembly or in C, the types hold, and the direction
   flag is clear outside memmove's downward copy. *)
THEOREM LoopsTyped == LoopsSpec => []TypeOK
<1>1. IInv => TypeOK
  BY DEF IInv
<1> QED
  BY <1>1, LoopsInitInv, LoopsStepInv, PTL DEF LoopsSpec

(* All functions of string.c but strtol do what their comments promise, one
   after another, whatever memory holds and however often they are called. *)
THEOREM AllFunctionsKeepPromise == LoopsSpec => KeepsPromise
<1>1. LoopsInit => Promise!Init
  BY DEF LoopsInit, OpsInit, Init, Promise!Init, NoCall, Promise!NoCall
<1> QED
  BY <1>1, LoopsInitInv, LoopsStepInv, PTL DEF LoopsSpec, KeepsPromise, Promise!Spec
=============================================================================
