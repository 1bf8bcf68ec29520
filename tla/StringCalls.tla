---------------------------- MODULE StringCalls ----------------------------
(***************************************************************************)
(* What string.c promises of its functions: when a call returns, just its  *)
(* destination has changed, and in one step, and the value is the right    *)
(* one.  Of a comparison the sign is the value, NULL is -1.                *)
(***************************************************************************)
EXTENDS Integers

CONSTANTS
    MemSize,      \* the bytes of memory
    Contents,     \* what memory may hold at first
    Calls         \* the calls that are made

Byte    == 0..255
Address == 0..(MemSize - 1)

FunctionNames == {"memmove", "memcpy", "memset", "strcpy", "strcmp",
                  "strlen", "strnlen", "strncpy", "strncmp", "strchr", "strfind", "memcmp"}

(* A call: c is memset's or strchr's byte; dst and src also are what is compared,
   and dst what is searched. *)
CallType == [function : FunctionNames, dst : Nat, src : Nat, n : Nat, c : Byte]

ASSUME StringAssumption ==
    /\ MemSize \in Nat
    /\ Contents \subseteq [Address -> Byte]
    /\ Calls \subseteq CallType

VARIABLES
    memory,
    value,      \* what the last call returned, if that tells something
    call,       \* the call under way or done last
    pc          \* "caller", or "called" while a call is under way

stringVars == <<memory, value, call, pc>>

(* The string at address s ends k bytes further on. *)
EndsAt(m, s, k) == s + k \in Address /\ m[s + k] = 0 /\ \A j \in 0..(k - 1) : m[s + j] # 0
IsString(m, s)  == \E k \in Address : EndsAt(m, s, k)

(* The comments of string.c say what a caller may pass: areas inside memory,
   and no overlap for memcpy and strcpy, nor for strncpy. *)
Apart(a, b, length) == a + length <= b \/ b + length <= a

Readable(m, s, n) == s + n <= MemSize \/ IsString(m, s)

Legal(m, c) ==
    LET dst == c.dst  src == c.src  n == c.n IN
    /\ c.function \in {"memmove", "memcpy", "memset", "memcmp", "strncpy"} => dst + n <= MemSize
    /\ c.function \in {"memmove", "memcpy", "memcmp"} => src + n <= MemSize
    /\ c.function \in {"memcpy", "strncpy"} => Apart(dst, src, n)
    /\ c.function = "strncpy" => Readable(m, src, n)
    /\ c.function \in {"strlen", "strchr", "strfind"} => IsString(m, dst)
    /\ c.function \in {"strnlen", "strncmp"} => Readable(m, dst, n)
    /\ c.function = "strncmp" => Readable(m, src, n)
    /\ c.function = "strcpy" =>
           \E k \in Address : EndsAt(m, src, k) /\ dst + k < MemSize /\ Apart(dst, src, k + 1)
    /\ c.function = "strcmp" => IsString(m, dst) /\ IsString(m, src)

(* The bytes from dst on are those that were at src. *)
Copied(m, dst, src, n) ==
    [a \in Address |-> IF a \in dst..(dst + n - 1) THEN m[src + (a - dst)] ELSE m[a]]

Filled(m, dst, n, c) ==
    [a \in Address |-> IF a \in dst..(dst + n - 1) THEN c ELSE m[a]]

(* Two strings differ at k for the first time, and neither has ended before. *)
Differ(m, s, t, k) ==
    /\ s + k \in Address /\ t + k \in Address /\ m[s + k] # m[t + k]
    /\ \A j \in 0..(k - 1) : m[s + j] = m[t + j] /\ m[s + j] # 0

(* The sign of that difference, as unsigned characters. *)
Sign(m, s, t) ==
    IF \E k \in Address : Differ(m, s, t, k)
    THEN LET k == CHOOSE k \in Address : Differ(m, s, t, k)
         IN IF m[s + k] < m[t + k] THEN -1 ELSE 1
    ELSE 0

(* The k-th byte from s on is the first of those looked for. *)
First(m, s, k, bytes) == s + k \in Address /\ m[s + k] \in bytes /\ \A j \in 0..(k - 1) : m[s + j] \notin bytes

(* The sign of the first difference within n bytes. *)
SignWithin(m, s, t, n) ==
    IF \E k \in 0..(n - 1) : Differ(m, s, t, k) THEN Sign(m, s, t) ELSE 0

Greater(m, s, t, n) ==
    \E k \in 0..(n - 1) : m[s + k] > m[t + k] /\ \A j \in 0..(k - 1) : m[s + j] = m[t + j]

(* The n bytes that strncpy writes: the string, then zeros. *)
CopiedPadded(m, dst, src, n) ==
    [a \in Address |->
        IF a \in dst..(dst + n - 1)
        THEN IF \E j \in 0..(a - dst) : m[src + j] = 0 THEN 0 ELSE m[src + (a - dst)]
        ELSE m[a]]

NoCall == [function |-> "memset", dst |-> 0, src |-> 0, n |-> 0, c |-> 0]

Init == memory \in Contents /\ value = 0 /\ call = NoCall /\ pc = "caller"

Move(dst, src, n) == memory' = Copied(memory, dst, src, n) /\ UNCHANGED value

Set(dst, n, c) == memory' = Filled(memory, dst, n, c) /\ UNCHANGED value

CopyString(dst, src) ==
    \E k \in Address : EndsAt(memory, src, k) /\ Move(dst, src, k + 1)

Compare(s, t) == value' = Sign(memory, s, t) /\ UNCHANGED memory

(* What a function that only reads returns. *)
Answer(m, c, answer) ==
    LET s == c.dst  t == c.src  n == c.n
        stops == {0, c.c}
    IN \/ c.function = "strlen"  /\ EndsAt(m, s, answer)
       \/ c.function = "strnlen" /\ answer <= n
                                  /\ \A j \in 0..(answer - 1) : m[s + j] # 0
                                  /\ (answer = n \/ m[s + answer] = 0)
       \/ c.function = "strncmp" /\ answer = SignWithin(m, s, t, n)
       \/ c.function = "strchr"  /\ IF answer = -1 THEN \E k \in Address : First(m, s, k, stops) /\ m[s + k] = 0
                                     ELSE First(m, s, answer - s, stops) /\ m[answer] # 0
       \/ c.function = "strfind" /\ First(m, s, answer - s, stops)
       \/ c.function = "memcmp"  /\ answer = IF Greater(m, s, t, n) THEN 1 ELSE IF Greater(m, t, s, n) THEN -1 ELSE 0

Called(c) ==
    /\ pc = "caller" /\ pc' = "called"
    /\ Legal(memory, c)
    /\ call' = c
    /\ UNCHANGED <<memory, value>>

Returns ==
    /\ pc = "called" /\ pc' = "caller"
    /\ UNCHANGED call
    /\ \/ call.function \in {"memmove", "memcpy"} /\ Move(call.dst, call.src, call.n)
       \/ call.function = "memset" /\ Set(call.dst, call.n, call.c)
       \/ call.function = "strcpy" /\ CopyString(call.dst, call.src)
       \/ call.function = "strcmp" /\ Compare(call.dst, call.src)
       \/ call.function = "strncpy" /\ memory' = CopiedPadded(memory, call.dst, call.src, call.n)
                                     /\ UNCHANGED value
       \/ \E answer \in -1..MemSize : Answer(memory, call, answer) /\ value' = answer /\ UNCHANGED memory

Next == Returns \/ \E c \in Calls : Called(c)

Spec == Init /\ [][Next]_stringVars
=============================================================================
