----------------------------- MODULE StringOps -----------------------------
(***************************************************************************)
(* include/002x86.h, lines 104 to 200: the memory and string functions in  *)
(* inline assembly, instruction by instruction as far as memory goes.  A   *)
(* repeated string instruction is one action per repetition.  string.c     *)
(* calls these; StringLoops has the functions that it writes in C.         *)
(***************************************************************************)
EXTENDS StringCalls

CONSTANT MaxCalls      \* how many calls are made one after another

ASSUME MaxCallsAssumption == MaxCalls \in Nat

(* pc is the name of the instruction that is repeated, or "caller". *)
VARIABLES
    ecx, esi, edi,    \* the registers of the string instructions
    df,               \* the direction flag: 1 for downwards
    calls,            \* history: how many calls were made
    before            \* history: memory when the call began

machine == <<ecx, esi, edi, df>>
opsVars == <<memory, value, call, pc, machine, calls, before>>

OpsInit ==
    /\ Init
    /\ ecx = 0 /\ esi = 0 /\ edi = 0
    /\ df = 0
    /\ calls = 0 /\ before = memory

(* A string instruction moves its pointers by its width, up or down. *)
Moved(pointer, width) == IF df = 1 THEN pointer - width ELSE pointer + width

(* The caller's side of a call. *)
Enter(c, function) ==
    /\ pc = "caller" /\ calls < MaxCalls
    /\ c.function = function
    /\ Legal(memory, c)
    /\ call' = c /\ calls' = calls + 1 /\ before' = memory
    /\ UNCHANGED <<memory, value>>

(* __memcpy: words first. *)
Words(c) ==
    /\ pc' = "movsl"
    /\ ecx' = c.n \div 4 /\ edi' = c.dst /\ esi' = c.src
    /\ UNCHANGED df

__memcpy(c) == Enter(c, "memcpy") /\ Words(c)

(* __memmove: upwards by __memcpy, or downwards from the last byte. *)
__memmove(c) ==
    /\ Enter(c, "memmove")
    /\ IF c.dst < c.src
       THEN Words(c)
       ELSE /\ pc' = "std"
            /\ ecx' = c.n /\ esi' = c.n - 1 + c.src /\ edi' = c.n - 1 + c.dst
            /\ df' = 1

__memset(c) ==
    /\ Enter(c, "memset")
    /\ pc' = "stosb"
    /\ ecx' = c.n /\ edi' = c.dst
    /\ UNCHANGED <<esi, df>>

__strcpy(c) ==
    /\ Enter(c, "strcpy")
    /\ pc' = "lodsb"
    /\ esi' = c.src /\ edi' = c.dst
    /\ UNCHANGED <<ecx, df>>

__strcmp(c) ==
    /\ Enter(c, "strcmp")
    /\ pc' = "scasb"
    /\ esi' = c.dst /\ edi' = c.src
    /\ UNCHANGED <<ecx, df>>

(* Copying width bytes from esi to edi, which are all read before one is written. *)
Transfer(width) ==
    /\ ecx > 0
    /\ memory' = Copied(memory, edi, esi, width)
    /\ esi' = Moved(esi, width) /\ edi' = Moved(edi, width) /\ ecx' = ecx - 1
    /\ UNCHANGED <<value, call, pc, df, calls, before>>

(* rep movsl *)
movsl == pc = "movsl" /\ Transfer(4)

(* Faulty: the bytes after the last word are forgotten. *)
rest_Forgotten ==
    /\ pc = "movsl" /\ ecx = 0
    /\ ecx' = 0 /\ pc' = "movsb"
    /\ UNCHANGED <<memory, value, call, esi, edi, df, calls, before>>

(* The bytes left over after the words. *)
rest ==
    /\ pc = "movsl" /\ ecx = 0
    /\ ecx' = call.n % 4 /\ pc' = "movsb"
    /\ UNCHANGED <<memory, value, call, esi, edi, df, calls, before>>

(* rep movsb, in either function *)
movsb == pc \in {"movsb", "std"} /\ Transfer(1)

movsb_ends ==
    /\ pc = "movsb" /\ ecx = 0
    /\ pc' = "caller"
    /\ UNCHANGED <<memory, value, call, machine, calls, before>>

(* Faulty: the direction flag stays set. *)
cld_Missing ==
    /\ pc = "std" /\ ecx = 0
    /\ pc' = "caller"
    /\ UNCHANGED <<memory, value, call, machine, calls, before>>

(* __memmove's downward copy ends with cld. *)
cld ==
    /\ pc = "std" /\ ecx = 0
    /\ pc' = "caller" /\ df' = 0
    /\ UNCHANGED <<memory, value, call, ecx, esi, edi, calls, before>>

(* rep stosb *)
stosb ==
    /\ pc = "stosb" /\ ecx > 0
    /\ memory' = [memory EXCEPT ![edi] = call.c]
    /\ edi' = Moved(edi, 1) /\ ecx' = ecx - 1
    /\ UNCHANGED <<value, call, pc, esi, df, calls, before>>

stosb_ends ==
    /\ pc = "stosb" /\ ecx = 0
    /\ pc' = "caller"
    /\ UNCHANGED <<memory, value, call, machine, calls, before>>

(* lodsb, stosb, and again unless the byte was 0 *)
lodsb ==
    /\ pc = "lodsb"
    /\ memory' = Copied(memory, edi, esi, 1)
    /\ esi' = Moved(esi, 1) /\ edi' = Moved(edi, 1)
    /\ pc' = IF memory[esi] = 0 THEN "caller" ELSE "lodsb"
    /\ UNCHANGED <<value, call, ecx, df, calls, before>>

(* lodsb, scasb: the first difference decides, by the borrow of its
   subtraction (sbbl, orb); two equal zeros end the strings. *)
scasb ==
    /\ pc = "scasb"
    /\ LET s == memory[esi]  t == memory[edi] IN
       /\ pc' = IF s = t /\ s # 0 THEN "scasb" ELSE "caller"
       /\ value' = IF s < t THEN -1 ELSE IF s > t THEN 1 ELSE IF s = 0 THEN 0 ELSE value
    /\ esi' = Moved(esi, 1) /\ edi' = Moved(edi, 1)
    /\ UNCHANGED <<memory, call, ecx, df, calls, before>>

Runs == movsl \/ rest \/ movsb \/ movsb_ends \/ cld \/ stosb \/ stosb_ends \/ lodsb \/ scasb

OpsNext ==
    \/ \E c \in Calls : __memmove(c) \/ __memcpy(c) \/ __memset(c) \/ __strcpy(c) \/ __strcmp(c)
    \/ Runs

OpsSpec == OpsInit /\ [][OpsNext]_opsVars
-----------------------------------------------------------------------------
(* The type invariant.  The direction flag is set in the downward copy only:
   every function, and the compiler, relies on finding it clear. *)
TypeOK ==
    /\ memory \in [Address -> Byte] /\ before \in [Address -> Byte]
    /\ value \in Int
    /\ call \in CallType
    /\ pc \in {"caller", "movsl", "movsb", "std", "stosb", "lodsb", "scasb"} \cup FunctionNames
    /\ ecx \in Nat /\ esi \in Int /\ edi \in Int
    /\ df = (IF pc = "std" THEN 1 ELSE 0)
    /\ calls \in 0..MaxCalls

Promise == INSTANCE StringCalls WITH
    memory <- IF pc = "caller" THEN memory ELSE before,
    pc <- IF pc = "caller" THEN "caller" ELSE "called"

(* Each function does what string.c promises of it, seen when it returns: the
   destination has the source's old bytes, however the areas of memmove
   overlap and whatever is left over after the words; nothing else changed;
   strcmp has the sign of the first difference; and the loops of StringLoops
   find what they look for, no further than they may. *)
KeepsPromise == Promise!Spec
=============================================================================
