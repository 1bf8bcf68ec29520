---------------------------- MODULE StringLoops ----------------------------
(***************************************************************************)
(* The functions of string.c that are loops in C, one action per turn and  *)
(* one for what follows the loop.                                          *)
(***************************************************************************)
EXTENDS StringOps

VARIABLES
    p, q,     \* the pointers
    k         \* the bytes that are left, or were counted

loopVars == <<p, q, k>>

LoopsInit == OpsInit /\ p = 0 /\ q = 0 /\ k = 0

Loop(c) ==
    /\ Enter(c, c.function)
    /\ c.function \in {"strlen", "strnlen", "strncpy", "strncmp", "strchr", "strfind", "memcmp"}
    /\ pc' = c.function
    /\ p' = c.dst /\ q' = c.src /\ k' = IF c.function \in {"strlen", "strnlen"} THEN 0 ELSE c.n
    /\ UNCHANGED machine

(* The loop goes on with the pointers moved, or the function returns. *)
Turn(dp, dq, dk) ==
    /\ p' = p + dp /\ q' = q + dq /\ k' = k + dk
    /\ UNCHANGED <<value, call, pc, machine, calls, before>>

Return(v) ==
    /\ pc' = "caller" /\ value' = v
    /\ UNCHANGED <<memory, call, machine, calls, before, loopVars>>

strlen ==
    /\ pc = "strlen"
    /\ IF memory[p] # 0 THEN Turn(1, 0, 1) /\ UNCHANGED memory ELSE Return(k)

strnlen ==
    /\ pc = "strnlen"
    /\ IF k < call.n /\ memory[p] # 0 THEN Turn(1, 0, 1) /\ UNCHANGED memory ELSE Return(k)

(* The source stays at its Nul, which is copied again and again. *)
strncpy ==
    /\ pc = "strncpy"
    /\ IF k > 0
       THEN /\ memory' = [memory EXCEPT ![p] = memory[q]]
            /\ Turn(1, IF memory[q] = 0 THEN 0 ELSE 1, -1)
       ELSE Return(value)

Difference(a, b) == IF a > b THEN 1 ELSE IF a < b THEN -1 ELSE 0

strncmp ==
    /\ pc = "strncmp"
    /\ IF k > 0 /\ memory[p] # 0 /\ memory[p] = memory[q] THEN Turn(1, 1, -1) /\ UNCHANGED memory
       ELSE Return(IF k = 0 THEN 0 ELSE Difference(memory[p], memory[q]))

strchr ==
    /\ pc = "strchr"
    /\ IF memory[p] \notin {0, call.c} THEN Turn(1, 0, 0) /\ UNCHANGED memory
       ELSE Return(IF memory[p] = 0 THEN -1 ELSE p)

strfind ==
    /\ pc = "strfind"
    /\ IF memory[p] \notin {0, call.c} THEN Turn(1, 0, 0) /\ UNCHANGED memory ELSE Return(p)

memcmp ==
    /\ pc = "memcmp"
    /\ IF k > 0 /\ memory[p] = memory[q] THEN Turn(1, 1, -1) /\ UNCHANGED memory
       ELSE Return(IF k = 0 THEN 0 ELSE Difference(memory[p], memory[q]))

LoopRuns == strlen \/ strnlen \/ strncpy \/ strncmp \/ strchr \/ strfind \/ memcmp

LoopsNext == (OpsNext /\ UNCHANGED loopVars) \/ (\E c \in Calls : Loop(c)) \/ LoopRuns

LoopsSpec == LoopsInit /\ [][LoopsNext]_<<opsVars, loopVars>>
=============================================================================
