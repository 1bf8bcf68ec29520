----------------------------- MODULE InputQueue -----------------------------
(***************************************************************************)
(* What the console input buffer promises, without its array and cursors:  *)
(* a queue of characters that holds at most Capacity - 1 of them.  The     *)
(* character that would be the Capacity-th makes the queue empty: it and   *)
(* all that were waiting are lost.  With that action left out it is the    *)
(* queue that the comments of 104console.c describe (FifoSpec).  Nothing   *)
(* else empties the queue but the restart that follows a reboot.           *)
(***************************************************************************)
EXTENDS Naturals, Sequences

CONSTANTS
    Capacity,     \* the size of the buffer
    Chars         \* the characters, none of them 0

VARIABLES
    queue,       \* the characters waiting, oldest first
    got,         \* what the last call of cons_getc returned: 0 when none waited
    rebooting    \* whether a key chord asked for a reboot that is not over yet

queueVars == <<queue, got, rebooting>>

Init == queue = << >> /\ got = 0 /\ rebooting = FALSE

(* The machine runs, and this step asks for no reboot. *)
Running == ~rebooting /\ UNCHANGED rebooting

(* A character arrives: the queue is one longer, by its last element. *)
Feed ==
    /\ Running
    /\ Len(queue') = Len(queue) + 1
    /\ LET c == queue'[Len(queue')] IN c \in Chars /\ queue' = Append(queue, c)
    /\ UNCHANGED got

(* A character arrives that the queue has no room for. *)
Overrun == Running /\ Len(queue) = Capacity - 1 /\ queue' = << >> /\ UNCHANGED got

(* The reader takes the oldest character, or learns that there is none. *)
Get  == Running /\ queue # << >> /\ got' = Head(queue) /\ queue' = Tail(queue)
Miss == Running /\ queue = << >> /\ got' = 0 /\ UNCHANGED queue

(* A reboot is asked for, and then the machine starts again with nothing in the
   queue; in between no character goes in or out. *)
Reboot  == ~rebooting /\ rebooting' = TRUE /\ UNCHANGED <<queue, got>>
Restart == rebooting /\ rebooting' = FALSE /\ queue' = << >> /\ got' = 0

BoundedNext ==
    \/ Len(queue) < Capacity - 1 /\ Feed
    \/ Overrun
    \/ Get \/ Miss
    \/ Reboot \/ Restart

FifoNext ==
    \/ Feed
    \/ Get \/ Miss
    \/ Reboot \/ Restart

Spec     == Init /\ [][BoundedNext]_queueVars
FifoSpec == Init /\ [][FifoNext]_queueVars
=============================================================================
