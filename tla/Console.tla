------------------------------ MODULE Console ------------------------------
(***************************************************************************)
(* The input side of 104console.c with interrupts off, as cons_init leaves *)
(* the machine: every cons_getc polls the serial port and the keyboard     *)
(* into the circular buffer cons before it takes one character out. In     *)
(* this version kernel_init calls neither cons_getc nor getchar; the model *)
(* calls both, as readline.c would. Bytes arrive from the devices at any   *)
(* moment.                                                                 *)
(*                                                                         *)
(* A static variable starts as zero here, which holds when the kernel is   *)
(* loaded by a multiboot loader.                                           *)
(***************************************************************************)
EXTENDS Pic, Keyboard

CONSTANTS
    CONSBUFSIZE,     \* the size of the circular buffer
    SerialBytes,     \* the bytes the serial line may bring
    ScanCodes,       \* the bytes the keyboard may send
    Burst            \* how many bytes may be waiting somewhere at once

IRQ_KBD  == 1
IRQ_COM1 == 4

ASSUME ConsoleAssumption ==
    /\ CONSBUFSIZE \in Nat \ {0, 1}
    /\ SerialBytes \subseteq Byte
    /\ ScanCodes \subseteq Byte
    /\ Burst \in Nat
    /\ {IRQ_KBD, IRQ_COM1} \subseteq Drivers
    /\ DidInitAtBoot = {FALSE}

NoByte == 256     \* an empty device register

VARIABLES
    buf, rpos, wpos,    \* static struct cons: slots 0 to CONSBUFSIZE - 1, and the cursors
    shift,              \* static uint32_t shift of kbd_proc_data
    serial_exists,      \* static bool serial_exists
    uart,               \* whether the machine has a serial port
    rx,                 \* the serial port's receive buffer, one byte deep with its FIFO off
    ob,                 \* the keyboard controller's output buffer
    pc,                 \* where the kernel is
    call,               \* the function the kernel called last
    ret                 \* what the last cons_getc returned

consVars == <<buf, rpos, wpos, shift, serial_exists, uart, rx, ob, pc, call, ret>>
vars == <<consVars, picVars>>

(* The number of characters in the buffer, and the slot of the k-th of them. *)
Count   == IF wpos >= rpos THEN wpos - rpos ELSE wpos + CONSBUFSIZE - rpos
Slot(k) == IF rpos + k - 1 < CONSBUFSIZE THEN rpos + k - 1 ELSE rpos + k - 1 - CONSBUFSIZE
Pending == [k \in 1..Count |-> buf[Slot(k)]]

Zeroed  == [i \in 0..(CONSBUFSIZE - 1) |-> 0]

Init ==
    /\ buf = Zeroed
    /\ rpos = 0 /\ wpos = 0
    /\ shift = {}
    /\ serial_exists = FALSE
    /\ uart \in BOOLEAN
    /\ rx \in IF uart THEN SerialBytes \cup {NoByte} ELSE {NoByte}
    /\ ob \in ScanCodes \cup {NoByte}
    /\ pc = "serial_init" /\ call = "cons_init" /\ ret = 0
    /\ PicInit

-----------------------------------------------------------------------------
(* The devices. *)

Full(register) == IF register = NoByte THEN 0 ELSE 1
Outstanding    == Count + Full(rx) + Full(ob)

(* A byte comes in on the serial line; one that was not read yet is lost. *)
SerialArrive ==
    /\ uart
    /\ Outstanding - Full(rx) < Burst
    /\ \E b \in SerialBytes : rx' = b
    /\ UNCHANGED <<buf, rpos, wpos, shift, serial_exists, uart, ob, pc, call, ret, picVars>>

(* The keyboard sends a byte when the controller has room for it. *)
KbdArrive ==
    /\ ob = NoByte
    /\ Outstanding < Burst
    /\ \E b \in ScanCodes : ob' = b
    /\ UNCHANGED <<buf, rpos, wpos, shift, serial_exists, uart, rx, pc, call, ret, picVars>>

-----------------------------------------------------------------------------
(* The kernel. *)

(* Faulty: the cursor wraps one slot late. *)
After_Late(pos) == IF pos = CONSBUFSIZE THEN 0 ELSE pos + 1

After(pos) == IF pos + 1 = CONSBUFSIZE THEN 0 ELSE pos + 1

(* Faulty: a 0 is stored too. *)
cons_put_Zero(c) == buf' = [buf EXCEPT ![wpos] = c] /\ wpos' = After(wpos)

(* What cons_intr does with a character other than -1. *)
cons_put(c) ==
    IF c # 0
    THEN buf' = [buf EXCEPT ![wpos] = c] /\ wpos' = After(wpos)
    ELSE UNCHANGED <<buf, wpos>>

(* Faulty: the line is enabled whether or not the port answered. *)
serial_init_Always ==
    /\ pc = "serial_init"
    /\ serial_exists' = uart
    /\ rx' = NoByte
    /\ pic_enable(IRQ_COM1)
    /\ pc' = "kbd_init"
    /\ UNCHANGED <<buf, rpos, wpos, shift, uart, ob, call, ret>>

(* serial_init: the port exists unless its status reads as 0xFF; the receive
   register is read once and the byte in it dropped. *)
serial_init ==
    /\ pc = "serial_init"
    /\ serial_exists' = uart
    /\ rx' = NoByte
    /\ IF uart THEN pic_enable(IRQ_COM1) ELSE UNCHANGED picVars
    /\ pc' = "kbd_init"
    /\ UNCHANGED <<buf, rpos, wpos, shift, uart, ob, call, ret>>

(* kbd_proc_data found no byte: kbd_intr ends, and with it kbd_init, which then
   enables the keyboard's line, or the keyboard's part of cons_getc. *)
kbd_init ==
    /\ pc = "kbd_init" /\ ob = NoByte
    /\ pic_enable(IRQ_KBD)
    /\ pc' = "caller"
    /\ UNCHANGED <<buf, rpos, wpos, shift, serial_exists, uart, rx, ob, call, ret>>

kbd_intr_ends ==
    /\ pc = "kbd_intr" /\ ob = NoByte
    /\ pc' = "grab"
    /\ UNCHANGED <<buf, rpos, wpos, shift, serial_exists, uart, rx, ob, call, ret, picVars>>

(* One turn of cons_intr(kbd_proc_data). *)
kbd_intr ==
    /\ pc \in {"kbd_init", "kbd_intr"} /\ ob # NoByte
    /\ LET r == kbd_proc_data(shift, ob) IN
       /\ shift' = r.shift
       /\ IF r.reboot
          THEN pc' = "reset" /\ UNCHANGED <<buf, wpos>>
          ELSE cons_put(r.c) /\ UNCHANGED pc
    /\ ob' = NoByte
    /\ UNCHANGED <<rpos, serial_exists, uart, rx, call, ret, picVars>>

(* The write to port 0x92 restarts the machine: the BIOS programs the chips
   again, the loader clears the static variables again, the devices keep what
   they have. *)
Restart ==
    /\ pc = "reset"
    /\ buf' = Zeroed /\ rpos' = 0 /\ wpos' = 0
    /\ shift' = {} /\ serial_exists' = FALSE
    /\ pc' = "serial_init" /\ call' = "cons_init" /\ ret' = 0
    /\ irq_mask' = InitialMask /\ did_init' \in DidInitAtBoot
    /\ out' = << >> /\ enabled' = {} /\ phase' = "before"
    /\ \E m \in BiosMasks : master' = BiosChip(m, {3}, {IRQ_SLAVE})
    /\ \E m \in BiosMasks : slave' = BiosChip(m, {4, 5, 6}, {1})
    /\ UNCHANGED <<uart, rx, ob>>

(* Faulty: the status is tested but the byte is not read. *)
serial_intr_NoRead ==
    /\ pc = "serial_intr" /\ serial_exists /\ rx # NoByte
    /\ UNCHANGED vars

(* One turn of cons_intr(serial_proc_data): DEL counts as a backspace. *)
serial_intr ==
    /\ pc = "serial_intr" /\ serial_exists /\ rx # NoByte
    /\ cons_put(IF rx = 127 THEN 8 ELSE rx)
    /\ rx' = NoByte
    /\ UNCHANGED <<rpos, shift, serial_exists, uart, ob, pc, call, ret, picVars>>

serial_intr_ends ==
    /\ pc = "serial_intr" /\ (serial_exists => rx = NoByte)
    /\ pc' = "kbd_intr"
    /\ UNCHANGED <<buf, rpos, wpos, shift, serial_exists, uart, rx, ob, call, ret, picVars>>

(* The kernel calls cons_getc, or getchar, which calls it until it is not 0. *)
Call(function) ==
    /\ pc = "caller"
    /\ pc' = "serial_intr" /\ call' = function
    /\ UNCHANGED <<buf, rpos, wpos, shift, serial_exists, uart, rx, ob, ret, picVars>>

(* Faulty: the cursor does not move. *)
grab_Stays ==
    /\ pc = "grab" /\ rpos # wpos
    /\ ret' = buf[rpos]
    /\ pc' = IF ret' = 0 /\ call = "getchar" THEN "serial_intr" ELSE "caller"
    /\ UNCHANGED <<buf, rpos, wpos, shift, serial_exists, uart, rx, ob, call, picVars>>

(* cons_getc grabs the next character, ... *)
grab ==
    /\ pc = "grab" /\ rpos # wpos
    /\ ret' = buf[rpos] /\ rpos' = After(rpos)
    /\ pc' = IF ret' = 0 /\ call = "getchar" THEN "serial_intr" ELSE "caller"
    /\ UNCHANGED <<buf, wpos, shift, serial_exists, uart, rx, ob, call, picVars>>

(* ... or returns 0, and getchar tries again. *)
grab_nothing ==
    /\ pc = "grab" /\ rpos = wpos
    /\ ret' = 0
    /\ pc' = IF call = "getchar" THEN "serial_intr" ELSE "caller"
    /\ UNCHANGED <<buf, rpos, wpos, shift, serial_exists, uart, rx, ob, call, picVars>>

Kernel ==
    \/ serial_init \/ kbd_init
    \/ Call("cons_getc") \/ Call("getchar")
    \/ serial_intr \/ serial_intr_ends
    \/ kbd_intr \/ kbd_intr_ends
    \/ grab \/ grab_nothing
    \/ Restart

ConsoleNext == Kernel \/ SerialArrive \/ KbdArrive

(* The kernel keeps running.  A device sends a byte a millisecond at most and a
   poll takes microseconds, so a poll finds the device empty again and again:
   the loops that empty a device end (strong fairness). *)
Fairness ==
    /\ WF_vars(Kernel)
    /\ SF_vars(serial_intr_ends)
    /\ SF_vars(kbd_intr_ends)
    /\ SF_vars(kbd_init)

Spec == Init /\ [][ConsoleNext]_vars /\ Fairness

-----------------------------------------------------------------------------
(* The type invariant: in particular both cursors stay inside the buffer. *)
TypeOK ==
    /\ buf \in [0..(CONSBUFSIZE - 1) -> Byte]
    /\ rpos \in 0..(CONSBUFSIZE - 1) /\ wpos \in 0..(CONSBUFSIZE - 1)
    /\ shift \subseteq Flags
    /\ serial_exists \in BOOLEAN /\ uart \in BOOLEAN
    /\ rx \in SerialBytes \cup {NoByte} /\ ob \in ScanCodes \cup {NoByte}
    /\ pc \in {"serial_init", "kbd_init", "caller", "serial_intr", "kbd_intr", "grab", "reset"}
    /\ call \in {"cons_init", "cons_getc", "getchar"}
    /\ ret \in Byte
    /\ irq_mask \subseteq Lines

Queue == INSTANCE InputQueue WITH
    Capacity <- CONSBUFSIZE, Chars <- Byte \ {0}, queue <- Pending, got <- ret,
    rebooting <- (pc = "reset")

(* The buffer with its two cursors is a queue that holds CONSBUFSIZE - 1
   characters: characters come out in the order they went in, each once, and a
   0 is returned only when none waited.  The CONSBUFSIZE-th empties it, and so
   does the restart after the reboot chord of 104console.c:393-396, which no
   read and no arrival comes before; no other step loses a character. *)
BufferIsQueue == Queue!Spec

(* The buffer as the plain first-in first-out queue of the comments at
   104console.c:201 and 435 ("return the next input character from console, or 0
   if none waiting"), which loses nothing however many characters come in. *)
BufferIsFifo == Queue!FifoSpec

(* While fewer bytes are outstanding, in the buffer and in the two devices, than
   the buffer has slots, every step is one of that plain queue: a poll that takes
   up to two of them in a row (cons_intr at 104console.c:218) loses none. *)
FifoWithinCapacity ==
    [][Outstanding <= CONSBUFSIZE - 1 => Queue!FifoNext]_(Queue!queueVars)

(* cons_getc returns, and getchar once there is a character to return, however
   the devices keep sending; only an overrun can take that character away. *)
CallReturns ==
    /\ (call = "getchar" /\ Count > 0) ~> (pc \in {"caller", "reset"} \/ Count = 0)
    /\ (pc = "serial_intr" /\ call = "cons_getc") ~> (pc \in {"caller", "reset"})

(* The lines enabled for the devices are those that cons_init found: a call
   comes only after both devices are set up, and COM1 is open, and polled,
   exactly when it answered. *)
DevicesEnabled ==
    pc \in {"caller", "serial_intr", "kbd_intr", "grab"} =>
        /\ IRQ_KBD \notin irq_mask
        /\ (IRQ_COM1 \notin irq_mask) <=> uart
        /\ serial_exists = uart
=============================================================================
