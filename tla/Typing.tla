------------------------------- MODULE Typing -------------------------------
(***************************************************************************)
(* A typist, the bytes the keyboard puts on the wire, and the driver that  *)
(* takes them one kbd_proc_data call at a time.  A key's make and break    *)
(* codes may be several bytes, and the driver may be stopped between any   *)
(* two of them: what it knows of the keys is only its flags.               *)
(*                                                                         *)
(* The typist and the wire are external: scan code set 1 as the tables of  *)
(* 104console.c expect it.                                                 *)
(***************************************************************************)
EXTENDS Keyboard, FiniteSets

CONSTANTS
    Keys,        \* the keys in use
    MaxHeld,     \* how many of them are held at once
    Backlog      \* how many bytes may still wait when a key event adds its own

(* The keys the model knows. *)
KeyNames == {"LShift", "RShift", "LCtrl", "RCtrl", "LAlt", "RAlt", "CapsLock", "A", "One",
             "Delete", "KpDelete", "KpEnter", "PrtSc", "Pause"}

(* The scan codes of a key pressed and released, E0 standing for a prefix. *)
Make(key) ==
    CASE key = "LShift"   -> << 42 >>
      [] key = "RShift"   -> << 54 >>
      [] key = "LCtrl"    -> << 29 >>
      [] key = "RCtrl"    -> << E0, 29 >>
      [] key = "LAlt"     -> << 56 >>
      [] key = "RAlt"     -> << E0, 56 >>
      [] key = "CapsLock" -> << 58 >>
      [] key = "A"        -> << 30 >>
      [] key = "One"      -> << 2 >>
      [] key = "Delete"   -> << E0, 83 >>
      [] key = "KpDelete" -> << 83 >>
      [] key = "KpEnter"  -> << E0, 28 >>
      [] key = "PrtSc"    -> << E0, 42, E0, 55 >>               \* a fake shift
      [] key = "Pause"    -> << 225, 29, 69, 225, 157, 197 >>   \* no break code

Break(key) ==
    CASE key = "PrtSc" -> << E0, 183, E0, 170 >>
      [] key = "Pause" -> << >>
      [] OTHER -> [k \in DOMAIN Make(key) |->
                      IF Make(key)[k] = E0 THEN E0 ELSE Make(key)[k] + 128]

(* The keys that stand for each modifier. *)
KeysOf == [SHIFT |-> {"LShift", "RShift"}, CTL |-> {"LCtrl", "RCtrl"}, ALT |-> {"LAlt", "RAlt"}]

(* What a key means to the typist: plain, shifted and with Ctrl. *)
Meaning(key) ==
    CASE key = "A"        -> << 97, 65, 1 >>
      [] key = "One"      -> << 49, 33, NO >>
      [] key = "Delete"   -> << KEY_DEL, KEY_DEL, KEY_DEL >>
      [] key = "KpDelete" -> << 46, 46, NO >>
      [] key = "KpEnter"  -> << 10, 10, NO >>
      [] key = "PrtSc"    -> << NO, NO, NO >>
      [] OTHER            -> << NO, NO, NO >>

ASSUME TypingAssumption == Keys \subseteq KeyNames /\ MaxHeld \in Nat /\ Backlog \in Nat

VARIABLES
    held,      \* the keys that are down
    caps,      \* whether the Caps Lock key sent an odd number of make codes
    blurred,   \* the modifiers of which one key went up while another stayed down
    wire,      \* the bytes not taken yet, each with what it completes
    shift,     \* static uint32_t shift
    reply,     \* what the last call returned: character and reboot
    prefixed,  \* history: the last byte taken was E0
    seen       \* history: the last key event whose bytes were all taken, or "part"

typingVars == <<held, caps, blurred, wire, shift, reply, prefixed, seen>>

Part == [kind |-> "part"]     \* the event a byte other than the last completes

(* The last byte of an event carries the event: the keys down, the blurred
   modifiers and the state of Caps Lock after it, and what is meant by it. *)
Bytes(codes, event) ==
    [k \in DOMAIN codes |->
        [data |-> codes[k], completes |-> IF k = Len(codes) THEN event ELSE Part]]

Down(modifier, keys) == KeysOf[modifier] \cap keys # {}

(* The character and the reboot that pressing a key means. *)
Meant(key, keys, capsOn) ==
    LET plain   == Meaning(key)[IF Down("CTL", keys) THEN 3 ELSE IF Down("SHIFT", keys) THEN 2 ELSE 1]
        letter  == key = "A" /\ ~Down("CTL", keys)
    IN [c |-> IF letter /\ capsOn THEN (IF plain = 97 THEN 65 ELSE 97) ELSE plain,
        reboot |-> key = "Delete" /\ Down("CTL", keys) /\ Down("ALT", keys)]

Silence == [c |-> NO, reboot |-> FALSE]

Event(keys, blurs, capsOn, meant) ==
    [kind |-> "event", keys |-> keys, blurred |-> blurs, caps |-> capsOn, meant |-> meant]

Init ==
    /\ held = {} /\ caps = FALSE /\ blurred = {} /\ wire = << >>
    /\ shift = {} /\ reply = Silence
    /\ prefixed = FALSE
    /\ seen = Event({}, {}, FALSE, Silence)

ModifiersOf(key) == {m \in Modifiers : key \in KeysOf[m]}

Send(codes, meant) ==
    /\ Len(wire) <= Backlog
    /\ wire' = wire \o Bytes(codes, Event(held', blurred', caps', meant))
    /\ UNCHANGED <<shift, reply, prefixed, seen>>

(* A key goes down.  Pause sends its whole sequence at once, as if released, and
   with Ctrl down it sends another key's code (Break). *)
PressKey(key) ==
    /\ key \notin held
    /\ Cardinality(held) < MaxHeld
    /\ ~(key = "Pause" /\ Down("CTL", held))
    /\ held' = held \cup ({key} \ {"Pause"})
    /\ caps' = IF key = "CapsLock" THEN ~caps ELSE caps
    /\ blurred' = blurred \ ModifiersOf(key)
    /\ Send(Make(key), Meant(key, held', caps))

(* The keyboard repeats the make code of a key that stays down. *)
RepeatKey(key) ==
    /\ key \in held
    /\ caps' = IF key = "CapsLock" THEN ~caps ELSE caps
    /\ blurred' = blurred \ ModifiersOf(key)
    /\ UNCHANGED held
    /\ Send(Make(key), Meant(key, held, caps))

ReleaseKey(key) ==
    /\ key \in held
    /\ held' = held \ {key}
    /\ blurred' = {m \in blurred \cup ModifiersOf(key) : Down(m, held')}
    /\ UNCHANGED caps
    /\ Send(Break(key), Silence)

(* One call of kbd_proc_data that finds a byte. *)
TakeByte ==
    /\ wire # << >>
    /\ LET r == kbd_proc_data(shift, Head(wire).data) IN
       /\ shift' = r.shift
       /\ reply' = [c |-> r.c, reboot |-> r.reboot]
    /\ prefixed' = (Head(wire).data = E0)
    /\ seen' = Head(wire).completes
    /\ wire' = Tail(wire)
    /\ UNCHANGED <<held, caps, blurred>>

Next ==
    \/ \E key \in Keys : PressKey(key) \/ RepeatKey(key) \/ ReleaseKey(key)
    \/ TakeByte

Spec == Init /\ [][Next]_typingVars

-----------------------------------------------------------------------------
TypeOK ==
    /\ held \subseteq Keys
    /\ caps \in BOOLEAN
    /\ Len(wire) <= Backlog + 6 /\ \A k \in DOMAIN wire : wire[k].data \in Byte
    /\ blurred \subseteq Modifiers /\ shift \subseteq Flags
    /\ reply.c \in Byte /\ reply.reboot \in BOOLEAN
    /\ prefixed \in BOOLEAN
    /\ seen.kind \in {"part", "event"}

AtEvent == seen.kind = "event"

(* Between two key events no modifier is stuck: a flag is set only while a key
   that stands for it is down, whatever other keys, prefixes, fake shifts and
   Pause sequences were sent meanwhile. *)
NoStuckModifier ==
    AtEvent => \A m \in Modifiers : m \in shift => Down(m, seen.keys)

(* No modifier is forgotten while a key that stands for it is down, unless
   another key that stands for it went up since: Shift, Ctrl and Alt have two
   keys each but the driver has one flag, which the first release clears. *)
NoLostModifier ==
    AtEvent => \A m \in Modifiers : Down(m, seen.keys) /\ m \notin seen.blurred => m \in shift

(* Caps Lock changes with each make code of its key, a repeat's included, and
   with no other byte: the code 58 of another key's sequence or release would
   turn it over. *)
CapsFollows == AtEvent => (("CAPSLOCK" \in shift) <=> seen.caps)

(* A key gives the character printed on it: the digit or the capital under
   Shift, the other case under Caps Lock for letters only, the control code
   under Ctrl; a release and a modifier give none, and neither does any byte
   that is not its sequence's last: a prefix, the fake Shift of Print Screen,
   the Ctrl within Pause.  Left out are events while one of a modifier's keys
   went up and another stays down (blurred): the driver's one flag is clear
   then, and the character is the one without that modifier. *)
RightCharacter ==
    /\ AtEvent /\ seen.blurred = {} => reply.c = seen.meant.c
    /\ ~AtEvent => reply.c = NO

(* The machine restarts when Delete is pressed with Ctrl and Alt down, and at
   no other byte: not for the keypad's key, whose code differs by its prefix,
   nor for a chord whose Ctrl or Alt is up again. *)
RebootOnlyByChord ==
    /\ reply.reboot => AtEvent /\ seen.meant.reboot
    /\ AtEvent /\ seen.blurred = {} /\ seen.meant.reboot => reply.reboot

(* The driver remembers a prefix exactly as long as the code it belongs to is
   incomplete: it never applies to another key. *)
PrefixRemembered == ("E0ESC" \in shift) <=> prefixed
=============================================================================
