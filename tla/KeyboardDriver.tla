--------------------------- MODULE KeyboardDriver ---------------------------
(***************************************************************************)
(* The keyboard, its controller and the interrupt handler of               *)
(* src/RedFox32/Source/Kernel/Keyboard.c.  The handler runs with           *)
(* interrupts off, so a run of it is one action; the reader of the event   *)
(* it leaves in PreviousEvent is in Keyboard (Keyboard_GetEvent) and in    *)
(* KeyboardGetch (Keyboard_getch).                                         *)
(*                                                                         *)
(* A scancode is a record: a code and whether the release bit 0x80 is set. *)
(* Two keys may send the same code, as left and right control do.  Every   *)
(* field of PreviousEvent holds the number of the event it was stored by,  *)
(* 0 once it is cleared, and events has what the handler wrote for each    *)
(* number; so fields of different events are told apart.  Modifiers is the *)
(* set of the codes whose bit is set.                                      *)
(***************************************************************************)
EXTENDS Integers, Sequences

CONSTANTS
    HoldCodes,    \* the codes of control, the shifts, alt and the menu keys
    LockCodes,    \* of caps, num and scroll lock
    PlainCodes,   \* every other code
    ShiftCodes,   \* the hold codes that select KeyboardLayoutCaps
    CapsLock,     \* the lock code that does
    Keys,         \* the keys of the keyboard
    Code,         \* the code of each key
    ExtendedKeys, \* the keys whose codes follow an 0xE0
    FakeCodes,    \* the shifts a keyboard presses or releases by itself around
                  \* an extended key (E0 2A and E0 AA, of Print Screen and others)
    MaxStrokes    \* bound of the model: key movements

Codes == HoldCodes \cup LockCodes \cup PlainCodes

ASSUME KeyAssumption ==
    /\ ShiftCodes \subseteq HoldCodes /\ CapsLock \in LockCodes
    /\ FakeCodes \subseteq HoldCodes
    /\ Code \in [Keys -> Codes]
    /\ ExtendedKeys \subseteq Keys
    /\ HoldCodes \cap LockCodes = {}
    /\ (HoldCodes \cup LockCodes) \cap PlainCodes = {}
    /\ {"0x60", "0x7A"} \cap Codes = {}
    /\ MaxStrokes \in Nat

Scancode == [code : Codes \cup {"0x60", "0x7A"}, up : BOOLEAN]

\* 0xE0 and the keyboard's 0xFA, as the handler decodes them when it takes
\* them for the code of a key.
E0 == [code |-> "0x60", up |-> TRUE]
ACK == [code |-> "0x7A", up |-> TRUE]
KEY_CAPS_IGNORE == "0x7A"

VARIABLES
    held,          \* keys that are down
    strokes,       \* key movements so far
    wire,          \* bytes the keyboard has still to hand over
    out,           \* the controller's output buffer: at most one byte
    latch,         \* what port 0x60 reads as when the buffer is empty
    irq,           \* IRQ 1 is latched in the interrupt controller
    leds,          \* the lock lights of the keyboard
    pressed,       \* the hold codes the keyboard last sent without 0x80 (history)
    missed,        \* those of which UpdateLEDS threw the last one away (history)
    Modifiers,     \* the global Modifiers
    PreviousEvent, \* the global PreviousEvent
    events         \* what each event stored was made of

device == <<held, strokes, wire, out, latch, irq, leds, pressed,
            missed>>
driverVars == <<device, Modifiers, PreviousEvent, events>>

\* The fields in the order of their bytes; the two bytes of Keycode are its
\* scancode and the 0x0E of an extended key.  Modifiers has its own value.
Fields == <<"Ready", "Keycode", "Extended", "Character", "State", "Modifiers">>
Stamped == {"Ready", "Keycode", "Extended", "Character", "State"}

Slot ==
    [Ready : Nat, Keycode : Nat, Extended : Nat, Character : Nat, State : Nat,
     Modifiers : SUBSET Codes]

Zero(f) == IF f = "Modifiers" THEN {} ELSE 0

Cleared ==
    [Ready |-> 0, Keycode |-> 0, Extended |-> 0, Character |-> 0, State |-> 0,
     Modifiers |-> {}]

DriverInit ==
    /\ held = {} /\ strokes = 0
    /\ wire = <<ACK, ACK>>     \* Keyboard_Setup has set the lights
    /\ out = <<>> /\ latch = ACK /\ irq = FALSE
    /\ leds = {} /\ pressed = {} /\ missed = {}
    /\ Modifiers = {}
    /\ PreviousEvent = Cleared
    /\ events = <<>>

-----------------------------------------------------------------------------
(* The keyboard and its controller (outside the repository) *)

Sends(q, h) == \E j \in DOMAIN q : q[j].code = h

\* The last code h among the bytes q, if there is one, is of a press.
EndsPressed(q, h) ==
    \E j \in DOMAIN q :
        /\ q[j].code = h /\ ~ q[j].up
        /\ \A n \in DOMAIN q : n > j => q[n].code # h

\* What the keyboard may put before the code of an extended key that goes down,
\* and behind the code of one that goes up.
Fakes(k) ==
    {<<>>} \cup
    IF k \in ExtendedKeys
    THEN {<<E0, [code |-> h, up |-> u]>> : h \in FakeCodes, u \in BOOLEAN}
    ELSE {}

\* A key is pressed or released.
Stroke(k) ==
    /\ strokes < MaxStrokes
    /\ strokes' = strokes + 1
    /\ held' = IF k \in held THEN held \ {k} ELSE held \cup {k}
    /\ \E fake \in Fakes(k) :
          LET code == <<[code |-> Code[k], up |-> k \in held]>>
              own == IF k \in ExtendedKeys THEN <<E0>> \o code ELSE code
              bytes == IF k \in held THEN own \o fake ELSE fake \o own
          IN /\ wire' = wire \o bytes
             /\ pressed' = {h \in HoldCodes :
                               IF Sends(bytes, h) THEN EndsPressed(bytes, h)
                               ELSE h \in pressed}
             /\ missed' = {h \in missed : ~ Sends(bytes, h)}
    /\ UNCHANGED <<out, latch, irq, leds, Modifiers, PreviousEvent, events>>

\* The next byte reaches the output buffer and raises IRQ 1.
Deliver ==
    /\ wire # <<>> /\ out = <<>>
    /\ out' = <<Head(wire)>>
    /\ wire' = Tail(wire)
    /\ irq' = TRUE
    /\ UNCHANGED <<held, strokes, latch, leds, pressed, missed, Modifiers,
                   PreviousEvent, events>>

-----------------------------------------------------------------------------
(* Keyboard_Handler *)

Shifted(mods) == (mods \cap ShiftCodes # {}) # (CapsLock \in mods)

\* A modifier key also rewrites the modifiers of the event not yet read.
UpdateEventModifiers ==
    PreviousEvent' = [PreviousEvent EXCEPT !.Modifiers = Modifiers']

\* Scancodes that arrive while the controller is busy are read and dropped;
\* the keyboard acknowledges both bytes it is sent.
UpdateLEDS(b, rest, again) ==
    /\ \E n \in 0 .. Len(rest) :
          /\ wire' = SubSeq(rest, n + 1, Len(rest)) \o <<ACK, ACK>>
          /\ latch' = IF n = 0 THEN b ELSE rest[n]
          /\ irq' \in {again, again \/ n > 0}
          /\ missed' = missed \cup
                 {h \in HoldCodes : /\ Sends(SubSeq(rest, 1, n), h)
                                   /\ ~ Sends(SubSeq(rest, n + 1, Len(rest)), h)}
    /\ leds' = Modifiers' \cap LockCodes

\* Keyboard_Handler from the point where it has read the scancode b; rest is
\* what the keyboard has left to send and again whether IRQ 1 is latched anew.

\* Mutant of HoldKey: the bit is toggled, as for the lock keys.
HoldKeyToggles(b, rest, again) ==
    /\ b.code \in HoldCodes
    /\ Modifiers' = IF b.code \in Modifiers THEN Modifiers \ {b.code}
                    ELSE Modifiers \cup {b.code}
    /\ UpdateEventModifiers
    /\ wire' = rest /\ latch' = b /\ irq' = again
    /\ UNCHANGED <<leds, missed, events>>

HoldKey(b, rest, again) ==
    /\ b.code \in HoldCodes
    /\ Modifiers' = IF b.up THEN Modifiers \ {b.code}
                    ELSE Modifiers \cup {b.code}
    /\ UpdateEventModifiers
    /\ wire' = rest /\ latch' = b /\ irq' = again
    /\ UNCHANGED <<leds, missed, events>>

LockKey(b, rest, again) ==
    /\ b.code \in LockCodes
    /\ Modifiers' = IF ~ b.up THEN Modifiers
                    ELSE IF b.code \in Modifiers THEN Modifiers \ {b.code}
                    ELSE Modifiers \cup {b.code}
    /\ UpdateLEDS(b, rest, again)
    /\ UpdateEventModifiers
    /\ UNCHANGED events

IgnoredKey(b, rest, again) ==
    /\ b.code = KEY_CAPS_IGNORE
    /\ wire' = rest /\ latch' = b /\ irq' = again
    /\ UNCHANGED <<leds, missed, Modifiers, PreviousEvent, events>>

\* Mutant of RegularKey: an extended key leaves Character as it is.
RegularKeyKeepsCharacter(b, extended, rest, again) ==
    /\ b.code \in PlainCodes \cup {E0.code}
    /\ events' = Append(events,
           [code |-> b.code, extended |-> extended, up |-> b.up,
            caps |-> Shifted(Modifiers)])
    /\ LET e == Len(events) + 1 IN
       PreviousEvent' =
           [Ready |-> e, Keycode |-> e, Extended |-> e,
            Character |-> IF extended THEN PreviousEvent.Character ELSE e,
            State |-> e, Modifiers |-> Modifiers]
    /\ wire' = rest /\ latch' = b /\ irq' = again
    /\ UNCHANGED <<leds, missed, Modifiers>>

\* The only slot for an event is written over, whether or not it was read.
RegularKey(b, extended, rest, again) ==
    /\ b.code \in PlainCodes \cup {E0.code}
    /\ events' = Append(events,
           [code |-> b.code, extended |-> extended, up |-> b.up,
            caps |-> Shifted(Modifiers)])
    /\ LET e == Len(events) + 1 IN
       PreviousEvent' = [Ready |-> e, Keycode |-> e, Extended |-> e,
                         Character |-> e, State |-> e, Modifiers |-> Modifiers]
    /\ wire' = rest /\ latch' = b /\ irq' = again
    /\ UNCHANGED <<leds, missed, Modifiers>>

Decode(b, extended, rest, again) ==
    \/ HoldKey(b, rest, again)
    \/ LockKey(b, rest, again)
    \/ IgnoredKey(b, rest, again)
    \/ RegularKey(b, extended, rest, again)

\* Port 0x60: the byte in the buffer, or the last one again.
PortByte == IF out = <<>> THEN latch ELSE out[1]

\* Behind an 0xE0 the handler reads the port once more without asking whether
\* the next byte has arrived: it gets the next scancode, whose interrupt then
\* may or may not still be latched, or the 0xE0 a second time.
Keyboard_Handler ==
    /\ irq
    /\ out' = <<>>
    /\ \/ PortByte # E0 /\ Decode(PortByte, FALSE, wire, FALSE)
       \/ /\ PortByte = E0
          /\ \/ Decode(E0, TRUE, wire, FALSE)
             \/ /\ wire # <<>>
                /\ \E again \in BOOLEAN :
                      Decode(Head(wire), TRUE, Tail(wire), again)
    /\ UNCHANGED <<held, strokes, pressed>>
-----------------------------------------------------------------------------

\* Nothing the keyboard has sent is still under way.
Quiet == wire = <<>> /\ out = <<>> /\ ~ irq

SentBy(h) == {k \in Keys : Code[k] = h}

\* Once the keyboard is quiet the bit of a hold code says whether the last such
\* code the keyboard sent was of a press, however often the handler has read a
\* byte twice or missed that it followed an 0xE0, unless UpdateLEDS has thrown
\* that very code away.  For the keys: a bit is set only while a key with that
\* code is held, and the bit of a code that one key alone has is that key's.  The
\* bit of the two control keys, or alt keys, may be clear while one of them is
\* held, as Keyboard.c:54-57 and 90-93 do not tell them apart, and of the keys
\* behind a faked shift nothing is said (Keyboard.c:10-17, 52-104).
HoldKeysTracked ==
    Quiet => \A h \in HoldCodes \ missed :
        /\ h \in Modifiers <=> h \in pressed
        /\ h \notin FakeCodes =>
              /\ h \in Modifiers => SentBy(h) \cap held # {}
              /\ \A k \in Keys : SentBy(h) = {k} => (k \in held <=> h \in Modifiers)
=============================================================================
