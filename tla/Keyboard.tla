------------------------------ MODULE Keyboard ------------------------------
(***************************************************************************)
(* The kernel's main loop (KMain in Kernel/Kernel.c) reading key events    *)
(* with Keyboard_GetEvent of Kernel/Keyboard.c, interrupted anywhere by    *)
(* the keyboard handler and by the timer.  The event is copied and cleared *)
(* one byte at a time with interrupts on: every read and every store of a  *)
(* field is a step of its own, and so are the test of Ready and the hlt    *)
(* behind it.                                                              *)
(***************************************************************************)
EXTENDS KeyboardDriver

CONSTANTS
    LeftShift,  \* selects Shutdown over Reboot
    Escape      \* scancode 1

ASSUME ActionKeys == LeftShift \in HoldCodes /\ Escape \in PlainCodes

VARIABLES
    pc,     \* where the main loop is
    i,      \* the field Keyboard_GetEvent is at
    Event,  \* its static copy
    acted,  \* the event the main loop last took its State from (history)
    overlap \* an event was stored while one was being copied (history)

vars == <<driverVars, pc, i, Event, acted, overlap>>

Init ==
    /\ DriverInit
    /\ pc = "test" /\ i = 1
    /\ Event = Cleared
    /\ acted = 0 /\ overlap = FALSE

\* What a stamped field holds.  Zero bytes: no key, up, no character.
Pressed(e) == e.State # 0 /\ ~ events[e.State].up
EscapeCode(e) ==
    /\ e.Keycode # 0 /\ events[e.Keycode].code = Escape
    /\ e.Extended = 0 \/ ~ events[e.Extended].extended

-----------------------------------------------------------------------------
(* Keyboard_GetEvent *)

\* Mutant of TestReady: Ready is looked at in the copy.
TestReadyOfCopy ==
    /\ pc = "test"
    /\ pc' = IF Event.Ready = 0 THEN "hlt" ELSE "read"
    /\ i' = 1
    /\ UNCHANGED <<driverVars, Event, acted, overlap>>

\* while (!PreviousEvent.Ready) asm volatile("hlt");
TestReady ==
    /\ pc = "test"
    /\ pc' = IF PreviousEvent.Ready = 0 THEN "hlt" ELSE "read"
    /\ i' = 1
    /\ UNCHANGED <<driverVars, Event, acted, overlap>>

Halt ==
    /\ pc = "hlt"
    /\ pc' = "halted"
    /\ UNCHANGED <<driverVars, i, Event, acted, overlap>>

ReadField ==
    /\ pc = "read"
    /\ Event' = [Event EXCEPT ![Fields[i]] = PreviousEvent[Fields[i]]]
    /\ pc' = "clear"
    /\ UNCHANGED <<driverVars, i, acted, overlap>>

\* Mutants of ClearField: the field is not cleared; i leaves the event.
ClearNothing ==
    /\ pc = "clear"
    /\ IF i = Len(Fields) THEN pc' = "act" /\ UNCHANGED i
       ELSE pc' = "read" /\ i' = i + 1
    /\ UNCHANGED <<driverVars, Event, acted, overlap>>

ClearField ==
    /\ pc = "clear"
    /\ PreviousEvent' = [PreviousEvent EXCEPT ![Fields[i]] = Zero(Fields[i])]
    /\ IF i = Len(Fields) THEN pc' = "act" /\ UNCHANGED i
       ELSE pc' = "read" /\ i' = i + 1
    /\ UNCHANGED <<device, Modifiers, events, Event, acted, overlap>>

\* The body of the main loop.
Act ==
    /\ pc = "act"
    /\ acted' = IF Event.State # 0 THEN Event.State ELSE acted
    /\ pc' = IF ~ (Pressed(Event) /\ EscapeCode(Event)) THEN "test"
             ELSE IF LeftShift \in Event.Modifiers THEN "shutdown"
             ELSE "reboot"
    /\ UNCHANGED <<driverVars, i, Event, overlap>>

Main == TestReady \/ Halt \/ ReadField \/ ClearField \/ Act

-----------------------------------------------------------------------------

On == pc \notin {"shutdown", "reboot"}

\* Mutant of Wake: Ready is tested once, with if in place of while.
WakeToRead == pc' = IF pc = "halted" THEN "read" ELSE pc

\* An interrupt ends the hlt.
Wake == pc' = IF pc = "halted" THEN "test" ELSE pc

Handle ==
    /\ On
    /\ Keyboard_Handler
    /\ Wake
    /\ overlap' = (overlap \/ (pc \in {"read", "clear"} /\ events' # events))
    /\ UNCHANGED <<i, Event, acted>>

\* The timer's interrupt, which has no handler of its own (IRQ 0 is unmasked
\* and InterruptHandlers[0] is null).
Tick ==
    /\ pc = "halted"
    /\ pc' = "test"
    /\ UNCHANGED <<driverVars, i, Event, acted, overlap>>

Device ==
    /\ On
    /\ Deliver \/ \E k \in Keys : Stroke(k)
    /\ UNCHANGED <<pc, i, Event, acted, overlap>>

Next == Main \/ Handle \/ Tick \/ Device

\* The processor executes the main loop, and the timer keeps ticking.
Fairness == WF_vars(Main) /\ WF_vars(Tick)

Spec == Init /\ [][Next]_vars /\ Fairness
-----------------------------------------------------------------------------

\* No event that was stored is acted on twice, and none after a later one,
\* wherever the handler interrupts the copy (Keyboard.c:161-165 clears each byte
\* in a second step, after it has copied it).  A movement whose byte the handler
\* reads twice is stored, and acted on, as two events.
ActedOnceInOrder == pc = "act" /\ Event.State # 0 => Event.State > acted

\* A torn event is an older front and a newer back: no field is of an earlier
\* event than a field before it.
TornForward ==
    pc = "act" =>
        \A f, g \in 1 .. 5 : f < g =>
            LET a == Event[Fields[f]]  b == Event[Fields[g]] IN
            a = 0 \/ b = 0 \/ a <= b

\* As long as no event was stored in the middle of a copy, the main loop acts
\* on whole events, never on one that is empty or half read.
WholeUnlessOverlapped ==
    pc = "act" /\ ~ overlap =>
        \A f \in Stamped : Event[f] = Event.Ready /\ Event[f] # 0

\* The bytes of a movement, each of which is at most one event.
MaxEvents == 4 * MaxStrokes

\* The State of an event that is stored is acted on, or that of a later one, also
\* when it arrives between the test of Ready and the hlt (Keyboard.c:160): the
\* timer ends that hlt.  The exception is an event stored between the copy of
\* State and its clearing (Keyboard.c:163-164): that clears the State of an event
\* that was never copied.
PendingServed ==
    \A e \in 1 .. MaxEvents :
        PreviousEvent.State = e /\ ~ (pc = "clear" /\ Fields[i] = "State")
            ~> acted >= e \/ ~ On
=============================================================================
