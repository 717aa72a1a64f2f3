--------------------------- MODULE KeyboardGetch ----------------------------
(***************************************************************************)
(* Keyboard_getch of Kernel/Keyboard.c called in a loop in place of        *)
(* Keyboard_GetEvent: it polls the fields of PreviousEvent where they are, *)
(* with interrupts on, so that each test, each read and the store into     *)
(* Ready is a step of its own.                                             *)
(***************************************************************************)
EXTENDS KeyboardDriver

CONSTANT TypingCodes  \* the codes the layout tables have a character for

ASSUME TypingAssumption == TypingCodes \subseteq PlainCodes

VARIABLES
    place,  \* where getch is
    c    \* the event the character in c is of, 0 for no character

getchVars == <<driverVars, place, c>>

GetchInit == DriverInit /\ place = "call" /\ c = 0

HasCharacter(e) == e # 0 /\ events[e].code \in TypingCodes
StateDown(e) == e # 0 /\ ~ events[e].up

Call ==
    /\ place = "call"
    /\ place' = "testChar" /\ c' = 0
    /\ UNCHANGED driverVars

\* The three conditions of the loop, tested in turn; all false leaves it.
TestChar ==
    /\ place = "testChar"
    /\ place' = IF HasCharacter(c) THEN "testState" ELSE "hlt"
    /\ UNCHANGED <<driverVars, c>>

TestState ==
    /\ place = "testState"
    /\ place' = IF StateDown(PreviousEvent.State) THEN "testReady" ELSE "hlt"
    /\ UNCHANGED <<driverVars, c>>

TestStillReady ==
    /\ place = "testReady"
    /\ place' = IF PreviousEvent.Ready # 0 THEN "return" ELSE "hlt"
    /\ UNCHANGED <<driverVars, c>>

GetchHalt == place = "hlt" /\ place' = "halted" /\ UNCHANGED <<driverVars, c>>

ReadCharacter ==
    /\ place = "woken"
    /\ c' = PreviousEvent.Character
    /\ place' = "clear"
    /\ UNCHANGED driverVars

\* Mutant of ClearReady: Ready is left as it is.
ClearReadyForgotten ==
    place = "clear" /\ place' = "testChar" /\ UNCHANGED <<driverVars, c>>

ClearReady ==
    /\ place = "clear"
    /\ PreviousEvent' = [PreviousEvent EXCEPT !.Ready = 0]
    /\ place' = "testChar"
    /\ UNCHANGED <<device, Modifiers, events, c>>

Return == place = "return" /\ place' = "call" /\ UNCHANGED <<driverVars, c>>

Getch == Call \/ TestChar \/ TestState \/ TestStillReady \/ GetchHalt \/ ReadCharacter
             \/ ClearReady \/ Return

WakeGetch == place' = IF place = "halted" THEN "woken" ELSE place

HandleInGetch == Keyboard_Handler /\ WakeGetch /\ UNCHANGED c

TickInGetch == place = "halted" /\ place' = "woken" /\ UNCHANGED <<driverVars, c>>

DeviceInGetch ==
    /\ Deliver \/ \E k \in Keys : Stroke(k)
    /\ UNCHANGED <<place, c>>

GetchNext == Getch \/ HandleInGetch \/ TickInGetch \/ DeviceInGetch

GetchSpec == GetchInit /\ [][GetchNext]_getchVars /\ WF_getchVars(Getch) /\ WF_getchVars(TickInGetch)

-----------------------------------------------------------------------------

\* getch never answers a single event: it clears Ready before it tests it, so
\* the event whose character it returns is never the one whose Ready lets it
\* return, and at least two events have been stored (Keyboard.c:172-181).
AnswersAnEarlierEvent ==
    place = "return" => HasCharacter(c) /\ \E e \in DOMAIN events : e > c
=============================================================================
