----------------------------- MODULE FloppyIRQ ------------------------------
(***************************************************************************)
(* The wait for the floppy controller's interrupt in Kernel/Floppy.c: the  *)
(* counter IRQReceived, counted up by IRQHandler and down by WaitIRQ.  The *)
(* test of the counter, the hlt behind it and the load and the store that  *)
(* count it down are steps the handler can come between.  Nothing calls    *)
(* WaitIRQ yet and KMain has commented out Floppy_Setup; the driver here   *)
(* issues a command and then waits, as WaitIRQ's comment describes.        *)
(***************************************************************************)
EXTENDS Integers

CONSTANTS
    Width,       \* values of a char: 256
    MaxCommands, \* bound of the model: commands issued, each raises an IRQ
    Ahead        \* commands the driver issues before it waits for the first

ASSUME WidthAssumption ==
    /\ Width \in Nat /\ Width > 0 /\ Width % 2 = 0
    /\ MaxCommands \in Nat
    /\ Ahead \in Nat

VARIABLES
    IRQReceived,
    pc,      \* where the driver is
    loaded,  \* the register the counter is counted down in
    issued,  \* commands issued
    raised,  \* interrupts that have been handled
    returned \* calls of WaitIRQ that have returned

irqVars == <<IRQReceived, pc, loaded, issued, raised, returned>>

Half == Width \div 2

\* char is signed.
Char(n) == ((n + Half) % Width) - Half

\* Floppy_Setup
IRQInit ==
    /\ IRQReceived = 0
    /\ pc = "idle" /\ loaded = 0
    /\ issued = 0 /\ raised = 0 /\ returned = 0

-----------------------------------------------------------------------------

\* The driver may issue several commands before it waits.
Command ==
    /\ pc = "idle"
    /\ issued < MaxCommands /\ issued - returned < Ahead
    /\ issued' = issued + 1
    /\ UNCHANGED <<IRQReceived, pc, loaded, raised, returned>>

Wait ==
    /\ pc = "idle" /\ returned < issued
    /\ pc' = "test"
    /\ UNCHANGED <<IRQReceived, loaded, issued, raised, returned>>

\* Mutants of Test: it lets a count of zero through; it waits for two.
TestNegative ==
    /\ pc = "test"
    /\ pc' = IF IRQReceived < 0 THEN "hlt" ELSE "load"
    /\ UNCHANGED <<IRQReceived, loaded, issued, raised, returned>>

TestTwo ==
    /\ pc = "test"
    /\ pc' = IF IRQReceived <= 1 THEN "hlt" ELSE "load"
    /\ UNCHANGED <<IRQReceived, loaded, issued, raised, returned>>

\* while (IRQReceived <= 0)
Test ==
    /\ pc = "test"
    /\ pc' = IF IRQReceived <= 0 THEN "hlt" ELSE "load"
    /\ UNCHANGED <<IRQReceived, loaded, issued, raised, returned>>

Halt ==
    /\ pc = "hlt"
    /\ pc' = "halted"
    /\ UNCHANGED <<IRQReceived, loaded, issued, raised, returned>>

LoadCount ==
    /\ pc = "load"
    /\ loaded' = IRQReceived
    /\ pc' = "store"
    /\ UNCHANGED <<IRQReceived, issued, raised, returned>>

StoreCount ==
    /\ pc = "store"
    /\ IRQReceived' = Char(loaded - 1)
    /\ pc' = "idle"
    /\ returned' = returned + 1
    /\ UNCHANGED <<loaded, issued, raised>>

WaitIRQ == Test \/ Halt \/ LoadCount \/ StoreCount

\* Any interrupt ends a hlt.
Wake == pc' = IF pc = "halted" THEN "test" ELSE pc

\* The controller answers a command.
IRQHandler ==
    /\ raised < issued
    /\ raised' = raised + 1
    /\ IRQReceived' = Char(IRQReceived + 1)
    /\ Wake
    /\ UNCHANGED <<loaded, issued, returned>>

\* The timer's interrupt.
Tick ==
    /\ pc = "halted"
    /\ pc' = "test"
    /\ UNCHANGED <<IRQReceived, loaded, issued, raised, returned>>

IRQNext == Command \/ Wait \/ WaitIRQ \/ IRQHandler \/ Tick

IRQSpec ==
    /\ IRQInit /\ [][IRQNext]_irqVars
    /\ WF_irqVars(WaitIRQ) /\ WF_irqVars(IRQHandler) /\ WF_irqVars(Tick)

-----------------------------------------------------------------------------

\* WaitIRQ never returns without an interrupt of its own, also when the counter
\* has wrapped or an interrupt came while it was counted down (Floppy.c:88-95).
OneInterruptEach == returned <= raised

NotStuck == pc # "idle" ~> pc = "idle"

\* WaitIRQ "helps to ensure that we don't get stuck waiting for an interrupt that
\* has already happened" (Floppy.c:85-86).  It keeps that, the race between the
\* test and the hlt included, for a driver that waits for each command before
\* the next; with two in flight the handler may count up between the load and
\* the store of IRQReceived--, and its interrupt is lost (Floppy.c:90-94).
SoloNotStuck == [](issued - returned <= 1) => NotStuck
=============================================================================
