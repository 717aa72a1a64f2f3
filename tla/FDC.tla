-------------------------------- MODULE FDC ---------------------------------
(***************************************************************************)
(* The floppy driver of the previous tree, Old/.../BootloaderStage2/FDC.c, *)
(* and the controller and drive it commands.  The driver is one thread     *)
(* that polls the FIFO, waits for IRQ 6 with a flag and a hlt, repeats a   *)
(* seek until it sees the cylinder it asked for, and resets the controller *)
(* when it has repeated it TimeoutLimit times.  The sector's bytes go by   *)
(* channel 2 of the DMA controller, set up once; only its direction is set *)
(* for each transfer.                                                      *)
(***************************************************************************)
EXTENDS Integers, DMA

CONSTANTS
    TimeoutLimit, \* repetitions of a seek before a panic; 500 in the code
    TimeoutWrap,  \* values of an unsigned short; 65536 in the code
    Requests      \* the sectors ReadLBA and WriteLBA are called with

ASSUME TimeoutAssumption ==
    /\ TimeoutLimit \in Nat /\ TimeoutWrap \in Nat
    /\ TimeoutLimit < TimeoutWrap

ASSUME RequestsAssumption ==
    Requests \subseteq Nat /\ \A lba \in Requests : lba < 65536

VARIABLES
    pc,          \* where the driver is
    resume,      \* where WaitIRQ returns to
    IRQReceived,
    Timeout,
    read,        \* the cylinder the last SenseInterrupt read
    call,        \* ReadWrite and LBA of the last call that got past its test
    line,        \* IRQ 6 waits at the interrupt controller
    fdc,         \* the controller
    drive,       \* the drive, the buffer and the sectors written
    dma          \* its channel of the DMA controller

vars == <<pc, resume, IRQReceived, Timeout, read, call, line, fdc, drive, dma>>

SectorCount == 2880

\* Mutant of LBA2CHS: the head changes one sector early.
LBA2CHSEarly(lba) ==
    [C |-> lba \div 36, H |-> (lba % 36) \div 17, S |-> ((lba % 36) % 18) + 1]

LBA2CHS(lba) ==
    [C |-> lba \div 36, H |-> (lba % 36) \div 18, S |-> ((lba % 36) % 18) + 1]

\* The sector the drive finds at an address; none outside the disk.
OnDisk(chs) == chs.C \in 0 .. 79 /\ chs.H \in 0 .. 1 /\ chs.S \in 1 .. 18
SectorAt(chs) == (chs.C * 2 + chs.H) * 18 + chs.S - 1

Cylinders == {0} \cup {LBA2CHS(lba).C : lba \in {r \in Requests : r < SectorCount}}
NoSector == -1

\* The driver's target, a function of the arguments of its call.
Target == LBA2CHS(call.lba)

\* The loader has just been entered: no command is under way.
Init ==
    /\ pc = "start" /\ resume = "idle"
    /\ IRQReceived = 0 /\ Timeout = 0 /\ read = 0
    /\ call = [write |-> FALSE, lba |-> 0]
    /\ line = FALSE
    /\ fdc = [busy |-> "no", pending |-> FALSE, polled |-> 0, results |-> 0]
    /\ drive = [motor |-> FALSE, cylinder |-> 0, buffer |-> NoSector,
                wrote |-> {}, outcome |-> "none", panicked |-> FALSE]
    /\ dma = BiosChannel

-----------------------------------------------------------------------------
(* The controller and the drive. *)

\* The FIFO takes the bytes of a command: no command runs, no result is left.
Accepts == fdc.busy # "transfer" /\ fdc.results = 0

Issue(busy) == fdc' = [fdc EXCEPT !.busy = busy]

\* A seek ends, on the cylinder or beside it.
SeekEnds ==
    /\ fdc.busy = "seek"
    /\ \E c \in Cylinders : drive' = [drive EXCEPT !.cylinder = c]
    /\ fdc' = [fdc EXCEPT !.busy = "no", !.pending = TRUE]
    /\ line' = TRUE
    /\ UNCHANGED <<pc, resume, IRQReceived, Timeout, read, call, dma>>

\* The sector is found and the channel carries all of it.
Moves ==
    /\ drive.motor /\ drive.cylinder = Target.C /\ OnDisk(Target)
    /\ CarriesSector(dma, call.write) /\ ~ dma.midway
    /\ LET sector == SectorAt(Target) IN
       drive' = IF call.write
                THEN [drive EXCEPT !.outcome = "moved", !.wrote = @ \cup {sector}]
                ELSE [drive EXCEPT !.outcome = "moved", !.buffer = sector]
    /\ UNCHANGED dma

\* The drive does not turn, or does not find or cannot read the sector. The
\* channel stays where the bytes stopped.
Errs ==
    /\ drive' \in {[drive EXCEPT !.outcome = "failed", !.buffer = b] :
                     b \in {drive.buffer} \cup IF call.write THEN {} ELSE {NoSector}}
    /\ \E midway \in BOOLEAN : dma' = [dma EXCEPT !.midway = midway]

\* The channel starts in the middle and is at its end, where it reloads
\* itself, before the sector is.
Misplaces ==
    /\ drive.motor /\ drive.cylinder = Target.C /\ OnDisk(Target)
    /\ dma.midway
    /\ drive' = [drive EXCEPT !.outcome = "misplaced",
                              !.buffer = IF call.write THEN @ ELSE NoSector]
    /\ dma' = [dma EXCEPT !.midway = FALSE]

\* A transfer ends. With the motor off a drive may also never answer, which is
\* left out.
TransferEnds ==
    /\ fdc.busy = "transfer"
    /\ Moves \/ Errs \/ Misplaces
    /\ fdc' = [fdc EXCEPT !.busy = "no", !.pending = TRUE, !.results = 7]
    /\ line' = TRUE
    /\ UNCHANGED <<pc, resume, IRQReceived, Timeout, read, call>>

\* A reset ends: its interrupt has one status for each of four drives.
ResetEnds ==
    /\ fdc.busy = "reset"
    /\ fdc' = [fdc EXCEPT !.busy = "no", !.pending = TRUE, !.polled = 4]
    /\ line' = TRUE
    /\ UNCHANGED <<pc, resume, IRQReceived, Timeout, read, call, drive, dma>>

\* IRQHandler, with the interrupt that ends a hlt.
IRQHandler ==
    /\ line
    /\ line' = FALSE
    /\ IRQReceived' = 1
    /\ pc' = IF pc = "halted" THEN "wait" ELSE pc
    /\ UNCHANGED <<resume, Timeout, read, call, fdc, drive, dma>>

\* The timer's interrupt, which no handler is registered for, ends a hlt too.
Tick ==
    /\ pc = "halted"
    /\ pc' = "wait"
    /\ UNCHANGED <<resume, IRQReceived, Timeout, read, call, line, fdc, drive, dma>>

-----------------------------------------------------------------------------
(* WaitIRQ and SenseInterrupt. *)

\* A call of WaitIRQ.
WaitThen(where) == pc' = "wait" /\ resume' = where

TestIRQ ==
    /\ pc = "wait"
    /\ pc' = IF IRQReceived = 0 THEN "hlt" ELSE "clear"
    /\ UNCHANGED <<resume, IRQReceived, Timeout, read, call, line, fdc, drive, dma>>

\* An interrupt that comes before the hlt does not end it.
Halt ==
    /\ pc = "hlt"
    /\ pc' = "halted"
    /\ UNCHANGED <<resume, IRQReceived, Timeout, read, call, line, fdc, drive, dma>>

\* Mutant of ClearIRQ: the flag stays up.
ClearIRQForgotten ==
    /\ pc = "clear"
    /\ pc' = resume
    /\ UNCHANGED <<IRQReceived, resume, Timeout, read, call, line, fdc, drive, dma>>

ClearIRQ ==
    /\ pc = "clear"
    /\ IRQReceived' = 0
    /\ pc' = resume
    /\ UNCHANGED <<resume, Timeout, read, call, line, fdc, drive, dma>>

\* The controller's answer to SENSE_INTERRUPT, both bytes read. With nothing
\* to report it answers one byte, and the second read is no cylinder.
SenseInterrupt ==
    /\ Accepts
    /\ read' \in IF fdc.pending THEN {drive.cylinder} ELSE Cylinders
    /\ fdc' = LET left == IF fdc.polled > 0 THEN fdc.polled - 1 ELSE 0 IN
              [fdc EXCEPT !.polled = left, !.pending = left > 0]

-----------------------------------------------------------------------------
(* The driver. *)

\* FDC_Init: the DMA channel; LOCK, and its one result.
FDC_Init ==
    /\ pc = "start" /\ Accepts
    /\ IRQReceived' = 0
    /\ dma' = DMAInit(dma)
    /\ pc' = "idle"
    /\ UNCHANGED <<resume, Timeout, read, call, line, fdc, drive>>

\* ReadLBA and WriteLBA; MotorOn, and the first pass of Seek.
Call(write, lba) ==
    /\ pc = "idle" /\ lba < SectorCount
    /\ call' = [write |-> write, lba |-> lba]
    /\ drive' = [drive EXCEPT !.motor = TRUE, !.wrote = {}, !.outcome = "none"]
    /\ Timeout' = 0
    /\ pc' = "seek"
    /\ UNCHANGED <<resume, IRQReceived, read, line, fdc, dma>>

\* A sector past the disk is ignored.
CallIgnored(lba) ==
    /\ pc = "idle" /\ lba >= SectorCount
    /\ UNCHANGED vars

Seek ==
    /\ pc = "seek" /\ Accepts
    /\ Issue("seek")
    /\ WaitThen("sense")
    /\ UNCHANGED <<IRQReceived, Timeout, read, call, line, drive, dma>>

SenseSeek ==
    /\ pc = "sense"
    /\ SenseInterrupt
    /\ pc' = "count"
    /\ UNCHANGED <<resume, IRQReceived, Timeout, call, line, drive, dma>>

\* Mutant of CountTimeout: Timeout is set, not counted.
CountTimeoutStays ==
    /\ pc = "count"
    /\ Timeout' = 1 % TimeoutWrap
    /\ IF Timeout = TimeoutLimit
       THEN /\ Issue("reset")
            /\ drive' = [drive EXCEPT !.motor = FALSE, !.panicked = TRUE]
            /\ WaitThen("drain")
       ELSE pc' = "compare" /\ UNCHANGED <<resume, fdc, drive>>
    /\ UNCHANGED <<IRQReceived, read, call, line, dma>>

\* Timeout++ == 500; TimeoutPanic resets with the motor off.
CountTimeout ==
    /\ pc = "count"
    /\ Timeout' = (Timeout + 1) % TimeoutWrap
    /\ IF Timeout = TimeoutLimit
       THEN /\ Issue("reset")
            /\ drive' = [drive EXCEPT !.motor = FALSE, !.panicked = TRUE]
            /\ WaitThen("drain")
       ELSE pc' = "compare" /\ UNCHANGED <<resume, fdc, drive>>
    /\ UNCHANGED <<IRQReceived, read, call, line, dma>>

\* ResetController takes the status of four drives; each time it reads two
\* bytes more than there are. The cylinders go to variables of its own.
DrainReset ==
    /\ pc = "drain" /\ Accepts
    /\ fdc' = [fdc EXCEPT !.polled = 0, !.pending = FALSE]
    /\ pc' = "compare"
    /\ UNCHANGED <<resume, IRQReceived, Timeout, read, call, line, drive, dma>>

\* Mutant of Compare: a seek is never repeated.
CompareNever ==
    /\ pc = "compare"
    /\ pc' = "transfer"
    /\ UNCHANGED <<resume, IRQReceived, Timeout, read, call, line, fdc, drive, dma>>

\* while (cyl != Cylinder)
Compare ==
    /\ pc = "compare"
    /\ pc' = IF read # Target.C THEN "seek" ELSE "transfer"
    /\ UNCHANGED <<resume, IRQReceived, Timeout, read, call, line, fdc, drive, dma>>

\* The channel's direction; READ_DATA or WRITE_DATA with its parameters.
Transfer ==
    /\ pc = "transfer" /\ Accepts
    /\ dma' = IF call.write THEN DMAWrite(dma) ELSE DMARead(dma)
    /\ Issue("transfer")
    /\ WaitThen("result")
    /\ UNCHANGED <<IRQReceived, Timeout, read, call, line, drive>>

\* Seven bytes of result, which nothing looks at. Reading them takes the
\* interrupt back.
Results ==
    /\ pc = "result"
    /\ fdc' = [fdc EXCEPT !.results = 0, !.pending = FALSE]
    /\ pc' = "sense2"
    /\ UNCHANGED <<resume, IRQReceived, Timeout, read, call, line, drive, dma>>

\* The SenseInterrupt after a transfer, into variables nothing reads.
SenseTransfer ==
    /\ pc = "sense2"
    /\ SenseInterrupt
    /\ pc' = "off"
    /\ UNCHANGED <<resume, IRQReceived, Timeout, call, line, drive, dma>>

MotorOff ==
    /\ pc = "off"
    /\ drive' = [drive EXCEPT !.motor = FALSE]
    /\ pc' = "idle"
    /\ UNCHANGED <<resume, IRQReceived, Timeout, read, call, line, fdc, dma>>

WaitIRQ == TestIRQ \/ Halt \/ ClearIRQ

Driver ==
    \/ FDC_Init
    \/ Seek \/ SenseSeek \/ CountTimeout \/ DrainReset \/ Compare
    \/ Transfer \/ Results \/ SenseTransfer \/ MotorOff
    \/ WaitIRQ

Hardware == SeekEnds \/ TransferEnds \/ ResetEnds

Next ==
    \/ Driver \/ Hardware \/ IRQHandler \/ Tick
    \/ \E write \in BOOLEAN, lba \in Requests : Call(write, lba)
    \/ \E lba \in Requests : CallIgnored(lba)

Spec ==
    /\ Init /\ [][Next]_vars
    /\ WF_vars(Driver) /\ WF_vars(Hardware) /\ WF_vars(IRQHandler) /\ WF_vars(Tick)

-----------------------------------------------------------------------------

\* A wait is ended by the interrupt of the command it waits for, never by one
\* left from a command before it: what it goes on to read is there
\* (FDC.c:106-115 and its calls at 221, 264 and 358).
WaitsForItsOwn ==
    pc \in {"sense", "drain", "result"} =>
        /\ fdc.busy = "no" /\ fdc.pending /\ ~line
        /\ pc = "result" => fdc.results = 7
        /\ pc = "drain" => fdc.polled = 4

\* While a transfer runs the channel is set up for one sector at 0x7E00 in the
\* direction of the call, although it is set up only once and some of the writes
\* go to ports of other channels (FDC.c:124-151, 246); and as long as no seek has
\* run into its timeout the motor is on and the heads are on the sector's
\* cylinder (FDC.c:241-250). After TimeoutPanic the motor is off and a seek that
\* had just succeeded goes on to transfer (FDC.c:224-228).
ReadyToTransfer ==
    fdc.busy = "transfer" =>
        /\ CarriesSector(dma, call.write)
        /\ ~ drive.panicked => drive.motor /\ drive.cylinder = Target.C

\* The driver, from the polling of single bytes to the conversion of sector
\* numbers and the set-up of DMA, does what BlockDevice says: a call that returns
\* has had one transfer, which moved the sector asked for and no other unless it
\* failed, and a sector is misplaced only after a transfer that stopped halfway
\* (FDC.c:124-151, 235-308).
B == INSTANCE BlockDevice WITH
        Sectors <- {lba \in Requests : lba < SectorCount},
        busy <- pc \notin {"start", "idle"},
        outcome <- drive.outcome, buffer <- drive.buffer, wrote <- drive.wrote,
        midway <- dma.midway
ImplementsBlockDevice == B!BlockSpec

\* Every call returns or panics, as long as the controller raises its
\* interrupts; a hlt that just missed one ends with the timer's (FDC.c:109-113).
ReturnsOrPanics == pc = "seek" ~> (pc = "idle" \/ drive.panicked)
=============================================================================
