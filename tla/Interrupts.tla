----------------------------- MODULE Interrupts -----------------------------
(***************************************************************************)
(* Interrupt set-up and delivery: KMain's setup calls (Kernel/Kernel.c),   *)
(* IDT_Setup, SetInterruptHandler and InterruptHandlerStub (Kernel/IDT.c)  *)
(* behind the entry stubs of Kernel/IDTA.asm, Syscalls_Setup, and the pair *)
(* of 8259 controllers they program, with the timer, the keyboard and a    *)
(* device on the second controller as sources.                             *)
(*                                                                         *)
(* All gates are interrupt gates, so a handler runs with interrupts off    *)
(* and the processor serves one interrupt at a time: serving.              *)
(***************************************************************************)
EXTENDS Integers, Sequences, PIC

CONSTANTS
    Lines,        \* IRQ lines that are raised, among them 0 and 1
    Spurious,     \* vectors a controller makes up when a line drops: 7, 15
    StubAddress   \* where the linker has put the entry stub of each ID

ASSUME LineAssumption ==
    /\ {0, 1} \subseteq Lines /\ Lines \subseteq (0 .. 15) \ {2}
    /\ Spurious \subseteq {7, 15}

SYSCALL == 128                     \* HANDLER_SYSCALLS
IDs == (0 .. 15) \cup {SYSCALL}

\* The kernel is linked at 0x2900 and ends well below 64 KiB.
ASSUME StubAssumption ==
    StubAddress \in [IDs -> Nat] /\ \A n \in IDs : StubAddress[n] < 65536

VARIABLES
    setup,      \* the next setup step of KMain, beyond Setup when it is done
    IFlag,      \* the processor's interrupt flag
    remapped,   \* the controllers deliver IRQ n as vector 32 + n
    gates,      \* the descriptors of the IDs: of vectors 32 + ID, and of 0x80
    loaded,     \* lidt has been executed
    InterruptHandlers,
    irr, isr,   \* lines latched; lines in service (2 for the second controller)
    serving,    \* the ID being served, with what is left to do
    obf,        \* the keyboard controller holds a byte nobody has read
    ticked      \* the timer has fired in this busy period

setupVars == <<setup, remapped, gates, loaded, InterruptHandlers>>
vars == <<setupVars, IFlag, irr, isr, serving, obf, ticked>>

SyscallSlot == 16                  \* IDT_SYSCALL_INTERRUPT_ID
None == [id |-> -1, todo |-> "none"]
Crashed == [id |-> -1, todo |-> "crashed"]

NullEntry == [OffsetLow |-> 0, OffsetHigh |-> 0, TypeAttributes |-> 0]

\* IDT_SetInterruptEntry, for the vectors it is called with, 32 and above. The
\* upper half is cast to sixteen bits before it is shifted down.
SetInterruptEntry(Func) ==
    [OffsetLow |-> Func % 65536,
     OffsetHigh |-> (((Func \div 65536) * 65536) % 65536) \div 65536,
     TypeAttributes |-> 142]

\* Through its gate the processor gets to the stub of an ID.
Leads(id) ==
    /\ gates[id].TypeAttributes = 142
    /\ gates[id].OffsetHigh * 65536 + gates[id].OffsetLow = StubAddress[id]

\* Mutants of Setup: interrupts are enabled before the keyboard has its
\* handler; before the gates are loaded.
EnableBeforeKeyboard ==
    <<"DisableInterrupts", "IDT_InitializePIC", "NullHandlers", "NullGates",
      "SetGates", "SetSyscallGate", "SetIDT", "Syscalls_Setup", "UpdateLEDS",
      "EnableInterrupts", "Keyboard_Setup">>

EnableBeforeGates ==
    <<"DisableInterrupts", "IDT_InitializePIC", "NullHandlers",
      "EnableInterrupts", "NullGates", "SetGates", "SetSyscallGate", "SetIDT",
      "Syscalls_Setup", "UpdateLEDS", "Keyboard_Setup">>

\* The steps of IDT_Setup, Syscalls_Setup, Keyboard_Setup and
\* EnableInterrupts, in the order KMain runs them.
Setup == <<"DisableInterrupts", "IDT_InitializePIC", "NullHandlers",
           "NullGates", "SetGates", "SetSyscallGate", "SetIDT",
           "Syscalls_Setup", "UpdateLEDS", "Keyboard_Setup",
           "EnableInterrupts">>

\* SetInterruptHandler
SetInterruptHandler(id, func) ==
    InterruptHandlers' =
        IF id < 16 THEN [InterruptHandlers EXCEPT ![id] = func]
        ELSE IF id = SYSCALL
        THEN [InterruptHandlers EXCEPT ![SyscallSlot] = func]
        ELSE InterruptHandlers

\* The boot loader has masked interrupts, the controllers still have the BIOS
\* vectors, and nothing has cleared the kernel's variables.
Init ==
    /\ setup = 1
    /\ IFlag = FALSE /\ remapped = FALSE /\ loaded = FALSE
    /\ gates = [id \in IDs |-> NullEntry]
    /\ InterruptHandlers = [n \in 0 .. SyscallSlot |-> "unset"]
    /\ irr = {} /\ isr = {} /\ serving = None
    /\ obf = FALSE /\ ticked = FALSE

-----------------------------------------------------------------------------
(* KMain *)

Running == setup > Len(Setup)
InMain == serving = None

SetupStep ==
    /\ InMain
    /\ ~ Running
    /\ setup' = setup + 1
    /\ LET s == Setup[setup] IN
       /\ IFlag' = IF s \in {"DisableInterrupts", "SetIDT"} THEN FALSE
                ELSE IF s = "EnableInterrupts" THEN TRUE ELSE IFlag
       /\ remapped' = (remapped \/ s = "IDT_InitializePIC")
       /\ gates' = CASE s = "NullGates" -> [id \in IDs |-> NullEntry]
                     [] s = "SetGates" ->
                          [id \in IDs |-> IF id = SYSCALL THEN gates[id]
                                         ELSE SetInterruptEntry(StubAddress[id])]
                     [] s = "SetSyscallGate" ->
                          [gates EXCEPT ![SYSCALL] = SetInterruptEntry(StubAddress[SYSCALL])]
                     [] OTHER -> gates
       /\ loaded' = (loaded \/ s = "SetIDT")
       /\ CASE s = "NullHandlers" ->
                 InterruptHandlers' = [n \in 0 .. SyscallSlot |-> "null"]
            [] s = "Syscalls_Setup" ->
                 SetInterruptHandler(SYSCALL, "SyscallHandler")
            [] s = "Keyboard_Setup" ->
                 SetInterruptHandler(1, "Keyboard_Handler")
            [] OTHER -> UNCHANGED InterruptHandlers
       \* Initialising a controller clears what it has latched; UpdateLEDS
       \* makes the keyboard acknowledge.
       /\ irr' = CASE s = "IDT_InitializePIC" -> {}
                   [] s = "UpdateLEDS" /\ ~ obf -> irr \cup {1}
                   [] OTHER -> irr
       /\ obf' = (obf \/ s = "UpdateLEDS")
    /\ UNCHANGED <<isr, serving, ticked>>

\* A system call from the kernel's own code.
Int80 ==
    /\ InMain /\ Running
    /\ IFlag' = FALSE
    /\ serving' = IF loaded /\ Leads(SYSCALL)
                  THEN [id |-> SYSCALL, todo |-> "handler"] ELSE Crashed
    /\ UNCHANGED <<setupVars, irr, isr, obf, ticked>>

-----------------------------------------------------------------------------
(* The controllers and the devices (outside the repository) *)

\* The processor takes the latched line of the highest priority, or a vector
\* that no line stands behind: then at most line 2 is in service.
Interrupt(id, served) ==
    /\ InMain /\ IFlag
    /\ Passes(id, isr)
    /\ isr' = isr \cup served
    /\ IFlag' = FALSE
    /\ serving' = IF remapped /\ loaded /\ Leads(id)
                  THEN [id |-> id, todo |-> "handler"] ELSE Crashed

Acknowledge ==
    /\ irr # {}
    /\ Interrupt(First(irr), InService(First(irr)))
    /\ irr' = irr \ {First(irr)}
    /\ UNCHANGED <<setupVars, obf, ticked>>

AcknowledgeSpurious ==
    /\ \E id \in Spurious : Interrupt(id, IF id = 15 THEN {2} ELSE {})
    /\ UNCHANGED <<setupVars, irr, obf, ticked>>

\* Bound of the model: one tick in a busy period, for the handlers of all
\* pending interrupts take far less than the timer's 55 ms.
Tick ==
    /\ ~ ticked
    /\ ticked' = TRUE
    /\ irr' = irr \cup {0}
    /\ UNCHANGED <<setupVars, IFlag, isr, serving, obf>>

BusyPeriodEnds ==
    /\ InMain /\ irr = {} /\ ticked
    /\ ticked' = FALSE
    /\ UNCHANGED <<setupVars, IFlag, irr, isr, serving, obf>>

\* IRQ 1 is an edge: it is raised when a byte arrives in the empty buffer.
KeyByte ==
    /\ ~ obf
    /\ obf' = TRUE
    /\ irr' = irr \cup {1}
    /\ UNCHANGED <<setupVars, IFlag, isr, serving, ticked>>

Raise ==
    /\ \E l \in Lines \ {0, 1} : irr' = irr \cup {l}
    /\ irr' # irr
    /\ UNCHANGED <<setupVars, IFlag, isr, serving, obf, ticked>>

-----------------------------------------------------------------------------
(* InterruptHandlerStub *)

Slot(id) == IF id = SYSCALL THEN SyscallSlot ELSE id

\* A null handler is not called; an unset one is a jump into the unknown.
CallHandler ==
    /\ serving.todo = "handler"
    /\ LET func == InterruptHandlers[Slot(serving.id)] IN
       /\ serving' = IF func = "unset" THEN Crashed
                     ELSE [serving EXCEPT !.todo = "eoi"]
       /\ obf' = (obf /\ func # "Keyboard_Handler")
    /\ UNCHANGED <<setupVars, IFlag, irr, isr, ticked>>

\* Mutant of EndOfInterrupt: line 8 is taken for one of the first controller.
EndOfInterruptAbove8 ==
    /\ serving.todo = "eoi"
    /\ isr' = Eoi(isr, serving.id > 8)
    /\ serving' = [serving EXCEPT !.todo = "iretd"]
    /\ UNCHANGED <<setupVars, IFlag, irr, obf, ticked>>

\* The two outb at the end of the stub.
EndOfInterrupt ==
    /\ serving.todo = "eoi"
    /\ isr' = Eoi(isr, serving.id >= 8)
    /\ serving' = [serving EXCEPT !.todo = "iretd"]
    /\ UNCHANGED <<setupVars, IFlag, irr, obf, ticked>>

\* iretd restores the flags, with them the interrupt flag.
Return ==
    /\ serving.todo = "iretd"
    /\ serving' = None
    /\ IFlag' = TRUE
    /\ UNCHANGED <<setupVars, irr, isr, obf, ticked>>

Devices == Tick \/ BusyPeriodEnds \/ KeyByte \/ Raise

\* InterruptEntry composes these actions with those of the entry code.

-----------------------------------------------------------------------------

\* No interrupt, spurious ones included, finds the vectors of the BIOS, an
\* empty gate, a gate that leads elsewhere than to its stub or a handler pointer
\* that nobody has set: the order of KMain and IDT_Setup enables interrupts last
\* (Kernel.c:56-69, IDT.c:131-208).
NeverCrashes == serving # Crashed

\* In the main loop no line is left in service, so none is blocked for ever:
\* the end-of-interrupt commands of the stub undo exactly what the controllers
\* did for the ID it was given, for a system call and a spurious vector too
\* (IDT.c:262-266).
NothingLeftInService == InMain => isr = {}
=============================================================================
