----------------------------- MODULE OldKernel ------------------------------
(***************************************************************************)
(* The previous tree from the loader's C code to the end of KMain:         *)
(* Stage2_CEntry (Stage2.c), FDC_Init and the reads of FDC.c, KMain        *)
(* (Kernel.c) and FS_Initialize (FileSystem.c) as one main program, on the *)
(* interrupts and system calls of OldInterrupts and the text output of     *)
(* Video.  A read of FDC.c, which FDC takes apart, is one command here: it *)
(* is issued, its interrupt comes while the driver prints or waits, and    *)
(* the sector is in the buffer or the command has failed.  The kernel has  *)
(* a text output of its own, with a position of its own, which is left out.*)
(***************************************************************************)
EXTENDS OldInterrupts, Video

CONSTANTS
    KERNEL_END_SECTOR,   \* 30 in the code
    RootDirectoryLBA, SectorMapLBA  \* in the boot sector

ASSUME ProgramAssumption ==
    /\ KERNEL_END_SECTOR \in Nat /\ KERNEL_END_SECTOR > 18
    /\ {RootDirectoryLBA, SectorMapLBA} \subseteq Nat \ {0}
    /\ {0, 1, 3, 4, 16, 32} \subseteq SyscallIDs

VARIABLES
    pc,          \* the next of Program, and beyond it when KMain has returned
    at,          \* where in a read the main program is
    IRQReceived,
    interfaces,  \* the FDCInterface and FSInterface structures filled in
    floppy,      \* the sector the controller is busy with, or Idle
    buffer,      \* the sector in the buffer at 0x7E00
    failed       \* a read has failed

mainVars == <<pc, at, interfaces>>
floppyVars == <<IRQReceived, floppy, buffer, failed>>
oldVars == <<interruptVars, videoVars, mainVars, floppyVars>>

Idle == -1

-----------------------------------------------------------------------------
(* The main program *)

Puts == [op |-> "puts", text |-> <<"glyph", Newline>>]
Do(name) == [op |-> name, text |-> <<>>]
Syscall(eax, ebx, edx) ==
    [op |-> "int80", eax |-> eax, ebx |-> ebx, edx |-> edx, text |-> <<>>]
ReadLBA(interface, lba, str) ==
    [op |-> "read", interface |-> interface, lba |-> lba, text |-> str]

Stage2_CEntry ==
    <<Puts, Do("IDT_DisableInterrupts"), Do("InitializePic"), Do("RegisterIRQs"),
      Do("ReloadIDT"), Do("IDT_EnableInterrupts"), Puts, Do("Syscalls_Initialize"),
      Syscall(1, 6, "IRQHandler"), Syscall(0, 16, "SYS_GetFDCI"),
      Syscall(16, 0, "Stage2_FDCI")>>
    \o [i \in 1 .. KERNEL_END_SECTOR - 18 |->
            ReadLBA("Stage2_FDCI", 17 + i, <<"glyph">>)]

FS_Initialize ==
    <<Syscall(16, 0, "FileSystem_FDCI"),
      ReadLBA("FileSystem_FDCI", RootDirectoryLBA, <<>>),
      ReadLBA("FileSystem_FDCI", SectorMapLBA, <<>>),
      Syscall(0, 32, "SYS_GetFSInterface")>>

KMain ==
    <<Syscall(16, 0, "Kernel_FDCI")>> \o FS_Initialize \o
    <<Syscall(32, 0, "Kernel_FSI"), Syscall(0, 3, "SYS_int32"),
      ReadLBA("FileSystem_FDCI", 0, <<>>)>>

Program == Stage2_CEntry \o KMain

\* Root, which FS_Initialize reads the two sector numbers from, is at 0x7C00.
UsesRoot(lba) == lba \in {RootDirectoryLBA, SectorMapLBA}

OldInit ==
    /\ OldInterruptsInit /\ VideoInit
    /\ pc = 1 /\ at = "start" /\ IRQReceived = 0 /\ interfaces = {}
    /\ floppy = Idle /\ buffer = 0 /\ failed = FALSE

Returned == pc > Len(Program)

\* The main program runs: no interrupt or system call is being served.
Main == frames = <<>> /\ ~ lost
Here == Main /\ ~ Returned /\ ~ Printing
Current == Program[pc]
Advance == pc' = pc + 1 /\ at' = "start"
Prints(str) == text' = str /\ UNCHANGED <<screen, step, loaded>>

PutsStep ==
    /\ Here /\ Current.op = "puts"
    /\ Prints(Current.text) /\ Advance
    /\ UNCHANGED <<interruptVars, interfaces, floppyVars>>

SetupStep ==
    /\ Here
    /\ \/ Current.op = "IDT_DisableInterrupts" /\ SetFlag(FALSE)
       \/ Current.op = "InitializePic" /\ InitializePic
       \/ Current.op = "RegisterIRQs" /\ RegisterIRQs
       \/ Current.op = "ReloadIDT" /\ ReloadIDT
       \/ Current.op = "IDT_EnableInterrupts" /\ SetFlag(TRUE)
       \/ Current.op = "Syscalls_Initialize" /\ Syscalls_Initialize
    /\ Advance
    /\ UNCHANGED <<videoVars, interfaces, floppyVars>>

SyscallStep ==
    /\ Here /\ Current.op = "int80"
    /\ Int80(Current.eax, Current.ebx, Current.edx)
    /\ Advance
    /\ UNCHANGED <<videoVars, interfaces, floppyVars>>

\* What a driver that the kernel has loaded does by int 0x80: a call of the
\* BIOS, as Drivers/VESA/VESA.c makes, or one nobody has registered.
DriverCalls ==
    /\ Main /\ Returned /\ cpu.flag
    /\ \E eax \in {3, 4} : Int80(eax, 0, Null)
    /\ UNCHANGED <<videoVars, mainVars, floppyVars>>

\* KMain and Stage2_CEntry return, and the loader halts: cli, hlt.
Stop ==
    /\ Main /\ Returned /\ cpu.flag
    /\ SetFlag(FALSE)
    /\ UNCHANGED <<videoVars, mainVars, floppyVars>>

\* ReadLBA through an interface: the command is issued, and WaitIRQ prints.
Issue ==
    /\ Here /\ Current.op = "read" /\ at = "start"
    /\ IF /\ Current.interface \in interfaces
          /\ UsesRoot(Current.lba) => low = "Root"
       THEN /\ floppy' = Current.lba
            /\ at' = "wait"
            /\ Prints(Current.text \o <<"glyph", Newline>>)
            /\ UNCHANGED interruptVars
       ELSE /\ Lose
            /\ UNCHANGED <<tables, low, floppy, at, videoVars>>
    /\ UNCHANGED <<pc, interfaces, IRQReceived, buffer, failed>>

Waits(from, to) ==
    /\ Here /\ at = from /\ at' = to
    /\ UNCHANGED <<pc, interfaces, interruptVars, floppy, buffer, failed>>

TestIRQ ==
    /\ Waits("wait", IF IRQReceived = 0 THEN "hlt" ELSE "clear")
    /\ UNCHANGED <<videoVars, IRQReceived>>

Halt == Waits("hlt", "halted") /\ UNCHANGED <<videoVars, IRQReceived>>

\* Mutant of ClearIRQ: the flag stays up.
ClearIRQForgotten ==
    /\ Waits("clear", "done")
    /\ Prints(<<"glyph", Newline>>)
    /\ UNCHANGED IRQReceived

ClearIRQ ==
    /\ Waits("clear", "done")
    /\ IRQReceived' = 0
    /\ Prints(<<"glyph", Newline>>)

\* The caller copies the buffer and goes on.
ReadDone ==
    /\ Here /\ at = "done"
    /\ Advance
    /\ UNCHANGED <<interruptVars, videoVars, interfaces, floppyVars>>

PrintsOn ==
    /\ Main /\ PrintStep
    /\ UNCHANGED <<interruptVars, mainVars, floppyVars>>

MainStep ==
    \/ PutsStep \/ SetupStep \/ SyscallStep
    \/ Issue \/ TestIRQ \/ Halt \/ ClearIRQ \/ ReadDone \/ PrintsOn

-----------------------------------------------------------------------------
(* Interrupts and system calls *)

\* An interrupt ends a hlt.
Wake == at' = IF at = "halted" THEN "wait" ELSE at

TakeLine(l) ==
    /\ Take(l)
    /\ Wake
    /\ UNCHANGED <<videoVars, pc, interfaces, floppyVars>>

\* The floppy's IRQHandler prints, and raises the flag.
Handler ==
    /\ CallHandler
    /\ IF HandlerCalled = "IRQHandler"
       THEN /\ screen' = puts(screen)
            /\ IRQReceived' = 1
       ELSE UNCHANGED <<screen, IRQReceived>>
    /\ UNCHANGED <<text, step, loaded, mainVars, floppy, buffer, failed>>

Function ==
    /\ CallFunction
    /\ interfaces' = IF FunctionCalled \in {"SYS_GetFDCI", "SYS_GetFSInterface"}
                     THEN interfaces \cup {Inner.edx} ELSE interfaces
    /\ UNCHANGED <<videoVars, pc, at, floppyVars>>

Serve ==
    \/ Handler \/ Function
    \/ /\ EndOfInterrupt \/ Iret \/ StoreHandler \/ EnableInHandler \/ Int32Step
       /\ UNCHANGED <<videoVars, mainVars, floppyVars>>

\* The controller's command ends, and its interrupt comes.
FloppyDone ==
    /\ floppy # Idle /\ Raise(6)
    /\ \/ buffer' = floppy /\ UNCHANGED failed
       \/ failed' = TRUE /\ UNCHANGED buffer
    /\ floppy' = Idle
    /\ UNCHANGED <<videoVars, mainVars, IRQReceived>>

\* Bound of the model: nothing ticks while an interrupt waits or is being served,
\* which takes far less than the 55 ms between two ticks.
Ticks(l) ==
    /\ pic.irr = {} /\ \A i \in DOMAIN frames : frames[i].id = SyscallVector
    /\ Raise(l)
    /\ UNCHANGED <<videoVars, mainVars, floppyVars>>

Devices == \E l \in Lines \ {6} : Ticks(l)

OldNext ==
    \/ MainStep \/ DriverCalls \/ Stop
    \/ \E l \in Lines : TakeLine(l)
    \/ Serve \/ FloppyDone \/ Devices

Takes == \E l \in Lines : TakeLine(l)
ServeInterrupt == Serve /\ Inner.id # SyscallVector
ServeSyscall == Serve /\ Inner.id = SyscallVector

\* The main program, a system call and a latched interrupt get a turn between the
\* ticks of the timer; interrupts are off in a handler, commands end and the timer
\* ticks.
OldSpec ==
    /\ OldInit /\ [][OldNext]_oldVars
    /\ SF_oldVars(MainStep) /\ SF_oldVars(ServeSyscall) /\ SF_oldVars(Takes)
    /\ WF_oldVars(ServeInterrupt) /\ WF_oldVars(FloppyDone) /\ WF_oldVars(Ticks(0))

-----------------------------------------------------------------------------

\* The processor never goes anywhere the source has not sent it: every interrupt
\* finds the table, the mode and the vectors that belong together, in the set-up
\* and through the BIOS call in real mode; every handler and system call that is
\* reached has been set; an interface is filled in before it is called, and
\* int32 copies itself over the boot sector only after FS_Initialize has read
\* it (Stage2.c:31-55, Int32.asm:35-119, Kernel.c:25-42, FileSystem.c:41-57).
NeverLost == ~ lost

\* When a read returns, its own command is over and, unless a command has failed,
\* its sector is in the buffer, whatever interrupts came between the test of
\* IRQReceived and the hlt and whatever flags were left over (FDC.c:106-115).
ReadsComplete ==
    at = "done" => floppy = Idle /\ (failed \/ buffer = Current.lba)

\* The main program gets to the end of KMain, and later always gets back what a
\* driver's system call took, with every line served (Interrupts.c:177-189,
\* FDC.c:109, Int32.asm:35-119).
MainGoesOn == <>Returned /\ []<>(frames = <<>>)
=============================================================================
