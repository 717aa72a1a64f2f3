--------------------------- MODULE OldInterrupts ----------------------------
(***************************************************************************)
(* Interrupts and system calls of the previous tree: Interrupts.c,         *)
(* InterruptsA.asm and Syscall.c of its loader and Int32.asm of its        *)
(* kernel, with the processor and the 8259s.  A system call runs inside an *)
(* interrupt gate, but the call that registers a handler and the one that  *)
(* goes through the BIOS turn interrupts on in it, so frames nest.         *)
(***************************************************************************)
EXTENDS Integers, Sequences, PIC

CONSTANTS
    Lines,       \* IRQ lines that are raised, among them 0 and 6
    SyscallIDs   \* the system calls made

ASSUME OldLineAssumption ==
    /\ {0, 6} \subseteq Lines /\ Lines \subseteq (0 .. 15) \ {2}
    /\ {0, 1} \subseteq SyscallIDs /\ SyscallIDs \subseteq 0 .. 254

VARIABLES
    cpu,     \* flag: the interrupt flag; mode: "protected" or "real"; table:
             \* whose interrupt table lidt has loaded, "none", "bios" or "IDT"
    pic,     \* base: whose vectors, "bios" or "IDT"; irr, isr: latched, in service
    IDT,     \* the vectors with a gate
    InterruptHandlers,
    Syscalls,
    frames,  \* interrupts and system calls being served, the innermost last
    low,     \* what is at 0x7C00: the boot sector, "Root", or "int32"
    lost     \* the processor has jumped somewhere else

tables == <<IDT, InterruptHandlers, Syscalls>>
interruptVars == <<cpu, pic, tables, frames, low, lost>>

SyscallVector == 128
Null == "null"
Unset == "unset"

OldInterruptsInit ==
    /\ cpu = [flag |-> FALSE, mode |-> "protected", table |-> "none"]
    /\ pic = [base |-> "bios", irr |-> {}, isr |-> {}]
    /\ IDT = {} /\ InterruptHandlers = [n \in 0 .. 15 |-> Unset]
    /\ Syscalls = [n \in SyscallIDs |-> Unset]
    /\ frames = <<>> /\ low = "Root" /\ lost = FALSE

Flag(on) == cpu' = [cpu EXCEPT !.flag = on]
Mode(mode) == cpu' = [cpu EXCEPT !.mode = mode]
LoadTable(table) == cpu' = [cpu EXCEPT !.table = table]

-----------------------------------------------------------------------------
(* The loader's set-up, a step at a time *)

\* The controllers get new vectors; what they have latched is cleared.
ResetPic(base) == pic' = [base |-> base, irr |-> {}, isr |-> {}]

InitializePic == ResetPic("IDT") /\ UNCHANGED <<cpu, tables, frames, low, lost>>

RegisterIRQs ==
    /\ IDT' = IDT \cup (32 .. 47) \cup {SyscallVector}
    /\ InterruptHandlers' = [n \in 0 .. 15 |-> Null]
    /\ UNCHANGED <<cpu, pic, Syscalls, frames, low, lost>>

ReloadIDT ==
    /\ cpu' = [cpu EXCEPT !.flag = FALSE, !.table = "IDT"]
    /\ UNCHANGED <<pic, tables, frames, low, lost>>

SetFlag(on) == Flag(on) /\ UNCHANGED <<pic, tables, frames, low, lost>>

Syscalls_Initialize ==
    /\ Syscalls' = [n \in SyscallIDs |->
                        IF n = 0 THEN "SYS_RegisterSyscall"
                        ELSE IF n = 1 THEN "SYS_RegisterInterruptHandler" ELSE Null]
    /\ UNCHANGED <<cpu, pic, IDT, InterruptHandlers, frames, low, lost>>

-----------------------------------------------------------------------------
(* Delivery *)

Inner == frames[Len(frames)]
InnerBecomes(f) == frames' = [frames EXCEPT ![Len(frames)] = f]
Serving(todo) == frames # <<>> /\ ~ lost /\ Inner.todo = todo

Lose == lost' = TRUE /\ UNCHANGED <<cpu, pic, frames>>

\* Through the gate of a vector, if there is one.
Enter(vector, frame) ==
    IF cpu.mode = "protected" /\ cpu.table = "IDT" /\ vector \in IDT
    THEN /\ frames' = Append(frames, frame)
         /\ Flag(FALSE)
         /\ UNCHANGED lost
    ELSE lost' = TRUE /\ UNCHANGED <<cpu, frames>>

\* The processor takes an interrupt. In real mode one with the vectors of the
\* BIOS is served and acknowledged by the BIOS.
Take(l) ==
    /\ ~ lost /\ cpu.flag
    /\ l \in pic.irr /\ l = First(pic.irr) /\ Passes(l, pic.isr)
    /\ IF pic.base = "bios" /\ cpu.mode = "real" /\ cpu.table = "bios"
       THEN /\ pic' = [pic EXCEPT !.irr = @ \ {l}]
            /\ UNCHANGED <<cpu, frames, lost>>
       ELSE /\ pic' = [pic EXCEPT !.irr = @ \ {l}, !.isr = @ \cup InService(l)]
            /\ Enter(IF pic.base = "IDT" THEN 32 + l ELSE 8 + l,
                     [id |-> l, todo |-> "handler", flag |-> cpu.flag])
    /\ UNCHANGED <<tables, low>>

Int80(eax, ebx, edx) ==
    /\ Enter(SyscallVector, [id |-> SyscallVector, todo |-> "function",
                             eax |-> eax, ebx |-> ebx, edx |-> edx, n |-> 0,
                             flag |-> cpu.flag])
    /\ UNCHANGED <<pic, tables, low>>

Raise(l) ==
    /\ pic' = [pic EXCEPT !.irr = @ \cup {l}]
    /\ UNCHANGED <<cpu, tables, frames, low, lost>>

-----------------------------------------------------------------------------
(* InterruptHandlerStub. What the function called does is OldKernel's. *)

HandlerCalled == InterruptHandlers[Inner.id]

CallHandler ==
    /\ Serving("handler")
    /\ IF HandlerCalled = Unset THEN Lose
       ELSE /\ InnerBecomes([Inner EXCEPT !.todo = "eoi"])
            /\ UNCHANGED <<cpu, pic, lost>>
    /\ UNCHANGED <<tables, low>>

\* Mutant of EndOfInterrupt: only the second controller is told of its lines.
EndOfInterruptOne ==
    /\ Serving("eoi")
    /\ pic' = [pic EXCEPT !.isr = IF Inner.id >= 8 THEN @ \ {Inner.id} ELSE Eoi(@, FALSE)]
    /\ InnerBecomes([Inner EXCEPT !.todo = "iret"])
    /\ UNCHANGED <<cpu, tables, low, lost>>

EndOfInterrupt ==
    /\ Serving("eoi")
    /\ pic' = [pic EXCEPT !.isr = Eoi(@, Inner.id >= 8)]
    /\ InnerBecomes([Inner EXCEPT !.todo = "iret"])
    /\ UNCHANGED <<cpu, tables, low, lost>>

Iret ==
    /\ Serving("iret")
    /\ Flag(Inner.flag)
    /\ frames' = SubSeq(frames, 1, Len(frames) - 1)
    /\ UNCHANGED <<pic, tables, low, lost>>

-----------------------------------------------------------------------------
(* IntSyscall_Handler and the functions behind it *)

FunctionCalled == Syscalls[Inner.eax]

\* SYS_GetFDCI and SYS_GetFSInterface fill in what EDX points at; a null
\* function is not called.
CallFunction ==
    /\ Serving("function")
    /\ IF FunctionCalled = Unset THEN Lose /\ UNCHANGED Syscalls
       ELSE \/ /\ FunctionCalled = "SYS_RegisterInterruptHandler"
               /\ Flag(FALSE)
               /\ InnerBecomes([Inner EXCEPT !.todo = "store"])
               /\ UNCHANGED <<pic, Syscalls, lost>>
            \/ /\ FunctionCalled # "SYS_RegisterInterruptHandler"
               /\ Syscalls' = IF FunctionCalled = "SYS_RegisterSyscall"
                              THEN [Syscalls EXCEPT ![Inner.ebx] = Inner.edx] ELSE Syscalls
               /\ InnerBecomes(IF FunctionCalled = "SYS_int32"
                               THEN [Inner EXCEPT !.todo = "int32", !.n = 1]
                               ELSE [Inner EXCEPT !.todo = "iret"])
               /\ UNCHANGED <<cpu, pic, lost>>
    /\ UNCHANGED <<IDT, InterruptHandlers, low>>

StoreHandler ==
    /\ Serving("store")
    /\ InterruptHandlers' = [InterruptHandlers EXCEPT ![Inner.ebx] = Inner.edx]
    /\ InnerBecomes([Inner EXCEPT !.todo = "sti"])
    /\ UNCHANGED <<cpu, pic, IDT, Syscalls, low, lost>>

\* Interrupts are on before the iret that would turn them on.
EnableInHandler ==
    /\ Serving("sti")
    /\ Flag(TRUE)
    /\ InnerBecomes([Inner EXCEPT !.todo = "iret"])
    /\ UNCHANGED <<pic, tables, low, lost>>

\* Mutant of Int32: the kernel's table comes back after interrupts are on.
Int32LateTable ==
    <<"cli", "relocate", "real_mode", "lidt_bios", "resetpic_bios", "sti", "int",
      "cli", "resetpic_IDT", "protected_mode", "sti", "lidt_IDT">>

\* What int32 does to the state kept here: the code from reloc on is copied to
\* 0x7C00, runs there, and passes through 16-bit protected mode, whose
\* descriptors are left out, to real mode and back.
Int32 ==
    <<"cli", "relocate", "real_mode", "lidt_bios", "resetpic_bios", "sti", "int",
      "cli", "resetpic_IDT", "protected_mode", "lidt_IDT", "sti">>

Int32Step ==
    /\ Serving("int32")
    /\ LET s == Int32[Inner.n] IN
       \/ s = "cli" /\ Flag(FALSE) /\ UNCHANGED <<pic, low>>
       \/ s = "sti" /\ Flag(TRUE) /\ UNCHANGED <<pic, low>>
       \/ s = "relocate" /\ low' = "int32" /\ UNCHANGED <<cpu, pic>>
       \/ s = "real_mode" /\ Mode("real") /\ UNCHANGED <<pic, low>>
       \/ s = "protected_mode" /\ Mode("protected") /\ UNCHANGED <<pic, low>>
       \/ s = "lidt_bios" /\ LoadTable("bios") /\ UNCHANGED <<pic, low>>
       \/ s = "lidt_IDT" /\ LoadTable("IDT") /\ UNCHANGED <<pic, low>>
       \/ s = "resetpic_bios" /\ ResetPic("bios") /\ UNCHANGED <<cpu, low>>
       \/ s = "resetpic_IDT" /\ ResetPic("IDT") /\ UNCHANGED <<cpu, low>>
       \/ s = "int" /\ UNCHANGED <<cpu, pic, low>>
    /\ InnerBecomes(IF Inner.n < Len(Int32) THEN [Inner EXCEPT !.n = Inner.n + 1]
                    ELSE [Inner EXCEPT !.todo = "iret", !.n = 0])
    /\ UNCHANGED <<tables, lost>>
=============================================================================
