------------------------------ MODULE DiskBoot ------------------------------
(***************************************************************************)
(* The boot loader's disk reads: stage 1 (BootloaderStage1/Bootloader.asm) *)
(* loads stage 2 and retries whatever fails, stage 2 (Stage2A.asm:45-184)  *)
(* has the memory map made, loads the kernel cylinder by cylinder, stops   *)
(* for good at the first error, and calls the kernel.                      *)
(*                                                                         *)
(* The memory map and A20 are modules of their own, put in place by Boot.   *)
(*                                                                         *)
(* Memory from 0x0500 on is an array of slots of one sector's size: stage  *)
(* 2 goes to slot 0, the kernel to 18 = (0x2900 - 0x0500) / 512, and the   *)
(* memory map at 0x8000 lies in slot 61.  A slot holds the number of the   *)
(* disk sector that was read into it.                                      *)
(***************************************************************************)
EXTENDS Integers

CONSTANT KERNEL_CYLINDER_COUNT  \* the word at Stage2A.asm:103

ASSUME CylinderAssumption == KERNEL_CYLINDER_COUNT \in 1 .. 4

VARIABLES
    pc,     \* where the boot loader is
    ram,    \* slot -> what it holds
    read,   \* sectors the last read has transferred: al
    cx,     \* the kernel cylinder to load
    addr    \* KERNEL_LOAD_ADDR, as a slot

vars == <<pc, ram, read, cx, addr>>

Slots == 0 .. 89
Stage2Slots == 0 .. 15
MapSlot == 61
AliasSlot == 37      \* (0x4FFC - 0x0500) / 512: 0x104FFC with A20 off
KernelSlot == 18
Sectors == 18        \* in a track
Track == 18          \* (0x2400 bytes) / 512: what addr moves on by

NoData == -1
MapData == -2
StackData == -3

\* The disk sector at cylinder c, head h, sector s, as DiskBuilder.sh counts.
Lba(c, h, s) == (c * 2 + h) * Sectors + s - 1

\* Slots from base on filled with n sectors from the disk sector lba on.
Loaded(base, lba, n) ==
    [s \in Slots |-> IF s \in base .. base + n - 1 THEN lba + s - base
                     ELSE ram[s]]

Init ==
    /\ pc = "Reset"
    /\ ram = [s \in Slots |-> NoData]
    /\ read = 0 /\ cx = 0 /\ addr = KernelSlot

-----------------------------------------------------------------------------
(* Stage 1 *)

\* Reset: the BIOS resets the drive, and is asked again when that fails.
Reset ==
    /\ pc = "Reset"
    /\ pc' \in {"Reset", "LoadStage2"}
    /\ UNCHANGED <<ram, read, cx, addr>>

\* Error: back to LoadStage2, without another reset.
ReadFails(n) ==
    /\ pc = "LoadStage2"
    /\ ram' = Loaded(0, Lba(0, 0, 2), n)
    /\ read' = n
    /\ UNCHANGED <<pc, cx, addr>>

\* Mutants of ReadReturns: the count of sectors is not looked at; it is taken
\* for that of a whole track.
ReadReturnsAnyCount(n) ==
    /\ pc = "LoadStage2"
    /\ ram' = Loaded(0, Lba(0, 0, 2), n)
    /\ read' = n
    /\ pc' = "Stage2"
    /\ UNCHANGED <<cx, addr>>

ReadReturnsTrack(n) ==
    /\ pc = "LoadStage2"
    /\ ram' = Loaded(0, Lba(0, 0, 2), n)
    /\ read' = n
    /\ pc' = IF n = 18 THEN "Stage2" ELSE "LoadStage2"
    /\ UNCHANGED <<cx, addr>>

\* int 0x13 without carry; fewer than 16 sectors are read again.
ReadReturns(n) ==
    /\ pc = "LoadStage2"
    /\ ram' = Loaded(0, Lba(0, 0, 2), n)
    /\ read' = n
    /\ pc' = IF n = 16 THEN "Stage2" ELSE "LoadStage2"
    /\ UNCHANGED <<cx, addr>>

LoadStage2 == \E n \in 0 .. 16 : ReadFails(n) \/ ReadReturns(n)

-----------------------------------------------------------------------------
(* Stage 2 *)

\* call CreateMemoryMap, when it has returned.
CreateMemoryMap ==
    /\ pc = "Stage2"
    /\ ram' = [ram EXCEPT ![MapSlot] = MapData]
    /\ pc' = "LoadKernel"
    /\ UNCHANGED <<read, cx, addr>>

\* LoadKernel up to .Loop: the result of the reset is not looked at.
LoadKernel ==
    /\ pc = "LoadKernel"
    /\ cx' = 1
    /\ pc' = "Loop"
    /\ UNCHANGED <<ram, read, addr>>

\* Mutant of Address: the head is that of the quotient.
AddressQuotient(c) == Lba(0, c \div 2, c)

\* LoadCylinder's address: ch = 0, cl = AX and dh = AX % 2.
Address(c) == Lba(0, c % 2, c)

\* The rest of .Loop once LoadCylinder is back.
AfterLoad(n) ==
    /\ ram' = Loaded(addr, Address(cx), n)
    /\ read' = n
    /\ cx' = cx + 1
    /\ addr' = addr + Track
    /\ pc' = IF cx' < KERNEL_CYLINDER_COUNT THEN "Loop" ELSE "CallKernel"

\* int 0x13 without carry: al is not looked at.
LoadCylinder == pc = "Loop" /\ \E n \in 0 .. Sectors : AfterLoad(n)

\* .LoadError: Error never returns to the second try behind it.
LoadError ==
    /\ pc = "Loop"
    /\ pc' = "halted"
    /\ \E n \in 0 .. Sectors - 1 :
          ram' = Loaded(addr, Address(cx), n) /\ read' = n
    /\ UNCHANGED <<cx, addr>>

\* call KERNEL_BASE, when EnableA20 has returned.
CallKernel ==
    /\ pc = "CallKernel"
    /\ pc' = "kernel"
    /\ UNCHANGED <<ram, read, cx, addr>>

-----------------------------------------------------------------------------

InStage2 == pc \notin {"Reset", "LoadStage2"}

\* Stage 2 is only entered, and run to the call of the kernel, with all of its
\* sectors in place, whatever reads have failed or come back short before
\* (Bootloader.asm:62-67, 75-76).
Stage2Whole == InStage2 => \A s \in Stage2Slots : ram[s] = s + 1

\* The kernel is entered with the memory map it is passed and, in the sectors
\* that KERNEL_CYLINDER_COUNT stands for, with the disk's from the track on that
\* DiskBuilder.sh:31-37 writes it to, up to the last one that the BIOS has
\* transferred (Stage2A.asm:106-172).
KernelWhole ==
    pc = "kernel" =>
        /\ ram[MapSlot] = MapData
        /\ \A s \in 0 .. Sectors * (KERNEL_CYLINDER_COUNT - 1) + read - 1 :
              ram[KernelSlot + s] = 18 + s
=============================================================================
