-------------------------------- MODULE Boot --------------------------------
(***************************************************************************)
(* The boot loader from the BIOS's jump to it to the call of the kernel:   *)
(* the disk reads of DiskBoot, CreateMemoryMap as the steps of MemoryMap   *)
(* while stage 2 waits for it, EnableA20 as those of A20 after the switch  *)
(* to protected mode (Stage2A.asm:67-85 and 275-279).                      *)
(***************************************************************************)
EXTENDS DiskBoot, Sequences

CONSTANT MaxCalls   \* bound of the model: calls until the BIOS ends its list

ASSUME BootAssumption == MaxCalls \in Nat

VARIABLES
    mapPc, answers, bp, table, mmap_ent,                             \* MemoryMap
    gatePc, al, stack, lost, input, output, enabled, expects, port, entry,
    early, reset                                                           \* A20

mapVars == <<mapPc, answers, bp, table, mmap_ent>>
gateVars == <<gatePc, al, stack, lost, input, output, enabled, expects, port,
              entry, early, reset>>
bootVars == <<vars, mapVars, gateVars>>

Map == INSTANCE MemoryMap WITH pc <- mapPc, FirstStart <- 0
Gate == INSTANCE A20 WITH pc <- gatePc

BootInit == Init /\ Map!Init /\ Gate!Init

-----------------------------------------------------------------------------

Disk(action) == action /\ UNCHANGED <<mapVars, gateVars>>

MapStep ==
    /\ pc = "Stage2"
    /\ Map!Call \/ Map!Fail \/ Map!Advance
    /\ UNCHANGED <<vars, gateVars>>

\* Stage 2 goes on whether or not the carry flag is set.  From here on the
\* table is what MapSlot holds, and the history of it is forgotten.
MapReturns ==
    /\ mapPc \in {"created", "failed"}
    /\ CreateMemoryMap
    /\ mapPc' = "returned"
    /\ answers' = <<>> /\ bp' = 0
    /\ table' = [s \in DOMAIN table |-> Map!Nothing]
    /\ UNCHANGED <<mmap_ent, gateVars>>

Protected == pc = "CallKernel" /\ UNCHANGED <<vars, mapVars>>

\* The return address goes to 0x104FFC, or into the kernel's memory.
CallEnableA20 ==
    /\ pc = "CallKernel"
    /\ Gate!Called
    /\ ram' = IF "a20" \in port' THEN ram
              ELSE [ram EXCEPT ![AliasSlot] = StackData]
    /\ UNCHANGED <<pc, read, cx, addr, mapVars>>

EnableA20 == Protected /\ Gate!EnableA20
Take == Protected /\ Gate!Take
Scancode == Protected /\ Gate!Scancode

\* With EnableA20 back in Stage232 the kernel is called.
EnterKernel == Gate!Done /\ CallKernel /\ UNCHANGED <<mapVars, gateVars>>

Over == (pc \in {"kernel", "halted"} \/ reset \/ lost) /\ UNCHANGED bootVars

Stage2 ==
    \/ MapStep
    \/ MapReturns
    \/ Disk(LoadKernel)
    \/ Disk(LoadCylinder)
    \/ Disk(LoadError)
    \/ CallEnableA20
    \/ EnableA20
    \/ EnterKernel

BootNext ==
    \/ Disk(Reset)
    \/ Disk(LoadStage2)
    \/ Stage2
    \/ Take
    \/ Scancode
    \/ Over

\* The processor executes, the BIOS returns from its calls, a disk that is asked
\* often enough answers, and the 8042 takes what it is sent, unless its output
\* buffer is full: then it may, or wait until somebody reads it.
Fairness ==
    /\ WF_bootVars(Stage2)
    /\ WF_bootVars(Take /\ output = <<>>)
    /\ SF_bootVars(Disk(Reset /\ pc' = "LoadStage2"))
    /\ SF_bootVars(Disk(ReadReturns(16)))

BootSpec == BootInit /\ [][BootNext]_bootVars /\ Fairness

-----------------------------------------------------------------------------

\* Stage 2's table holds the BIOS's regions, all of them and in its order,
\* whatever it interleaves with them and however it ends the list
\* (Stage2A.asm:216-242).
TableIsTheMap == pc = "Stage2" => Map!TableIsTheMap

\* The kernel is entered with the A20 line enabled and the keyboard free to
\* send and, if no scancode was left unread, with the 8042's output port as it
\* was. It is only entered at all if A20 was on to begin with: else EnableA20,
\* called with its stack above 1 MiB, does not find its return address, and only
\* then (Stage2A.asm:268-279 and 290-318).
A20Enabled ==
    /\ pc = "kernel" => Gate!Enabled
    /\ Gate!LostOnlyWhenOff

\* The processor is only ever reset on the way when a scancode was unread by the
\* time the keyboard was disabled: the read at Stage2A.asm:300-301 waits for any
\* byte, and takes such a scancode for the value of the output port.
ResetOnlyByScancode == reset => early

\* EnableA20 returns to the init code (Stage2A.asm:318).
ReturnsToInitCode == ~ lost

\* Booting ends: stage 1 gets to stage 2, which halts, calls the kernel, resets
\* the processor or loses its way. The one thing it may wait for without end is
\* that the 8042 takes a byte while a scancode, or the output port's value
\* behind one, lies in its output buffer, where nobody reads it (Stage2A.asm:302
\* and 320-324).
BootEnds ==
    \/ <>(pc \in {"kernel", "halted"} \/ reset \/ lost)
    \/ <>[](Gate!At("a20wait") /\ input # Gate!None /\ output # <<>>)
=============================================================================
