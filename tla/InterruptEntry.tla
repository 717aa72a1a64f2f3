--------------------------- MODULE InterruptEntry ---------------------------
(***************************************************************************)
(* An interrupt from the controller to the iretd: Interrupts, whose        *)
(* devices and controllers decide which one is taken and whose stub serves *)
(* it, with InterruptFrame, the entry code between the two.  Until the     *)
(* iretd the interrupt flag is clear, but lines go on being raised between *)
(* any two instructions.                                                   *)
(***************************************************************************)
EXTENDS Interrupts

CONSTANT Scribbles  \* the halves of its arguments the stub may write to, in sets

ASSUME ScribbleAssumption == Scribbles \subseteq SUBSET (0 .. 17)

VARIABLES pc, id, regs, stack, args, scribbled

Frame == INSTANCE InterruptFrame

frameVars == <<pc, id, regs, stack, args, scribbled>>
entryVars == <<vars, frameVars>>

EntryInit == Init /\ Frame!Init

\* The processor takes an interrupt through a gate, or has nowhere to go.
Entered ==
    IF serving' = Crashed THEN UNCHANGED frameVars
    ELSE Frame!Interrupt /\ id' = serving'.id

EnterHardware == Acknowledge /\ Entered
EnterSpurious == AcknowledgeSpurious /\ Entered
EnterSyscall == Int80 /\ Entered

\* The entry code's own instructions.
Instruction ==
    /\ Frame!Pushad \/ Frame!PushID \/ Frame!PopID \/ Frame!Popad
    /\ UNCHANGED vars

\* InterruptHandlerStub: the handler, then end of interrupt and return.
Handler == pc = "call" /\ CallHandler /\ UNCHANGED frameVars
StubReturns == EndOfInterrupt /\ Frame!Stub

Iretd == Return /\ Frame!Iretd

\* A processor that has returned to an address nobody pushed goes on there.
Astray == pc = "lost" /\ UNCHANGED entryVars

Serve == Instruction \/ Handler \/ StubReturns \/ Iretd

EntryNext ==
    \/ SetupStep /\ UNCHANGED frameVars
    \/ EnterHardware \/ EnterSpurious \/ EnterSyscall
    \/ Serve \/ Astray
    \/ Devices /\ UNCHANGED frameVars

\* The processor executes the setup, the entry code and the stub, and takes an
\* interrupt that stays pending while it keeps coming back to the main loop.
Fairness ==
    /\ WF_entryVars(SetupStep /\ UNCHANGED frameVars)
    /\ WF_entryVars(Serve)
    /\ SF_entryVars(EnterHardware)

EntrySpec == EntryInit /\ [][EntryNext]_entryVars /\ Fairness

-----------------------------------------------------------------------------

\* An interrupted program goes on where it was, with its stack and, half by
\* half, its registers, but for those whose place among its arguments the C code
\* has written to; ESP is not taken from there.  Only a system call whose stub
\* writes to the last half of Regs, where the entry code has EIP, returns
\* elsewhere (IDTA.asm:13-22 and 47-54, IDT.c:230).
Transparent == Frame!Transparent

\* The stub of a hardware interrupt is passed its ID and the registers of the
\* interrupted program, field by field, and that of the system call its ID
\* (IDTA.asm:16-18, IDT.c:230, Registers32.h:4-7).
StubFindsArguments == Frame!StubFindsArguments

\* Every byte the keyboard puts into its controller's empty buffer is read in
\* the end, unless one lay there before the controllers were initialised or the
\* processor is astray. IRQ 1 is an edge: one that is cleared from the latches,
\* or served without reading port 0x60, would be the last (IDT.c:113-122,
\* Kernel.c:56-69).
EveryKeyRead ==
    [](setup <= 2 => ~ obf) => (obf ~> ~ obf \/ pc = "lost")
=============================================================================
