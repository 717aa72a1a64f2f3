--------------------------- MODULE InterruptFrame ---------------------------
(***************************************************************************)
(* The stack between an interrupted program and InterruptHandlerStub: the  *)
(* entry code of Kernel/IDTA.asm (the macro Interrupt and                  *)
(* IntSyscallHandler) and the arguments the stub of Kernel/IDT.c finds     *)
(* there by the C calling convention.                                      *)
(*                                                                         *)
(* Pushes are of one or two 16-bit halves, so the stack is a sequence of   *)
(* halves <<value, 0>> (low) and <<value, 1>> (high) with its top first.   *)
(* The interrupted program's value of a register is the register's name;   *)
(* "handler" is whatever the C code leaves in a register, or in the slots  *)
(* of its arguments, which the calling convention lets it write to.        *)
(***************************************************************************)
EXTENDS Naturals, Sequences

CONSTANTS
    IDs,       \* IDs of the interrupts that occur: 0 .. 15 and 0x80
    Scribbles  \* which of the halves of its arguments, ID and Regs, the C code
               \* may write to: sets of offsets from ID

SYSCALL == 128

VARIABLES
    pc,    \* "program", or the step of the entry code that is next
    id,    \* which of the entry points is running
    regs,  \* register -> its low and high half
    stack,
    args,  \* what the stub last found as its ID and its Regs (history)
    scribbled  \* the halves of them it then wrote to (history)

vars == <<pc, id, regs, stack, args, scribbled>>

\* In the order pushad pushes them; struct Registers32 has them the other way.
Order == <<"EAX", "ECX", "EDX", "EBX", "ESP", "EBP", "ESI", "EDI">>
Registers == {Order[n] : n \in 1 .. 8}
CallerSaved == {"EAX", "ECX", "EDX"}

Low(v) == <<v, 0>>
High(v) == <<v, 1>>
Word(v) == <<Low(v), High(v)>>     \* as it lies on the stack, or in a register

\* The 32-bit word at offset n, in halves, from the top of the stack.
At(n) == <<stack[n + 1], stack[n + 2]>>

NoArgs ==
    [ID |-> Low("nothing"), Regs |-> [r \in Registers |-> Word("nothing")]]

Init ==
    /\ pc = "program" /\ id = 0
    /\ regs = [r \in Registers |-> Word(r)]
    /\ stack = Word("below")
    /\ args = NoArgs /\ scribbled = {}

Depth == Len(stack) - 2   \* halves pushed since the interrupt

-----------------------------------------------------------------------------

\* The processor pushes where to return to. What the program has in a register
\* goes by the register's name from now on.
Interrupt ==
    /\ pc = "program"
    /\ id' \in IDs
    /\ stack' = Word("EIP") \o Word("CS") \o Word("EFLAGS") \o stack
    /\ regs' = [r \in Registers |-> Word(r)]
    /\ scribbled' = {}
    /\ pc' = "pushad"
    /\ UNCHANGED args

Pushad ==
    /\ pc = "pushad"
    /\ stack' = regs["EDI"] \o regs["ESI"] \o regs["EBP"] \o regs["ESP"]
                    \o regs["EBX"] \o regs["EDX"] \o regs["ECX"]
                    \o regs["EAX"] \o stack
    /\ pc' = "push"
    /\ UNCHANGED <<id, regs, args, scribbled>>

\* Mutant of PushID: the ID is pushed as a word throughout.
PushWord ==
    /\ pc = "push"
    /\ stack' = <<Low("ID")>> \o stack
    /\ pc' = "call"
    /\ UNCHANGED <<id, regs, args, scribbled>>

\* push byte %1 extends the ID to 32 bits, push word 0x0080 does not.
PushID ==
    /\ pc = "push"
    /\ stack' = (IF id = SYSCALL THEN <<Low("ID")>> ELSE Word("ID")) \o stack
    /\ pc' = "call"
    /\ UNCHANGED <<id, regs, args, scribbled>>

\* The offset of a register in struct Registers32, in halves.
Field(r) == 16 - 2 * (CHOOSE n \in 1 .. 8 : Order[n] = r)

\* call InterruptHandlerStub: ID is the low byte of the word above the return
\* address, Regs the eight words behind it.  C code clobbers three registers and
\* may write to the slots of ID and Regs, which it has by value.
Stub ==
    /\ pc = "call"
    /\ args' = [ID |-> At(0)[1],
                Regs |-> [r \in Registers |-> At(2 + Field(r))]]
    /\ \E clobbered \in SUBSET CallerSaved :
          regs' = [r \in Registers |->
                      IF r \in clobbered THEN Word("handler") ELSE regs[r]]
    /\ scribbled' \in Scribbles
    /\ stack' = [n \in 1 .. Len(stack) |->
                    IF n - 1 \in scribbled' THEN Low("handler") ELSE stack[n]]
    /\ pc' = "pop"
    /\ UNCHANGED id

\* pop eax, and pop word ax
PopID ==
    /\ pc = "pop"
    /\ IF id = SYSCALL
       THEN /\ regs' = [regs EXCEPT !["EAX"] = <<stack[1], @[2]>>]
            /\ stack' = Tail(stack)
       ELSE /\ regs' = [regs EXCEPT !["EAX"] = At(0)]
            /\ stack' = SubSeq(stack, 3, Len(stack))
    /\ pc' = "popad"
    /\ UNCHANGED <<id, args, scribbled>>

\* Mutant of Popad: EAX is left for a result.
PopadKeepsEAX ==
    /\ pc = "popad"
    /\ regs' = [r \in Registers |->
                   IF r \in {"ESP", "EAX"} THEN regs[r] ELSE At(Field(r))]
    /\ stack' = SubSeq(stack, 17, Len(stack))
    /\ pc' = "iretd"
    /\ UNCHANGED <<id, args, scribbled>>

\* popad skips the value of ESP.
Popad ==
    /\ pc = "popad"
    /\ regs' = [r \in Registers |->
                   IF r = "ESP" THEN regs[r] ELSE At(Field(r))]
    /\ stack' = SubSeq(stack, 17, Len(stack))
    /\ pc' = "iretd"
    /\ UNCHANGED <<id, args, scribbled>>

\* iretd: where it returns to is what lies on the stack.
Iretd ==
    /\ pc = "iretd"
    /\ pc' = IF SubSeq(stack, 1, 6) = Word("EIP") \o Word("CS") \o Word("EFLAGS")
             THEN "program" ELSE "lost"
    /\ stack' = SubSeq(stack, 7, Len(stack))
    /\ UNCHANGED <<id, regs, args, scribbled>>

-----------------------------------------------------------------------------

\* The offset of the register r in the stub's arguments, in halves: the ID of a
\* system call takes up one half only.
Slot(r) == Field(r) + (IF id = SYSCALL THEN 1 ELSE 2)

\* An interrupted program goes on where it was, with its stack and, half by
\* half, its registers, but for those whose place among its arguments the C code
\* has written to; ESP is not taken from there.  Only a system call whose stub
\* writes to the last half of Regs, where the entry code has EIP, returns
\* elsewhere (IDTA.asm:13-22 and 47-54, IDT.c:230).
Transparent ==
    /\ pc = "lost" => id = SYSCALL /\ 17 \in scribbled
    /\ pc = "program" =>
          /\ Depth = 0
          /\ \A r \in Registers, n \in 1 .. 2 :
                \/ regs[r][n] = Word(r)[n]
                \/ r # "ESP" /\ Slot(r) + n - 1 \in scribbled

\* The stub of a hardware interrupt is passed its ID and the registers of the
\* interrupted program, field by field, and that of the system call its ID
\* (IDTA.asm:16-18, IDT.c:230, Registers32.h:4-7).
StubFindsArguments ==
    pc = "pop" =>
        /\ args.ID = Low("ID")
        /\ id # SYSCALL => \A r \in Registers : args.Regs[r] = Word(r)
=============================================================================
