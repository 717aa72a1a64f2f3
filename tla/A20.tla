-------------------------------- MODULE A20 ---------------------------------
(***************************************************************************)
(* EnableA20 of BootloaderStage2/Stage2A.asm and the keyboard controller   *)
(* it talks to: the 8042, whose firmware takes a command out of the input  *)
(* buffer some time after it was written, and the keyboard, which may      *)
(* deliver scancodes whenever it is enabled.  Interrupts are off.          *)
(*                                                                         *)
(* A byte is the set of its bits that matter: "run" (bit 0 of the output   *)
(* port, the processor's reset line, active low), "a20" (bit 1) and        *)
(* "other" for the rest.                                                   *)
(*                                                                         *)
(* The stack ends at 0x00105000.  While A20 is off the processor finds at  *)
(* 0x00104FFC what lies at 0x00004FFC, so a word pushed with A20 off and   *)
(* popped with A20 on is not the one that was pushed.                      *)
(***************************************************************************)
EXTENDS Naturals, Sequences

Byte == SUBSET {"run", "a20", "other"}

VARIABLES
    pc,      \* the next step of Program, 0 before the call
    al,      \* what was read from port 0x60
    input,   \* input buffer: a command or data byte not yet taken, or none
    output,  \* output buffer: <<byte>>, or <<>> when it has been read
    enabled, \* the keyboard may deliver scancodes
    expects, \* the next data byte is for the output port
    port,    \* the output port
    stack,   \* for each word on the stack, what A20 was when it was pushed
    lost,    \* EnableA20 or one of its loops has returned to a wrong address
    entry,   \* the output port when EnableA20 was called (history)
    early,   \* a byte was unread when the keyboard was disabled (history)
    reset    \* the processor has been reset

controller == <<input, output, enabled, expects, port, early, reset>>
vars == <<pc, al, stack, lost, controller, entry>>

None == <<>>

\* Mutants of Program: the keyboard stays disabled; the value read from the
\* output port is written back without waiting for the command before it.
NeverReenable ==
    <<"call", "a20wait", "0xAD", "call", "a20wait", "0xD0",
      "call", "a20wait2", "in", "call", "a20wait", "0xD1",
      "call", "a20wait", "out", "call", "a20wait", "ret">>

HastyProgram ==
    <<"call", "a20wait", "0xAD", "call", "a20wait", "0xD0",
      "in", "call", "a20wait", "0xD1", "call", "a20wait", "out",
      "call", "a20wait", "0xAE", "call", "a20wait", "ret">>

DISABLE == "0xAD"
READ_OUTPUT == "0xD0"
WRITE_OUTPUT == "0xD1"
ENABLE == "0xAE"
Commands == {DISABLE, READ_OUTPUT, WRITE_OUTPUT, ENABLE}

\* The steps of EnableA20: a command is written to port 0x64.
Program ==
    <<"call", "a20wait", "0xAD", "call", "a20wait", "0xD0",
      "call", "a20wait2", "in", "call", "a20wait", "0xD1",
      "call", "a20wait", "out", "call", "a20wait", "0xAE",
      "call", "a20wait", "ret">>

\* What A20 is when the output port is b.
Line(b) == IF "a20" \in b THEN "on" ELSE "off"

\* Before the call: what the controller holds then is said by Called.
Init ==
    /\ pc = 0 /\ al = {} /\ stack = <<>> /\ lost = FALSE
    /\ input = None /\ output = <<>>
    /\ enabled = TRUE /\ expects = FALSE
    /\ port = {} /\ entry = {}
    /\ early = FALSE /\ reset = FALSE

\* call EnableA20, with A20 on or off.  The output buffer may hold a scancode:
\* the interrupts that would have it read are off since the cli in front of the
\* mode switch.
Called ==
    /\ pc = 0
    /\ pc' = 1
    /\ output' \in {<<>>} \cup {<<b>> : b \in Byte}
    /\ port' \in {b \in Byte : "run" \in b}
    /\ entry' = port'
    /\ stack' = <<Line(port')>>
    /\ UNCHANGED <<al, lost, input, enabled, expects, early, reset>>

Done == pc > Len(Program) /\ ~ lost

-----------------------------------------------------------------------------
(* EnableA20 *)

At(step) == ~ reset /\ ~ lost /\ pc \in DOMAIN Program /\ Program[pc] = step

Call ==
    /\ At("call")
    /\ stack' = <<Line(port)>> \o stack
    /\ pc' = pc + 1
    /\ UNCHANGED <<al, lost, controller, entry>>

\* ret: with A20 switched since the call the address is not the one pushed.
Return ==
    /\ lost' = (Head(stack) # Line(port))
    /\ stack' = Tail(stack)
    /\ pc' = pc + 1
    /\ UNCHANGED <<al, controller, entry>>

\* The loops that poll the status port: the rounds before the last read only.
a20wait == At("a20wait") /\ input = None /\ Return

a20wait2 == At("a20wait2") /\ output # <<>> /\ Return

Command ==
    /\ \E c \in Commands :
          At(c) /\ input' = <<"command", c>>
    /\ pc' = pc + 1
    /\ UNCHANGED <<al, stack, lost, output, enabled, expects, port, early, reset,
                   entry>>

\* in al, 0x60 and push eax: an empty buffer reads as any byte.
Read ==
    /\ At("in")
    /\ al' \in IF output = <<>> THEN Byte ELSE {output[1]}
    /\ output' = IF output = <<>> THEN <<>> ELSE Tail(output)
    /\ stack' = <<Line(port)>> \o stack
    /\ pc' = pc + 1
    /\ UNCHANGED <<lost, input, enabled, expects, port, early, reset, entry>>

\* pop eax, or al, 2 and out 0x60, al
Write ==
    /\ At("out")
    /\ al' \in IF Head(stack) = Line(port) THEN {al} ELSE Byte
    /\ stack' = Tail(stack)
    /\ input' = <<"data", al' \cup {"a20"}>>
    /\ pc' = pc + 1
    /\ UNCHANGED <<lost, output, enabled, expects, port, early, reset, entry>>

EnableA20 ==
    Call \/ a20wait \/ a20wait2 \/ Command \/ Read \/ Write \/ (At("ret") /\ Return)

-----------------------------------------------------------------------------
(* The controller (outside the repository) *)

Scancode ==
    /\ pc > 0 /\ ~ reset /\ enabled /\ output = <<>>
    /\ \E b \in Byte : output' = <<b>>
    /\ UNCHANGED <<pc, al, stack, lost, input, enabled, expects, port, entry,
                   early, reset>>

\* With a byte unread the output port's value takes its place or follows it.
TakeReadOutput ==
    /\ input = <<"command", READ_OUTPUT>>
    /\ output' \in {<<port>>, Append(output, port)}
    /\ UNCHANGED <<enabled, expects, port, early, reset>>

TakeCommand ==
    /\ \E c \in Commands \ {READ_OUTPUT} :
          /\ input = <<"command", c>>
          /\ enabled' = (c = ENABLE \/ (enabled /\ c # DISABLE))
          /\ expects' = (c = WRITE_OUTPUT)
          /\ early' = (early \/ (c = DISABLE /\ output # <<>>))
    /\ UNCHANGED <<output, port, reset>>

\* A data byte nobody asked for goes to the keyboard.
TakeData ==
    /\ input # None /\ input[1] = "data"
    /\ port' = IF expects THEN input[2] ELSE port
    /\ reset' = (expects /\ "run" \notin input[2])
    /\ expects' = FALSE
    /\ UNCHANGED <<output, enabled, early>>

Take ==
    /\ ~ reset
    /\ TakeReadOutput \/ TakeCommand \/ TakeData
    /\ input' = None
    /\ UNCHANGED <<pc, al, stack, lost, entry>>

-----------------------------------------------------------------------------

\* When EnableA20 returns the line is enabled, the keyboard may send again and,
\* if no scancode was left unread, the output port is as it was: EnableA20 only
\* returns when A20 was on before (Stage2A.asm:270-274 and 290-318).
Enabled ==
    Done => /\ "a20" \in port
            /\ enabled
            /\ "a20" \in entry
            /\ ~ early => port = entry

\* It returns to a wrong address only if A20 was off when it was called.
LostOnlyWhenOff == lost => "a20" \notin entry
=============================================================================
