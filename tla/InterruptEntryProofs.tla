------------------------ MODULE InterruptEntryProofs ------------------------
(***************************************************************************)
(* Theorems about InterruptEntry for every set of lines and every place    *)
(* the linker may put the stubs at: no interrupt finds the processor       *)
(* unprepared, none leaves a line in service, and the entry code keeps     *)
(* what the interrupted program has in its registers and on its stack, but *)
(* for what the C code writes to its arguments.                            *)
(***************************************************************************)
EXTENDS InterruptEntry, SequenceTheorems, TLAPS

-----------------------------------------------------------------------------
(* The interrupt controllers *)

\* A set of lines that are latched has one of the highest priority.
LEMMA FirstIsLatched ==
    ASSUME NEW S \in SUBSET (0 .. 15), S # {}
    PROVE  First(S) \in S
<1> DEFINE Above(n) == \A l \in S : Rank(l) >= n
<1>1. \A l \in S : Rank(l) \in 0 .. 15 BY DEF Rank
<1> SUFFICES ASSUME \A l \in S : \E m \in S : Rank(m) < Rank(l)
             PROVE  FALSE
  <2>1. ASSUME NEW l \in S, ~ \E m \in S : Rank(m) < Rank(l)
        PROVE  \A m \in S : Rank(l) <= Rank(m)
    BY <1>1, <2>1
  <2>2. \E l \in S : \A m \in S : Rank(l) <= Rank(m) BY <2>1
  <2> QED BY <2>2 DEF First
<1>2. ASSUME NEW n \in 0 .. 15, Above(n) PROVE Above(n + 1) BY <1>1, <1>2
<1>3. Above(0) BY <1>1
<1>4. Above(4)
  <2>1. Above(1) BY <1>2, <1>3
  <2>2. Above(2) BY <1>2, <2>1
  <2>3. Above(3) BY <1>2, <2>2
  <2> QED BY <1>2, <2>3
<1>5. Above(8)
  <2>1. Above(5) BY <1>2, <1>4
  <2>2. Above(6) BY <1>2, <2>1
  <2>3. Above(7) BY <1>2, <2>2
  <2> QED BY <1>2, <2>3
<1>6. Above(12)
  <2>1. Above(9) BY <1>2, <1>5
  <2>2. Above(10) BY <1>2, <2>1
  <2>3. Above(11) BY <1>2, <2>2
  <2> QED BY <1>2, <2>3
<1>7. Above(16)
  <2>1. Above(13) BY <1>2, <1>6
  <2>2. Above(14) BY <1>2, <2>1
  <2>3. Above(15) BY <1>2, <2>2
  <2> QED BY <1>2, <2>3
<1>8. PICK l \in S : TRUE OBVIOUS
<1>9. Rank(l) \in 0 .. 15 /\ Rank(l) >= 16 BY <1>1, <1>7
<1> QED BY <1>9

\* What the controllers may have in service while ID n is served: the lines of
\* n, or only those of the spurious vectors, or none for the system call.
Serves(n) ==
    IF n = SYSCALL THEN {{}}
    ELSE {InService(n)} \cup (IF n = 7 THEN {{}} ELSE {})
                        \cup (IF n = 15 THEN {{2}} ELSE {})

\* The end of interrupt undoes it.
LEMMA EoiUndoes ==
    ASSUME NEW n \in IDs, NEW s \in Serves(n)
    PROVE  Eoi(s, n >= 8) = {}
<1> DEFINE Least(L) == CHOOSE l \in L : \A m \in L : l <= m
<1>1. \A m \in Int : Least({m}) = m OBVIOUS
<1>2. CASE n = SYSCALL
  BY <1>2 DEF Serves, Eoi
<1>3. CASE n \in 0 .. 7
  <2>1. s \in {{n}, {}} /\ ~ (n >= 8)
    BY <1>3 DEF Serves, InService, SYSCALL
  <2>2. s \cap 0 .. 7 = s BY <1>3, <2>1
  <2>3. Least({n}) = n BY <1>1, <1>3
  <2> QED BY <2>1, <2>2, <2>3 DEF Eoi
<1>4. CASE n \in 8 .. 15
  <2>1. s \in {{2, n}, {2}} /\ n >= 8
    BY <1>4 DEF Serves, InService, SYSCALL
  <2>2. /\ s \cap 0 .. 7 = {2}
        /\ s \cap 8 .. 15 \in {{}, {n}}
        /\ s \ ({2} \cup (s \cap 8 .. 15)) = {}
    BY <1>4, <2>1
  <2>3. Least({n}) = n /\ Least({2}) = 2 BY <1>1, <1>4
  <2> DEFINE Done(L) == IF L = {} THEN {} ELSE {Least(L)}
  <2>4. Done(s \cap 0 .. 7) = {2} /\ Done(s \cap 8 .. 15) = s \cap 8 .. 15
    BY <2>2, <2>3
  <2>5. Eoi(s, n >= 8) = s \ (Done(s \cap 0 .. 7) \cup Done(s \cap 8 .. 15))
    BY <2>1 DEF Eoi
  <2> HIDE DEF Done
  <2> QED BY <2>2, <2>4, <2>5
<1> QED BY <1>2, <1>3, <1>4 DEF IDs

-----------------------------------------------------------------------------
(* Set-up and delivery *)

\* A gate made for a stub leads to it.
LEMMA GateOfStub ==
    ASSUME NEW n \in IDs
    PROVE  LET g == SetInterruptEntry(StubAddress[n]) IN
           /\ g.TypeAttributes = 142
           /\ g.OffsetHigh * 65536 + g.OffsetLow = StubAddress[n]
<1> DEFINE a == StubAddress[n]
<1>1. a \in Nat /\ a < 65536 BY StubAssumption
<1> HIDE DEF a
<1>2. a % 65536 = a /\ a \div 65536 = 0 BY <1>1
<1>3. SetInterruptEntry(a).OffsetLow = a
  BY <1>2 DEF SetInterruptEntry
<1>4. SetInterruptEntry(a).OffsetHigh = 0
  <2>1. (((a \div 65536) * 65536) % 65536) \div 65536 = 0 BY <1>2
  <2> QED BY <2>1 DEF SetInterruptEntry
<1>5. SetInterruptEntry(a).TypeAttributes = 142 BY DEF SetInterruptEntry
<1> DEFINE g == SetInterruptEntry(a)
<1> HIDE DEF g
<1>6. g.OffsetHigh * 65536 + g.OffsetLow = a BY <1>1, <1>3, <1>4 DEF g
<1> QED BY <1>5, <1>6 DEF a, g

\* How far the set-up has come is what interrupts rely on.
SetupInv ==
    /\ setup \in 1 .. 12
    /\ setup > 2 => remapped
    /\ InterruptHandlers = [n \in 0 .. SyscallSlot |-> InterruptHandlers[n]]
    /\ setup > 3 => \A n \in 0 .. SyscallSlot : InterruptHandlers[n] # "unset"
    /\ gates = [n \in IDs |-> gates[n]]
    /\ setup > 5 => \A n \in IDs \ {SYSCALL} : Leads(n)
    /\ setup > 6 => Leads(SYSCALL)
    /\ setup > 7 => loaded
    /\ IFlag \in BOOLEAN
    /\ IFlag => setup = 12

\* Only once it is done is anything served, and while it is, exactly what was
\* delivered is in service.
ServingInv ==
    /\ irr \subseteq Lines
    /\ \/ serving = None /\ isr = {}
       \/ /\ setup = 12
          /\ \E n \in IDs, todo \in {"handler", "eoi", "iretd"} :
                /\ serving = [id |-> n, todo |-> todo]
                /\ isr \in IF todo = "iretd" THEN {{}} ELSE Serves(n)

InterruptsInv == SetupInv /\ ServingInv

LEMMA SetupSteps ==
    /\ Len(Setup) = 11
    /\ \A n \in 1 .. 11 :
          /\ n # 11 => Setup[n] # "EnableInterrupts"
          /\ n # 4 => Setup[n] # "NullGates"
    /\ Setup[2] = "IDT_InitializePIC" /\ Setup[3] = "NullHandlers"
    /\ Setup[4] = "NullGates" /\ Setup[5] = "SetGates"
    /\ Setup[6] = "SetSyscallGate" /\ Setup[7] = "SetIDT"
BY DEF Setup

LEMMA SetupStepInv ==
    ASSUME InterruptsInv, SetupStep
    PROVE  InterruptsInv'
<1> USE DEF InterruptsInv
<1>1. /\ serving = None /\ serving' = serving /\ isr' = isr
      /\ setup \in 1 .. 11 /\ setup' = setup + 1
  BY SetupSteps DEF SetupStep, SetupInv, InMain, Running
<1>2. irr' \subseteq Lines
  BY LineAssumption, Zenon DEF SetupStep, ServingInv
<1>3. ServingInv' BY <1>1, <1>2 DEF ServingInv
<1>4. IFlag' \in BOOLEAN /\ (IFlag' => setup = 11)
  <2>1. IFlag' = IF Setup[setup] \in {"DisableInterrupts", "SetIDT"} THEN FALSE
                 ELSE IF Setup[setup] = "EnableInterrupts" THEN TRUE ELSE IFlag
    BY DEF SetupStep
  <2>2. IFlag \in BOOLEAN /\ ~ IFlag BY <1>1 DEF SetupInv
  <2>3. setup # 11 => ~ IFlag' BY <1>1, <2>1, <2>2, SetupSteps
  <2>4. IFlag' \in BOOLEAN BY <2>1, <2>2
  <2> QED BY <2>3, <2>4
<1>5. (setup = 2 => remapped') /\ (remapped => remapped')
  BY SetupSteps, Zenon DEF SetupStep
<1>6. (setup = 7 => loaded') /\ (loaded => loaded')
  BY SetupSteps, Zenon DEF SetupStep
<1>7. /\ InterruptHandlers' = [n \in 0 .. SyscallSlot |-> InterruptHandlers'[n]]
      /\ setup' > 3 => \A n \in 0 .. SyscallSlot : InterruptHandlers'[n] # "unset"
  BY <1>1 DEF SetupStep, SetupInv, Setup, SetInterruptHandler, SyscallSlot
<1>8. /\ gates' = [n \in IDs |-> gates'[n]]
      /\ setup' > 5 => \A n \in IDs \ {SYSCALL} : Leads(n)'
      /\ setup' > 6 => Leads(SYSCALL)'
  <2> DEFINE Made(n) == SetInterruptEntry(StubAddress[n])
  <2>1. /\ \A n \in IDs : gates'[n] = Made(n) => Leads(n)'
        /\ \A n \in IDs : gates'[n] = gates[n] /\ Leads(n) => Leads(n)'
    BY GateOfStub DEF Leads
  <2>2. gates = [n \in IDs |-> gates[n]] BY DEF SetupInv
  <2>3. gates' = CASE Setup[setup] = "NullGates" -> [n \in IDs |-> NullEntry]
                   [] Setup[setup] = "SetGates" ->
                        [n \in IDs |-> IF n = SYSCALL THEN gates[n] ELSE Made(n)]
                   [] Setup[setup] = "SetSyscallGate" ->
                        [gates EXCEPT ![SYSCALL] = Made(SYSCALL)]
                   [] OTHER -> gates
    BY DEF SetupStep
  <2> HIDE DEF Made
  <2>4. gates' = [n \in IDs |-> gates'[n]] BY <2>2, <2>3
  <2>5. CASE setup = 5
    BY <1>1, <2>1, <2>3, <2>5, SetupSteps
  <2>6. CASE setup = 6
    <3>1. gates' = [gates EXCEPT ![SYSCALL] = Made(SYSCALL)]
      BY <2>3, <2>6, SetupSteps
    <3>2. SYSCALL \in IDs BY DEF IDs
    <3> QED BY <1>1, <2>1, <2>2, <2>4, <2>6, <3>1, <3>2 DEF SetupInv
  <2>7. CASE setup > 6
    <3>1. \/ gates' = gates
          \/ \E n \in IDs : gates' = [gates EXCEPT ![n] = Made(n)]
          \/ gates' = [n \in IDs |-> IF n = SYSCALL THEN gates[n] ELSE Made(n)]
      BY <1>1, <2>3, <2>7, SetupSteps DEF IDs
    <3>2. \A n \in IDs : gates'[n] = gates[n] \/ gates'[n] = Made(n)
      BY <2>2, <3>1
    <3>3. \A n \in IDs : Leads(n) BY <1>1, <2>7 DEF SetupInv
    <3>4. \A n \in IDs : Leads(n)' BY <2>1, <3>2, <3>3
    <3> QED BY <2>4, <3>4 DEF IDs
  <2> QED BY <1>1, <2>4, <2>5, <2>6, <2>7
<1>9. SetupInv'
  BY <1>1, <1>4, <1>5, <1>6, <1>7, <1>8 DEF SetupInv
<1> QED BY <1>3, <1>9

\* With the set-up done the processor finds its way to every handler.
LEMMA Prepared ==
    ASSUME SetupInv, setup = 12
    PROVE  /\ remapped /\ loaded /\ \A n \in IDs : Leads(n)
           /\ \A n \in 0 .. SyscallSlot : InterruptHandlers[n] # "unset"
BY DEF SetupInv

LEMMA SetupKept ==
    ASSUME SetupInv, UNCHANGED setupVars, IFlag' \in BOOLEAN,
           IFlag' => setup = 12
    PROVE  SetupInv'
BY DEF SetupInv, setupVars, Leads

LEMMA InterruptInv ==
    ASSUME InterruptsInv, NEW n \in IDs \ {SYSCALL}, NEW served,
           Interrupt(n, served), served \in Serves(n),
           UNCHANGED setupVars, irr' \subseteq irr
    PROVE  InterruptsInv'
<1>1. /\ setup = 12 /\ serving = None /\ isr = {}
      /\ isr' = served /\ IFlag' \in BOOLEAN
      /\ serving' = IF remapped /\ loaded /\ Leads(n)
                    THEN [id |-> n, todo |-> "handler"] ELSE Crashed
  BY DEF Interrupt, InterruptsInv, SetupInv, ServingInv, InMain, None
<1>2. serving' = [id |-> n, todo |-> "handler"]
  BY <1>1, Prepared DEF InterruptsInv
<1>3. SetupInv' BY <1>1, SetupKept DEF InterruptsInv
<1>4. ServingInv'
  BY <1>1, <1>2 DEF InterruptsInv, ServingInv, setupVars
<1> QED BY <1>3, <1>4 DEF InterruptsInv

LEMMA AcknowledgeInv ==
    ASSUME InterruptsInv, Acknowledge
    PROVE  InterruptsInv'
<1>1. irr # {} /\ irr \in SUBSET (0 .. 15) /\ irr \subseteq Lines
  BY LineAssumption DEF Acknowledge, InterruptsInv, ServingInv
<1>2. First(irr) \in Lines BY <1>1, FirstIsLatched
<1>3. First(irr) \in IDs \ {SYSCALL}
  <2>1. \A l \in Lines : l \in IDs \ {SYSCALL}
    BY LineAssumption DEF IDs, SYSCALL
  <2> QED BY <1>2, <2>1
<1>4. InService(First(irr)) \in Serves(First(irr)) BY <1>3 DEF Serves
<1>5. Interrupt(First(irr), InService(First(irr))) /\ UNCHANGED setupVars
  BY DEF Acknowledge
<1>6. irr' \subseteq irr BY DEF Acknowledge
<1> QED BY <1>3, <1>4, <1>5, <1>6, InterruptInv

LEMMA AcknowledgeSpuriousInv ==
    ASSUME InterruptsInv, AcknowledgeSpurious
    PROVE  InterruptsInv'
<1>1. PICK n \in Spurious : Interrupt(n, IF n = 15 THEN {2} ELSE {})
  BY DEF AcknowledgeSpurious
<1>2. n \in {7, 15} BY LineAssumption
<1>3. n \in IDs \ {SYSCALL} /\ (IF n = 15 THEN {2} ELSE {}) \in Serves(n)
  BY <1>2 DEF IDs, SYSCALL, Serves
<1>4. irr' \subseteq irr /\ UNCHANGED setupVars BY DEF AcknowledgeSpurious
<1> QED BY <1>1, <1>3, <1>4, InterruptInv

LEMMA Int80Inv ==
    ASSUME InterruptsInv, Int80
    PROVE  InterruptsInv'
<1> USE DEF InterruptsInv
<1>1. /\ setup = 12 /\ serving = None /\ isr = {} /\ IFlag' \in BOOLEAN
      /\ serving' = IF loaded /\ Leads(SYSCALL)
                    THEN [id |-> SYSCALL, todo |-> "handler"] ELSE Crashed
      /\ UNCHANGED <<setupVars, irr, isr>>
  <2>1. setup = 12 BY SetupSteps DEF Int80, SetupInv, Running
  <2>2. serving = None /\ isr = {} BY DEF Int80, ServingInv, InMain, None
  <2> QED BY <2>1, <2>2 DEF Int80
<1>2. SYSCALL \in IDs BY DEF IDs
<1>3. serving' = [id |-> SYSCALL, todo |-> "handler"]
  BY <1>1, <1>2, Prepared DEF InterruptsInv
<1>4. SetupInv' BY <1>1, SetupKept DEF InterruptsInv
<1>5. {} \in Serves(SYSCALL) BY DEF Serves
<1>6. ServingInv'
  BY <1>1, <1>2, <1>3, <1>5 DEF InterruptsInv, ServingInv, setupVars
<1> QED BY <1>4, <1>6 DEF InterruptsInv

LEMMA DevicesInv ==
    ASSUME InterruptsInv, Devices
    PROVE  InterruptsInv'
<1>1. UNCHANGED <<setupVars, IFlag, isr, serving>> /\ irr' \subseteq Lines
  BY LineAssumption
     DEF Devices, Tick, BusyPeriodEnds, KeyByte, Raise, InterruptsInv,
         ServingInv
<1>2. SetupInv' BY <1>1, SetupKept DEF InterruptsInv, SetupInv, setupVars
<1>3. ServingInv' BY <1>1 DEF InterruptsInv, ServingInv, setupVars
<1> QED BY <1>2, <1>3 DEF InterruptsInv

LEMMA StubInv ==
    ASSUME InterruptsInv, CallHandler \/ EndOfInterrupt
    PROVE  InterruptsInv'
<1>1. PICK n \in IDs, todo \in {"handler", "eoi", "iretd"} :
        /\ setup = 12
        /\ serving = [id |-> n, todo |-> todo]
        /\ isr \in IF todo = "iretd" THEN {{}} ELSE Serves(n)
  BY DEF InterruptsInv, ServingInv, CallHandler, EndOfInterrupt, None
<1>2. UNCHANGED <<setupVars, IFlag, irr>> BY DEF CallHandler, EndOfInterrupt
<1>3. SetupInv' BY <1>2, SetupKept DEF InterruptsInv, SetupInv, setupVars
<1>4. setup' = 12 /\ irr' \subseteq Lines
  BY <1>1, <1>2 DEF setupVars, InterruptsInv, ServingInv
<1>5. CASE CallHandler
  <2>1. Slot(n) \in 0 .. SyscallSlot BY DEF Slot, SyscallSlot, IDs
  <2>2. InterruptHandlers[Slot(n)] # "unset"
    BY <1>1, <2>1, Prepared DEF InterruptsInv
  <2>3. serving.todo = "handler" /\ serving.id = n BY <1>1, <1>5 DEF CallHandler
  <2>4. /\ serving' = [id |-> n, todo |-> "eoi"]
        /\ isr' = isr /\ isr \in Serves(n)
    BY <1>1, <1>5, <2>2, <2>3 DEF CallHandler
  <2> QED BY <1>3, <1>4, <2>4 DEF InterruptsInv, ServingInv
<1>6. CASE EndOfInterrupt
  <2>1. todo = "eoi" /\ serving.id = n BY <1>1, <1>6 DEF EndOfInterrupt
  <2>2. isr' = {} BY <1>1, <1>6, <2>1, EoiUndoes DEF EndOfInterrupt
  <2>3. serving' = [id |-> n, todo |-> "iretd"]
    BY <1>1, <1>6, <2>1 DEF EndOfInterrupt
  <2> QED BY <1>3, <1>4, <2>2, <2>3 DEF InterruptsInv, ServingInv
<1> QED BY <1>5, <1>6

LEMMA ReturnInv ==
    ASSUME InterruptsInv, Return
    PROVE  InterruptsInv'
<1>1. /\ setup = 12 /\ isr = {} /\ serving' = None /\ IFlag' = TRUE
      /\ UNCHANGED <<setupVars, irr, isr>>
  BY DEF Return, InterruptsInv, ServingInv, None
<1>2. SetupInv' BY <1>1, SetupKept DEF InterruptsInv, SetupInv, setupVars
<1>3. ServingInv' BY <1>1 DEF InterruptsInv, ServingInv
<1> QED BY <1>2, <1>3 DEF InterruptsInv

-----------------------------------------------------------------------------
(* The entry code *)

Trap == <<"EIP", "CS", "EFLAGS", "below">>
Pushed == <<"EDI", "ESI", "EBP", "ESP", "EBX", "EDX", "ECX", "EAX",
            "EIP", "CS", "EFLAGS", "below">>
Name == {"EDI", "ESI", "EBP", "ESP", "EBX", "EDX", "ECX", "EAX",
         "EIP", "CS", "EFLAGS", "below", "ID", "handler"}
Half == Name \X {0, 1}

\* Behind k halves the words of ws lie on s, and nothing else.
Lies(s, k, ws) ==
    /\ s \in Seq(Half) /\ ws \in Seq(Name)
    /\ Len(s) = k + 2 * Len(ws)
    /\ \A m \in 1 .. Len(ws) : /\ s[k + 2 * m - 1] = <<ws[m], 0>>
                               /\ s[k + 2 * m] = <<ws[m], 1>>

Own == [r \in Frame!Registers |-> Frame!Word(r)]

LEMMA WordHalves == \A v : Frame!Word(v) = <<<<v, 0>>, <<v, 1>>>>
BY DEF Frame!Word, Frame!Low, Frame!High

LEMMA OneWord ==
    ASSUME NEW v \in Name
    PROVE  Lies(Frame!Word(v), 0, <<v>>)
<1> DEFINE s == <<<<v, 0>>, <<v, 1>>>>
           ws == <<v>>
<1>1. <<v, 0>> \in Half /\ <<v, 1>> \in Half BY DEF Half
<1>2. /\ s \in Seq(Half) /\ Len(s) = 2 /\ s[1] = <<v, 0>> /\ s[2] = <<v, 1>>
      /\ ws \in Seq(Name) /\ Len(ws) = 1 /\ ws[1] = v
  BY <1>1
<1> HIDE DEF s, ws
<1>3. Lies(s, 0, ws) BY <1>2 DEF Lies
<1> QED BY <1>3, WordHalves DEF s, ws

LEMMA Concat ==
    ASSUME NEW S, NEW s \in Seq(S), NEW t \in Seq(S)
    PROVE  /\ s \o t \in Seq(S) /\ Len(s \o t) = Len(s) + Len(t)
           /\ \A j \in 1 .. Len(s) : (s \o t)[j] = s[j]
           /\ \A j \in 1 .. Len(t) : (s \o t)[Len(s) + j] = t[j]
OBVIOUS

\* us is vs followed by ws.
Joins(vs, ws, us) ==
    /\ us \in Seq(Name) /\ Len(us) = Len(vs) + Len(ws)
    /\ \A j \in 1 .. Len(vs) : us[j] = vs[j]
    /\ \A j \in 1 .. Len(ws) : us[Len(vs) + j] = ws[j]

LEMMA WordsOnWords ==
    ASSUME NEW a, NEW b, NEW k \in Nat, NEW vs, NEW ws, NEW us,
           Lies(a, k, vs), Lies(b, 0, ws), Joins(vs, ws, us)
    PROVE  Lies(a \o b, k, us)
<1> DEFINE s == a \o b
<1>1. /\ Len(vs) \in Nat /\ Len(ws) \in Nat
      /\ Len(a) = k + 2 * Len(vs) /\ Len(b) = 2 * Len(ws)
      /\ a \in Seq(Half) /\ b \in Seq(Half)
      /\ vs \in Seq(Name) /\ ws \in Seq(Name)
  BY DEF Lies
<1>2. /\ s \in Seq(Half) /\ Len(s) = Len(a) + Len(b)
      /\ \A j \in 1 .. Len(a) : s[j] = a[j]
      /\ \A j \in 1 .. Len(b) : s[Len(a) + j] = b[j]
  <2>1. a \in Seq(Half) /\ b \in Seq(Half) BY <1>1
  <2> QED BY <2>1, Concat
<1>3. /\ us \in Seq(Name) /\ Len(us) = Len(vs) + Len(ws)
      /\ \A j \in 1 .. Len(vs) : us[j] = vs[j]
      /\ \A j \in 1 .. Len(ws) : us[Len(vs) + j] = ws[j]
  BY DEF Joins
<1> HIDE DEF s
<1>4. ASSUME NEW m \in 1 .. Len(vs)
      PROVE  s[k + 2 * m - 1] = <<us[m], 0>> /\ s[k + 2 * m] = <<us[m], 1>>
  <2>1. k + 2 * m - 1 \in 1 .. Len(a) /\ k + 2 * m \in 1 .. Len(a)
    BY <1>1, <1>4
  <2> QED BY <1>2, <1>3, <1>4, <2>1 DEF Lies
<1>5. ASSUME NEW m \in 1 .. Len(ws)
      PROVE  /\ s[k + 2 * (Len(vs) + m) - 1] = <<us[Len(vs) + m], 0>>
             /\ s[k + 2 * (Len(vs) + m)] = <<us[Len(vs) + m], 1>>
  <2>1. 2 * m - 1 \in 1 .. Len(b) /\ 2 * m \in 1 .. Len(b)
    BY <1>1, <1>5
  <2>2. /\ k + 2 * (Len(vs) + m) - 1 = Len(a) + (2 * m - 1)
        /\ k + 2 * (Len(vs) + m) = Len(a) + 2 * m
    BY <1>1, <1>5
  <2>3. b[2 * m - 1] = <<ws[m], 0>> /\ b[2 * m] = <<ws[m], 1>>
    <3>1. 0 + 2 * m - 1 = 2 * m - 1 /\ 0 + 2 * m = 2 * m BY <1>5
    <3> QED BY <1>5, <3>1 DEF Lies
  <2> QED BY <1>2, <1>3, <1>5, <2>1, <2>2, <2>3
<1>6. ASSUME NEW m \in 1 .. Len(us)
      PROVE  s[k + 2 * m - 1] = <<us[m], 0>> /\ s[k + 2 * m] = <<us[m], 1>>
  <2>1. CASE m <= Len(vs) BY <1>1, <1>4, <1>6, <2>1
  <2>2. CASE m > Len(vs)
    <3>1. m - Len(vs) \in 1 .. Len(ws) /\ m = Len(vs) + (m - Len(vs))
      BY <1>1, <1>3, <1>6, <2>2
    <3> QED BY <1>5, <3>1
  <2> QED BY <1>1, <1>6, <2>1, <2>2
<1>7. Len(s) = k + 2 * Len(us) BY <1>1, <1>2, <1>3
<1> QED BY <1>2, <1>3, <1>6, <1>7 DEF Lies, s

\* Taking the halves above the words ws off, and the words above them.
LEMMA WordsBelow ==
    ASSUME NEW s, NEW k \in Nat, NEW vs \in Seq(Name), NEW ws \in Seq(Name),
           NEW us, Lies(s, k, us), Joins(vs, ws, us)
    PROVE  Lies(SubSeq(s, k + 2 * Len(vs) + 1, Len(s)), 0, ws)
<1> DEFINE n == k + 2 * Len(vs)
           t == SubSeq(s, n + 1, Len(s))
<1>1. /\ Len(vs) \in Nat /\ Len(ws) \in Nat /\ n \in Nat
      /\ Len(us) = Len(vs) + Len(ws)
      /\ s \in Seq(Half) /\ Len(s) = n + 2 * Len(ws)
  BY DEF Lies, Joins
<1> HIDE DEF n
<1>2. /\ t \in Seq(Half) /\ Len(t) = 2 * Len(ws)
      /\ \A j \in 1 .. Len(t) : t[j] = s[n + j]
  BY <1>1
<1> HIDE DEF t
<1>3. ASSUME NEW m \in 1 .. Len(ws)
      PROVE  t[2 * m - 1] = <<ws[m], 0>> /\ t[2 * m] = <<ws[m], 1>>
  <2>1. 2 * m - 1 \in 1 .. Len(t) /\ 2 * m \in 1 .. Len(t)
    BY <1>1, <1>2, <1>3
  <2>2. Len(vs) + m \in 1 .. Len(us) /\ us[Len(vs) + m] = ws[m]
    BY <1>1, <1>3 DEF Joins
  <2>3. /\ s[k + 2 * (Len(vs) + m) - 1] = <<ws[m], 0>>
        /\ s[k + 2 * (Len(vs) + m)] = <<ws[m], 1>>
    BY <2>2 DEF Lies
  <2>4. /\ k + 2 * (Len(vs) + m) - 1 = n + (2 * m - 1)
        /\ k + 2 * (Len(vs) + m) = n + 2 * m
    BY <1>1, <1>3 DEF n
  <2> QED BY <1>2, <2>1, <2>3, <2>4
<1>4. \A m \in 1 .. Len(ws) : 0 + 2 * m - 1 = 2 * m - 1 /\ 0 + 2 * m = 2 * m
  BY <1>1
<1>5. Lies(t, 0, ws) BY <1>1, <1>2, <1>3, <1>4 DEF Lies
<1> QED BY <1>5 DEF t, n

LEMMA WordsAbove ==
    ASSUME NEW s, NEW vs \in Seq(Name), NEW ws \in Seq(Name),
           NEW us, Lies(s, 0, us), Joins(vs, ws, us)
    PROVE  Lies(SubSeq(s, 1, 2 * Len(vs)), 0, vs)
<1> DEFINE t == SubSeq(s, 1, 2 * Len(vs))
<1>1. /\ Len(vs) \in Nat /\ Len(ws) \in Nat
      /\ Len(us) = Len(vs) + Len(ws)
      /\ s \in Seq(Half) /\ Len(s) = 2 * Len(us)
  BY DEF Lies, Joins
<1>2. /\ t \in Seq(Half) /\ Len(t) = 2 * Len(vs)
      /\ \A j \in 1 .. Len(t) : t[j] = s[j]
  BY <1>1
<1> HIDE DEF t
<1>3. ASSUME NEW m \in 1 .. Len(vs)
      PROVE  t[0 + 2 * m - 1] = <<vs[m], 0>> /\ t[0 + 2 * m] = <<vs[m], 1>>
  <2>1. 0 + 2 * m - 1 \in 1 .. Len(t) /\ 0 + 2 * m \in 1 .. Len(t)
    BY <1>1, <1>2, <1>3
  <2>2. m \in 1 .. Len(us) BY <1>1, <1>3
  <2>3. us[m] = vs[m] BY <1>3 DEF Joins
  <2> QED BY <1>2, <2>1, <2>2, <2>3 DEF Lies
<1>4. Lies(t, 0, vs) BY <1>1, <1>2, <1>3 DEF Lies
<1> QED BY <1>4 DEF t

LEMMA SameWords ==
    ASSUME NEW s, NEW t, NEW ws, Lies(s, 0, ws), Lies(t, 0, ws)
    PROVE  s = t
<1>1. /\ Len(ws) \in Nat /\ s \in Seq(Half) /\ t \in Seq(Half)
      /\ Len(s) = 2 * Len(ws) /\ Len(t) = 2 * Len(ws)
  BY DEF Lies
<1>2. ASSUME NEW j \in 1 .. 2 * Len(ws) PROVE s[j] = t[j]
  <2>1. PICK m \in 1 .. Len(ws) : j = 0 + 2 * m - 1 \/ j = 0 + 2 * m
    <3>1. CASE j % 2 = 0
      <4>1. j \div 2 \in 1 .. Len(ws) /\ j = 2 * (j \div 2)
        BY <1>1, <1>2, <3>1
      <4> QED BY <4>1
    <3>2. CASE j % 2 = 1
      <4>1. (j + 1) \div 2 \in 1 .. Len(ws) /\ j = 2 * ((j + 1) \div 2) - 1
        BY <1>1, <1>2, <3>2
      <4> QED BY <4>1
    <3> QED BY <1>1, <1>2, <3>1, <3>2
  <2> QED BY <2>1 DEF Lies
<1> QED BY <1>1, <1>2

\* Further halves on top.
LEMMA HalvesOnWords ==
    ASSUME NEW x \in Seq(Half), NEW s, NEW ws, Lies(s, 0, ws)
    PROVE  Lies(x \o s, Len(x), ws)
<1>1. /\ Len(x) \in Nat /\ Len(ws) \in Nat /\ s \in Seq(Half)
      /\ ws \in Seq(Name) /\ Len(s) = 2 * Len(ws)
  BY DEF Lies
<1> DEFINE t == x \o s
<1>2. /\ t \in Seq(Half) /\ Len(t) = Len(x) + Len(s)
      /\ \A j \in 1 .. Len(s) : t[Len(x) + j] = s[j]
  <2>1. s \in Seq(Half) BY <1>1
  <2> QED BY <2>1, Concat
<1> HIDE DEF t
<1>3. ASSUME NEW m \in 1 .. Len(ws)
      PROVE  /\ t[Len(x) + 2 * m - 1] = <<ws[m], 0>>
             /\ t[Len(x) + 2 * m] = <<ws[m], 1>>
  <2>1. /\ 0 + 2 * m - 1 \in 1 .. Len(s) /\ 0 + 2 * m \in 1 .. Len(s)
        /\ Len(x) + 2 * m - 1 = Len(x) + (0 + 2 * m - 1)
        /\ Len(x) + 2 * m = Len(x) + (0 + 2 * m)
    BY <1>1, <1>3
  <2> QED BY <1>2, <2>1 DEF Lies
<1> QED BY <1>1, <1>2, <1>3 DEF Lies, t

LEMMA RegisterNames ==
    /\ Frame!Registers = {"EAX", "ECX", "EDX", "EBX", "ESP", "EBP", "ESI",
                          "EDI"}
    /\ \A r \in Frame!Registers : \E n \in 1 .. 8 : r = Frame!Order[n]
    /\ \A n \in 1 .. 8 : Frame!Order[n] \in Frame!Registers
BY DEF Frame!Registers, Frame!Order

\* The offsets of struct Registers32 are those at which pushad left the words.
LEMMA FieldOffset ==
    ASSUME NEW s, NEW k \in {0, 2}, Lies(s, k, Pushed), NEW r \in Frame!Registers
    PROVE  /\ Frame!Field(r) \in 0 .. 14
           /\ s[k + Frame!Field(r) + 1] = Frame!Word(r)[1]
           /\ s[k + Frame!Field(r) + 2] = Frame!Word(r)[2]
<1>1. PICK n \in 1 .. 8 : r = Frame!Order[n] BY RegisterNames
<1>2. \A m \in 1 .. 8 : Frame!Order[m] = Frame!Order[n] => m = n
  BY DEF Frame!Order
<1>3. (CHOOSE m \in 1 .. 8 : Frame!Order[m] = r) = n BY <1>1, <1>2
<1>4. Frame!Field(r) = 16 - 2 * n BY <1>3 DEF Frame!Field
<1>5. Len(Pushed) = 12 /\ Pushed[9 - n] = Frame!Order[n]
  BY DEF Pushed, Frame!Order
<1>6. 9 - n \in 1 .. 12 BY <1>1
<1>7. /\ s[k + 2 * (9 - n) - 1] = <<r, 0>>
      /\ s[k + 2 * (9 - n)] = <<r, 1>>
  BY <1>1, <1>5, <1>6 DEF Lies
<1>8. /\ k + 2 * (9 - n) - 1 = k + Frame!Field(r) + 1
      /\ k + 2 * (9 - n) = k + Frame!Field(r) + 2
  BY <1>4, <1>6
<1>9. Frame!Word(r)[1] = <<r, 0>> /\ Frame!Word(r)[2] = <<r, 1>>
  BY WordHalves
<1> QED BY <1>1, <1>4, <1>7, <1>8, <1>9

\* What the stub makes of the halves s that begin k halves behind its arguments.
Over(s, k) ==
    [n \in 1 .. Len(s) |->
        IF n - 1 + k \in scribbled THEN Frame!Low("handler") ELSE s[n]]

LEMMA OverBelow ==
    ASSUME NEW s \in Seq(Half), NEW k \in Nat, NEW m \in 0 .. Len(s)
    PROVE  /\ Over(s, k) \in Seq(Half) /\ Len(Over(s, k)) = Len(s)
           /\ SubSeq(Over(s, k), m + 1, Len(s)) =
                 Over(SubSeq(s, m + 1, Len(s)), k + m)
<1> DEFINE o == Over(s, k)
           t == SubSeq(s, m + 1, Len(s))
           ot == Over(t, k + m)
           u == SubSeq(o, m + 1, Len(s))
           h == Frame!Low("handler")
<1>1. h \in Half BY DEF Frame!Low, Half, Name
<1>2. /\ Len(s) \in Nat /\ m \in Nat /\ m <= Len(s)
      /\ t \in Seq(Half) /\ Len(t) = Len(s) - m
      /\ \A j \in 1 .. Len(s) - m : t[j] = s[m + j]
  OBVIOUS
<1>3. /\ o \in Seq(Half) /\ Len(o) = Len(s)
      /\ \A j \in 1 .. Len(s) :
            o[j] = IF j - 1 + k \in scribbled THEN h ELSE s[j]
  BY <1>1 DEF Over
<1>4. /\ ot \in Seq(Half) /\ Len(ot) = Len(t)
      /\ \A j \in 1 .. Len(t) :
            ot[j] = IF j - 1 + (k + m) \in scribbled THEN h ELSE t[j]
  <2> HIDE DEF t
  <2> QED BY <1>1, <1>2 DEF Over
<1> HIDE DEF o, t, ot, h
<1>5. /\ u \in Seq(Half) /\ Len(u) = Len(s) - m
      /\ \A j \in 1 .. Len(s) - m : u[j] = o[m + j]
  BY <1>2, <1>3
<1> HIDE DEF u
<1>6. ASSUME NEW j \in 1 .. Len(u) PROVE u[j] = ot[j]
  <2>1. /\ m + j \in 1 .. Len(s) /\ j \in 1 .. Len(t)
        /\ j \in 1 .. Len(s) - m
        /\ m + j - 1 + k = j - 1 + (k + m)
    BY <1>2, <1>5, <1>6
  <2>2. u[j] = o[m + j] /\ t[j] = s[m + j] BY <1>2, <1>5, <2>1
  <2>3. o[m + j] = IF j - 1 + (k + m) \in scribbled THEN h ELSE s[m + j]
    <3>1. PICK i \in 1 .. Len(s) : i = m + j BY <2>1
    <3>2. o[i] = IF i - 1 + k \in scribbled THEN h ELSE s[i] BY <1>3
    <3>3. i - 1 + k = j - 1 + (k + m) BY <2>1, <3>1
    <3> QED BY <3>1, <3>2, <3>3, Zenon
  <2>4. ot[j] = IF j - 1 + (k + m) \in scribbled THEN h ELSE t[j]
    BY <1>4, <2>1, Zenon
  <2> QED BY <2>2, <2>3, <2>4, Zenon
<1>7. u = ot BY <1>2, <1>4, <1>5, <1>6, SeqEqual
<1> QED BY <1>3, <1>7 DEF o, t, ot, u

\* Behind its arguments the stub writes nothing.
LEMMA OverNothing ==
    ASSUME NEW s \in Seq(Half), NEW k \in Nat,
           \A n \in 1 .. Len(s) : n - 1 + k \notin scribbled
    PROVE  Over(s, k) = s
<1>1. /\ Over(s, k) \in Seq(Half) /\ Len(Over(s, k)) = Len(s)
      /\ \A j \in 1 .. Len(s) : Over(s, k)[j] = s[j]
  <2>1. Over(s, k) = [j \in 1 .. Len(s) |-> s[j]] BY DEF Over
  <2> QED BY <2>1
<1> HIDE DEF Over
<1> QED BY <1>1, SeqEqual

\* The halves of Regs and what is left of ID once ID is popped.
Behind == IF id = SYSCALL THEN 1 ELSE 2

\* What the interrupted program has, or will have, in its registers.
Kept ==
    \A r \in Frame!Registers, n \in 1 .. 2 :
        \/ regs[r][n] = Frame!Word(r)[n]
        \/ r # "ESP" /\ Frame!Slot(r) + n - 1 \in scribbled

\* What lies on the stack at each step, and what the registers hold.
FrameInv ==
    /\ pc \in {"program", "pushad", "push", "call", "pop", "popad", "iretd",
               "lost"}
    /\ regs = [r \in Frame!Registers |-> regs[r]]
    /\ regs["ESP"] = Frame!Word("ESP")
    /\ scribbled \subseteq 0 .. 17
    /\ pc \in {"pushad", "push", "call"} => regs = Own
    /\ pc \in {"iretd", "program"} => Kept
    /\ pc \in {"program", "lost"} => Lies(stack, 0, <<"below">>)
    /\ pc = "lost" => id = SYSCALL /\ 17 \in scribbled
    /\ pc = "pushad" => Lies(stack, 0, Trap)
    /\ pc = "push" => Lies(stack, 0, Pushed)
    /\ pc = "call" => Lies(stack, Behind, Pushed) /\ stack[1] = <<"ID", 0>>
    /\ pc = "pop" => \E s : Lies(s, Behind, Pushed) /\ stack = Over(s, 0)
    /\ pc = "popad" => \E s : Lies(s, 0, Pushed) /\ stack = Over(s, Behind)
    /\ pc = "iretd" => \E s : Lies(s, 0, Trap) /\ stack = Over(s, Behind + 16)
    /\ pc = "pop" => /\ args.ID = <<"ID", 0>>
                     /\ id # SYSCALL =>
                           \A r \in Frame!Registers : args.Regs[r] = Frame!Word(r)

LEMMA TrapWords ==
    Lies(Frame!Word("EIP") \o Frame!Word("CS") \o Frame!Word("EFLAGS"), 0,
         <<"EIP", "CS", "EFLAGS">>)
<1>1. Joins(<<"EIP">>, <<"CS">>, <<"EIP", "CS">>) BY DEF Joins, Name
<1>2. Lies(Frame!Word("EIP") \o Frame!Word("CS"), 0, <<"EIP", "CS">>)
  BY <1>1, OneWord, WordsOnWords DEF Name
<1>3. Joins(<<"EIP", "CS">>, <<"EFLAGS">>, <<"EIP", "CS", "EFLAGS">>)
  BY DEF Joins, Name
<1> QED BY <1>2, <1>3, OneWord, WordsOnWords DEF Name

LEMMA OwnRegisters ==
    /\ Own = [r \in Frame!Registers |-> Own[r]]
    /\ Own["ESP"] = Frame!Word("ESP")
    /\ \A r \in Frame!Registers : Own[r] = Frame!Word(r)
BY RegisterNames DEF Own

LEMMA FrameInterruptInv ==
    ASSUME FrameInv, Frame!Interrupt
    PROVE  FrameInv'
<1>1. Lies(stack, 0, <<"below">>) BY DEF FrameInv, Frame!Interrupt
<1>2. Joins(<<"EIP", "CS", "EFLAGS">>, <<"below">>, Trap)
  BY DEF Joins, Name, Trap
<1>3. Lies(stack', 0, Trap)
  BY <1>1, <1>2, TrapWords, WordsOnWords DEF Frame!Interrupt
<1>4. regs' = Own /\ scribbled' = {} /\ pc' = "pushad"
  BY DEF Frame!Interrupt, Own
<1> QED BY <1>3, <1>4, OwnRegisters DEF FrameInv

LEMMA PushadInv ==
    ASSUME FrameInv, Frame!Pushad
    PROVE  FrameInv'
<1> DEFINE W(v) == Frame!Word(v)
<1>1. \A r \in Frame!Registers : regs[r] = W(r)
  BY OwnRegisters DEF FrameInv, Frame!Pushad
<1>2. stack' = W("EDI") \o W("ESI") \o W("EBP") \o W("ESP")
                   \o W("EBX") \o W("EDX") \o W("ECX") \o W("EAX") \o stack
  BY <1>1, RegisterNames DEF Frame!Pushad
<1>3. \A v \in Name : Lies(W(v), 0, <<v>>) BY OneWord
<1> HIDE DEF W
<1> USE DEF Name
<1>4. Lies(W("EDI") \o W("ESI"), 0, <<"EDI", "ESI">>)
  <2>1. Joins(<<"EDI">>, <<"ESI">>, <<"EDI", "ESI">>) BY DEF Joins
  <2> QED BY <1>3, <2>1, WordsOnWords
<1>5. Lies(W("EDI") \o W("ESI") \o W("EBP"), 0, <<"EDI", "ESI", "EBP">>)
  <2>1. Joins(<<"EDI", "ESI">>, <<"EBP">>, <<"EDI", "ESI", "EBP">>)
    BY DEF Joins
  <2> QED BY <1>3, <1>4, <2>1, WordsOnWords
<1>6. Lies(W("EDI") \o W("ESI") \o W("EBP") \o W("ESP"), 0,
           <<"EDI", "ESI", "EBP", "ESP">>)
  <2>1. Joins(<<"EDI", "ESI", "EBP">>, <<"ESP">>,
              <<"EDI", "ESI", "EBP", "ESP">>)
    BY DEF Joins
  <2> QED BY <1>3, <1>5, <2>1, WordsOnWords
<1>7. Lies(W("EDI") \o W("ESI") \o W("EBP") \o W("ESP") \o W("EBX"), 0,
           <<"EDI", "ESI", "EBP", "ESP", "EBX">>)
  <2>1. Joins(<<"EDI", "ESI", "EBP", "ESP">>, <<"EBX">>,
              <<"EDI", "ESI", "EBP", "ESP", "EBX">>)
    BY DEF Joins
  <2> QED BY <1>3, <1>6, <2>1, WordsOnWords
<1>8. Lies(W("EDI") \o W("ESI") \o W("EBP") \o W("ESP") \o W("EBX")
               \o W("EDX"), 0,
           <<"EDI", "ESI", "EBP", "ESP", "EBX", "EDX">>)
  <2>1. Joins(<<"EDI", "ESI", "EBP", "ESP", "EBX">>, <<"EDX">>,
              <<"EDI", "ESI", "EBP", "ESP", "EBX", "EDX">>)
    BY DEF Joins
  <2> QED BY <1>3, <1>7, <2>1, WordsOnWords
<1>9. Lies(W("EDI") \o W("ESI") \o W("EBP") \o W("ESP") \o W("EBX")
               \o W("EDX") \o W("ECX"), 0,
           <<"EDI", "ESI", "EBP", "ESP", "EBX", "EDX", "ECX">>)
  <2>1. Joins(<<"EDI", "ESI", "EBP", "ESP", "EBX", "EDX">>, <<"ECX">>,
              <<"EDI", "ESI", "EBP", "ESP", "EBX", "EDX", "ECX">>)
    BY DEF Joins
  <2> QED BY <1>3, <1>8, <2>1, WordsOnWords
<1>10. Lies(W("EDI") \o W("ESI") \o W("EBP") \o W("ESP") \o W("EBX")
                \o W("EDX") \o W("ECX") \o W("EAX"), 0,
            <<"EDI", "ESI", "EBP", "ESP", "EBX", "EDX", "ECX", "EAX">>)
  <2>1. Joins(<<"EDI", "ESI", "EBP", "ESP", "EBX", "EDX", "ECX">>, <<"EAX">>,
              <<"EDI", "ESI", "EBP", "ESP", "EBX", "EDX", "ECX", "EAX">>)
    BY DEF Joins
  <2> QED BY <1>3, <1>9, <2>1, WordsOnWords
<1>11. Lies(stack', 0, Pushed)
  <2>1. Joins(<<"EDI", "ESI", "EBP", "ESP", "EBX", "EDX", "ECX", "EAX">>, Trap,
              Pushed)
    BY DEF Joins, Trap, Pushed
  <2>2. Lies(stack, 0, Trap) BY DEF FrameInv, Frame!Pushad
  <2> QED BY <1>2, <1>10, <2>1, <2>2, WordsOnWords
<1> QED BY <1>11 DEF FrameInv, Frame!Pushad


LEMMA PushedJoins ==
    /\ Pushed \in Seq(Name) /\ Trap \in Seq(Name)
    /\ Joins(<<>>, Pushed, Pushed)
    /\ \E vs \in Seq(Name) : Len(vs) = 8 /\ Joins(vs, Trap, Pushed)
    /\ Joins(<<"EIP", "CS", "EFLAGS">>, <<"below">>, Trap)
<1> USE DEF Name
<1>1. Pushed \in Seq(Name) /\ Trap \in Seq(Name) BY DEF Pushed, Trap
<1>2. Joins(<<>>, Pushed, Pushed) BY <1>1 DEF Joins
<1>3. Joins(<<"EDI", "ESI", "EBP", "ESP", "EBX", "EDX", "ECX", "EAX">>, Trap,
            Pushed)
  BY DEF Joins, Trap, Pushed
<1>4. /\ <<"EDI", "ESI", "EBP", "ESP", "EBX", "EDX", "ECX", "EAX">> \in Seq(Name)
      /\ Len(<<"EDI", "ESI", "EBP", "ESP", "EBX", "EDX", "ECX", "EAX">>) = 8
  OBVIOUS
<1>5. Joins(<<"EIP", "CS", "EFLAGS">>, <<"below">>, Trap)
  BY DEF Joins, Trap
<1> QED BY <1>1, <1>2, <1>3, <1>4, <1>5

LEMMA PushIDInv ==
    ASSUME FrameInv, Frame!PushID
    PROVE  FrameInv'
<1>1. Lies(stack, 0, Pushed) BY DEF FrameInv, Frame!PushID
<1>2. stack \in Seq(Half) BY <1>1 DEF Lies
<1>3. CASE id = SYSCALL
  <2> DEFINE x == <<<<"ID", 0>>>>
  <2>1. stack' = x \o stack
    BY <1>3 DEF Frame!PushID, Frame!SYSCALL, SYSCALL, Frame!Low
  <2>2. x \in Seq(Half) /\ Len(x) = 1 /\ x[1] = <<"ID", 0>>
    BY DEF Half, Name
  <2> HIDE DEF x
  <2>3. Lies(stack', 1, Pushed) BY <1>1, <2>1, <2>2, HalvesOnWords
  <2>4. stack'[1] = <<"ID", 0>>
    <3>1. \A j \in 1 .. Len(x) : (x \o stack)[j] = x[j]
      BY <1>2, <2>2, Concat
    <3>2. 1 \in 1 .. Len(x) BY <2>2
    <3>3. (x \o stack)[1] = <<"ID", 0>> BY <2>2, <3>1, <3>2
    <3> QED BY <2>1, <3>3
  <2> QED BY <1>3, <2>3, <2>4 DEF FrameInv, Frame!PushID, Behind
<1>4. CASE id # SYSCALL
  <2> DEFINE x == <<<<"ID", 0>>, <<"ID", 1>>>>
  <2>1. stack' = x \o stack
    BY <1>4, WordHalves DEF Frame!PushID, Frame!SYSCALL, SYSCALL
  <2>2. x \in Seq(Half) /\ Len(x) = 2 /\ x[1] = <<"ID", 0>>
    BY DEF Half, Name
  <2> HIDE DEF x
  <2>3. Lies(stack', 2, Pushed) BY <1>1, <2>1, <2>2, HalvesOnWords
  <2>4. stack'[1] = <<"ID", 0>>
    <3>1. \A j \in 1 .. Len(x) : (x \o stack)[j] = x[j]
      BY <1>2, <2>2, Concat
    <3>2. 1 \in 1 .. Len(x) BY <2>2
    <3>3. (x \o stack)[1] = <<"ID", 0>> BY <2>2, <3>1, <3>2
    <3> QED BY <2>1, <3>3
  <2> QED BY <1>4, <2>3, <2>4 DEF FrameInv, Frame!PushID, Behind
<1> QED BY <1>3, <1>4

LEMMA FrameStubInv ==
    ASSUME FrameInv, Frame!Stub
    PROVE  FrameInv'
<1>1. PICK clobbered \in SUBSET Frame!CallerSaved :
        regs' = [r \in Frame!Registers |->
                    IF r \in clobbered THEN Frame!Word("handler") ELSE regs[r]]
  BY DEF Frame!Stub
<1>2. "ESP" \in Frame!Registers /\ "ESP" \notin clobbered
  BY RegisterNames DEF Frame!CallerSaved
<1>3. /\ regs' = [r \in Frame!Registers |-> regs'[r]]
      /\ regs'["ESP"] = Frame!Word("ESP")
  BY <1>1, <1>2 DEF FrameInv
<1>4. args' = [ID |-> Frame!At(0)[1],
               Regs |-> [r \in Frame!Registers |-> Frame!At(2 + Frame!Field(r))]]
  BY DEF Frame!Stub
<1>5. Frame!At(0)[1] = stack[1] BY DEF Frame!At
<1>6. /\ pc = "call" /\ pc' = "pop" /\ id' = id
      /\ Lies(stack, Behind, Pushed)
  BY DEF Frame!Stub, FrameInv
<1>7. args'.ID = <<"ID", 0>> BY <1>4, <1>5, <1>6 DEF FrameInv
<1>8. id # SYSCALL => \A r \in Frame!Registers : args'.Regs[r] = Frame!Word(r)
  <2>1. SUFFICES ASSUME id # SYSCALL, NEW r \in Frame!Registers
                 PROVE  Frame!At(2 + Frame!Field(r)) = Frame!Word(r)
    BY <1>4
  <2>2. Lies(stack, 2, Pushed) BY <1>6, <2>1 DEF Behind
  <2>3. /\ stack[2 + Frame!Field(r) + 1] = Frame!Word(r)[1]
        /\ stack[2 + Frame!Field(r) + 2] = Frame!Word(r)[2]
    BY <2>1, <2>2, FieldOffset
  <2> QED BY <2>3, WordHalves DEF Frame!At
<1>9. scribbled' \subseteq 0 .. 17
  BY ScribbleAssumption DEF Frame!Stub
<1>10. stack' = Over(stack, 0)'
  BY <1>6 DEF Frame!Stub, Over, FrameInv, Lies
<1>11. \E s : Lies(s, Behind', Pushed) /\ stack' = Over(s, 0)'
  BY <1>6, <1>10 DEF Behind, Frame!Stub, Over
<1> QED BY <1>3, <1>6, <1>7, <1>8, <1>9, <1>11 DEF FrameInv

LEMMA PopIDInv ==
    ASSUME FrameInv, Frame!PopID
    PROVE  FrameInv'
<1>1. /\ regs' = [r \in Frame!Registers |-> regs'[r]]
      /\ regs'["ESP"] = Frame!Word("ESP")
  <2>1. \E v : regs' = [regs EXCEPT !["EAX"] = v]
    <3>1. CASE id = Frame!SYSCALL BY <3>1, Zenon DEF Frame!PopID
    <3>2. CASE id # Frame!SYSCALL BY <3>2, Zenon DEF Frame!PopID
    <3> QED BY <3>1, <3>2
  <2> QED BY <2>1, RegisterNames DEF FrameInv
<1>2. PICK s : Lies(s, Behind, Pushed) /\ stack = Over(s, 0)
  BY DEF FrameInv, Frame!PopID
<1>3. /\ s \in Seq(Half) /\ Len(s) = Behind + 24 /\ Behind \in {1, 2}
      /\ Behind \in Nat /\ 0 + Behind = Behind
  <2>1. Len(Pushed) = 12 BY DEF Pushed
  <2> QED BY <1>2, <2>1 DEF Lies, Behind
<1>4. stack \in Seq(Half) /\ Len(stack) = Len(s)
  BY <1>2, <1>3, OverBelow
<1>5. stack' = SubSeq(stack, Behind + 1, Len(stack))
  <2>1. CASE id = SYSCALL
    <3>1. stack' = Tail(stack) /\ Behind = 1
      BY <2>1 DEF Frame!PopID, Frame!SYSCALL, SYSCALL, Behind
    <3>2. stack # <<>> BY <1>3, <1>4
    <3>3. Tail(stack) = SubSeq(stack, 2, Len(stack))
      BY <1>4, <3>2, TailIsSubSeq
    <3> QED BY <3>1, <3>3
  <2>2. CASE id # SYSCALL
    <3>1. stack' = SubSeq(stack, 3, Len(stack)) /\ Behind = 2
      BY <2>2 DEF Frame!PopID, Frame!SYSCALL, SYSCALL, Behind
    <3> QED BY <3>1
  <2> QED BY <2>1, <2>2
<1> DEFINE t == SubSeq(s, Behind + 1, Len(s))
<1>6. stack' = Over(t, Behind)
  <2>0. Behind \in 0 .. Len(s) /\ 0 \in Nat BY <1>3
  <2>1. SubSeq(Over(s, 0), Behind + 1, Len(s)) = Over(t, 0 + Behind)
    BY <1>3, <2>0, OverBelow, Zenon
  <2> QED BY <1>2, <1>3, <1>4, <1>5, <2>1
<1>7. Lies(t, 0, Pushed)
  <2>1. <<>> \in Seq(Name) /\ Len(<<>>) = 0 OBVIOUS
  <2>2. Lies(SubSeq(s, Behind + 2 * 0 + 1, Len(s)), 0, Pushed)
    BY <1>2, <1>3, <2>1, PushedJoins, WordsBelow
  <2>3. Behind + 2 * 0 + 1 = Behind + 1 BY <1>3
  <2> QED BY <2>2, <2>3
<1>8. /\ pc' = "popad" /\ id' = id /\ scribbled' = scribbled
  BY DEF Frame!PopID
<1>9. \E q : Lies(q, 0, Pushed) /\ stack' = Over(q, Behind)'
  BY <1>6, <1>7, <1>8 DEF Over, Behind
<1> QED BY <1>1, <1>8, <1>9 DEF FrameInv

LEMMA PopadInv ==
    ASSUME FrameInv, Frame!Popad
    PROVE  FrameInv'
<1>1. PICK s : Lies(s, 0, Pushed) /\ stack = Over(s, Behind)
  BY DEF FrameInv, Frame!Popad
<1>2. /\ s \in Seq(Half) /\ Len(s) = 24 /\ Behind \in {1, 2} /\ Behind \in Nat
  <2>1. Len(Pushed) = 12 BY DEF Pushed
  <2> QED BY <1>1, <2>1 DEF Lies, Behind
<1>3. stack \in Seq(Half) /\ Len(stack) = Len(s)
  BY <1>1, <1>2, OverBelow
<1>4. /\ pc' = "iretd" /\ id' = id /\ scribbled' = scribbled
      /\ stack' = SubSeq(stack, 17, Len(stack))
      /\ regs' = [r \in Frame!Registers |->
                     IF r = "ESP" THEN regs[r] ELSE Frame!At(Frame!Field(r))]
  BY DEF Frame!Popad
<1>5. Kept'
  <2>1. SUFFICES ASSUME NEW r \in Frame!Registers, NEW n \in 1 .. 2
                 PROVE  \/ regs'[r][n] = Frame!Word(r)[n]
                        \/ r # "ESP" /\ Frame!Slot(r) + n - 1 \in scribbled
    BY <1>4 DEF Kept, Frame!Slot
  <2>2. CASE r = "ESP" BY <1>4, <2>2 DEF FrameInv
  <2>3. CASE r # "ESP"
    <3> DEFINE f == Frame!Field(r)
    <3>1. /\ f \in 0 .. 14
          /\ s[0 + f + 1] = Frame!Word(r)[1] /\ s[0 + f + 2] = Frame!Word(r)[2]
      BY <1>1, FieldOffset
    <3>2. Frame!Slot(r) = f + Behind
      BY DEF Frame!Slot, Behind, SYSCALL, Frame!SYSCALL
    <3>3. regs'[r] = <<stack[f + 1], stack[f + 2]>>
      BY <1>4, <2>3 DEF Frame!At
    <3> HIDE DEF f
    <3>4. /\ f + n \in 1 .. Len(s)
          /\ f + n - 1 + Behind = f + Behind + n - 1
          /\ 0 + f + 1 = f + 1 /\ 0 + f + 2 = f + 2
      BY <1>2, <3>1
    <3>5. s[f + n] = Frame!Word(r)[n] BY <3>1, <3>4
    <3>6. regs'[r][n] = stack[f + n] BY <3>3
    <3>7. f + n - 1 + Behind \notin scribbled => stack[f + n] = s[f + n]
      <4>1. \A m \in 1 .. Len(s) :
               stack[m] = IF m - 1 + Behind \in scribbled
                          THEN Frame!Low("handler") ELSE s[m]
        BY <1>1 DEF Over
      <4>2. PICK m \in 1 .. Len(s) : m = f + n BY <3>4
      <4>3. stack[m] = IF m - 1 + Behind \in scribbled
                       THEN Frame!Low("handler") ELSE s[m]
        BY <4>1
      <4>4. m - 1 + Behind \notin scribbled => stack[m] = s[m] BY <4>3
      <4>5. m - 1 + Behind = f + n - 1 + Behind BY <1>2, <3>1, <4>2
      <4> QED BY <4>2, <4>4, <4>5, Zenon
    <3> QED BY <2>3, <3>2, <3>4, <3>5, <3>6, <3>7
  <2> QED BY <2>2, <2>3
<1>6. /\ regs' = [r \in Frame!Registers |-> regs'[r]]
      /\ regs'["ESP"] = Frame!Word("ESP")
  BY <1>4, RegisterNames DEF FrameInv
<1> DEFINE t == SubSeq(s, 17, Len(s))
<1>7. Lies(t, 0, Trap)
  <2>1. PICK vs \in Seq(Name) : Len(vs) = 8 /\ Joins(vs, Trap, Pushed)
    BY PushedJoins
  <2>2. Lies(SubSeq(s, 0 + 2 * 8 + 1, Len(s)), 0, Trap)
    BY <1>1, <2>1, PushedJoins, WordsBelow
  <2> QED BY <2>2
<1>8. stack' = Over(t, Behind + 16)
  <2>1. 16 \in 0 .. Len(s) /\ 16 + 1 = 17 BY <1>2
  <2>2. SubSeq(Over(s, Behind), 16 + 1, Len(s)) =
           Over(SubSeq(s, 16 + 1, Len(s)), Behind + 16)
    BY <1>2, <2>1, OverBelow
  <2> QED BY <1>1, <1>3, <1>4, <2>1, <2>2
<1>9. \E q : Lies(q, 0, Trap) /\ stack' = Over(q, Behind + 16)'
  BY <1>4, <1>7, <1>8 DEF Over, Behind
<1> QED BY <1>4, <1>5, <1>6, <1>9 DEF FrameInv

LEMMA IretdInv ==
    ASSUME FrameInv, Frame!Iretd
    PROVE  FrameInv'
<1> DEFINE vs == <<"EIP", "CS", "EFLAGS">>
           below == <<"below">>
           t == Frame!Word("EIP") \o Frame!Word("CS") \o Frame!Word("EFLAGS")
<1>1. PICK s : Lies(s, 0, Trap) /\ stack = Over(s, Behind + 16)
  BY DEF FrameInv, Frame!Iretd
<1>2. /\ vs \in Seq(Name) /\ Len(vs) = 3 /\ below \in Seq(Name)
      /\ Joins(vs, below, Trap)
  BY PushedJoins DEF Name
<1>3. Lies(t, 0, vs) BY TrapWords
<1> HIDE DEF vs, below, t
<1>4. Lies(SubSeq(s, 1, 2 * 3), 0, vs) BY <1>1, <1>2, WordsAbove
<1>5. SubSeq(s, 1, 6) = t
  <2>1. 2 * 3 = 6 OBVIOUS
  <2>2. Lies(SubSeq(s, 1, 6), 0, vs) BY <1>4, <2>1
  <2> QED BY <1>3, <2>2, SameWords
<1>6. /\ s \in Seq(Half) /\ Len(s) = 8 /\ scribbled \subseteq 0 .. 17
      /\ Behind \in {1, 2} /\ Behind + 16 \in Nat /\ Behind + 16 + 6 > 17
  <2>1. Len(Trap) = 4 BY DEF Trap
  <2> QED BY <1>1, <2>1 DEF Lies, Behind, FrameInv
<1>7. stack \in Seq(Half) /\ Len(stack) = Len(s)
  BY <1>1, <1>6, OverBelow
<1>8. \/ id = SYSCALL /\ 17 \in scribbled
      \/ stack = s
  <2>1. ASSUME id # SYSCALL \/ 17 \notin scribbled
        PROVE  \A n \in 1 .. Len(s) : n - 1 + (Behind + 16) \notin scribbled
    BY <1>6, <2>1 DEF Behind
  <2> QED BY <1>1, <1>6, <2>1, OverNothing
<1>9. pc' = "program" \/ (pc' = "lost" /\ id' = SYSCALL /\ 17 \in scribbled')
  BY <1>5, <1>8 DEF Frame!Iretd, t
<1>10. Lies(stack', 0, below)
  <2> DEFINE u == SubSeq(s, 7, Len(s))
  <2>1. Lies(SubSeq(s, 0 + 2 * 3 + 1, Len(s)), 0, below)
    BY <1>1, <1>2, WordsBelow
  <2>2. Lies(u, 0, below) BY <2>1
  <2>3. stack' = Over(u, Behind + 16 + 6)
    <3>1. 6 \in 0 .. Len(s) /\ 6 + 1 = 7 BY <1>6
    <3>2. SubSeq(Over(s, Behind + 16), 6 + 1, Len(s)) =
             Over(SubSeq(s, 6 + 1, Len(s)), Behind + 16 + 6)
      BY <1>6, <3>1, OverBelow
    <3> QED BY <1>1, <1>7, <3>1, <3>2 DEF Frame!Iretd
  <2>4. u \in Seq(Half) BY <2>2 DEF Lies
  <2> HIDE DEF u
  <2>5. \A n \in 1 .. Len(u) : n - 1 + (Behind + 16 + 6) \notin scribbled
    BY <1>6, <2>4
  <2>6. Behind + 16 + 6 \in Nat BY <1>6
  <2>7. stack' = u BY <2>3, <2>4, <2>5, <2>6, OverNothing
  <2> QED BY <2>2, <2>7
<1>11. Kept'
  BY DEF FrameInv, Frame!Iretd, Kept, Frame!Slot
<1> QED BY <1>9, <1>10, <1>11 DEF FrameInv, Frame!Iretd, below

\* Each action of InterruptFrame is executed as it stands.
FrameStep ==
    \/ Frame!Interrupt \/ Frame!Pushad \/ Frame!PushID \/ Frame!Stub
    \/ Frame!PopID \/ Frame!Popad \/ Frame!Iretd

LEMMA FrameStepInv ==
    ASSUME FrameInv, FrameStep \/ UNCHANGED frameVars
    PROVE  FrameInv'
<1>1. CASE UNCHANGED frameVars
  BY <1>1 DEF frameVars, FrameInv, Kept, Over, Behind, Frame!Slot
<1>2. CASE FrameStep
  BY <1>2, FrameInterruptInv, PushadInv, PushIDInv, FrameStubInv, PopIDInv,
     PopadInv, IretdInv DEF FrameStep
<1> QED BY <1>1, <1>2

-----------------------------------------------------------------------------

EntryInv == InterruptsInv /\ FrameInv

LEMMA InitInvariant == EntryInit => EntryInv
<1> SUFFICES ASSUME EntryInit PROVE EntryInv OBVIOUS
<1>1. SetupInv
  <2>1. IFlag \in BOOLEAN /\ ~ IFlag BY DEF EntryInit, Init
  <2>2. setup = 1 BY DEF EntryInit, Init
  <2>3. /\ gates = [n \in IDs |-> gates[n]]
        /\ InterruptHandlers = [n \in 0 .. SyscallSlot |-> InterruptHandlers[n]]
    BY DEF EntryInit, Init
  <2> QED BY <2>1, <2>2, <2>3 DEF SetupInv
<1>2. ServingInv BY DEF EntryInit, Init, ServingInv
<1>3. FrameInv
  <2>1. Lies(stack, 0, <<"below">>)
    BY OneWord DEF EntryInit, Frame!Init, Name
  <2>2. regs = Own BY DEF EntryInit, Frame!Init, Own
  <2>3. Kept BY <2>2, OwnRegisters DEF Kept
  <2> QED BY <2>1, <2>2, <2>3, OwnRegisters
          DEF FrameInv, EntryInit, Frame!Init
<1> QED BY <1>1, <1>2, <1>3 DEF EntryInv, InterruptsInv

LEMMA StepInvariant == EntryInv /\ [EntryNext]_entryVars => EntryInv'
<1> SUFFICES ASSUME EntryInv, [EntryNext]_entryVars PROVE EntryInv' OBVIOUS
<1>1. InterruptsInv'
  <2>1. CASE UNCHANGED vars
    BY <2>1, SetupKept
       DEF EntryInv, InterruptsInv, ServingInv, SetupInv, vars, setupVars
  <2>2. CASE \/ SetupStep \/ Acknowledge \/ AcknowledgeSpurious \/ Int80
             \/ CallHandler \/ EndOfInterrupt \/ Return \/ Devices
    BY <2>2, SetupStepInv, AcknowledgeInv, AcknowledgeSpuriousInv, Int80Inv,
       StubInv, ReturnInv, DevicesInv DEF EntryInv
  <2> QED
    BY <2>1, <2>2
       DEF EntryNext, entryVars, EnterHardware, EnterSpurious, EnterSyscall,
           Serve, Instruction, Handler, StubReturns, Iretd, Astray
<1>2. FrameInv'
  <2>1. FrameStep \/ UNCHANGED frameVars
    BY DEF EntryNext, entryVars, EnterHardware, EnterSpurious, EnterSyscall,
           Entered, Serve, Instruction, Handler, StubReturns, Iretd, Astray,
           FrameStep
  <2> QED BY <2>1, FrameStepInv DEF EntryInv
<1> QED BY <1>1, <1>2 DEF EntryInv

LEMMA Invariant == EntrySpec => []EntryInv
<1> QED BY InitInvariant, StepInvariant, PTL DEF EntrySpec

\* Whatever lines are raised and wherever the linker puts the stubs, an
\* interrupt finds the controllers initialised, the gate of its stub loaded and
\* a handler that is set or null (KMain, IDT_Setup).
THEOREM AlwaysPrepared == EntrySpec => []NeverCrashes
<1>1. EntryInv => NeverCrashes
  BY DEF EntryInv, InterruptsInv, ServingInv, NeverCrashes, Crashed, None, IDs,
         SYSCALL
<1> QED BY <1>1, Invariant, PTL

\* The end-of-interrupt commands of the stub undo what the controllers did
\* (InterruptHandlerStub).
THEOREM NothingStaysInService == EntrySpec => []NothingLeftInService
<1>1. EntryInv => NothingLeftInService
  BY DEF EntryInv, InterruptsInv, ServingInv, NothingLeftInService, InMain,
         None, IDs, SYSCALL
<1> QED BY <1>1, Invariant, PTL

\* Whichever halves of its arguments the C code writes to: a hardware interrupt
\* always returns to where the program was, a system call unless it wrote to the
\* last one, and the program finds every half of its registers that was not
\* among those written to (IDTA.asm, InterruptHandlerStub).
THEOREM ProgramUnchanged == EntrySpec => []Transparent
<1>1. EntryInv => Transparent
  <2>1. Lies(stack, 0, <<"below">>) => Len(stack) = 2 BY DEF Lies
  <2> QED
    BY <2>1 DEF EntryInv, FrameInv, Kept, Transparent, Frame!Transparent,
       Frame!Depth, Frame!SYSCALL, SYSCALL
<1> QED BY <1>1, Invariant, PTL

\* InterruptHandlerStub finds its ID and, for hardware interrupts, the registers
\* where struct Registers32 has them (IDTA.asm, IDT.c).
THEOREM ArgumentsFound == EntrySpec => []StubFindsArguments
<1>1. EntryInv => StubFindsArguments
  BY DEF EntryInv, FrameInv, StubFindsArguments, Frame!StubFindsArguments,
     Frame!Low, Frame!SYSCALL, SYSCALL
<1> QED BY <1>1, Invariant, PTL
=============================================================================
