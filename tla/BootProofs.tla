----------------------------- MODULE BootProofs -----------------------------
(***************************************************************************)
(* Theorems about Boot for every length of the BIOS's list, every answer   *)
(* of it and every behaviour of the disk, the 8042 and the keyboard: what  *)
(* is in memory when the kernel is called, and the state of the A20 gate.  *)
(***************************************************************************)
EXTENDS Boot, SequenceTheorems, TLAPS

USE DEF vars, mapVars, gateVars, bootVars

\* Every action of Boot is one of the disk's with the rest as it is, one of
\* CreateMemoryMap's, its return, the call of EnableA20, a step of EnableA20 or
\* the 8042, or the call of the kernel.
DiskStep == Reset \/ LoadStage2 \/ LoadKernel \/ LoadCylinder \/ LoadError
GateStep == Gate!EnableA20 \/ Gate!Take \/ Gate!Scancode

LEMMA Steps ==
    ASSUME [BootNext]_bootVars
    PROVE  \/ DiskStep /\ UNCHANGED <<mapVars, gateVars>>
           \/ MapStep
           \/ MapReturns
           \/ CallEnableA20
           \/ Protected /\ GateStep
           \/ EnterKernel
           \/ UNCHANGED bootVars
BY DEF BootNext, Stage2, Disk, EnableA20, Take, Scancode, Over,
       DiskStep, GateStep

-----------------------------------------------------------------------------
(* The disk reads *)

Labels == {"Reset", "LoadStage2", "Stage2", "LoadKernel", "Loop", "CallKernel",
           "kernel", "halted"}

\* What the BIOS has transferred of the kernel's first track is where
\* DiskBuilder.sh has it on the disk.
TrackRead == \A s \in 0 .. read - 1 : ram[KernelSlot + s] = 18 + s

\* The reads for the kernel go to higher and higher addresses, above stage 2.
DiskInv ==
    /\ pc \in Labels
    /\ ram \in [Slots -> Int]
    /\ Stage2Whole
    /\ pc \in {"Reset", "LoadStage2", "Stage2", "LoadKernel"} => addr = KernelSlot
    /\ pc = "Loop" =>
           /\ cx \in 1 .. 3 /\ addr = KernelSlot + Track * (cx - 1)
           /\ cx = 1 \/ cx < KERNEL_CYLINDER_COUNT
    /\ pc \in {"CallKernel", "kernel"} /\ KERNEL_CYLINDER_COUNT = 1 =>
           read \in 0 .. Sectors /\ TrackRead

\* The memory map stays whole as long as no track is read to slot 61.
MapKept == pc \in {"LoadKernel", "Loop", "CallKernel", "kernel"} =>
               ram[MapSlot] = MapData

LEMMA DiskStepPreserves ==
    ASSUME DiskInv, DiskStep
    PROVE  /\ DiskInv'
           /\ KERNEL_CYLINDER_COUNT <= 3 /\ MapKept => MapKept'
<1> USE CylinderAssumption DEF DiskInv, Labels, Stage2Whole, InStage2, Stage2Slots,
        Slots, TrackRead, KernelSlot, MapSlot, Sectors, Track, MapKept
<1>1. CASE Reset BY <1>1 DEF Reset
<1>2. ASSUME NEW n \in 0 .. 16, ReadFails(n) \/ ReadReturns(n)
      PROVE  DiskInv' /\ MapKept'
  BY <1>2 DEF ReadFails, ReadReturns, Loaded, Lba
<1>3. CASE LoadKernel BY <1>3 DEF LoadKernel
<1>4. ASSUME NEW n \in 0 .. Sectors, pc = "Loop", AfterLoad(n)
      PROVE  /\ DiskInv'
             /\ KERNEL_CYLINDER_COUNT <= 3 /\ MapKept => MapKept'
  <2>1. cx \in 1 .. 3 /\ addr \in {18, 36, 54} /\ addr = 18 + 18 * (cx - 1)
    BY <1>4
  <2>2. Address(cx) \in Int /\ Address(1) = 18 BY <2>1 DEF Address, Lba
  <2>3. \A s \in Slots : ram'[s] = IF s \in addr .. addr + n - 1
                                   THEN Address(cx) + s - addr ELSE ram[s]
    BY <1>4 DEF AfterLoad, Loaded
  <2>4. ram' \in [Slots -> Int] BY <1>4, <2>1, <2>2 DEF AfterLoad, Loaded
  <2>5. \A s \in Stage2Slots : ram'[s] = s + 1 BY <1>4, <2>1, <2>3
  <2>6. cx = 1 => read' \in 0 .. Sectors /\ TrackRead'
    <3>1. read' = n BY <1>4 DEF AfterLoad
    <3> QED BY <3>1, <1>4, <2>1, <2>2, <2>3
  <2>7. KERNEL_CYLINDER_COUNT <= 3 => ram'[MapSlot] = ram[MapSlot]
    BY <1>4, <2>1, <2>3
  <2>8. /\ cx' = cx + 1 /\ addr' = addr + 18
        /\ pc' = IF cx' < KERNEL_CYLINDER_COUNT THEN "Loop" ELSE "CallKernel"
    BY <1>4 DEF AfterLoad
  <2>9. pc' = "Loop" => /\ cx' \in 1 .. 3 /\ addr' = KernelSlot + Track * (cx' - 1)
                        /\ cx' < KERNEL_CYLINDER_COUNT
    BY <2>1, <2>8
  <2>10. KERNEL_CYLINDER_COUNT = 1 => read' \in 0 .. Sectors /\ TrackRead'
    BY <1>4, <2>6
  <2>11. DiskInv'
    <3>1. Stage2Whole' BY <2>5
    <3>2. pc' \in {"Loop", "CallKernel"} BY <2>8
    <3> HIDE DEF TrackRead, Stage2Whole, Slots
    <3> QED BY <3>1, <3>2, <2>4, <2>9, <2>10
  <2>12. KERNEL_CYLINDER_COUNT <= 3 /\ MapKept => MapKept' BY <1>4, <2>7
  <2> QED BY <2>11, <2>12
<1>5. CASE LoadError
  <2>1. PICK n \in 0 .. Sectors - 1 : ram' = Loaded(addr, Address(cx), n)
    BY <1>5 DEF LoadError
  <2>2. cx \in 1 .. 3 /\ addr \in {18, 36, 54} BY <1>5 DEF LoadError
  <2>3. Address(cx) \in Int BY <2>2 DEF Address, Lba
  <2> QED BY <1>5, <2>1, <2>2, <2>3 DEF LoadError, Loaded
<1> QED BY <1>1, <1>2, <1>3, <1>4, <1>5 DEF DiskStep, LoadStage2, LoadCylinder

LEMMA DiskInvariant == BootSpec => []DiskInv
<1>1. BootInit => DiskInv
  BY DEF BootInit, Init, DiskInv, Labels, Stage2Whole, InStage2, NoData
<1>2. DiskInv /\ [BootNext]_bootVars => DiskInv'
  <2> SUFFICES ASSUME DiskInv, [BootNext]_bootVars PROVE DiskInv' OBVIOUS
  <2>1. CASE DiskStep BY <2>1, DiskStepPreserves
  <2>2. CASE UNCHANGED vars
    BY <2>2 DEF DiskInv, Stage2Whole, InStage2, TrackRead
  <2>3. CASE MapReturns
    <3>1. CreateMemoryMap BY <2>3 DEF MapReturns
    <3> HIDE DEF vars, mapVars, gateVars, bootVars
    <3> QED
      BY <3>1 DEF CreateMemoryMap, DiskInv, Labels, Stage2Whole, InStage2,
             Stage2Slots, Slots, MapSlot, MapData
  <2>4. CASE EnterKernel
    <3>1. CallKernel BY <2>4 DEF EnterKernel
    <3> HIDE DEF vars, mapVars, gateVars, bootVars
    <3> QED
      BY <3>1 DEF CallKernel, DiskInv, Labels, Stage2Whole, InStage2, TrackRead
  <2>5. CASE CallEnableA20
    <3>1. /\ UNCHANGED <<pc, read, cx, addr>>
          /\ ram' = ram \/ ram' = [ram EXCEPT ![AliasSlot] = StackData]
      BY <2>5 DEF CallEnableA20
    <3> HIDE DEF vars, mapVars, gateVars, bootVars
    <3> QED
      BY <3>1 DEF DiskInv, Labels, Stage2Whole, InStage2, Stage2Slots, Slots,
             AliasSlot, StackData, TrackRead, KernelSlot, Sectors
  <2> QED BY <2>1, <2>2, <2>3, <2>4, <2>5, Steps DEF MapStep, Protected
<1> QED BY <1>1, <1>2, PTL DEF BootSpec

\* Stage 2 is entered and run with all of its sectors in place, however often
\* the disk has failed or come back short (Bootloader.asm:62-67, 75-76).
THEOREM Stage2Complete == BootSpec => []Stage2Whole
<1>1. DiskInv => Stage2Whole BY DEF DiskInv
<1> QED BY <1>1, DiskInvariant, PTL

\* With the shipped count of one cylinder the kernel is called with the memory
\* map and with every sector of its track that the BIOS has transferred, each in
\* its place (Stage2A.asm:97-172).
THEOREM KernelComplete ==
    ASSUME KERNEL_CYLINDER_COUNT = 1
    PROVE  BootSpec => []KernelWhole
<1>1. BootInit => MapKept BY DEF BootInit, Init, MapKept
<1>2. DiskInv /\ MapKept /\ [BootNext]_bootVars => MapKept'
  <2> SUFFICES ASSUME DiskInv, MapKept, [BootNext]_bootVars PROVE MapKept'
    OBVIOUS
  <2>1. CASE DiskStep BY <2>1, DiskStepPreserves
  <2>2. CASE UNCHANGED vars BY <2>2 DEF MapKept
  <2>3. CASE MapReturns
    BY <2>3 DEF MapReturns, CreateMemoryMap, DiskInv, MapKept, Slots, MapSlot
  <2>4. CASE EnterKernel BY <2>4 DEF EnterKernel, CallKernel, MapKept
  <2>5. CASE CallEnableA20
    BY <2>5 DEF CallEnableA20, DiskInv, MapKept, Slots, MapSlot, AliasSlot
  <2> QED BY <2>1, <2>2, <2>3, <2>4, <2>5, Steps DEF MapStep, Protected
<1>3. DiskInv /\ MapKept => KernelWhole
  BY DEF DiskInv, MapKept, KernelWhole, TrackRead, Sectors
<1> QED BY <1>1, <1>2, <1>3, DiskInvariant, PTL DEF BootSpec

-----------------------------------------------------------------------------
(* The A20 gate *)

Sent(c) == <<"command", c>>

\* Where EnableA20 is decides what the 8042 may still have to take, and with
\* that whether the keyboard is enabled, what the next data byte is for and what
\* the output port is.  Only a byte that was unread when the keyboard was
\* disabled lets EnableA20 read before READ_OUTPUT has been taken.
GateInv ==
    /\ gatePc \in 0 .. 22
    /\ \/ input = <<>>
       \/ gatePc \in {4, 5} /\ input = Sent("0xAD")
       \/ (gatePc \in {7, 8} \/ (early /\ gatePc \in {9, 10, 11}))
             /\ input = Sent("0xD0")
       \/ gatePc \in {13, 14} /\ input = Sent("0xD1")
       \/ gatePc \in {16, 17} /\ input = <<"data", al \cup {"a20"}>>
       \/ gatePc \in {19, 20} /\ input = Sent("0xAE")
    /\ enabled \in BOOLEAN /\ expects \in BOOLEAN
    /\ early \in BOOLEAN /\ reset \in BOOLEAN
    /\ enabled <=> \/ gatePc \in {0, 1, 2, 3, 21, 22}
                   \/ gatePc \in {4, 5} /\ input # <<>>
                   \/ gatePc \in {19, 20} /\ input = <<>>
    /\ expects <=> \/ gatePc \in {13, 14} /\ input = <<>>
                   \/ gatePc = 15
                   \/ gatePc \in {16, 17} /\ input # <<>>
    /\ port = IF gatePc > 17 \/ (gatePc \in {16, 17} /\ input = <<>>)
              THEN al \cup {"a20"} ELSE entry
    /\ gatePc > 0 => "run" \in entry
    /\ gatePc \in {0, 1, 2, 3} \/ (gatePc \in {4, 5} /\ input # <<>>) => ~ early

\* The words on the stack at each step: return addresses, and eax from 10 on.
Depth(i) ==
    IF i \in {11, 14} THEN 3
    ELSE IF i \in {2, 5, 8, 10, 12, 13, 15, 17, 20} THEN 2 ELSE 1

\* What A20 was when they were pushed: what it was when EnableA20 was called,
\* until the 8042 takes the new value, and on from then.
StackInv ==
    LET was == Gate!Line(entry) IN
    /\ lost \in BOOLEAN
    /\ lost => was = "off"
    /\ gatePc = 0 => ~ lost
    /\ gatePc = 22 /\ ~ lost => was = "on"
    /\ stack \in Seq({"on", "off"})
    /\ gatePc \in 1 .. 21 =>
          /\ Len(stack) = Depth(gatePc)
          /\ stack[Len(stack)] = was
          /\ gatePc # 17 => \A j \in 1 .. Len(stack) :
                               stack[j] = IF gatePc = 20 /\ j = 1 THEN "on" ELSE was
          /\ gatePc = 17 => stack[1] \in {was, "on"}

\* With no byte unread then, EnableA20 reads the output port's own value.
GateClean ==
    ~ early =>
        /\ ~ reset
        /\ (gatePc \in {4, 5} /\ input = <<>>) \/ gatePc = 6
               \/ (gatePc \in {7, 8} /\ input # <<>>) => output = <<>>
        /\ (gatePc \in {7, 8} /\ input = <<>>) \/ gatePc = 9 => output = <<port>>
        /\ gatePc > 9 => al = entry

\* The kernel is called when EnableA20 has returned to where it was called.
GateDone == pc = "kernel" => gatePc = 22 /\ ~ lost

GateAll == GateInv /\ StackInv /\ GateClean /\ GateDone

\* Program, by the number of the step.
LEMMA ProgramSteps ==
    /\ DOMAIN Gate!Program = 1 .. 21
    /\ Len(Gate!Program) = 21
    /\ \A i \in 1 .. 21 :
         Gate!Program[i] =
            CASE i = 3 -> "0xAD" [] i = 6 -> "0xD0" [] i = 8 -> "a20wait2"
              [] i = 9 -> "in" [] i = 12 -> "0xD1" [] i = 15 -> "out"
              [] i = 18 -> "0xAE" [] i = 21 -> "ret"
              [] i \in {1, 4, 7, 10, 13, 16, 19} -> "call"
              [] OTHER -> "a20wait"
BY DEF Gate!Program

\* What A20 is while EnableA20 runs.
LEMMA LineIs ==
    ASSUME GateInv
    PROVE  Gate!Line(port) =
              IF gatePc > 17 \/ (gatePc \in {16, 17} /\ input = <<>>)
              THEN "on" ELSE Gate!Line(entry)
BY DEF GateInv, Gate!Line

LEMMA Pushed ==
    ASSUME NEW x \in {"on", "off"}, NEW q \in Seq({"on", "off"})
    PROVE  /\ <<x>> \o q \in Seq({"on", "off"})
           /\ Len(<<x>> \o q) = Len(q) + 1
           /\ (<<x>> \o q)[1] = x
           /\ \A j \in 2 .. Len(q) + 1 : (<<x>> \o q)[j] = q[j - 1]
<1> DEFINE p == <<x>>
<1>1. p \in Seq({"on", "off"}) /\ Len(p) = 1 /\ p[1] = x OBVIOUS
<1> HIDE DEF p
<1>2. /\ p \o q \in Seq({"on", "off"}) /\ Len(p \o q) = Len(p) + Len(q)
      /\ \A i \in 1 .. Len(p) + Len(q) :
           (p \o q)[i] = IF i <= Len(p) THEN p[i] ELSE q[i - Len(p)]
  BY <1>1, ConcatProperties
<1>3. Len(q) \in Nat OBVIOUS
<1>4. (p \o q)[1] = x BY <1>1, <1>2, <1>3
<1>5. \A j \in 2 .. Len(q) + 1 : (p \o q)[j] = q[j - 1] BY <1>1, <1>2, <1>3
<1>6. Len(p \o q) = Len(q) + 1 BY <1>1, <1>2, <1>3
<1> QED BY <1>2, <1>4, <1>5, <1>6 DEF p

LEMMA Popped ==
    ASSUME NEW q \in Seq({"on", "off"}), Len(q) > 0
    PROVE  /\ Head(q) = q[1]
           /\ Tail(q) \in Seq({"on", "off"})
           /\ Len(Tail(q)) = Len(q) - 1
           /\ \A j \in 1 .. Len(q) - 1 : Tail(q)[j] = q[j + 1]
OBVIOUS

\* A return pops what A20 was: it is lost only when that has become another.
LEMMA ReturnPreserves ==
    ASSUME GateInv, StackInv, Gate!Return, ~ lost,
           gatePc \in {2, 5, 8, 11, 14, 17, 20, 21},
           gatePc # 8 => input = <<>>
    PROVE  StackInv'
<1> DEFINE was == Gate!Line(entry)
           now == Gate!Line(port)
<1>1. /\ gatePc' = gatePc + 1 /\ stack' = Tail(stack)
      /\ lost' = (Head(stack) # now)
      /\ Gate!Line(entry)' = was
  BY DEF Gate!Return, Gate!Line
<1>2. now = IF gatePc > 17 \/ (gatePc \in {16, 17} /\ input = <<>>)
            THEN "on" ELSE was
  BY LineIs
<1>3. was \in {"on", "off"} BY DEF Gate!Line
<1>4. lost' \in BOOLEAN /\ (lost' <=> Head(stack) # now) BY <1>1, Zenon
<1>5. /\ stack \in Seq({"on", "off"}) /\ Len(stack) = Depth(gatePc)
      /\ stack[Len(stack)] = was
      /\ gatePc # 17 => \A j \in 1 .. Len(stack) :
                           stack[j] = IF gatePc = 20 /\ j = 1 THEN "on" ELSE was
      /\ gatePc = 17 => stack[1] \in {was, "on"}
  BY DEF StackInv
<1>6. Len(stack) \in 1 .. 3 BY <1>5 DEF Depth
<1>7. /\ Head(stack) = stack[1]
      /\ stack' \in Seq({"on", "off"}) /\ Len(stack') = Len(stack) - 1
      /\ \A j \in 1 .. Len(stack) - 1 : stack'[j] = stack[j + 1]
  BY <1>1, <1>5, <1>6, Popped
<1> HIDE DEF was, now
<1>8. gatePc' \in 1 .. 21 =>
         /\ Len(stack') = Depth(gatePc') /\ Len(stack') \in 1 .. 2
         /\ gatePc' \notin {17, 20}
  BY <1>1, <1>5, <1>7 DEF Depth
<1>9. gatePc' \in 1 .. 21 => \A j \in 1 .. Len(stack') : stack'[j] = was
  <2> SUFFICES ASSUME gatePc' \in 1 .. 21, NEW j \in 1 .. Len(stack')
               PROVE  stack'[j] = was
    OBVIOUS
  <2>1. /\ stack'[j] = stack[j + 1] /\ j + 1 \in 1 .. Len(stack) /\ j + 1 # 1
    BY <1>6, <1>7
  <2>2. CASE gatePc = 17
    <3>1. Len(stack) = 2 BY <1>5, <2>2 DEF Depth
    <3> QED BY <1>5, <1>7, <2>1, <3>1
  <2>3. CASE gatePc # 17 BY <1>5, <2>1, <2>3
  <2> QED BY <2>2, <2>3
<1>10. lost' => was = "off"
  <2>1. stack[1] \in {was, "on"} BY <1>5, <1>6
  <2> QED BY <1>2, <1>3, <1>4, <1>7, <2>1
<1>11. gatePc' = 22 /\ ~ lost' => was = "on"
  <2> SUFFICES ASSUME gatePc' = 22, ~ lost' PROVE was = "on" OBVIOUS
  <2>1. gatePc = 21 BY <1>1
  <2>2. stack[1] = was BY <1>5, <1>6, <2>1
  <2> QED BY <1>2, <1>4, <1>7, <2>1, <2>2
<1>12. gatePc' # 0 BY <1>1
<1> QED BY <1>1, <1>4, <1>7, <1>8, <1>9, <1>10, <1>11, <1>12 DEF StackInv, was

\* A call, or push eax, pushes what A20 is.
LEMMA PushPreserves ==
    ASSUME GateInv, StackInv, ~ lost, lost' = lost, entry' = entry,
           gatePc \in {1, 4, 7, 9, 10, 13, 16, 19}, gatePc' = gatePc + 1,
           gatePc = 19 \/ gatePc < 17,
           stack' = <<Gate!Line(port)>> \o stack
    PROVE  StackInv'
<1> DEFINE was == Gate!Line(entry)
           now == Gate!Line(port)
<1>1. Gate!Line(entry)' = was BY DEF Gate!Line
<1>2. now = IF gatePc > 17 \/ (gatePc \in {16, 17} /\ input = <<>>)
            THEN "on" ELSE was
  BY LineIs
<1>3. was \in {"on", "off"} /\ now \in {"on", "off"} BY DEF Gate!Line
<1>4. /\ stack \in Seq({"on", "off"}) /\ Len(stack) = Depth(gatePc)
      /\ \A j \in 1 .. Len(stack) : stack[j] = was
  BY DEF StackInv
<1>5. /\ stack' \in Seq({"on", "off"}) /\ Len(stack') = Len(stack) + 1
      /\ stack'[1] = now
      /\ \A j \in 2 .. Len(stack) + 1 : stack'[j] = stack[j - 1]
  BY <1>3, <1>4, Pushed
<1> HIDE DEF was, now
<1>6. Len(stack) \in 1 .. 2 /\ Len(stack') = Depth(gatePc')
  BY <1>4, <1>5 DEF Depth
<1>7. \A j \in 2 .. Len(stack') : stack'[j] = was
  <2> TAKE j \in 2 .. Len(stack')
  <2>1. stack'[j] = stack[j - 1] /\ j - 1 \in 1 .. Len(stack)
    BY <1>5, <1>6
  <2> QED BY <1>4, <2>1
<1>8. \A j \in 1 .. Len(stack') : j = 1 \/ j \in 2 .. Len(stack')
  BY <1>5, <1>6
<1>9. Len(stack') \in 2 .. Len(stack') BY <1>5, <1>6
<1>10. /\ gatePc' = 20 => now = "on"
       /\ gatePc' \notin {17, 20} => now = was
       /\ gatePc' = 17 => now \in {was, "on"}
  BY <1>2
<1>11. gatePc' # 17 => \A j \in 1 .. Len(stack') :
                          stack'[j] = IF gatePc' = 20 /\ j = 1 THEN "on" ELSE was
  BY <1>5, <1>7, <1>8, <1>10
<1>12. lost \in BOOLEAN /\ (lost => was = "off") BY DEF StackInv, was
<1>13. gatePc' # 0 /\ gatePc' # 22 OBVIOUS
<1> QED BY <1>1, <1>5, <1>6, <1>7, <1>9, <1>10, <1>11, <1>12, <1>13
        DEF StackInv, was

LEMMA GateStepPreserves ==
    ASSUME GateInv, StackInv, GateClean, GateStep
    PROVE  GateInv' /\ StackInv' /\ GateClean'
<1> USE DEF Sent
<1> USE DEF Gate!None, Gate!DISABLE, Gate!READ_OUTPUT, Gate!WRITE_OUTPUT,
        Gate!ENABLE, Gate!Commands
<1> DEFINE was == Gate!Line(entry)
<1>1. was \in {"on", "off"} BY DEF Gate!Line
<1>2. CASE Gate!Call
  <2>1. /\ gatePc \in {1, 4, 7, 10, 13, 16, 19}
        /\ gatePc' = gatePc + 1 /\ stack' = <<Gate!Line(port)>> \o stack
        /\ UNCHANGED <<al, lost, input, output, enabled, expects, port, early,
                       reset, entry>>
    BY <1>2, ProgramSteps DEF Gate!Call, Gate!At, Gate!controller
  <2>2. GateInv' /\ GateClean' BY <2>1 DEF GateInv, GateClean
  <2>3. ~ lost BY <1>2 DEF Gate!Call, Gate!At
  <2>4. StackInv' BY <2>1, <2>3, PushPreserves
  <2> QED BY <2>2, <2>4
<1>3. CASE Gate!a20wait \/ Gate!a20wait2 \/ (Gate!At("ret") /\ Gate!Return)
  <2>1. /\ Gate!Return /\ ~ lost
        /\ \/ gatePc \in {2, 5, 11, 14, 17, 20} /\ input = <<>>
           \/ gatePc = 8 /\ output # <<>>
           \/ gatePc = 21
    BY <1>3, ProgramSteps DEF Gate!a20wait, Gate!a20wait2, Gate!At
  <2>2. /\ gatePc' = gatePc + 1
        /\ UNCHANGED <<al, input, output, enabled, expects, port, early, reset,
                       entry>>
    BY <2>1 DEF Gate!Return, Gate!controller
  <2>3. gatePc # 8 => input = <<>> BY <2>1 DEF GateInv
  <2>4. StackInv' BY <2>1, <2>3, ReturnPreserves
  <2>5. GateInv' /\ GateClean' BY <2>1, <2>2 DEF GateInv, GateClean
  <2> QED BY <2>4, <2>5
<1>4. CASE Gate!Command
  <2>1. \/ gatePc = 3 /\ input' = Sent("0xAD")
        \/ gatePc = 6 /\ input' = Sent("0xD0")
        \/ gatePc = 12 /\ input' = Sent("0xD1")
        \/ gatePc = 18 /\ input' = Sent("0xAE")
    BY <1>4, ProgramSteps DEF Gate!Command, Gate!At
  <2>2. /\ gatePc' = gatePc + 1
        /\ UNCHANGED <<al, stack, lost, output, enabled, expects, port, early,
                       reset, entry>>
    BY <1>4 DEF Gate!Command
  <2>3. GateInv' /\ GateClean' BY <2>1, <2>2 DEF GateInv, GateClean
  <2>4. Gate!Line(entry)' = was BY <2>2 DEF Gate!Line
  <2> HIDE DEF was
  <2>5. ~ lost BY <1>4 DEF Gate!Command, Gate!At
  <2>6. /\ stack \in Seq({"on", "off"}) /\ Len(stack) = Depth(gatePc)
        /\ stack[Len(stack)] = was
        /\ \A j \in 1 .. Len(stack) : stack[j] = was
    BY <2>1 DEF StackInv, was
  <2>7. /\ gatePc' \in {4, 7, 13, 19} /\ Depth(gatePc') = Depth(gatePc)
    BY <2>1, <2>2 DEF Depth
  <2>8. StackInv' BY <2>2, <2>4, <2>5, <2>6, <2>7 DEF StackInv, was
  <2> QED BY <2>3, <2>8
<1>5. CASE Gate!Read
  <2>1. /\ gatePc = 9 /\ gatePc' = 10
        /\ stack' = <<Gate!Line(port)>> \o stack
        /\ UNCHANGED <<lost, input, enabled, expects, port, early, reset, entry>>
    BY <1>5, ProgramSteps DEF Gate!Read, Gate!At
  <2>2. output # <<>> => al' = output[1] BY <1>5 DEF Gate!Read
  <2>3. GateInv' BY <2>1 DEF GateInv
  <2>4. GateClean'
    <3>1. ~ early => output = <<port>> /\ port = entry
      BY <2>1 DEF GateInv, GateClean
    <3>2. ~ early => al' = entry BY <2>2, <3>1
    <3>3. ~ early => ~ reset BY DEF GateClean
    <3> QED BY <2>1, <3>2, <3>3 DEF GateClean
  <2>5. ~ lost BY <1>5 DEF Gate!Read, Gate!At
  <2>6. StackInv' BY <2>1, <2>5, PushPreserves
  <2> QED BY <2>3, <2>4, <2>6
<1>6. CASE Gate!Write
  <2>1. /\ gatePc = 15 /\ gatePc' = 16
        /\ input' = <<"data", al' \cup {"a20"}>> /\ stack' = Tail(stack)
        /\ al' \in IF Head(stack) = Gate!Line(port) THEN {al} ELSE Gate!Byte
        /\ UNCHANGED <<lost, output, enabled, expects, port, early, reset, entry>>
    BY <1>6, ProgramSteps DEF Gate!Write, Gate!At
  <2>2. /\ stack \in Seq({"on", "off"}) /\ Len(stack) = 2
        /\ stack[1] = was /\ stack[2] = was
    <3>1. /\ stack \in Seq({"on", "off"}) /\ Len(stack) = Depth(gatePc)
          /\ \A j \in 1 .. Len(stack) : stack[j] = was
      BY <2>1 DEF StackInv
    <3>2. Len(stack) = 2 BY <2>1, <3>1 DEF Depth
    <3> HIDE DEF was
    <3> QED BY <3>1, <3>2
  <2>3. /\ Head(stack) = was /\ stack' \in Seq({"on", "off"})
        /\ Len(stack') = 1 /\ stack'[1] = was
    <3> HIDE DEF was
    <3>0. stack \in Seq({"on", "off"}) /\ Len(stack) > 0 /\ Len(stack) = 2 BY <2>2
    <3>1. /\ Head(stack) = stack[1]
          /\ Tail(stack) \in Seq({"on", "off"}) /\ Len(Tail(stack)) = Len(stack) - 1
          /\ \A j \in 1 .. Len(stack) - 1 : Tail(stack)[j] = stack[j + 1]
      BY <3>0, Popped
    <3>2. Tail(stack)[1] = stack[2] /\ Len(Tail(stack)) = 1
      <4> DEFINE t == Tail(stack)
                 n == Len(stack)
      <4>1. n = 2 /\ Len(t) = n - 1 /\ \A j \in 1 .. n - 1 : t[j] = stack[j + 1]
        BY <3>0, <3>1
      <4> HIDE DEF t, n
      <4>2. t[1] = stack[2] /\ Len(t) = 1 BY <4>1
      <4> QED BY <4>2 DEF t
    <3>3. stack' = Tail(stack) BY <2>1
    <3> QED BY <2>2, <3>0, <3>1, <3>2, <3>3
  <2>4. al' = al BY <2>1, <2>3, LineIs
  <2>5. GateInv' /\ GateClean' BY <2>1, <2>4 DEF GateInv, GateClean
  <2>6. Gate!Line(entry)' = was BY <2>1 DEF Gate!Line
  <2> HIDE DEF was
  <2>7. lost \in BOOLEAN /\ (lost => was = "off") BY DEF StackInv, was
  <2>8. StackInv' BY <2>1, <2>3, <2>6, <2>7 DEF StackInv, Depth, was
  <2> QED BY <2>5, <2>8
<1>7. CASE Gate!Take
  <2>0. input' = <<>> /\ UNCHANGED <<gatePc, al, stack, lost, entry>>
    BY <1>7 DEF Gate!Take
  <2>S. StackInv' BY <2>0 DEF StackInv, Depth, Gate!Line
  <2> USE <2>0 DEF GateInv, GateClean
  <2>1. CASE Gate!TakeReadOutput
    <3>1. input = Sent("0xD0") BY <2>1 DEF Gate!TakeReadOutput
    <3>2. gatePc \in {7, 8} \/ (early /\ gatePc \in {9, 10, 11}) BY <3>1
    <3>3. output = <<>> => output' = <<port>> BY <2>1 DEF Gate!TakeReadOutput
    <3> QED BY <2>S, <2>1, <3>1, <3>2, <3>3 DEF Gate!TakeReadOutput
  <2>2. CASE Gate!TakeCommand
    <3>1. \/ gatePc \in {4, 5} /\ input = Sent("0xAD")
          \/ gatePc \in {13, 14} /\ input = Sent("0xD1")
          \/ gatePc \in {19, 20} /\ input = Sent("0xAE")
      BY <2>2 DEF Gate!TakeCommand
    <3>2. UNCHANGED <<output, port, reset>> BY <2>2 DEF Gate!TakeCommand
    <3>3. CASE gatePc \in {4, 5}
      <4>1. ~ enabled' /\ enabled' \in BOOLEAN /\ ~ expects' /\ expects' \in BOOLEAN
        BY <2>2, <3>1, <3>3 DEF Gate!TakeCommand
      <4>2. early' = (early \/ output # <<>>)
        BY <2>2, <3>1, <3>3 DEF Gate!TakeCommand
      <4>3. early' \in BOOLEAN /\ (~ early' => ~ early /\ output = <<>>)
        BY <4>2, Zenon
      <4>4. GateInv' BY <3>2, <3>3, <4>1, <4>3
      <4>5. GateClean' BY <3>2, <3>3, <4>1, <4>3
      <4> QED BY <2>S, <4>4, <4>5
    <3>4. CASE gatePc \in {13, 14, 19, 20}
      <4>1. /\ enabled' \in BOOLEAN /\ (enabled' <=> gatePc \in {19, 20})
            /\ expects' \in BOOLEAN /\ (expects' <=> gatePc \in {13, 14})
            /\ early' = early
        <5>1. PICK c \in {"0xD1", "0xAE"} :
                 /\ gatePc \in {13, 14} <=> c = "0xD1"
                 /\ enabled' = (c = "0xAE" \/ (enabled /\ c # "0xAD"))
                 /\ expects' = (c = "0xD1")
                 /\ early' = (early \/ (c = "0xAD" /\ output # <<>>))
          BY <2>2, <3>1, <3>4 DEF Gate!TakeCommand
        <5>2. ~ enabled /\ early \in BOOLEAN BY <3>1, <3>4
        <5>3. gatePc \in {19, 20} <=> c = "0xAE" BY <5>1, <3>4
        <5> QED BY <5>1, <5>2, <5>3, Zenon
      <4>2. GateInv' BY <3>1, <3>2, <3>4, <4>1
      <4>3. GateClean' BY <3>2, <3>4, <4>1
      <4> QED BY <2>S, <4>2, <4>3
    <3> QED BY <3>1, <3>3, <3>4
  <2>3. CASE Gate!TakeData
    <3>1. gatePc \in {16, 17} /\ input = <<"data", al \cup {"a20"}>>
      BY <2>3 DEF Gate!TakeData
    <3>2. expects /\ input[2] = al \cup {"a20"} BY <3>1
    <3>3. /\ port' = al \cup {"a20"} /\ ~ expects' /\ expects' \in BOOLEAN
          /\ UNCHANGED <<output, enabled, early>>
      BY <2>3, <3>2 DEF Gate!TakeData
    <3>4. reset' \in BOOLEAN /\ (reset' => "run" \notin al)
      BY <2>3, <3>2 DEF Gate!TakeData
    <3>5. GateInv' BY <3>1, <3>3, <3>4
    <3>6. GateClean' BY <3>1, <3>3, <3>4
    <3> QED BY <2>S, <3>5, <3>6
  <2> QED BY <1>7, <2>1, <2>2, <2>3 DEF Gate!Take
<1>8. CASE Gate!Scancode
  <2>1. /\ enabled /\ output = <<>> /\ gatePc > 0
        /\ UNCHANGED <<gatePc, al, stack, lost, input, enabled, expects, port,
                       entry, early, reset>>
    BY <1>8 DEF Gate!Scancode
  <2>2. GateInv' BY <2>1 DEF GateInv
  <2>3. GateClean' BY <2>1 DEF GateInv, GateClean
  <2>4. StackInv' BY <2>1 DEF StackInv, Depth, Gate!Line
  <2> QED BY <2>2, <2>3, <2>4
<1> QED BY <1>2, <1>3, <1>4, <1>5, <1>6, <1>7, <1>8
        DEF GateStep, Gate!EnableA20

LEMMA GateInvariant == BootSpec => []GateAll
<1>1. BootInit => GateAll
  <2> SUFFICES ASSUME BootInit PROVE GateAll OBVIOUS
  <2> /\ enabled /\ enabled \in BOOLEAN
      /\ ~ expects /\ expects \in BOOLEAN
      /\ ~ early /\ early \in BOOLEAN
      /\ ~ reset /\ reset \in BOOLEAN
      /\ ~ lost /\ lost \in BOOLEAN
    BY Zenon DEF BootInit, Gate!Init
  <2> gatePc = 0 /\ input = <<>> BY DEF BootInit, Gate!Init, Gate!None
  <2> port = entry BY DEF BootInit, Gate!Init
  <2>1. GateInv BY DEF GateInv
  <2>2. GateClean BY DEF GateClean
  <2>3. StackInv
    <3>1. stack = <<>> BY DEF BootInit, Gate!Init
    <3> QED BY <3>1 DEF StackInv
  <2>4. GateDone BY DEF BootInit, Init, GateDone
  <2> QED BY <2>1, <2>2, <2>3, <2>4 DEF GateAll
<1>2. GateAll /\ [BootNext]_bootVars => GateAll'
  <2> SUFFICES ASSUME GateAll, [BootNext]_bootVars PROVE GateAll' OBVIOUS
  <2>1. CASE Protected /\ GateStep
    BY <2>1, GateStepPreserves DEF GateAll, GateDone, Protected
  <2>2. ASSUME UNCHANGED gateVars PROVE GateInv' /\ StackInv' /\ GateClean'
    BY <2>2 DEF GateAll, GateInv, StackInv, GateClean, Depth, Gate!Line
  <2>3. CASE EnterKernel
    <3>1. gatePc > 21 /\ ~ lost BY <2>3, ProgramSteps DEF EnterKernel, Gate!Done
    <3>2. gatePc = 22 /\ UNCHANGED gateVars
      BY <2>3, <3>1 DEF GateAll, GateInv, EnterKernel
    <3> QED BY <2>2, <3>1, <3>2 DEF GateAll, GateDone
  <2>4. CASE DiskStep /\ UNCHANGED gateVars
    BY <2>2, <2>4 DEF DiskStep, Reset, LoadStage2, ReadFails, ReadReturns,
           LoadKernel, LoadCylinder, AfterLoad, LoadError, GateAll, GateDone
  <2>5. CASE MapReturns
    BY <2>2, <2>5 DEF MapReturns, CreateMemoryMap, GateAll, GateDone
  <2>6. CASE UNCHANGED <<vars, gateVars>> BY <2>2, <2>6 DEF GateAll, GateDone
  <2>7. CASE CallEnableA20
    <3>1. /\ gatePc = 0 /\ gatePc' = 1 /\ pc = "CallKernel" /\ pc' = pc
          /\ "run" \in port' /\ entry' = port' /\ stack' = <<Gate!Line(port')>>
          /\ UNCHANGED <<al, lost, input, enabled, expects, early, reset>>
      BY <2>7 DEF CallEnableA20, Gate!Called
    <3>2. GateInv' BY <3>1 DEF GateAll, GateInv
    <3>3. GateClean' BY <3>1 DEF GateAll, GateInv, GateClean
    <3>4. Gate!Line(entry)' = Gate!Line(port') BY <3>1 DEF Gate!Line
    <3>5. StackInv'
      <4> DEFINE x == Gate!Line(port')
      <4>1. x \in {"on", "off"} BY DEF Gate!Line
      <4>2. stack' = <<x>> /\ Gate!Line(entry)' = x BY <3>1, <3>4
      <4>3. ~ lost /\ lost \in BOOLEAN BY <3>1 DEF GateAll, StackInv
      <4> HIDE DEF x
      <4>4. <<x>> \in Seq({"on", "off"}) /\ Len(<<x>>) = 1 /\ <<x>>[1] = x
        BY <4>1
      <4> QED BY <3>1, <4>2, <4>3, <4>4 DEF StackInv, Depth
    <3> QED BY <3>1, <3>2, <3>3, <3>5 DEF GateAll, GateDone
  <2> QED BY <2>1, <2>3, <2>4, <2>5, <2>6, <2>7, Steps DEF MapStep
<1> QED BY <1>1, <1>2, PTL DEF BootSpec

\* The kernel is only entered with the A20 line enabled, as it then was from the
\* beginning, and the keyboard free to send, and, if no scancode was left unread,
\* with the 8042's output port as it was; EnableA20 goes astray only if it was
\* called with A20 off (Stage2A.asm:268-279 and 290-318).
THEOREM GateOpen == BootSpec => []A20Enabled
<1>1. GateAll => A20Enabled
  <2> SUFFICES ASSUME GateAll PROVE A20Enabled OBVIOUS
  <2>1. lost => "a20" \notin entry BY DEF GateAll, StackInv, Gate!Line
  <2>2. ASSUME pc = "kernel" PROVE Gate!Enabled
    <3>1. gatePc = 22 /\ ~ lost BY <2>2 DEF GateAll, GateDone
    <3>2. port = al \cup {"a20"} /\ enabled BY <3>1 DEF GateAll, GateInv
    <3>3. "a20" \in entry BY <3>1 DEF GateAll, StackInv, Gate!Line
    <3>4. ~ early => al = entry BY <3>1 DEF GateAll, GateClean
    <3>5. ~ early => port = entry BY <3>2, <3>3, <3>4
    <3> QED BY <3>2, <3>3, <3>5 DEF Gate!Enabled
  <2> QED BY <2>1, <2>2 DEF A20Enabled, Gate!LostOnlyWhenOff
<1> QED BY <1>1, GateInvariant, PTL

\* EnableA20 pulls the processor's reset line only if a byte was unread when it
\* disabled the keyboard (Stage2A.asm:300-301).
THEOREM NoResetWithoutScancode == BootSpec => []ResetOnlyByScancode
<1>1. GateAll => ResetOnlyByScancode
  BY DEF GateAll, GateClean, ResetOnlyByScancode
<1> QED BY <1>1, GateInvariant, PTL

-----------------------------------------------------------------------------
(* The memory map *)

\* The first bp slots hold these answers, in the order the BIOS gave them.
Stored(regions) ==
    LET entries == 0 .. bp - 1 IN
    /\ {table[n] : n \in entries} = regions
    /\ \A m, n \in entries : m < n => table[m] < table[n]

\* Between an answer and its being counted the answer lies in the slot behind
\* those counted, where the next one would go over it.
MapInv ==
    /\ answers \in Seq(Map!Answer)
    /\ table \in [0 .. MaxCalls -> Nat]
    /\ bp \in Nat
    /\ mapPc = "call" =>
           /\ bp <= Len(answers) /\ Len(answers) <= MaxCalls
           /\ Stored(Map!Described)
    /\ mapPc = "answered" =>
           /\ answers # <<>> /\ bp < Len(answers) /\ bp <= MaxCalls
           /\ Stored(Map!Described \ {Len(answers)})
           /\ Map!Latest.size # 0 => table[bp] = Len(answers)
           /\ ~ Map!Latest.carry => Len(answers) <= MaxCalls
    /\ mapPc = "created" => mmap_ent = bp /\ Stored(Map!Described)

\* A descriptor is counted if and only if it is a region.
LEMMA GoodIsRegion ==
    ASSUME answers \in Seq(Map!Answer), answers # <<>>
    PROVE  Map!Good(Map!Latest) <=> Len(answers) \in Map!Described
<1>1. Len(answers) \in DOMAIN answers OBVIOUS
<1>2. Map!Latest \in Map!Answer BY <1>1 DEF Map!Latest
<1> QED BY <1>1, <1>2 DEF Map!Good, Map!Latest, Map!Described, Map!Answer

LEMMA MapStepPreserves ==
    ASSUME MapInv, Map!Call \/ Map!Fail \/ Map!Advance
    PROVE  MapInv'
<1> USE BootAssumption DEF MapInv
<1>1. CASE Map!Call
  <2>1. PICK a \in Map!Answer :
           /\ Len(answers) = MaxCalls => a.carry
           /\ a.carry => a.size = 0
           /\ answers' = Append(answers, a)
           /\ table' = IF a.size = 0 THEN table
                       ELSE [table EXCEPT ![bp] = Len(answers')]
    BY <1>1 DEF Map!Call
  <2>2. /\ mapPc = "call" /\ mapPc' = "answered" /\ bp' = bp
        /\ bp \in 0 .. MaxCalls
    BY <1>1 DEF Map!Call
  <2>3. /\ answers' \in Seq(Map!Answer) /\ answers' # <<>>
        /\ Len(answers') = Len(answers) + 1
        /\ \A n \in 1 .. Len(answers) : answers'[n] = answers[n]
        /\ Map!Latest' = a
    BY <2>1 DEF Map!Latest
  <2>4. Map!Described' \ {Len(answers')} = Map!Described
    <3> DEFINE Region(d) == /\ ~ d.carry /\ ~ d.empty
                            /\ d.size = 20 \/ (d.size = 24 /\ d.valid)
    <3>1. /\ Map!Described = {n \in DOMAIN answers : Region(answers[n])}
          /\ Map!Described' = {n \in DOMAIN answers' : Region(answers'[n])}
      BY DEF Map!Described
    <3>2. /\ DOMAIN answers = 1 .. Len(answers)
          /\ DOMAIN answers' = 1 .. Len(answers) + 1
      BY <2>3
    <3> HIDE DEF Region
    <3> QED BY <2>3, <3>1, <3>2
  <2>5. /\ table' \in [0 .. MaxCalls -> Nat]
        /\ \A n \in 0 .. bp - 1 : table'[n] = table[n]
        /\ a.size # 0 => table'[bp] = Len(answers')
    BY <2>1, <2>2, <2>3
  <2>6. Stored(Map!Described \ {Len(answers)})'
    BY <2>2, <2>4, <2>5 DEF Stored
  <2> QED BY <2>1, <2>2, <2>3, <2>5, <2>6
<1>2. CASE Map!Fail BY <1>2 DEF Map!Fail
<1>3. CASE Map!Advance
  <2>1. /\ mapPc = "answered" /\ UNCHANGED <<answers, table>>
        /\ bp' = IF Map!Good(Map!Latest) THEN bp + 1 ELSE bp
        /\ \/ /\ mapPc' = "created" /\ mmap_ent' = bp'
           \/ /\ mapPc' = "call" /\ ~ Map!Latest.carry
    BY <1>3 DEF Map!Advance
  <2>2. Map!Described' = Map!Described BY <2>1 DEF Map!Described
  <2>3. bp' \in Nat /\ bp' <= Len(answers) BY <2>1
  <2>4. Stored(Map!Described)'
    <3>1. CASE Map!Good(Map!Latest)
      <4>1. Len(answers) \in Map!Described BY <2>1, <3>1, GoodIsRegion
      <4>2. \A n \in Map!Described : n \in Nat /\ n <= Len(answers)
        BY DEF Map!Described
      <4>3. Map!Latest.size # 0 BY <3>1 DEF Map!Good
      <4>4. table[bp] = Len(answers) BY <4>3, <2>1
      <4>5. \A n \in 0 .. bp - 1 :
               table[n] \in Map!Described /\ table[n] < table[bp]
        BY <2>1, <4>2, <4>4 DEF Stored
      <4>6. {table[n] : n \in 0 .. bp} = Map!Described
        <5>1. {table[n] : n \in 0 .. bp - 1} = Map!Described \ {Len(answers)}
          BY <2>1 DEF Stored
        <5>2. 0 .. bp = (0 .. bp - 1) \cup {bp} OBVIOUS
        <5>3. {table[n] : n \in 0 .. bp}
                = {table[n] : n \in 0 .. bp - 1} \cup {table[bp]}
          BY <5>2, Zenon
        <5> QED BY <4>1, <4>4, <5>1, <5>3, Zenon
      <4>7. \A m, n \in 0 .. bp : m < n => table[m] < table[n]
        <5>1. \A m, n \in 0 .. bp - 1 : m < n => table[m] < table[n]
          BY <2>1 DEF Stored
        <5> QED BY <4>5, <5>1
      <4>8. bp' - 1 = bp /\ table' = table BY <2>1, <3>1
      <4> QED BY <2>2, <4>6, <4>7, <4>8 DEF Stored
    <3>2. CASE ~ Map!Good(Map!Latest)
      <4>1. Len(answers) \notin Map!Described BY <2>1, <3>2, GoodIsRegion
      <4> QED BY <2>1, <2>2, <3>2, <4>1 DEF Stored
    <3> QED BY <3>1, <3>2
  <2> QED BY <2>1, <2>3, <2>4
<1> QED BY <1>1, <1>2, <1>3

LEMMA MapInvariant == BootSpec => []MapInv
<1>1. BootInit => MapInv
  BY BootAssumption
     DEF BootInit, Map!Init, Map!Nothing, MapInv, Stored, Map!Described
<1>2. MapInv /\ [BootNext]_bootVars => MapInv'
  <2> SUFFICES ASSUME MapInv, [BootNext]_bootVars PROVE MapInv' OBVIOUS
  <2>1. CASE MapStep BY <2>1, MapStepPreserves DEF MapStep
  <2>2. CASE MapReturns
    BY <2>2 DEF MapReturns, MapInv, Map!Nothing
  <2>3. CASE UNCHANGED mapVars
    BY <2>3 DEF MapInv, Stored, Map!Described, Map!Latest
  <2> QED BY <2>1, <2>2, <2>3, Steps DEF Protected, CallEnableA20, EnterKernel
<1> QED BY <1>1, <1>2, PTL DEF BootSpec

\* When CreateMemoryMap returns its table holds the regions the BIOS described,
\* every one of them and in the BIOS's order, whatever it interleaves with them
\* and however it ends the list (Stage2A.asm:216-242).
THEOREM MapComplete == BootSpec => []TableIsTheMap
<1>1. MapInv => TableIsTheMap
  BY DEF MapInv, Stored, TableIsTheMap, Map!TableIsTheMap
<1> QED BY <1>1, MapInvariant, PTL
=============================================================================
