-------------------------- MODULE OldKernelProofs ---------------------------
(***************************************************************************)
(* Theorems about OldKernel for every number of sectors, every set of      *)
(* lines and of system calls, and every size of the screen: the processor  *)
(* is never lost, a read that returns is complete, and the text output     *)
(* stays near the screen.                                                  *)
(***************************************************************************)
EXTENDS OldKernel, SequenceTheorems, TLAPS

-----------------------------------------------------------------------------
(* The main program *)

\* The loader reads the sectors of the kernel, which begin at the 18th.
Sectors == KERNEL_END_SECTOR - 18

\* Stage2_CEntry before it reads.
SetUp ==
    <<Puts, Do("IDT_DisableInterrupts"), Do("InitializePic"), Do("RegisterIRQs"),
      Do("ReloadIDT"), Do("IDT_EnableInterrupts"), Puts, Do("Syscalls_Initialize"),
      Syscall(1, 6, "IRQHandler"), Syscall(0, 16, "SYS_GetFDCI"),
      Syscall(16, 0, "Stage2_FDCI")>>

\* The reads of the loader, one for each sector.
SectorRead(i) == ReadLBA("Stage2_FDCI", 17 + i, <<"glyph">>)
Reads == [i \in 1 .. Sectors |-> SectorRead(i)]

\* KMain, and FS_Initialize in it.
Kernel ==
    <<Syscall(16, 0, "Kernel_FDCI"), Syscall(16, 0, "FileSystem_FDCI"),
      ReadLBA("FileSystem_FDCI", RootDirectoryLBA, <<>>),
      ReadLBA("FileSystem_FDCI", SectorMapLBA, <<>>),
      Syscall(0, 32, "SYS_GetFSInterface"), Syscall(32, 0, "Kernel_FSI"),
      Syscall(0, 3, "SYS_int32"), ReadLBA("FileSystem_FDCI", 0, <<>>)>>

\* The commands of KMain, one by one.
LEMMA KernelIs ==
    ASSUME NEW C, \A i \in 1 .. 8 : Kernel[i] \in C
    PROVE  KMain \in Seq(C) /\ Len(KMain) = 8 /\ \A i \in 1 .. 8 : KMain[i] = Kernel[i]
<1> DEFINE s == <<Kernel[1]>>
           t == <<Kernel[2], Kernel[3], Kernel[4], Kernel[5]>>
           u == <<Kernel[6], Kernel[7], Kernel[8]>>
<1>1. KMain = (s \o t) \o u
  <2>1. <<Syscall(16, 0, "Kernel_FDCI")>> = s BY DEF Kernel
  <2>2. FS_Initialize = t BY DEF Kernel, FS_Initialize
  <2>3. <<Syscall(32, 0, "Kernel_FSI"), Syscall(0, 3, "SYS_int32"),
          ReadLBA("FileSystem_FDCI", 0, <<>>)>> = u
    BY DEF Kernel
  <2> HIDE DEF s, t, u
  <2> QED BY <2>1, <2>2, <2>3 DEF KMain
<1>2. s \in Seq(C) /\ Len(s) = 1 /\ s[1] = Kernel[1] OBVIOUS
<1>3. t \in Seq(C) /\ Len(t) = 4 /\ \A i \in 1 .. 4 : t[i] = Kernel[i + 1] OBVIOUS
<1>4. u \in Seq(C) /\ Len(u) = 3 /\ \A i \in 1 .. 3 : u[i] = Kernel[i + 5] OBVIOUS
<1> HIDE DEF s, t, u
<1>5. /\ s \o t \in Seq(C) /\ Len(s \o t) = 5
      /\ \A i \in 1 .. 5 : (s \o t)[i] = IF i <= 1 THEN s[i] ELSE t[i - 1]
  <2> DEFINE w == s \o t
  <2>1. /\ w \in Seq(C) /\ Len(w) = Len(s) + Len(t)
        /\ \A i \in 1 .. Len(s) + Len(t) :
               w[i] = IF i <= Len(s) THEN s[i] ELSE t[i - Len(s)]
    <3>1. s \in Seq(C) /\ t \in Seq(C) BY <1>2, <1>3
    <3> QED BY <3>1, ConcatProperties
  <2> HIDE DEF w
  <2>2. w \in Seq(C) /\ Len(w) = 5
        /\ \A i \in 1 .. 5 : w[i] = IF i <= 1 THEN s[i] ELSE t[i - 1]
    BY <2>1, <1>2, <1>3
  <2> QED BY <2>2 DEF w
<1> DEFINE v == s \o t
<1>6. v \in Seq(C) /\ Len(v) = 5 /\ \A i \in 1 .. 5 : v[i] = Kernel[i]
  <2>1. \A i \in 2 .. 5 : v[i] = Kernel[i] BY <1>3, <1>5
  <2>2. v[1] = Kernel[1] BY <1>2, <1>5
  <2> QED BY <2>1, <2>2, <1>5
<1> HIDE DEF v
<1>7. /\ v \o u \in Seq(C) /\ Len(v \o u) = 8
      /\ \A i \in 1 .. 8 : (v \o u)[i] = IF i <= 5 THEN v[i] ELSE u[i - 5]
  <2> DEFINE w == v \o u
  <2>1. /\ w \in Seq(C) /\ Len(w) = Len(v) + Len(u)
        /\ \A i \in 1 .. Len(v) + Len(u) :
               w[i] = IF i <= Len(v) THEN v[i] ELSE u[i - Len(v)]
    <3>1. v \in Seq(C) /\ u \in Seq(C) BY <1>4, <1>6
    <3> QED BY <3>1, ConcatProperties
  <2> HIDE DEF w
  <2>2. w \in Seq(C) /\ Len(w) = 8
        /\ \A i \in 1 .. 8 : w[i] = IF i <= 5 THEN v[i] ELSE u[i - 5]
    BY <2>1, <1>4, <1>6
  <2> QED BY <2>2 DEF w
<1>8. KMain = v \o u BY <1>1 DEF v
<1>9. \A i \in 1 .. 8 : (v \o u)[i] = Kernel[i] 
  <2> DEFINE w == v \o u
  <2>1. \A i \in 1 .. 8 : w[i] = IF i <= 5 THEN v[i] ELSE u[i - 5] BY <1>7
  <2> HIDE DEF w
  <2>2. \A i \in 1 .. 8 : w[i] = Kernel[i] BY <1>4, <1>6, <2>1
  <2> QED BY <2>2 DEF w
<1> QED BY <1>7, <1>8, <1>9

\* Where each command of the program is.
LEMMA ProgramIs ==
    /\ Sectors \in Nat \ {0}
    /\ Len(Program) = 19 + Sectors
    /\ \A i \in 1 .. 11 : Program[i] = SetUp[i]
    /\ \A i \in 12 .. 11 + Sectors : Program[i] = SectorRead(i - 11)
    /\ \A i \in 12 + Sectors .. 19 + Sectors : Program[i] = Kernel[i - 11 - Sectors]
<1> DEFINE C == {SetUp[i] : i \in 1 .. 11} \cup {SectorRead(i) : i \in Nat}
                \cup {Kernel[i] : i \in 1 .. 8}
<1>1. Sectors \in Nat \ {0} BY ProgramAssumption DEF Sectors
<1>2. SetUp \in Seq(C) /\ Len(SetUp) = 11
  <2>1. SetUp = [i \in 1 .. 11 |-> SetUp[i]] BY DEF SetUp
  <2>2. \A i \in 1 .. 11 : SetUp[i] \in C OBVIOUS
  <2> HIDE DEF C
  <2> QED BY <2>1, <2>2
<1>3. KMain \in Seq(C) /\ Len(KMain) = 8 /\ \A i \in 1 .. 8 : KMain[i] = Kernel[i]
  <2>1. \A i \in 1 .. 8 : Kernel[i] \in C OBVIOUS
  <2> HIDE DEF C
  <2> QED BY <2>1, KernelIs
<1>4. Reads \in Seq(C) /\ Len(Reads) = Sectors
  <2>1. \A i \in Nat : SectorRead(i) \in C OBVIOUS
  <2> HIDE DEF C
  <2> QED BY <1>1, <2>1 DEF Reads
<1>5. \A i \in 1 .. Sectors : Reads[i] = SectorRead(i) BY DEF Reads
<1> HIDE DEF C
<1> DEFINE L == SetUp \o Reads
<1>6. Program = L \o KMain
  <2>1. Stage2_CEntry = SetUp \o Reads
    BY DEF Stage2_CEntry, SetUp, Reads, Sectors, SectorRead
  <2> QED BY <2>1 DEF Program
<1>7. /\ L \in Seq(C) /\ Len(L) = 11 + Sectors
      /\ \A i \in 1 .. 11 + Sectors : L[i] = IF i <= 11 THEN SetUp[i] ELSE Reads[i - 11]
  <2> DEFINE w == SetUp \o Reads
  <2>1. /\ w \in Seq(C) /\ Len(w) = Len(SetUp) + Len(Reads)
        /\ \A i \in 1 .. Len(SetUp) + Len(Reads) :
               w[i] = IF i <= Len(SetUp) THEN SetUp[i] ELSE Reads[i - Len(SetUp)]
    BY <1>2, <1>4, ConcatProperties
  <2> HIDE DEF w
  <2>2. w \in Seq(C) /\ Len(w) = 11 + Sectors
        /\ \A i \in 1 .. 11 + Sectors : w[i] = IF i <= 11 THEN SetUp[i] ELSE Reads[i - 11]
    BY <2>1, <1>1, <1>2, <1>4
  <2> QED BY <2>2 DEF w
<1> HIDE DEF L
<1> DEFINE m == 11 + Sectors
<1>8. /\ Len(L \o KMain) = m + 8
      /\ \A i \in 1 .. m + 8 : (L \o KMain)[i] = IF i <= m THEN L[i] ELSE KMain[i - m]
  <2> DEFINE w == L \o KMain
  <2>1. /\ w \in Seq(C) /\ Len(w) = Len(L) + Len(KMain)
        /\ \A i \in 1 .. Len(L) + Len(KMain) :
               w[i] = IF i <= Len(L) THEN L[i] ELSE KMain[i - Len(L)]
    BY <1>3, <1>7, ConcatProperties
  <2> HIDE DEF w
  <2>2. Len(w) = m + 8 /\ \A i \in 1 .. m + 8 : w[i] = IF i <= m THEN L[i] ELSE KMain[i - m]
    BY <2>1, <1>1, <1>3, <1>7
  <2> QED BY <2>2 DEF w
<1>9. \A i \in 12 .. 11 + Sectors : L[i] = SectorRead(i - 11)
  BY <1>1, <1>5, <1>7
<1>10. \A i \in 12 + Sectors .. 19 + Sectors : KMain[i - m] = Kernel[i - 11 - Sectors]
  <2>1. ASSUME NEW i \in 12 + Sectors .. 19 + Sectors
        PROVE  i - m \in 1 .. 8 /\ i - m = i - 11 - Sectors
    BY <1>1
  <2> HIDE DEF m
  <2> QED BY <2>1, <1>3
<1>11. \A i \in 12 + Sectors .. 19 + Sectors : Program[i] = Kernel[i - 11 - Sectors]
  BY <1>1, <1>6, <1>8, <1>10
<1>12. Len(Program) = 19 + Sectors /\ \A i \in 1 .. 11 + Sectors : Program[i] = L[i]
  BY <1>1, <1>6, <1>8
<1> QED BY <1>1, <1>7, <1>9, <1>11, <1>12

\* What EDX points at in a system call.
Pointers ==
    {"IRQHandler", "SYS_int32", "SYS_GetFDCI", "SYS_GetFSInterface", "Stage2_FDCI",
     "FileSystem_FDCI", "Kernel_FDCI", "Kernel_FSI", Null}

\* What a system call that the program makes at its command i asks for.
Asks(i, eax, ebx, edx) ==
    /\ eax \in {0, 1, 16, 32} /\ ebx \in Nat /\ edx \in Pointers
    /\ eax = 1 => ebx = 6 /\ edx = "IRQHandler"
    /\ eax = 0 => \/ ebx = 3 /\ edx = "SYS_int32"
                  \/ ebx = 16 /\ edx = "SYS_GetFDCI"
                  \/ ebx = 32 /\ edx = "SYS_GetFSInterface"
    /\ i = 10 => eax = 0 /\ ebx = 16
    /\ i = 11 => eax = 16 /\ edx = "Stage2_FDCI"
    /\ i = 13 + Sectors => eax = 16 /\ edx = "FileSystem_FDCI"

\* A command of the program that may stand at i.
CommandFits(i, c) ==
    /\ c.op = "IDT_DisableInterrupts" => i = 2
    /\ c.op = "InitializePic" => i = 3
    /\ c.op = "RegisterIRQs" => i = 4
    /\ c.op = "ReloadIDT" => i = 5
    /\ c.op = "IDT_EnableInterrupts" => i = 6
    /\ c.op = "Syscalls_Initialize" => i = 8
    /\ c.op = "puts" => i \in {1, 7}
    /\ c.op = "int80" => i >= 9 /\ Asks(i, c.eax, c.ebx, c.edx)
    /\ c.op = "read" => /\ i > 11 /\ c.lba \in Nat
                        /\ \/ c.interface = "Stage2_FDCI" /\ i <= 11 + Sectors
                           \/ c.interface = "FileSystem_FDCI" /\ i > 13 + Sectors

\* The commands fit where they stand: what each form needs, then the set-up,
\* KMain and the whole program.
LEMMA CommandsFit ==
    /\ \A i : i \in {1, 7} => CommandFits(i, Puts)
    /\ \A i, eax, ebx, edx : i >= 9 /\ Asks(i, eax, ebx, edx)
                             => CommandFits(i, Syscall(eax, ebx, edx))
    /\ \A i, lba, str : i \in Nat /\ lba \in Nat /\ i > 11 /\ i <= 11 + Sectors
                        => CommandFits(i, ReadLBA("Stage2_FDCI", lba, str))
    /\ \A i, lba, str : i \in Nat /\ lba \in Nat /\ i > 11 /\ i > 13 + Sectors
                        => CommandFits(i, ReadLBA("FileSystem_FDCI", lba, str))
<1>1. ASSUME NEW i, i \in {1, 7} PROVE CommandFits(i, Puts)
  <2>1. Puts.op = "puts" BY DEF Puts
  <2> QED BY <1>1, <2>1 DEF CommandFits
<1>2. ASSUME NEW i, NEW eax, NEW ebx, NEW edx, i >= 9, Asks(i, eax, ebx, edx)
      PROVE  CommandFits(i, Syscall(eax, ebx, edx))
  <2> DEFINE c == Syscall(eax, ebx, edx)
  <2>1. c.op = "int80" /\ c.eax = eax /\ c.ebx = ebx /\ c.edx = edx
    BY DEF Syscall
  <2> HIDE DEF c
  <2>2. CommandFits(i, c) BY <1>2, <2>1 DEF CommandFits
  <2> QED BY <2>2 DEF c
<1>3. ASSUME NEW i \in Nat, NEW lba \in Nat, NEW str, NEW name, i > 11,
             \/ name = "Stage2_FDCI" /\ i <= 11 + Sectors
             \/ name = "FileSystem_FDCI" /\ i > 13 + Sectors
      PROVE  CommandFits(i, ReadLBA(name, lba, str))
  <2> DEFINE c == ReadLBA(name, lba, str)
  <2>1. c.op = "read" /\ c.interface = name /\ c.lba = lba BY DEF ReadLBA
  <2> HIDE DEF c
  <2>2. CommandFits(i, c) BY <1>3, <2>1 DEF CommandFits
  <2> QED BY <2>2 DEF c
<1> QED BY <1>1, <1>2, <1>3

\* Each command of the set-up fits where it stands.
LEMMA SetUpFits == \A i \in 1 .. 11 : CommandFits(i, SetUp[i])
<1>1. Sectors \in Nat \ {0} BY ProgramIs
<1>2. CommandFits(1, SetUp[1]) /\ CommandFits(7, SetUp[7])
  <2>1. SetUp[1] = Puts /\ SetUp[7] = Puts BY DEF SetUp
  <2>2. CommandFits(1, Puts) /\ CommandFits(7, Puts) BY CommandsFit
  <2> QED BY <2>1, <2>2
<1>3. CommandFits(2, SetUp[2]) BY DEF SetUp, Do, CommandFits
<1>4. CommandFits(3, SetUp[3]) BY DEF SetUp, Do, CommandFits
<1>5. CommandFits(4, SetUp[4]) BY DEF SetUp, Do, CommandFits
<1>6. CommandFits(5, SetUp[5]) BY DEF SetUp, Do, CommandFits
<1>7. CommandFits(6, SetUp[6]) BY DEF SetUp, Do, CommandFits
<1>8. CommandFits(8, SetUp[8]) BY DEF SetUp, Do, CommandFits
<1>9. CommandFits(9, SetUp[9])
  <2>1. SetUp[9] = Syscall(1, 6, "IRQHandler") BY DEF SetUp
  <2>2. 9 >= 9 /\ Asks(9, 1, 6, "IRQHandler") BY <1>1 DEF Asks, Pointers
  <2>3. CommandFits(9, Syscall(1, 6, "IRQHandler")) BY <2>2, CommandsFit, Zenon
  <2> QED BY <2>1, <2>3
<1>10. CommandFits(10, SetUp[10])
  <2>1. SetUp[10] = Syscall(0, 16, "SYS_GetFDCI") BY DEF SetUp
  <2>2. 10 >= 9 /\ Asks(10, 0, 16, "SYS_GetFDCI") BY <1>1 DEF Asks, Pointers
  <2>3. CommandFits(10, Syscall(0, 16, "SYS_GetFDCI"))
    BY <2>2, CommandsFit, Zenon
  <2> QED BY <2>1, <2>3
<1>11. CommandFits(11, SetUp[11])
  <2>1. SetUp[11] = Syscall(16, 0, "Stage2_FDCI") BY DEF SetUp
  <2>2. 11 >= 9 /\ Asks(11, 16, 0, "Stage2_FDCI") BY <1>1 DEF Asks, Pointers
  <2>3. CommandFits(11, Syscall(16, 0, "Stage2_FDCI"))
    BY <2>2, CommandsFit, Zenon
  <2> QED BY <2>1, <2>3
<1> QED BY <1>2, <1>3, <1>4, <1>5, <1>6, <1>7, <1>8, <1>9, <1>10, <1>11

\* Each command of KMain fits where it stands.
LEMMA KernelFits == \A i \in 1 .. 8 : CommandFits(i + 11 + Sectors, Kernel[i])
<1>1. Sectors \in Nat \ {0} BY ProgramIs
<1>2. CommandFits(1 + 11 + Sectors, Kernel[1])
  <2>1. Kernel[1] = Syscall(16, 0, "Kernel_FDCI") BY DEF Kernel
  <2>2. 1 + 11 + Sectors >= 9 /\ Asks(1 + 11 + Sectors, 16, 0, "Kernel_FDCI")
    BY <1>1 DEF Asks, Pointers
  <2>3. CommandFits(1 + 11 + Sectors, Syscall(16, 0, "Kernel_FDCI"))
    BY <2>2, CommandsFit, Zenon
  <2> QED BY <2>1, <2>3
<1>3. CommandFits(2 + 11 + Sectors, Kernel[2])
  <2>1. Kernel[2] = Syscall(16, 0, "FileSystem_FDCI") BY DEF Kernel
  <2>2. 2 + 11 + Sectors >= 9 /\ Asks(2 + 11 + Sectors, 16, 0, "FileSystem_FDCI")
    BY <1>1 DEF Asks, Pointers
  <2>3. CommandFits(2 + 11 + Sectors, Syscall(16, 0, "FileSystem_FDCI"))
    BY <2>2, CommandsFit, Zenon
  <2> QED BY <2>1, <2>3
<1>4. CommandFits(3 + 11 + Sectors, Kernel[3])
  <2>1. Kernel[3] = ReadLBA("FileSystem_FDCI", RootDirectoryLBA, <<>>)
    BY DEF Kernel
  <2>2. /\ 3 + 11 + Sectors \in Nat /\ RootDirectoryLBA \in Nat
        /\ 3 + 11 + Sectors > 11 /\ 3 + 11 + Sectors > 13 + Sectors
    BY <1>1, ProgramAssumption
  <2>3. CommandFits(3 + 11 + Sectors, ReadLBA("FileSystem_FDCI", RootDirectoryLBA, <<>>))
    BY <2>2, CommandsFit, Zenon
  <2> QED BY <2>1, <2>3
<1>5. CommandFits(4 + 11 + Sectors, Kernel[4])
  <2>1. Kernel[4] = ReadLBA("FileSystem_FDCI", SectorMapLBA, <<>>) BY DEF Kernel
  <2>2. /\ 4 + 11 + Sectors \in Nat /\ SectorMapLBA \in Nat
        /\ 4 + 11 + Sectors > 11 /\ 4 + 11 + Sectors > 13 + Sectors
    BY <1>1, ProgramAssumption
  <2>3. CommandFits(4 + 11 + Sectors, ReadLBA("FileSystem_FDCI", SectorMapLBA, <<>>))
    BY <2>2, CommandsFit, Zenon
  <2> QED BY <2>1, <2>3
<1>6. CommandFits(5 + 11 + Sectors, Kernel[5])
  <2>1. Kernel[5] = Syscall(0, 32, "SYS_GetFSInterface") BY DEF Kernel
  <2>2. 5 + 11 + Sectors >= 9 /\ Asks(5 + 11 + Sectors, 0, 32, "SYS_GetFSInterface")
    BY <1>1 DEF Asks, Pointers
  <2>3. CommandFits(5 + 11 + Sectors, Syscall(0, 32, "SYS_GetFSInterface"))
    BY <2>2, CommandsFit, Zenon
  <2> QED BY <2>1, <2>3
<1>7. CommandFits(6 + 11 + Sectors, Kernel[6])
  <2>1. Kernel[6] = Syscall(32, 0, "Kernel_FSI") BY DEF Kernel
  <2>2. 6 + 11 + Sectors >= 9 /\ Asks(6 + 11 + Sectors, 32, 0, "Kernel_FSI")
    BY <1>1 DEF Asks, Pointers
  <2>3. CommandFits(6 + 11 + Sectors, Syscall(32, 0, "Kernel_FSI"))
    BY <2>2, CommandsFit, Zenon
  <2> QED BY <2>1, <2>3
<1>8. CommandFits(7 + 11 + Sectors, Kernel[7])
  <2>1. Kernel[7] = Syscall(0, 3, "SYS_int32") BY DEF Kernel
  <2>2. 7 + 11 + Sectors >= 9 /\ Asks(7 + 11 + Sectors, 0, 3, "SYS_int32")
    BY <1>1 DEF Asks, Pointers
  <2>3. CommandFits(7 + 11 + Sectors, Syscall(0, 3, "SYS_int32"))
    BY <2>2, CommandsFit, Zenon
  <2> QED BY <2>1, <2>3
<1>9. CommandFits(8 + 11 + Sectors, Kernel[8])
  <2>1. Kernel[8] = ReadLBA("FileSystem_FDCI", 0, <<>>) BY DEF Kernel
  <2>2. /\ 8 + 11 + Sectors \in Nat /\ 0 \in Nat
        /\ 8 + 11 + Sectors > 11 /\ 8 + 11 + Sectors > 13 + Sectors
    BY <1>1, ProgramAssumption
  <2>3. CommandFits(8 + 11 + Sectors, ReadLBA("FileSystem_FDCI", 0, <<>>))
    BY <2>2, CommandsFit, Zenon
  <2> QED BY <2>1, <2>3
<1> QED BY <1>2, <1>3, <1>4, <1>5, <1>6, <1>7, <1>8, <1>9

\* Each command of the program fits where it stands.
LEMMA ProgramFits == \A i \in 1 .. Len(Program) : CommandFits(i, Program[i])
<1> SUFFICES ASSUME NEW i \in 1 .. Len(Program) PROVE CommandFits(i, Program[i]) OBVIOUS
<1>1. Sectors \in Nat \ {0} /\ Len(Program) = 19 + Sectors BY ProgramIs
<1>2. CASE i \in 1 .. 11 BY <1>2, ProgramIs, SetUpFits
<1>3. CASE i \in 12 .. 11 + Sectors
  <2>1. Program[i] = SectorRead(i - 11) BY <1>3, ProgramIs
  <2>2. i \in Nat /\ i > 11 /\ i <= 11 + Sectors /\ 17 + (i - 11) \in Nat
    BY <1>1, <1>3
  <2> QED BY <2>1, <2>2, CommandsFit DEF SectorRead
<1>4. CASE i \in 12 + Sectors .. 19 + Sectors
  <2> DEFINE k == i - 11 - Sectors
  <2>1. Program[i] = Kernel[k] BY <1>4, ProgramIs
  <2>2. k \in 1 .. 8 /\ i = k + 11 + Sectors BY <1>1, <1>4
  <2> HIDE DEF k
  <2> QED BY <2>1, <2>2, KernelFits
<1> QED BY <1>1, <1>2, <1>3, <1>4

-----------------------------------------------------------------------------
(* The frames *)

\* An interrupt and a system call that are being served.
Interruption == [id : Lines, todo : {"handler", "eoi", "iret"}, flag : BOOLEAN]

Call ==
    [id : {SyscallVector}, todo : {"function", "store", "sti", "int32", "iret"},
     eax : {0, 1, 3, 4, 16, 32}, ebx : Nat, edx : Pointers, n : Nat, flag : BOOLEAN]

\* Only a system call that is over is interrupted.
StackInv ==
    \/ frames = <<>>
    \/ \E f \in Interruption \cup Call : frames = <<f>>
    \/ \E c \in Call, f \in Interruption : c.todo = "iret" /\ frames = <<c, f>>

\* The step of int32 that comes next.
Stage == IF frames # <<>> /\ Inner.todo = "int32" THEN Inner.n ELSE 0

\* The states of the processor and of the pair of controllers.
Processors ==
    [flag : BOOLEAN, mode : {"protected", "real"}, table : {"none", "bios", "IDT"}]
Controllers == [base : {"bios", "IDT"}, irr : SUBSET Lines, isr : SUBSET (0 .. 15)]

\* The processor and the controllers are as int32 has them at that step, and
\* otherwise as the loader has set them up.
CpuInv ==
    /\ cpu \in Processors
    /\ pic \in Controllers
    /\ Stage \in Nat /\ Stage <= 12
    /\ IF Stage >= 4 /\ Stage <= 10 THEN cpu.mode = "real" ELSE cpu.mode = "protected"
    /\ IF Stage >= 5 /\ Stage <= 11 THEN cpu.table = "bios" ELSE pc > 5 => cpu.table = "IDT"
    /\ IF Stage >= 6 /\ Stage <= 9 THEN pic.base = "bios" ELSE pc > 3 => pic.base = "IDT"
    /\ frames # <<>> \/ cpu.flag => pc > 6
    /\ cpu.flag => \/ frames = <<>>
                   \/ Inner.id = SyscallVector /\ Inner.todo = "iret"
                   \/ Stage = 7 \/ Stage = 8

\* What the loader has filled in, and where the kernel may put what.
TablesInv ==
    /\ pc > 4 => (32 .. 47) \cup {SyscallVector} \subseteq IDT
    /\ DOMAIN InterruptHandlers = 0 .. 15
    /\ \A l \in 0 .. 15 : /\ pc > 4 => InterruptHandlers[l] # Unset
                          /\ InterruptHandlers[l] = "IRQHandler" => l = 6
    /\ DOMAIN Syscalls = SyscallIDs
    /\ \A n \in SyscallIDs : /\ pc > 8 => Syscalls[n] # Unset
                             /\ pc > 8 /\ n = 0 => Syscalls[n] = "SYS_RegisterSyscall"
                             /\ Syscalls[n] = "SYS_RegisterSyscall" => n = 0
                             /\ Syscalls[n] = "SYS_RegisterInterruptHandler" => n = 1
                             /\ Syscalls[n] = "SYS_int32" => n = 3

\* What the system call that is being served has been asked for.
CallInv ==
    frames # <<>> /\ Inner.id = SyscallVector /\ Inner.todo # "iret" =>
        /\ pc > 9
        /\ Inner.eax = 1 => Inner.ebx = 6 /\ Inner.edx = "IRQHandler"
        /\ Inner.eax = 0 => \/ Inner.ebx = 3 /\ Inner.edx = "SYS_int32"
                            \/ Inner.ebx = 16 /\ Inner.edx = "SYS_GetFDCI"
                            \/ Inner.ebx = 32 /\ Inner.edx = "SYS_GetFSInterface"
        /\ Inner.eax \in {3, 4} => Returned
        /\ Inner.todo \in {"store", "sti"} => Inner.eax = 1
        /\ Inner.todo = "int32" => Inner.eax = 3 /\ Inner.n > 0
        /\ Inner.todo = "function" =>
               /\ pc = 11 => Inner.eax = 0 /\ Inner.ebx = 16
               /\ pc = 12 => Inner.eax = 16 /\ Inner.edx = "Stage2_FDCI"
               /\ pc = 14 + Sectors => Inner.eax = 16 /\ Inner.edx = "FileSystem_FDCI"

\* A system call has been entered, and its function not yet called.
Entered == frames # <<>> /\ Inner.todo = "function"

\* What the main program has got from the system calls it has made.
EffectsInv ==
    /\ pc > 10 /\ ~ (pc = 11 /\ Entered) => Syscalls[16] = "SYS_GetFDCI"
    /\ pc > 11 /\ ~ (pc = 12 /\ Entered) => "Stage2_FDCI" \in interfaces
    /\ pc > 13 + Sectors /\ ~ (pc = 14 + Sectors /\ Entered) => "FileSystem_FDCI" \in interfaces
    /\ low # "Root" => Returned

\* While the main program runs to its end, nothing is lost.
KernelInv ==
    /\ pc \in Nat /\ pc > 0 /\ pc <= Len(Program) + 1
    /\ StackInv /\ CpuInv /\ TablesInv /\ CallInv /\ EffectsInv /\ ~ lost

\* A system call is being served, and perhaps an interrupt in it.
Served == frames # <<>> /\ frames[1].id = SyscallVector

\* An interrupt and a system call never look alike.
LEMMA FramesDiffer ==
    /\ \A f \in Interruption : f.id \in Lines /\ f.id \in 0 .. 15 /\ f.id # SyscallVector
    /\ \A f \in Call : f.id = SyscallVector
<1>1. \A l \in Lines : l \in 0 .. 15 /\ l # SyscallVector
  BY OldLineAssumption DEF SyscallVector
<1>2. \A f \in Interruption : f.id \in Lines BY DEF Interruption
<1>3. \A f \in Call : f.id = SyscallVector BY DEF Call
<1> QED BY <1>1, <1>2, <1>3

\* The frame that is served is an interrupt or the only system call.
LEMMA InnerIs ==
    ASSUME StackInv, frames # <<>>
    PROVE  /\ Inner \in Interruption \/ Inner \in Call
           /\ Inner.id = SyscallVector <=> Inner \in Call
           /\ Inner \in Call => frames = <<Inner>> /\ Served
<1>1. ASSUME NEW f, f \in Interruption \/ f \in Call, frames = <<f>>
      PROVE  Inner = f /\ frames = <<Inner>> /\ frames[1] = Inner
  BY <1>1 DEF Inner
<1>2. ASSUME NEW c, NEW f, frames = <<c, f>> PROVE Inner = f
  BY <1>2 DEF Inner
<1> QED BY <1>1, <1>2, FramesDiffer DEF StackInv, Served

\* A frame that becomes another of its kind.
LEMMA InnerBecomesIs ==
    ASSUME StackInv, frames # <<>>, NEW f, InnerBecomes(f),
           Inner \in Interruption => f \in Interruption,
           Inner \in Call => f \in Call
    PROVE  StackInv' /\ frames' # <<>> /\ Inner' = f /\ (Served' <=> Served)
<1>1. ASSUME NEW g, g \in Interruption \/ g \in Call, frames = <<g>>
      PROVE  /\ frames' = <<f>> /\ Inner' = f
             /\ f \in Interruption \/ f \in Call
             /\ Served' <=> Served
  <2>1. Inner = g /\ frames' = <<f>> BY <1>1 DEF Inner, InnerBecomes
  <2>2. Inner' = f /\ frames[1] = g /\ frames'[1] = f BY <1>1, <2>1 DEF Inner
  <2> QED BY <1>1, <2>1, <2>2, FramesDiffer DEF Served
<1>2. ASSUME NEW c \in Call, NEW g \in Interruption, frames = <<c, g>>
      PROVE  /\ frames' = <<c, f>> /\ Inner' = f /\ f \in Interruption
             /\ Served' <=> Served
  <2>1. Inner = g /\ frames' = <<c, f>> BY <1>2 DEF Inner, InnerBecomes
  <2>2. Inner' = f /\ frames[1] = c /\ frames'[1] = c BY <1>2, <2>1 DEF Inner
  <2> QED BY <1>2, <2>1, <2>2 DEF Served
<1> QED BY <1>1, <1>2 DEF StackInv

\* An interrupt on a system call, and the system call when it is over.
LEMMA PairsAre ==
    ASSUME NEW c, NEW f
    PROVE  Append(<<c>>, f) = <<c, f>> /\ SubSeq(<<c, f>>, 1, 1) = <<c>>
<1> DEFINE S == {c, f}
           s == <<c>>
           t == <<c, f>>
<1>1. s \in Seq(S) /\ Len(s) = 1 /\ s[1] = c /\ f \in S OBVIOUS
<1>2. t \in Seq(S) /\ Len(t) = 2 /\ t[1] = c /\ t[2] = f OBVIOUS
<1> HIDE DEF S, s, t
<1>3. Append(s, f) = t
  <2>1. Append(s, f) \in Seq(S) /\ Len(Append(s, f)) = 2
        /\ Append(s, f)[1] = c /\ Append(s, f)[2] = f
    <3>1. Append(<<c>>, f) \in Seq({c, f}) OBVIOUS
    <3>2. Len(Append(<<c>>, f)) = 2 OBVIOUS
    <3>3. Append(<<c>>, f)[1] = c OBVIOUS
    <3>4. Append(<<c>>, f)[2] = f OBVIOUS
    <3> QED BY <3>1, <3>2, <3>3, <3>4 DEF S, s
  <2> QED BY <1>2, <2>1, SeqEqual
<1>4. SubSeq(t, 1, 1) = s
  <2>1. SubSeq(t, 1, 1) \in Seq(S) /\ Len(SubSeq(t, 1, 1)) = 1 /\ SubSeq(t, 1, 1)[1] = c
    BY <1>2, SubSeqProperties
  <2> QED BY <1>1, <2>1, SeqEqual
<1> QED BY <1>3, <1>4 DEF s, t

\* An interrupt comes while the main program runs or a system call is over.
LEMMA EntersInterrupt ==
    ASSUME StackInv, NEW f \in Interruption, frames' = Append(frames, f),
           frames = <<>> \/ (Inner.id = SyscallVector /\ Inner.todo = "iret")
    PROVE  StackInv' /\ frames' # <<>> /\ Inner' = f /\ (Served' <=> Served)
<1>1. CASE frames = <<>>
  <2>1. frames' = <<f>> BY <1>1
  <2>2. Inner' = f /\ frames'[1] = f BY <2>1 DEF Inner
  <2> QED BY <1>1, <2>1, <2>2, FramesDiffer DEF StackInv, Served
<1>2. CASE frames # <<>> /\ Inner.id = SyscallVector /\ Inner.todo = "iret"
  <2>1. Inner \in Call /\ frames = <<Inner>> /\ Served BY <1>2, InnerIs
  <2>2. PICK c \in Call : frames = <<c>> /\ c.todo = "iret" BY <1>2, <2>1
  <2>3. frames' = <<c, f>>
    BY <2>2, PairsAre
  <2>4. Inner' = f /\ frames'[1] = c BY <2>3 DEF Inner
  <2>5. StackInv' BY <2>2, <2>3 DEF StackInv
  <2>6. Served' BY <2>3, <2>4, FramesDiffer DEF Served
  <2> QED BY <2>1, <2>3, <2>4, <2>5, <2>6
<1> QED BY <1>1, <1>2

\* A system call is made by the main program.
LEMMA EntersCall ==
    ASSUME NEW c \in Call, frames = <<>>, frames' = Append(frames, c)
    PROVE  StackInv' /\ frames' # <<>> /\ Inner' = c /\ Served'
<1>1. frames' = <<c>> OBVIOUS
<1>2. Inner' = c /\ frames'[1] = c BY <1>1 DEF Inner
<1> QED BY <1>1, <1>2, FramesDiffer DEF StackInv, Served

\* What is served when a frame is left.
LEMMA LeavesFrame ==
    ASSUME StackInv, frames # <<>>, frames' = SubSeq(frames, 1, Len(frames) - 1)
    PROVE  /\ StackInv'
           /\ \/ frames' = <<>>
              \/ /\ Inner \in Interruption
                 /\ frames' # <<>> /\ Inner' \in Call /\ Inner'.todo = "iret" /\ Served
<1>1. ASSUME NEW f, frames = <<f>> PROVE frames' = <<>>
  BY <1>1
<1>2. ASSUME NEW c \in Call, NEW f \in Interruption, c.todo = "iret", frames = <<c, f>>
      PROVE  /\ frames' = <<c>> /\ Inner' = c /\ Inner = f /\ Served
  <2>1. frames' = <<c>>
    <3>1. Len(frames) = 2 /\ frames[1] = c BY <1>2
    <3>2. frames' = SubSeq(<<c, f>>, 1, 1) BY <1>2, <3>1
    <3> QED BY <3>2, PairsAre
  <2>2. Inner' = c /\ Inner = f /\ frames[1] = c BY <1>2, <2>1 DEF Inner
  <2> QED BY <1>2, <2>1, <2>2, FramesDiffer DEF Served
<1> QED BY <1>1, <1>2 DEF StackInv

\* What is said of the frames holds as long as they stay.
LEMMA FramesStay ==
    ASSUME UNCHANGED frames
    PROVE  (StackInv => StackInv') /\ Inner' = Inner /\ (Served' <=> Served)
BY DEF StackInv, Inner, Served

-----------------------------------------------------------------------------
(* The set-up and the system calls of the main program *)

\* The loader starts with nothing set up and nothing served.
LEMMA InitKernel == OldInit => KernelInv
<1> SUFFICES ASSUME OldInit PROVE KernelInv OBVIOUS
<1>1. Sectors \in Nat \ {0} /\ Len(Program) = 19 + Sectors BY ProgramIs
<1>2. frames = <<>> /\ pc = 1 /\ ~ lost /\ low = "Root" /\ Stage = 0
  BY DEF OldInit, OldInterruptsInit, Stage
<1>3. StackInv BY <1>2 DEF StackInv
<1>4. CpuInv
  BY <1>2, OldLineAssumption DEF CpuInv, Processors, Controllers, OldInit, OldInterruptsInit
<1>5. TablesInv BY <1>2 DEF TablesInv, OldInit, OldInterruptsInit, Unset
<1>6. CallInv BY <1>2 DEF CallInv
<1>7. EffectsInv BY <1>1, <1>2 DEF EffectsInv
<1> QED BY <1>1, <1>2, <1>3, <1>4, <1>5, <1>6, <1>7 DEF KernelInv

\* The processor when its flag, its mode or its table is changed.
LEMMA ProcessorIs ==
    ASSUME NEW c \in Processors, NEW on \in BOOLEAN,
           NEW mode \in {"protected", "real"}, NEW table \in {"none", "bios", "IDT"}
    PROVE  /\ LET d == [c EXCEPT !.flag = on] IN
              d \in Processors /\ d.flag = on /\ d.mode = c.mode /\ d.table = c.table
           /\ LET d == [c EXCEPT !.mode = mode] IN
              d \in Processors /\ d.flag = c.flag /\ d.mode = mode /\ d.table = c.table
           /\ LET d == [c EXCEPT !.table = table] IN
              d \in Processors /\ d.flag = c.flag /\ d.mode = c.mode /\ d.table = table
           /\ LET d == [c EXCEPT !.flag = on, !.table = table] IN
              d \in Processors /\ d.flag = on /\ d.mode = c.mode /\ d.table = table
BY DEF Processors

\* What is true of the frame that is being served while the main program runs,
\* of which there is none.
LEMMA NoFrame ==
    frames = <<>> => Stage = 0 /\ ~ Entered /\ CallInv /\ StackInv
BY DEF Stage, Entered, CallInv, StackInv

\* Steps that leave the machine alone keep the invariant.
LEMMA NothingMoves ==
    ASSUME KernelInv, UNCHANGED <<interruptVars, pc, interfaces>>
    PROVE  KernelInv'
<1>1. UNCHANGED <<cpu, pic, IDT, InterruptHandlers, Syscalls, frames, low, lost>>
  BY DEF interruptVars, tables
<1>2. Inner' = Inner /\ StackInv' BY <1>1, FramesStay DEF KernelInv
<1>3. Stage' = Stage /\ (Entered' <=> Entered) /\ (Returned' <=> Returned)
  BY <1>1, <1>2 DEF Stage, Entered, Returned
<1>4. CpuInv' BY <1>1, <1>2, <1>3 DEF KernelInv, CpuInv
<1>5. TablesInv' BY <1>1 DEF KernelInv, TablesInv
<1>6. CallInv' BY <1>1, <1>2, <1>3 DEF KernelInv, CallInv
<1>7. EffectsInv' BY <1>1, <1>3 DEF KernelInv, EffectsInv
<1> QED BY <1>1, <1>2, <1>4, <1>5, <1>6, <1>7 DEF KernelInv

\* The main program passes a command that is neither a step of the set-up nor a
\* system call.
LEMMA PassesCommand ==
    ASSUME KernelInv, Here, pc' = pc + 1, UNCHANGED <<interruptVars, interfaces>>,
           Current.op \in {"puts", "read"}
    PROVE  KernelInv'
<1>1. Sectors \in Nat \ {0} /\ Len(Program) = 19 + Sectors BY ProgramIs
<1>2. pc \in 1 .. Len(Program) /\ ~ Returned /\ low = "Root"
  BY <1>1 DEF KernelInv, EffectsInv, Here, Returned
<1>3. pc \in {1, 7} \/ (pc > 11 /\ pc <= 11 + Sectors) \/ pc > 13 + Sectors
  BY <1>1, <1>2, ProgramFits DEF Current, CommandFits
<1>4. UNCHANGED <<cpu, pic, IDT, InterruptHandlers, Syscalls, frames, low, lost>>
  BY DEF interruptVars, tables
<1>5. frames = <<>> /\ frames' = <<>> /\ Stage = 0 /\ Stage' = 0 /\ ~ Entered /\ ~ Entered'
  BY <1>4, NoFrame DEF Here, Main, Stage, Entered
<1>6. StackInv' /\ CallInv' BY <1>5 DEF StackInv, CallInv
<1>7. CpuInv' BY <1>1, <1>2, <1>3, <1>4, <1>5 DEF KernelInv, CpuInv
<1>8. TablesInv' BY <1>1, <1>2, <1>3, <1>4 DEF KernelInv, TablesInv
<1>9. EffectsInv' BY <1>1, <1>2, <1>3, <1>4, <1>5 DEF KernelInv, EffectsInv
<1> QED BY <1>1, <1>2, <1>4, <1>6, <1>7, <1>8, <1>9 DEF KernelInv

\* The set-up of the loader keeps the invariant, command by command.
LEMMA SetUpKeeps ==
    ASSUME KernelInv, SetupStep
    PROVE  KernelInv'
<1>1. Sectors \in Nat \ {0} /\ Len(Program) = 19 + Sectors BY ProgramIs
<1>2. pc \in 1 .. Len(Program) /\ pc' = pc + 1 /\ frames = <<>> /\ interfaces' = interfaces
      /\ low = "Root"
  BY <1>1 DEF KernelInv, EffectsInv, Here, Returned, SetupStep, Advance, Main
<1>3. CommandFits(pc, Current) BY <1>2, ProgramFits DEF Current
<1>4. Stage = 0 /\ ~ Entered BY <1>2, NoFrame
<1>5. frames' = <<>> /\ low' = low /\ lost' = lost
 
    BY <1>2 DEF SetupStep, SetFlag, InitializePic, RegisterIRQs, ReloadIDT, Syscalls_Initialize
<1>6. Stage' = 0 /\ ~ Entered' /\ StackInv' /\ CallInv'
  BY <1>5 DEF Stage, Entered, StackInv, CallInv
<1>7. CASE SetFlag(FALSE) /\ pc = 2
  <2>1. UNCHANGED <<pic, IDT, InterruptHandlers, Syscalls>>
        /\ cpu' = [cpu EXCEPT !.flag = FALSE]
    BY <1>7 DEF SetFlag, Flag, tables
  <2>2. CpuInv'
    <3>1. /\ cpu \in Processors /\ cpu' \in Processors /\ cpu'.flag = FALSE
          /\ cpu'.mode = cpu.mode /\ cpu'.table = cpu.table
      BY <2>1, ProcessorIs DEF KernelInv, CpuInv
    <3> QED BY <1>2, <1>4, <1>5, <1>6, <1>7, <2>1, <3>1 DEF KernelInv, CpuInv
  <2>3. TablesInv' BY <1>2, <1>7, <2>1 DEF KernelInv, TablesInv
  <2>4. EffectsInv' BY <1>1, <1>2, <1>5, <1>7 DEF EffectsInv
  <2> QED BY <1>1, <1>2, <1>5, <1>6, <2>2, <2>3, <2>4 DEF KernelInv
<1>8. CASE InitializePic /\ pc = 3
  <2>1. UNCHANGED <<cpu, IDT, InterruptHandlers, Syscalls>>
        /\ pic' = [base |-> "IDT", irr |-> {}, isr |-> {}]
    BY <1>8 DEF InitializePic, ResetPic, tables
  <2>2. CpuInv'
    BY <1>2, <1>4, <1>5, <1>6, <1>8, <2>1 DEF KernelInv, CpuInv, Controllers
  <2>3. TablesInv' BY <1>2, <1>8, <2>1 DEF KernelInv, TablesInv
  <2>4. EffectsInv' BY <1>1, <1>2, <1>5, <1>8 DEF EffectsInv
  <2> QED BY <1>1, <1>2, <1>5, <1>6, <2>2, <2>3, <2>4 DEF KernelInv
<1>9. CASE RegisterIRQs /\ pc = 4
  <2>1. UNCHANGED <<cpu, pic, Syscalls>>
        /\ IDT' = IDT \cup (32 .. 47) \cup {SyscallVector}
        /\ InterruptHandlers' = [n \in 0 .. 15 |-> Null]
    BY <1>9 DEF RegisterIRQs, tables
  <2>2. CpuInv' BY <1>2, <1>4, <1>5, <1>6, <1>9, <2>1 DEF KernelInv, CpuInv
  <2>3. TablesInv' BY <1>2, <1>9, <2>1 DEF KernelInv, TablesInv, Null, Unset
  <2>4. EffectsInv' BY <1>1, <1>2, <1>5, <1>9 DEF EffectsInv
  <2> QED BY <1>1, <1>2, <1>5, <1>6, <2>2, <2>3, <2>4 DEF KernelInv
<1>10. CASE ReloadIDT /\ pc = 5
  <2>1. UNCHANGED <<pic, IDT, InterruptHandlers, Syscalls>>
        /\ cpu' = [cpu EXCEPT !.flag = FALSE, !.table = "IDT"]
    BY <1>10 DEF ReloadIDT, tables
  <2>2. CpuInv'
    <3>1. /\ cpu \in Processors /\ cpu' \in Processors /\ cpu'.flag = FALSE
          /\ cpu'.mode = cpu.mode /\ cpu'.table = "IDT"
      BY <2>1, ProcessorIs DEF KernelInv, CpuInv
    <3> QED BY <1>2, <1>4, <1>5, <1>6, <1>10, <2>1, <3>1 DEF KernelInv, CpuInv
  <2>3. TablesInv' BY <1>2, <1>10, <2>1 DEF KernelInv, TablesInv
  <2>4. EffectsInv' BY <1>1, <1>2, <1>5, <1>10 DEF EffectsInv
  <2> QED BY <1>1, <1>2, <1>5, <1>6, <2>2, <2>3, <2>4 DEF KernelInv
<1>11. CASE SetFlag(TRUE) /\ pc = 6
  <2>1. UNCHANGED <<pic, IDT, InterruptHandlers, Syscalls>>
        /\ cpu' = [cpu EXCEPT !.flag = TRUE]
    BY <1>11 DEF SetFlag, Flag, tables
  <2>2. CpuInv'
    <3>1. /\ cpu \in Processors /\ cpu' \in Processors
          /\ cpu'.mode = cpu.mode /\ cpu'.table = cpu.table
      BY <2>1, ProcessorIs DEF KernelInv, CpuInv
    <3> QED BY <1>2, <1>4, <1>5, <1>6, <1>11, <2>1, <3>1 DEF KernelInv, CpuInv
  <2>3. TablesInv' BY <1>2, <1>11, <2>1 DEF KernelInv, TablesInv
  <2>4. EffectsInv' BY <1>1, <1>2, <1>5, <1>11 DEF EffectsInv
  <2> QED BY <1>1, <1>2, <1>5, <1>6, <2>2, <2>3, <2>4 DEF KernelInv
<1>12. CASE Syscalls_Initialize /\ pc = 8
  <2>1. UNCHANGED <<cpu, pic, IDT, InterruptHandlers>>
        /\ Syscalls' = [n \in SyscallIDs |->
                            IF n = 0 THEN "SYS_RegisterSyscall"
                            ELSE IF n = 1 THEN "SYS_RegisterInterruptHandler" ELSE Null]
    BY <1>12 DEF Syscalls_Initialize, tables
  <2>2. CpuInv' BY <1>2, <1>4, <1>5, <1>6, <1>12, <2>1 DEF KernelInv, CpuInv
  <2>3. TablesInv' BY <1>2, <1>12, <2>1 DEF KernelInv, TablesInv, Null, Unset
  <2>4. EffectsInv' BY <1>1, <1>2, <1>5, <1>12 DEF EffectsInv
  <2> QED BY <1>1, <1>2, <1>5, <1>6, <2>2, <2>3, <2>4 DEF KernelInv
<1> QED
  BY <1>3, <1>7, <1>8, <1>9, <1>10, <1>11, <1>12 DEF SetupStep, CommandFits

\* What a step leaves alone that serves the innermost frame.
Machine == <<IDT, InterruptHandlers, Syscalls, low, lost, pc, interfaces>>

\* The frames that interrupts and system calls push.
LEMMA FramesAre ==
    /\ \A l \in Lines, on \in BOOLEAN :
           [id |-> l, todo |-> "handler", flag |-> on] \in Interruption
    /\ \A eax \in {0, 1, 3, 4, 16, 32}, ebx \in Nat, edx \in Pointers, on \in BOOLEAN :
           [id |-> SyscallVector, todo |-> "function", eax |-> eax, ebx |-> ebx,
            edx |-> edx, n |-> 0, flag |-> on] \in Call
BY DEF Interruption, Call

\* A system call that is made finds the loader's tables.
LEMMA CallEnters ==
    ASSUME KernelInv, frames = <<>>, pc > 8,
           NEW eax \in {0, 1, 3, 4, 16, 32}, NEW ebx \in Nat, NEW edx \in Pointers,
           Int80(eax, ebx, edx)
    PROVE  /\ StackInv' /\ frames' # <<>> /\ ~ lost'
           /\ Inner'.id = SyscallVector /\ Inner'.todo = "function"
           /\ Inner'.eax = eax /\ Inner'.ebx = ebx /\ Inner'.edx = edx
           /\ UNCHANGED <<pic, IDT, InterruptHandlers, Syscalls, low>>
           /\ cpu' \in Processors /\ cpu'.flag = FALSE
           /\ cpu'.mode = cpu.mode /\ cpu'.table = cpu.table
<1> DEFINE c == [id |-> SyscallVector, todo |-> "function",
                 eax |-> eax, ebx |-> ebx, edx |-> edx, n |-> 0, flag |-> cpu.flag]
<1>1. Stage = 0 BY NoFrame
<1>2. /\ cpu \in Processors /\ cpu.mode = "protected" /\ cpu.table = "IDT" /\ pc \in Nat
      /\ ~ lost
  BY <1>1 DEF KernelInv, CpuInv
<1>3. SyscallVector \in IDT BY <1>2 DEF KernelInv, TablesInv
<1>4. /\ frames' = Append(frames, c) /\ cpu' = [cpu EXCEPT !.flag = FALSE]
      /\ UNCHANGED <<lost, pic, IDT, InterruptHandlers, Syscalls, low>>
  BY <1>2, <1>3 DEF Int80, Enter, Flag, tables
<1>5. c \in Call
  <2>1. cpu.flag \in BOOLEAN BY <1>2 DEF Processors
  <2> QED BY <2>1, FramesAre
<1>6. c.id = SyscallVector /\ c.todo = "function" /\ c.eax = eax /\ c.ebx = ebx /\ c.edx = edx
  OBVIOUS
<1> HIDE DEF c
<1>7. StackInv' /\ frames' # <<>> /\ Inner' = c BY <1>4, <1>5, EntersCall
<1>8. /\ cpu' \in Processors /\ cpu'.flag = FALSE
      /\ cpu'.mode = cpu.mode /\ cpu'.table = cpu.table
  BY <1>2, <1>4, ProcessorIs
<1> QED BY <1>2, <1>4, <1>6, <1>7, <1>8

\* A system call of the main program keeps the invariant.
LEMMA SyscallKeeps ==
    ASSUME KernelInv, SyscallStep
    PROVE  KernelInv'
<1>1. Sectors \in Nat \ {0} /\ Len(Program) = 19 + Sectors BY ProgramIs
<1>2. /\ pc \in 1 .. Len(Program) /\ pc' = pc + 1 /\ frames = <<>>
      /\ interfaces' = interfaces /\ low = "Root"
  BY <1>1 DEF KernelInv, EffectsInv, Here, Returned, SyscallStep, Advance, Main
<1>3. CommandFits(pc, Current) BY <1>2, ProgramFits DEF Current
<1> DEFINE eax == Current.eax
           ebx == Current.ebx
           edx == Current.edx
<1>4. pc >= 9 /\ Asks(pc, eax, ebx, edx) /\ Int80(eax, ebx, edx)
  BY <1>3 DEF SyscallStep, CommandFits
<1> HIDE DEF eax, ebx, edx
<1>5. pc > 8 /\ eax \in {0, 1, 3, 4, 16, 32} /\ ebx \in Nat /\ edx \in Pointers
  BY <1>2, <1>4 DEF Asks
<1>6. /\ StackInv' /\ frames' # <<>> /\ ~ lost'
      /\ Inner'.id = SyscallVector /\ Inner'.todo = "function"
      /\ Inner'.eax = eax /\ Inner'.ebx = ebx /\ Inner'.edx = edx
      /\ UNCHANGED <<pic, IDT, InterruptHandlers, Syscalls, low>>
      /\ cpu' \in Processors /\ cpu'.flag = FALSE
      /\ cpu'.mode = cpu.mode /\ cpu'.table = cpu.table
  BY <1>2, <1>4, <1>5, CallEnters
<1>7. Stage = 0 /\ ~ Entered /\ Stage' = 0 /\ Entered'
  BY <1>2, <1>6, NoFrame DEF Stage, Entered
<1>8. CpuInv' BY <1>2, <1>5, <1>6, <1>7 DEF KernelInv, CpuInv
<1>9. TablesInv' BY <1>2, <1>5, <1>6 DEF KernelInv, TablesInv
<1>10. CallInv' BY <1>1, <1>2, <1>4, <1>6 DEF CallInv, Asks
<1>11. EffectsInv' BY <1>1, <1>2, <1>6, <1>7 DEF KernelInv, EffectsInv
<1> QED BY <1>1, <1>2, <1>6, <1>8, <1>9, <1>10, <1>11 DEF KernelInv

\* A system call of a driver keeps the invariant.
LEMMA DriverKeeps ==
    ASSUME KernelInv, DriverCalls
    PROVE  KernelInv'
<1>1. Sectors \in Nat \ {0} /\ Len(Program) = 19 + Sectors BY ProgramIs
<1>2. /\ pc \in Nat /\ pc = 20 + Sectors /\ pc' = pc /\ frames = <<>> /\ Returned /\ Returned'
      /\ interfaces' = interfaces
  BY <1>1 DEF KernelInv, Returned, DriverCalls, Main, mainVars
<1>3. PICK eax \in {3, 4} : Int80(eax, 0, Null) BY DEF DriverCalls
<1>4. pc > 8 /\ eax \in {0, 1, 3, 4, 16, 32} /\ 0 \in Nat /\ Null \in Pointers
  BY <1>1, <1>2 DEF Pointers
<1>6. /\ StackInv' /\ frames' # <<>> /\ ~ lost'
      /\ Inner'.id = SyscallVector /\ Inner'.todo = "function" /\ Inner'.eax = eax
      /\ UNCHANGED <<pic, IDT, InterruptHandlers, Syscalls, low>>
      /\ cpu' \in Processors /\ cpu'.flag = FALSE
      /\ cpu'.mode = cpu.mode /\ cpu'.table = cpu.table
  BY <1>2, <1>3, <1>4, CallEnters
<1>7. Stage = 0 /\ ~ Entered /\ Stage' = 0 /\ Entered'
  BY <1>2, <1>6, NoFrame DEF Stage, Entered
<1>8. CpuInv' BY <1>2, <1>4, <1>6, <1>7 DEF KernelInv, CpuInv
<1>9. TablesInv' BY <1>2, <1>6 DEF KernelInv, TablesInv
<1>10. CallInv' BY <1>1, <1>2, <1>6 DEF CallInv
<1>11. EffectsInv' BY <1>1, <1>2, <1>6, <1>7 DEF KernelInv, EffectsInv
<1> QED BY <1>1, <1>2, <1>6, <1>8, <1>9, <1>10, <1>11 DEF KernelInv

\* Nothing but the flag of the processor and what the controllers have latched
\* and in service changes while the main program runs.
LEMMA RunsOn ==
    ASSUME KernelInv, UNCHANGED Machine, UNCHANGED frames,
           cpu' \in Processors, cpu'.mode = cpu.mode, cpu'.table = cpu.table,
           pic' \in Controllers, pic'.base = pic.base,
           cpu'.flag => cpu.flag
    PROVE  KernelInv'
<1>1. UNCHANGED <<IDT, InterruptHandlers, Syscalls, low, lost, pc, interfaces>>
  BY DEF Machine
<1>2. Inner' = Inner /\ StackInv' BY FramesStay DEF KernelInv
<1>3. Stage' = Stage /\ (Entered' <=> Entered) /\ (Returned' <=> Returned)
  BY <1>1, <1>2 DEF Stage, Entered, Returned
<1>4. CpuInv' BY <1>1, <1>2, <1>3 DEF KernelInv, CpuInv
<1>5. TablesInv' BY <1>1 DEF KernelInv, TablesInv
<1>6. CallInv' BY <1>1, <1>2, <1>3 DEF KernelInv, CallInv
<1>7. EffectsInv' BY <1>1, <1>3 DEF KernelInv, EffectsInv
<1> QED BY <1>1, <1>2, <1>4, <1>5, <1>6, <1>7 DEF KernelInv

\* The halt at the end keeps the invariant.
LEMMA StopKeeps ==
    ASSUME KernelInv, Stop
    PROVE  KernelInv'
<1>1. UNCHANGED Machine /\ UNCHANGED frames /\ pic' = pic /\ cpu' = [cpu EXCEPT !.flag = FALSE]
  BY DEF Stop, SetFlag, Flag, tables, mainVars, Machine
<1>2. cpu \in Processors /\ pic \in Controllers BY DEF KernelInv, CpuInv
<1>3. /\ cpu' \in Processors /\ cpu'.flag = FALSE
      /\ cpu'.mode = cpu.mode /\ cpu'.table = cpu.table
  BY <1>1, <1>2, ProcessorIs
<1> QED BY <1>1, <1>2, <1>3, RunsOn

\* A line that is raised keeps the invariant.
LEMMA RaiseKeeps ==
    ASSUME KernelInv, NEW l \in Lines, Raise(l), UNCHANGED <<pc, interfaces>>
    PROVE  KernelInv'
<1>1. UNCHANGED Machine /\ UNCHANGED frames /\ cpu' = cpu
      /\ pic' = [pic EXCEPT !.irr = @ \cup {l}]
  BY DEF Raise, tables, Machine
<1>2. cpu \in Processors /\ pic \in Controllers BY DEF KernelInv, CpuInv
<1>3. pic' \in Controllers /\ pic'.base = pic.base BY <1>1, <1>2 DEF Controllers
<1> QED BY <1>1, <1>2, <1>3, RunsOn

-----------------------------------------------------------------------------
(* Interrupts *)

\* An interrupt that is taken finds the tables, the mode and the vectors of the
\* BIOS or those of the loader, and a gate.
LEMMA TakeKeeps ==
    ASSUME KernelInv, NEW l \in Lines, Take(l), UNCHANGED <<pc, interfaces>>
    PROVE  KernelInv'
<1>1. cpu \in Processors /\ pic \in Controllers /\ pc \in Nat /\ pc > 6 /\ cpu.flag
  BY DEF KernelInv, CpuInv, Take
<1>2. CASE Stage = 7 \/ Stage = 8
  <2>1. cpu.mode = "real" /\ cpu.table = "bios" /\ pic.base = "bios"
    BY <1>2 DEF KernelInv, CpuInv
  <2>2. UNCHANGED Machine /\ UNCHANGED frames /\ cpu' = cpu
        /\ pic' = [pic EXCEPT !.irr = @ \ {l}]
    BY <2>1 DEF Take, tables, Machine
  <2>3. pic' \in Controllers /\ pic'.base = pic.base
    BY <1>1, <2>2 DEF Controllers
  <2> QED BY <1>1, <2>2, <2>3, RunsOn
<1>3. CASE Stage # 7 /\ Stage # 8
  <2> DEFINE f == [id |-> l, todo |-> "handler", flag |-> cpu.flag]
  <2>1. frames = <<>> \/ (Inner.id = SyscallVector /\ Inner.todo = "iret")
    BY <1>1, <1>3 DEF KernelInv, CpuInv
  <2>2. Stage = 0 /\ ~ Entered BY <2>1 DEF Stage, Entered
  <2>3. cpu.mode = "protected" /\ cpu.table = "IDT" /\ pic.base = "IDT" /\ ~ lost
    BY <1>1, <2>2 DEF KernelInv, CpuInv
  <2>4. 32 + l \in IDT
    <3>1. l \in 0 .. 15 BY OldLineAssumption
    <3>2. 32 + l \in 32 .. 47 BY <3>1
    <3>3. (32 .. 47) \cup {SyscallVector} \subseteq IDT
      BY <1>1 DEF KernelInv, TablesInv
    <3> QED BY <3>2, <3>3
  <2>5. /\ frames' = Append(frames, f) /\ cpu' = [cpu EXCEPT !.flag = FALSE]
        /\ pic' = [pic EXCEPT !.irr = @ \ {l}, !.isr = @ \cup InService(l)]
        /\ UNCHANGED Machine
    BY <2>3, <2>4 DEF Take, Enter, Flag, tables, Machine
  <2>6. f \in Interruption /\ f.id = l /\ f.todo = "handler"
    <3>1. cpu.flag \in BOOLEAN BY <1>1 DEF Processors
    <3>2. f \in Interruption BY <3>1, FramesAre
    <3> QED BY <3>2
  <2> HIDE DEF f
  <2>7. StackInv' /\ frames' # <<>> /\ Inner' = f
    BY <2>1, <2>5, <2>6, EntersInterrupt DEF KernelInv
  <2>8. Stage' = 0 /\ ~ Entered' BY <2>6, <2>7 DEF Stage, Entered
  <2>9. pic' \in Controllers /\ pic'.base = pic.base
    <3>1. InService(l) \in SUBSET (0 .. 15) BY OldLineAssumption DEF InService
    <3> QED BY <1>1, <2>5, <3>1 DEF Controllers
  <2>10. /\ cpu' \in Processors /\ cpu'.flag = FALSE
         /\ cpu'.mode = cpu.mode /\ cpu'.table = cpu.table
    BY <1>1, <2>5, ProcessorIs
  <2>11. UNCHANGED <<IDT, InterruptHandlers, Syscalls, low, lost, pc, interfaces>>
    BY <2>5 DEF Machine
  <2>12. CpuInv'
    BY <1>1, <2>2, <2>3, <2>8, <2>9, <2>10, <2>11 DEF KernelInv, CpuInv
  <2>13. TablesInv' BY <2>11 DEF KernelInv, TablesInv
  <2>14. CallInv' BY <2>6, <2>7, FramesDiffer DEF CallInv
  <2>15. EffectsInv' BY <2>2, <2>8, <2>11 DEF KernelInv, EffectsInv, Returned
  <2> QED BY <2>7, <2>11, <2>12, <2>13, <2>14, <2>15 DEF KernelInv
<1> QED BY <1>2, <1>3

\* What a frame becomes.
LEMMA FrameTypes ==
    /\ \A f \in Interruption : /\ f.todo \in {"handler", "eoi", "iret"}
                               /\ f.flag \in BOOLEAN
                               /\ f.todo = "handler" => [f EXCEPT !.todo = "eoi"] \in Interruption
                               /\ f.todo = "eoi" => [f EXCEPT !.todo = "iret"] \in Interruption
    /\ \A c \in Call : /\ c.todo \in {"function", "store", "sti", "int32", "iret"}
                       /\ c.flag \in BOOLEAN
                       /\ c.eax \in {0, 1, 3, 4, 16, 32} /\ c.n \in Nat
BY DEF Interruption, Call

\* What a system call becomes.
LEMMA TodoIs ==
    ASSUME NEW c \in Call, NEW todo \in {"function", "store", "sti", "int32", "iret"},
           NEW d, d = [c EXCEPT !.todo = todo]
    PROVE  /\ d \in Call /\ d.id = c.id /\ d.todo = todo
           /\ d.eax = c.eax /\ d.ebx = c.ebx /\ d.edx = c.edx
BY DEF Call

\* A system call that goes on to another step of int32.
LEMMA NextStageIs ==
    ASSUME NEW c \in Call, NEW n \in Nat, NEW d, d = [c EXCEPT !.n = n]
    PROVE  /\ d \in Call /\ d.id = c.id /\ d.todo = c.todo /\ d.n = n
           /\ d.eax = c.eax /\ d.ebx = c.ebx /\ d.edx = c.edx
BY DEF Call

\* The processor when its flag is set or cleared.
LEMMA FlagIs ==
    ASSUME NEW c \in Processors, NEW on \in BOOLEAN, NEW d, d = [c EXCEPT !.flag = on]
    PROVE  d \in Processors /\ d.flag = on /\ d.mode = c.mode /\ d.table = c.table
BY DEF Processors

\* A step of the stub of an interrupt.
LEMMA InterruptServed ==
    ASSUME KernelInv, frames # <<>>, Inner \in Interruption,
           NEW f \in Interruption, InnerBecomes(f),
           UNCHANGED Machine, UNCHANGED cpu, pic' \in Controllers, pic'.base = pic.base
    PROVE  KernelInv'
<1>1. StackInv' /\ frames' # <<>> /\ Inner' = f
  <2>1. ~ (Inner \in Call) BY FramesDiffer
  <2> QED BY <2>1, InnerBecomesIs DEF KernelInv
<1>2. /\ Stage = 0 /\ ~ Entered /\ Stage' = 0 /\ ~ Entered'
      /\ Inner.id # SyscallVector /\ f.id # SyscallVector
  BY <1>1, FramesDiffer, FrameTypes DEF Stage, Entered
<1>3. UNCHANGED <<IDT, InterruptHandlers, Syscalls, low, lost, pc, interfaces>>
  BY DEF Machine
<1>4. CpuInv' BY <1>1, <1>2, <1>3 DEF KernelInv, CpuInv
<1>5. TablesInv' BY <1>3 DEF KernelInv, TablesInv
<1>6. CallInv' BY <1>1, <1>2 DEF CallInv
<1>7. EffectsInv' BY <1>2, <1>3 DEF KernelInv, EffectsInv, Returned
<1> QED BY <1>1, <1>3, <1>4, <1>5, <1>6, <1>7 DEF KernelInv

\* The handler that is called has been set.
LEMMA HandlerKeeps ==
    ASSUME KernelInv, Handler
    PROVE  KernelInv'
<1>1. frames # <<>> /\ Inner.todo = "handler"
  BY DEF Handler, CallHandler, Serving
<1>2. Inner \in Interruption BY <1>1, InnerIs, FrameTypes DEF KernelInv
<1>3. HandlerCalled # Unset
  <2>1. Inner.id \in 0 .. 15 BY <1>2, FramesDiffer
  <2>2. pc \in Nat /\ pc > 6 BY <1>1 DEF KernelInv, CpuInv
  <2>3. \A l \in 0 .. 15 : InterruptHandlers[l] # Unset
    <3>1. TablesInv /\ pc > 4 BY <2>2 DEF KernelInv
    <3> QED BY <3>1, Zenon DEF TablesInv
  <2> QED BY <2>1, <2>3 DEF HandlerCalled
<1>4. InnerBecomes([Inner EXCEPT !.todo = "eoi"]) /\ UNCHANGED Machine /\ UNCHANGED <<cpu, pic>>
  BY <1>3 DEF Handler, CallHandler, Machine, tables, mainVars
<1>5. [Inner EXCEPT !.todo = "eoi"] \in Interruption BY <1>1, <1>2, FrameTypes
<1>6. pic \in Controllers BY DEF KernelInv, CpuInv
<1> QED BY <1>1, <1>2, <1>4, <1>5, <1>6, InterruptServed

\* The end of an interrupt keeps the invariant.
LEMMA EoiKeeps ==
    ASSUME KernelInv, EndOfInterrupt, UNCHANGED mainVars
    PROVE  KernelInv'
<1>1. frames # <<>> /\ Inner.todo = "eoi" BY DEF EndOfInterrupt, Serving
<1>2. Inner \in Interruption BY <1>1, InnerIs, FrameTypes DEF KernelInv
<1> DEFINE second == Inner.id >= 8
<1>3. /\ InnerBecomes([Inner EXCEPT !.todo = "iret"]) /\ UNCHANGED Machine /\ UNCHANGED cpu
      /\ pic' = [pic EXCEPT !.isr = Eoi(pic.isr, second)]
  BY DEF EndOfInterrupt, Machine, tables, mainVars
<1> HIDE DEF second
<1>4. [Inner EXCEPT !.todo = "iret"] \in Interruption BY <1>1, <1>2, FrameTypes
<1>5. pic \in Controllers BY DEF KernelInv, CpuInv
<1>6. pic' \in Controllers /\ pic'.base = pic.base
  <2>1. pic.isr \in SUBSET (0 .. 15) BY <1>5 DEF Controllers
  <2>2. Eoi(pic.isr, second) \in SUBSET (0 .. 15)
    <3>1. \A D : pic.isr \ D \in SUBSET (0 .. 15) BY <2>1
    <3> QED BY <3>1 DEF Eoi
  <2> QED BY <1>3, <1>5, <2>2 DEF Controllers
<1> QED BY <1>1, <1>2, <1>3, <1>4, <1>6, InterruptServed

\* The return to what was interrupted keeps the invariant.
LEMMA IretKeeps ==
    ASSUME KernelInv, Iret, UNCHANGED mainVars
    PROVE  KernelInv'
<1>1. /\ frames # <<>> /\ Inner.todo = "iret"
      /\ frames' = SubSeq(frames, 1, Len(frames) - 1)
      /\ cpu' = [cpu EXCEPT !.flag = Inner.flag]
      /\ UNCHANGED <<pic, IDT, InterruptHandlers, Syscalls, low, lost, pc, interfaces>>
  BY DEF Iret, Serving, Flag, tables, mainVars
<1>2. Inner.flag \in BOOLEAN BY <1>1, InnerIs, FrameTypes DEF KernelInv
<1>3. cpu' \in Processors /\ cpu'.mode = cpu.mode /\ cpu'.table = cpu.table
  <2> DEFINE on == Inner.flag
  <2>1. cpu \in Processors /\ on \in BOOLEAN /\ cpu' = [cpu EXCEPT !.flag = on]
    BY <1>1, <1>2 DEF KernelInv, CpuInv
  <2> HIDE DEF on
  <2> QED BY <2>1, FlagIs
<1>4. /\ StackInv'
      /\ \/ frames' = <<>>
         \/ frames' # <<>> /\ Inner' \in Call /\ Inner'.todo = "iret"
  BY <1>1, LeavesFrame DEF KernelInv
<1>5. Stage = 0 /\ ~ Entered /\ Stage' = 0 /\ ~ Entered'
  BY <1>1, <1>4 DEF Stage, Entered
<1>6. CpuInv' BY <1>1, <1>3, <1>4, <1>5, FramesDiffer DEF KernelInv, CpuInv
<1>7. TablesInv' BY <1>1 DEF KernelInv, TablesInv
<1>8. CallInv' BY <1>4 DEF CallInv
<1>9. EffectsInv' BY <1>1, <1>5 DEF KernelInv, EffectsInv, Returned
<1> QED BY <1>1, <1>4, <1>6, <1>7, <1>8, <1>9 DEF KernelInv

-----------------------------------------------------------------------------
(* The functions behind the system calls *)

\* A step of a system call that is being served; what it does to the state is
\* for the lemmas of its functions.
LEMMA CallSteps ==
    ASSUME KernelInv, frames # <<>>, Inner \in Call, NEW f \in Call, InnerBecomes(f)
    PROVE  StackInv' /\ frames' # <<>> /\ Inner' = f
BY InnerBecomesIs, FramesDiffer DEF KernelInv

\* The handler that is registered is the one of the floppy.
LEMMA StoreKeeps ==
    ASSUME KernelInv, StoreHandler, UNCHANGED mainVars
    PROVE  KernelInv' /\ \E f \in Call : InnerBecomes(f)
<1> DEFINE c == Inner
           f == [c EXCEPT !.todo = "sti"]
<1>1. frames # <<>> /\ c.todo = "store" BY DEF StoreHandler, Serving
<1>2. c \in Call BY <1>1, InnerIs, FrameTypes DEF KernelInv
<1>3. c.id = SyscallVector BY <1>2, FramesDiffer
<1>4. c.eax = 1 /\ c.ebx = 6 /\ c.edx = "IRQHandler"
  BY <1>1, <1>3 DEF KernelInv, CallInv
<1>5. /\ InnerBecomes(f)
      /\ InterruptHandlers' = [InterruptHandlers EXCEPT ![6] = "IRQHandler"]
      /\ UNCHANGED <<cpu, pic, IDT, Syscalls, low, lost, pc, interfaces>>
  BY <1>4 DEF StoreHandler, tables, mainVars
<1> HIDE DEF c
<1>6. f \in Call /\ f.id = c.id /\ f.todo = "sti" /\ f.eax = c.eax /\ f.ebx = c.ebx
      /\ f.edx = c.edx
  BY <1>2, TodoIs
<1> HIDE DEF f
<1>7. StackInv' /\ frames' # <<>> /\ Inner' = f
  BY <1>1, <1>2, <1>5, <1>6, CallSteps DEF c
<1>8. Stage = 0 /\ ~ Entered /\ Stage' = 0 /\ ~ Entered'
  BY <1>1, <1>6, <1>7 DEF Stage, Entered, c
<1>9. CpuInv' BY <1>1, <1>5, <1>7, <1>8 DEF KernelInv, CpuInv, c
<1>10. TablesInv'
  <2>1. /\ DOMAIN InterruptHandlers' = 0 .. 15
        /\ \A l \in 0 .. 15 : InterruptHandlers'[l] =
              IF l = 6 THEN "IRQHandler" ELSE InterruptHandlers[l]
    BY <1>5 DEF KernelInv, TablesInv
  <2> QED BY <1>5, <2>1 DEF KernelInv, TablesInv, Unset
<1>11. CallInv' BY <1>1, <1>3, <1>4, <1>5, <1>6, <1>7 DEF KernelInv, CallInv, c
<1>12. EffectsInv' BY <1>5, <1>8 DEF KernelInv, EffectsInv, Returned
<1> QED BY <1>5, <1>6, <1>7, <1>9, <1>10, <1>11, <1>12 DEF KernelInv

\* Interrupts come on when the system call is over.
LEMMA EnableKeeps ==
    ASSUME KernelInv, EnableInHandler, UNCHANGED mainVars
    PROVE  KernelInv' /\ \E f \in Call : InnerBecomes(f)
<1> DEFINE c == Inner
           f == [c EXCEPT !.todo = "iret"]
<1>1. frames # <<>> /\ c.todo = "sti" BY DEF EnableInHandler, Serving
<1>2. c \in Call BY <1>1, InnerIs, FrameTypes DEF KernelInv
<1>3. /\ InnerBecomes(f) /\ cpu' = [cpu EXCEPT !.flag = TRUE]
      /\ UNCHANGED <<pic, IDT, InterruptHandlers, Syscalls, low, lost, pc, interfaces>>
  BY DEF EnableInHandler, Flag, tables, mainVars
<1> HIDE DEF c
<1>4. f \in Call /\ f.id = SyscallVector /\ f.todo = "iret"
  BY <1>2, TodoIs, FramesDiffer
<1> HIDE DEF f
<1>5. StackInv' /\ frames' # <<>> /\ Inner' = f
  BY <1>1, <1>2, <1>3, <1>4, CallSteps DEF c
<1>6. Stage = 0 /\ ~ Entered /\ Stage' = 0 /\ ~ Entered'
  BY <1>1, <1>4, <1>5 DEF Stage, Entered, c
<1>7. cpu' \in Processors /\ cpu'.mode = cpu.mode /\ cpu'.table = cpu.table
  BY <1>3, FlagIs DEF KernelInv, CpuInv
<1>8. CpuInv' BY <1>1, <1>3, <1>4, <1>5, <1>6, <1>7 DEF KernelInv, CpuInv
<1>9. TablesInv' BY <1>3 DEF KernelInv, TablesInv
<1>10. CallInv' BY <1>4, <1>5 DEF CallInv
<1>11. EffectsInv' BY <1>3, <1>6 DEF KernelInv, EffectsInv, Returned
<1> QED BY <1>3, <1>4, <1>5, <1>8, <1>9, <1>10, <1>11 DEF KernelInv

\* The function of a system call is called.
LEMMA FunctionKeeps ==
    ASSUME KernelInv, Function
    PROVE  KernelInv' /\ \E f \in Call : InnerBecomes(f)
<1> DEFINE c == Inner
           g == Syscalls[c.eax]
<1>1. frames # <<>> /\ c.todo = "function"
  BY DEF Function, CallFunction, Serving
<1>2. c \in Call BY <1>1, InnerIs, FrameTypes DEF KernelInv
<1>3. c.id = SyscallVector /\ c.eax \in SyscallIDs
  BY <1>2, FramesDiffer, FrameTypes, ProgramAssumption, Zenon
<1>4. /\ pc > 9
      /\ c.eax = 1 => c.ebx = 6 /\ c.edx = "IRQHandler"
      /\ c.eax = 0 => \/ c.ebx = 3 /\ c.edx = "SYS_int32"
                      \/ c.ebx = 16 /\ c.edx = "SYS_GetFDCI"
                      \/ c.ebx = 32 /\ c.edx = "SYS_GetFSInterface"
      /\ c.eax \in {3, 4} => Returned
      /\ pc = 11 => c.eax = 0 /\ c.ebx = 16
      /\ pc = 12 => c.eax = 16 /\ c.edx = "Stage2_FDCI"
      /\ pc = 14 + Sectors => c.eax = 16 /\ c.edx = "FileSystem_FDCI"
  BY <1>1, <1>3 DEF KernelInv, CallInv
<1>5. Entered BY <1>1 DEF Entered
<1>6. /\ g # Unset
      /\ c.eax = 0 => g = "SYS_RegisterSyscall"
      /\ g = "SYS_RegisterSyscall" => c.eax = 0
      /\ g = "SYS_RegisterInterruptHandler" => c.eax = 1
      /\ g = "SYS_int32" => c.eax = 3
  <2>1. TablesInv /\ pc > 8 /\ pc \in Nat BY <1>4 DEF KernelInv
  <2>2. \A n \in SyscallIDs : /\ Syscalls[n] # Unset
                              /\ n = 0 => Syscalls[n] = "SYS_RegisterSyscall"
                              /\ Syscalls[n] = "SYS_RegisterSyscall" => n = 0
                              /\ Syscalls[n] = "SYS_RegisterInterruptHandler" => n = 1
                              /\ Syscalls[n] = "SYS_int32" => n = 3
    BY <2>1, Zenon DEF TablesInv
  <2> HIDE DEF c
  <2> QED BY <1>3, <2>2
<1>7. g = FunctionCalled BY DEF FunctionCalled
<1>8. pic' = pic /\ UNCHANGED <<IDT, InterruptHandlers, low, pc>> /\ lost' = lost
  BY <1>6, <1>7 DEF Function, CallFunction, tables
<1>9. ~ cpu.flag /\ Stage = 0 /\ pc \in Nat /\ Sectors \in Nat
  BY <1>1, ProgramIs DEF KernelInv, CpuInv, Stage
<1>10. \E f \in Call :
           /\ InnerBecomes(f)
           /\ f.id = SyscallVector /\ f.eax = c.eax /\ f.ebx = c.ebx /\ f.edx = c.edx
           /\ \/ f.todo = "store" /\ c.eax = 1
              \/ f.todo = "int32" /\ c.eax = 3 /\ f.n = 1
              \/ f.todo = "iret"
  <2>1. CASE g = "SYS_RegisterInterruptHandler"
    <3> DEFINE f == [c EXCEPT !.todo = "store"]
    <3>1. InnerBecomes(f) BY <1>6, <1>7, <2>1 DEF Function, CallFunction
    <3> HIDE DEF c
    <3>2. /\ f \in Call /\ f.id = c.id /\ f.todo = "store"
          /\ f.eax = c.eax /\ f.ebx = c.ebx /\ f.edx = c.edx
      BY <1>2, TodoIs
    <3> HIDE DEF f
    <3> QED BY <1>3, <1>6, <2>1, <3>1, <3>2
  <2>2. CASE g = "SYS_int32"
    <3> DEFINE f == [c EXCEPT !.todo = "int32", !.n = 1]
    <3>1. InnerBecomes(f) BY <1>6, <1>7, <2>2 DEF Function, CallFunction
    <3> HIDE DEF c
    <3>2. f = [c EXCEPT !.todo = "int32", !.n = 1] /\ 1 \in Nat
          /\ "int32" \in {"function", "store", "sti", "int32", "iret"}
      OBVIOUS
    <3> HIDE DEF f
    <3>3. /\ f \in Call /\ f.id = c.id /\ f.todo = "int32" /\ f.n = 1
          /\ f.eax = c.eax /\ f.ebx = c.ebx /\ f.edx = c.edx
      BY <1>2, <3>2 DEF Call
    <3> QED BY <1>3, <1>6, <2>2, <3>1, <3>3
  <2>3. CASE g # "SYS_RegisterInterruptHandler" /\ g # "SYS_int32"
    <3> DEFINE f == [c EXCEPT !.todo = "iret"]
    <3>1. InnerBecomes(f) BY <1>6, <1>7, <2>3 DEF Function, CallFunction
    <3> HIDE DEF c
    <3>2. /\ f \in Call /\ f.id = c.id /\ f.todo = "iret"
          /\ f.eax = c.eax /\ f.ebx = c.ebx /\ f.edx = c.edx
      BY <1>2, TodoIs
    <3> HIDE DEF f
    <3> QED BY <1>3, <3>1, <3>2
  <2> QED BY <2>1, <2>2, <2>3
<1>11. cpu' \in Processors /\ cpu'.mode = cpu.mode /\ cpu'.table = cpu.table /\ ~ cpu'.flag
  <2>1. cpu \in Processors BY DEF KernelInv, CpuInv
  <2>2. cpu' = cpu \/ cpu' = [cpu EXCEPT !.flag = FALSE]
    BY <1>6, <1>7 DEF Function, CallFunction, Flag
  <2>3. CASE cpu' = cpu BY <1>9, <2>1, <2>3
  <2>4. CASE cpu' = [cpu EXCEPT !.flag = FALSE]
    BY <2>1, <2>4, FlagIs
  <2> QED BY <2>2, <2>3, <2>4
<1>12. Syscalls' = IF g = "SYS_RegisterSyscall"
                   THEN [Syscalls EXCEPT ![c.ebx] = c.edx] ELSE Syscalls
  BY <1>6, <1>7 DEF Function, CallFunction
<1>13. interfaces' = IF g = "SYS_GetFDCI" \/ g = "SYS_GetFSInterface"
                     THEN interfaces \cup {c.edx} ELSE interfaces
  BY <1>7 DEF Function
<1>14. /\ pc > 10 /\ pc # 11 => Syscalls[16] = "SYS_GetFDCI"
       /\ pc > 11 /\ pc # 12 => "Stage2_FDCI" \in interfaces
       /\ pc > 13 + Sectors /\ pc # 14 + Sectors => "FileSystem_FDCI" \in interfaces
       /\ low # "Root" => Returned
  BY <1>5 DEF KernelInv, EffectsInv
<1> HIDE DEF c
<1>15. PICK f \in Call :
           /\ InnerBecomes(f)
           /\ f.id = SyscallVector /\ f.eax = c.eax /\ f.ebx = c.ebx /\ f.edx = c.edx
           /\ \/ f.todo = "store" /\ c.eax = 1
              \/ f.todo = "int32" /\ c.eax = 3 /\ f.n = 1
              \/ f.todo = "iret"
  BY <1>10
<1>16. StackInv' /\ frames' # <<>> /\ Inner' = f
  BY <1>1, <1>2, <1>15, CallSteps DEF c
<1>17. (Stage' = 0 \/ Stage' = 1) /\ ~ Entered'
  BY <1>15, <1>16 DEF Stage, Entered
<1>18. CpuInv'
  <2>1. pc > 6 BY <1>4, <1>9
  <2> QED BY <1>8, <1>9, <1>11, <1>17, <2>1 DEF KernelInv, CpuInv
<1>19. CallInv' BY <1>4, <1>8, <1>15, <1>16 DEF CallInv, Returned
<1>20. TablesInv'
  <2>1. /\ DOMAIN Syscalls' = SyscallIDs
        /\ \A n \in SyscallIDs : Syscalls'[n] =
               IF g = "SYS_RegisterSyscall" /\ n = c.ebx THEN c.edx ELSE Syscalls[n]
    <3>1. DOMAIN Syscalls = SyscallIDs BY DEF KernelInv, TablesInv
    <3> HIDE DEF g
    <3> QED BY <1>12, <3>1
  <2>2. ASSUME NEW n \in SyscallIDs
        PROVE  /\ pc > 8 => Syscalls'[n] # Unset
               /\ pc > 8 /\ n = 0 => Syscalls'[n] = "SYS_RegisterSyscall"
               /\ Syscalls'[n] = "SYS_RegisterSyscall" => n = 0
               /\ Syscalls'[n] = "SYS_RegisterInterruptHandler" => n = 1
               /\ Syscalls'[n] = "SYS_int32" => n = 3
    <3>1. CASE g = "SYS_RegisterSyscall" /\ n = c.ebx
      BY <1>4, <1>6, <2>1, <3>1 DEF Unset
    <3>2. CASE ~ (g = "SYS_RegisterSyscall" /\ n = c.ebx)
      BY <2>1, <3>2 DEF KernelInv, TablesInv
    <3> QED BY <3>1, <3>2
  <2> QED BY <1>8, <2>1, <2>2 DEF KernelInv, TablesInv
<1>21. EffectsInv'
  <2>1. /\ pc > 10 => Syscalls'[16] = "SYS_GetFDCI"
        /\ pc = 12 \/ pc = 14 + Sectors => g = "SYS_GetFDCI"
    <3>1. /\ 16 \in DOMAIN Syscalls
          /\ pc > 10 /\ pc # 11 => Syscalls[16] = "SYS_GetFDCI"
      BY <1>14, ProgramAssumption DEF KernelInv, TablesInv
    <3>2. CASE pc = 11
      <4>1. g = "SYS_RegisterSyscall" /\ c.ebx = 16 /\ c.edx = "SYS_GetFDCI"
        BY <1>4, <1>6, <3>2
      <4> QED BY <1>9, <1>12, <3>1, <3>2, <4>1, ProgramIs
    <3>3. CASE pc # 11
      <4>1. g = "SYS_RegisterSyscall" /\ c.ebx = 16 => c.edx = "SYS_GetFDCI"
        BY <1>4, <1>6
      <4>2. pc > 10 => Syscalls'[16] = "SYS_GetFDCI"
        <5> HIDE DEF g
        <5> QED BY <1>12, <3>1, <3>3, <4>1
      <4>3. pc = 12 \/ pc = 14 + Sectors => g = "SYS_GetFDCI"
        BY <1>4, <1>9, <3>1, <3>3
      <4> QED BY <4>2, <4>3
    <3> QED BY <3>2, <3>3
  <2>2. pc > 11 => "Stage2_FDCI" \in interfaces'
    BY <1>4, <1>13, <1>14, <2>1
  <2>3. pc > 13 + Sectors => "FileSystem_FDCI" \in interfaces'
    BY <1>4, <1>13, <1>14, <2>1
  <2> QED BY <1>8, <1>14, <2>1, <2>2, <2>3 DEF EffectsInv, Returned
<1> QED BY <1>8, <1>15, <1>16, <1>18, <1>19, <1>20, <1>21 DEF KernelInv

\* Where in int32 each of its steps is taken.
LEMMA Int32Is ==
    /\ Len(Int32) = 12
    /\ \A n \in 1 .. 12 :
           /\ Int32[n] = "cli" <=> n = 1 \/ n = 8
           /\ Int32[n] = "sti" <=> n = 6 \/ n = 12
           /\ Int32[n] = "real_mode" <=> n = 3
           /\ Int32[n] = "protected_mode" <=> n = 10
           /\ Int32[n] = "lidt_bios" <=> n = 4
           /\ Int32[n] = "lidt_IDT" <=> n = 11
           /\ Int32[n] = "resetpic_bios" <=> n = 5
           /\ Int32[n] = "resetpic_IDT" <=> n = 9
<1>1. /\ Len(Int32) = 12
      /\ Int32[1] = "cli" /\ Int32[2] = "relocate" /\ Int32[3] = "real_mode"
      /\ Int32[4] = "lidt_bios" /\ Int32[5] = "resetpic_bios" /\ Int32[6] = "sti"
      /\ Int32[7] = "int" /\ Int32[8] = "cli" /\ Int32[9] = "resetpic_IDT"
      /\ Int32[10] = "protected_mode" /\ Int32[11] = "lidt_IDT" /\ Int32[12] = "sti"
  BY DEF Int32
<1>2. ASSUME NEW n \in 1 .. 12
      PROVE  n = 1 \/ n = 2 \/ n = 3 \/ n = 4 \/ n = 5 \/ n = 6
             \/ n = 7 \/ n = 8 \/ n = 9 \/ n = 10 \/ n = 11 \/ n = 12
  OBVIOUS
<1> QED BY <1>1, <1>2

\* The processor when it changes its mode.
LEMMA ModeIs ==
    ASSUME NEW c \in Processors, NEW mode \in {"protected", "real"},
           NEW d, d = [c EXCEPT !.mode = mode]
    PROVE  d \in Processors /\ d.flag = c.flag /\ d.mode = mode /\ d.table = c.table
BY DEF Processors

\* The processor when it loads a table.
LEMMA TableIs ==
    ASSUME NEW c \in Processors, NEW table \in {"none", "bios", "IDT"},
           NEW d, d = [c EXCEPT !.table = table]
    PROVE  d \in Processors /\ d.flag = c.flag /\ d.mode = c.mode /\ d.table = table
BY DEF Processors

\* What a step of int32 does to the processor and the controllers.
LEMMA Int32Does ==
    ASSUME cpu \in Processors, pic \in Controllers, Int32Step,
           NEW n \in 1 .. 12, n = Inner.n
    PROVE  /\ cpu' \in Processors
           /\ cpu'.mode = IF n = 3 THEN "real"
                          ELSE IF n = 10 THEN "protected" ELSE cpu.mode
           /\ cpu'.table = IF n = 4 THEN "bios" ELSE IF n = 11 THEN "IDT" ELSE cpu.table
           /\ cpu'.flag => \/ n = 6 \/ n = 12
                           \/ cpu.flag /\ n # 1 /\ n # 8
           /\ pic' \in Controllers
           /\ pic'.base = IF n = 5 THEN "bios" ELSE IF n = 9 THEN "IDT" ELSE pic.base
           /\ low' = low \/ low' = "int32"
           /\ UNCHANGED <<IDT, InterruptHandlers, Syscalls, lost>>
<1> DEFINE s == Int32[n]
<1>1. /\ s = "cli" <=> n = 1 \/ n = 8
      /\ s = "sti" <=> n = 6 \/ n = 12
      /\ s = "real_mode" <=> n = 3
      /\ s = "protected_mode" <=> n = 10
      /\ s = "lidt_bios" <=> n = 4
      /\ s = "lidt_IDT" <=> n = 11
      /\ s = "resetpic_bios" <=> n = 5
      /\ s = "resetpic_IDT" <=> n = 9
  BY Int32Is
<1>2. UNCHANGED <<IDT, InterruptHandlers, Syscalls, lost>>
  BY DEF Int32Step, tables
<1>3. \/ s = "cli" /\ Flag(FALSE) /\ UNCHANGED <<pic, low>>
      \/ s = "sti" /\ Flag(TRUE) /\ UNCHANGED <<pic, low>>
      \/ s = "relocate" /\ low' = "int32" /\ UNCHANGED <<cpu, pic>>
      \/ s = "real_mode" /\ Mode("real") /\ UNCHANGED <<pic, low>>
      \/ s = "protected_mode" /\ Mode("protected") /\ UNCHANGED <<pic, low>>
      \/ s = "lidt_bios" /\ LoadTable("bios") /\ UNCHANGED <<pic, low>>
      \/ s = "lidt_IDT" /\ LoadTable("IDT") /\ UNCHANGED <<pic, low>>
      \/ s = "resetpic_bios" /\ ResetPic("bios") /\ UNCHANGED <<cpu, low>>
      \/ s = "resetpic_IDT" /\ ResetPic("IDT") /\ UNCHANGED <<cpu, low>>
      \/ s = "int" /\ UNCHANGED <<cpu, pic, low>>
  BY DEF Int32Step
<1> HIDE DEF s
<1>4. CASE s = "cli" /\ Flag(FALSE) /\ UNCHANGED <<pic, low>>
  <2>1. cpu' \in Processors /\ cpu'.flag = FALSE
        /\ cpu'.mode = cpu.mode /\ cpu'.table = cpu.table
    BY <1>4, FlagIs DEF Flag
  <2> QED BY <1>1, <1>2, <1>4, <2>1
<1>5. CASE s = "sti" /\ Flag(TRUE) /\ UNCHANGED <<pic, low>>
  <2>1. cpu' \in Processors /\ cpu'.mode = cpu.mode /\ cpu'.table = cpu.table
    BY <1>5, FlagIs DEF Flag
  <2> QED BY <1>1, <1>2, <1>5, <2>1
<1>6. CASE s = "relocate" /\ low' = "int32" /\ UNCHANGED <<cpu, pic>>
  BY <1>1, <1>2, <1>6
<1>7. CASE s = "real_mode" /\ Mode("real") /\ UNCHANGED <<pic, low>>
  <2>1. cpu' \in Processors /\ cpu'.flag = cpu.flag
        /\ cpu'.mode = "real" /\ cpu'.table = cpu.table
    BY <1>7, ModeIs DEF Mode
  <2> QED BY <1>1, <1>2, <1>7, <2>1
<1>8. CASE s = "protected_mode" /\ Mode("protected") /\ UNCHANGED <<pic, low>>
  <2>1. cpu' \in Processors /\ cpu'.flag = cpu.flag
        /\ cpu'.mode = "protected" /\ cpu'.table = cpu.table
    BY <1>8, ModeIs DEF Mode
  <2> QED BY <1>1, <1>2, <1>8, <2>1
<1>9. CASE s = "lidt_bios" /\ LoadTable("bios") /\ UNCHANGED <<pic, low>>
  <2>1. cpu' \in Processors /\ cpu'.flag = cpu.flag
        /\ cpu'.mode = cpu.mode /\ cpu'.table = "bios"
    BY <1>9, TableIs DEF LoadTable
  <2> QED BY <1>1, <1>2, <1>9, <2>1
<1>10. CASE s = "lidt_IDT" /\ LoadTable("IDT") /\ UNCHANGED <<pic, low>>
  <2>1. cpu' \in Processors /\ cpu'.flag = cpu.flag
        /\ cpu'.mode = cpu.mode /\ cpu'.table = "IDT"
    BY <1>10, TableIs DEF LoadTable
  <2> QED BY <1>1, <1>2, <1>10, <2>1
<1>11. CASE s = "resetpic_bios" /\ ResetPic("bios") /\ UNCHANGED <<cpu, low>>
  <2>1. pic' \in Controllers /\ pic'.base = "bios"
    BY <1>11 DEF ResetPic, Controllers
  <2> QED BY <1>1, <1>2, <1>11, <2>1
<1>12. CASE s = "resetpic_IDT" /\ ResetPic("IDT") /\ UNCHANGED <<cpu, low>>
  <2>1. pic' \in Controllers /\ pic'.base = "IDT"
    BY <1>12 DEF ResetPic, Controllers
  <2> QED BY <1>1, <1>2, <1>12, <2>1
<1>13. CASE s = "int" /\ UNCHANGED <<cpu, pic, low>>
  BY <1>1, <1>2, <1>13
<1> QED BY <1>3, <1>4, <1>5, <1>6, <1>7, <1>8, <1>9, <1>10, <1>11, <1>12, <1>13

\* A step of int32 keeps the invariant.
LEMMA Int32Keeps ==
    ASSUME KernelInv, Int32Step, UNCHANGED mainVars
    PROVE  KernelInv' /\ \E f \in Call : InnerBecomes(f)
<1> DEFINE c == Inner
           n == c.n
<1>1. frames # <<>> /\ c.todo = "int32" BY DEF Int32Step, Serving
<1>2. c \in Call BY <1>1, InnerIs, FrameTypes DEF KernelInv
<1>3. c.id = SyscallVector /\ n \in Nat BY <1>2, FramesDiffer, FrameTypes
<1>4. c.eax = 3 /\ Returned /\ pc > 9 /\ n > 0
  BY <1>1, <1>3 DEF KernelInv, CallInv
<1>5. Stage = n /\ ~ Entered BY <1>1 DEF Stage, Entered
<1>6. cpu \in Processors /\ pic \in Controllers /\ n \in 1 .. 12
  BY <1>3, <1>4, <1>5 DEF KernelInv, CpuInv
<1>7. UNCHANGED <<pc, interfaces>> BY DEF mainVars
<1>8. \E f \in Call :
          /\ InnerBecomes(f)
          /\ f.id = SyscallVector /\ f.eax = 3
          /\ IF n < 12 THEN f.todo = "int32" /\ f.n = n + 1 ELSE f.todo = "iret"
  <2>1. CASE n < 12
    <3> DEFINE f == [c EXCEPT !.n = n + 1]
    <3>1. InnerBecomes(f) BY <2>1, Int32Is DEF Int32Step
    <3> HIDE DEF n
    <3>2. f = [c EXCEPT !.n = n + 1] /\ n + 1 \in Nat BY <1>3
    <3> HIDE DEF c, f
    <3>3. f \in Call /\ f.id = c.id /\ f.eax = c.eax /\ f.todo = c.todo /\ f.n = n + 1
      BY <1>2, <3>2, NextStageIs
    <3> QED BY <1>1, <1>3, <1>4, <2>1, <3>1, <3>3
  <2>2. CASE ~ (n < 12)
    <3> DEFINE f == [c EXCEPT !.todo = "iret", !.n = 0]
    <3>1. InnerBecomes(f) BY <2>2, Int32Is DEF Int32Step
    <3> HIDE DEF c, n
    <3>2. f = [c EXCEPT !.todo = "iret", !.n = 0] OBVIOUS
    <3> HIDE DEF f
    <3>3. f \in Call /\ f.id = c.id /\ f.eax = c.eax /\ f.todo = "iret"
      BY <1>2, <3>2 DEF Call
    <3> QED BY <1>3, <1>4, <2>2, <3>1, <3>3
  <2> QED BY <2>1, <2>2
<1>9. /\ cpu' \in Processors
      /\ cpu'.mode = IF n = 3 THEN "real"
                     ELSE IF n = 10 THEN "protected" ELSE cpu.mode
      /\ cpu'.table = IF n = 4 THEN "bios" ELSE IF n = 11 THEN "IDT" ELSE cpu.table
      /\ cpu'.flag => \/ n = 6 \/ n = 12
                      \/ cpu.flag /\ n # 1 /\ n # 8
      /\ pic' \in Controllers
      /\ pic'.base = IF n = 5 THEN "bios" ELSE IF n = 9 THEN "IDT" ELSE pic.base
      /\ low' = low \/ low' = "int32"
      /\ UNCHANGED <<IDT, InterruptHandlers, Syscalls, lost>>
  BY <1>6, Int32Does
<1> HIDE DEF n
<1>10. PICK f \in Call :
          /\ InnerBecomes(f)
          /\ f.id = SyscallVector /\ f.eax = 3
          /\ IF n < 12 THEN f.todo = "int32" /\ f.n = n + 1 ELSE f.todo = "iret"
  BY <1>8
<1>11. StackInv' /\ frames' # <<>> /\ Inner' = f
  BY <1>1, <1>2, <1>10, CallSteps
<1>12. Stage' = (IF n < 12 THEN n + 1 ELSE 0) /\ ~ Entered'
  BY <1>10, <1>11 DEF Stage, Entered
<1>13. CpuInv'
  <2>1. /\ IF n >= 4 /\ n <= 10 THEN cpu.mode = "real" ELSE cpu.mode = "protected"
        /\ IF n >= 5 /\ n <= 11 THEN cpu.table = "bios" ELSE cpu.table = "IDT"
        /\ IF n >= 6 /\ n <= 9 THEN pic.base = "bios" ELSE pic.base = "IDT"
        /\ cpu.flag => n = 7 \/ n = 8
        /\ pc > 6
    BY <1>1, <1>4, <1>5, <1>6, <1>7 DEF KernelInv, CpuInv
  <2> HIDE DEF c
  <2>2. CASE n < 12
    <3>1. Stage' = n + 1 /\ n + 1 \in Nat /\ n + 1 <= 12 BY <1>6, <1>12, <2>2
    <3>2. /\ IF n + 1 >= 4 /\ n + 1 <= 10 THEN cpu'.mode = "real" ELSE cpu'.mode = "protected"
          /\ IF n + 1 >= 5 /\ n + 1 <= 11 THEN cpu'.table = "bios" ELSE cpu'.table = "IDT"
          /\ IF n + 1 >= 6 /\ n + 1 <= 9 THEN pic'.base = "bios" ELSE pic'.base = "IDT"
          /\ cpu'.flag => n + 1 = 7 \/ n + 1 = 8
      BY <1>6, <1>9, <2>1, <2>2
    <3> QED BY <1>7, <1>9, <2>1, <3>1, <3>2 DEF CpuInv
  <2>3. CASE n = 12
    <3>1. Stage' = 0 BY <1>12, <2>3
    <3>2. Inner'.id = SyscallVector /\ Inner'.todo = "iret"
      BY <1>10, <1>11, <2>3
    <3>3. cpu'.mode = "protected" /\ cpu'.table = "IDT" /\ pic'.base = "IDT"
      BY <1>9, <2>1, <2>3
    <3> QED BY <1>7, <1>9, <1>11, <2>1, <3>1, <3>2, <3>3 DEF CpuInv
  <2> QED BY <1>6, <2>2, <2>3
<1>14. TablesInv' BY <1>7, <1>9 DEF KernelInv, TablesInv
<1>15. CallInv' BY <1>3, <1>4, <1>7, <1>10, <1>11 DEF CallInv, Returned
<1>16. EffectsInv'
  BY <1>4, <1>5, <1>7, <1>9, <1>12 DEF KernelInv, EffectsInv, Returned
<1> QED BY <1>7, <1>9, <1>10, <1>11, <1>13, <1>14, <1>15, <1>16 DEF KernelInv

-----------------------------------------------------------------------------
(* Reads *)

\* The interrupt of the floppy is latched, and its handler is about to be called.
Latched == 6 \in pic.irr
HandlerDue == frames # <<>> /\ Inner.id = 6 /\ Inner.todo = "handler"
Reported == IRQReceived = 1 \/ Latched \/ HandlerDue

\* A read is under way until its interrupt comes, the interrupt is latched, due or
\* received exactly once, and the sector is in the buffer then.
ReadInv ==
    /\ at \in {"start", "wait", "hlt", "halted", "clear", "done"}
    /\ IRQReceived \in {0, 1}
    /\ at # "start" => ~ Returned /\ Current.op = "read" /\ ~ Served
    /\ Reported => at \notin {"start", "done"} /\ floppy = Idle
    /\ IRQReceived = 1 => ~ Latched /\ ~ HandlerDue
    /\ ~ (Latched /\ HandlerDue)
    /\ floppy # Idle => at \notin {"start", "clear", "done"} /\ floppy = Current.lba
    /\ at # "start" /\ floppy = Idle => failed \/ buffer = Current.lba
    /\ at = "clear" => IRQReceived = 1

\* A read that is issued goes through an interface that has been filled in, and
\* reads the boot sector while it is still there.
LEMMA IssueKeeps ==
    ASSUME KernelInv, Issue
    PROVE  /\ KernelInv'
           /\ floppy' = Current.lba /\ Current.lba \in Nat /\ at' = "wait"
           /\ UNCHANGED <<interruptVars, pc, interfaces, IRQReceived, buffer, failed>>
<1>1. Sectors \in Nat \ {0} /\ Len(Program) = 19 + Sectors BY ProgramIs
<1>2. pc \in 1 .. Len(Program) /\ frames = <<>> /\ low = "Root" /\ Current.op = "read"
  BY <1>1 DEF KernelInv, EffectsInv, Issue, Here, Main, Returned
<1>3. /\ pc > 11 /\ Current.lba \in Nat
      /\ \/ Current.interface = "Stage2_FDCI"
         \/ Current.interface = "FileSystem_FDCI" /\ pc > 13 + Sectors
  BY <1>2, ProgramFits DEF CommandFits, Current
<1>4. Current.interface \in interfaces
  <2>1. ~ Entered BY <1>2, NoFrame
  <2> QED BY <1>2, <1>3, <2>1 DEF KernelInv, EffectsInv
<1>5. floppy' = Current.lba /\ at' = "wait" /\ UNCHANGED interruptVars
      /\ UNCHANGED <<pc, interfaces, IRQReceived, buffer, failed>>
  BY <1>2, <1>4 DEF Issue
<1> QED BY <1>3, <1>5, NothingMoves

\* What a step that neither issues a read nor ends one leaves of it.
LEMMA ReadsStay ==
    ASSUME ReadInv, UNCHANGED floppyVars,
           Latched' => Latched, HandlerDue' => HandlerDue,
           \/ UNCHANGED <<pc, at>> /\ (Served' => Served)
           \/ at = "start" /\ at' = "start"
    PROVE  ReadInv'
<1>1. UNCHANGED <<IRQReceived, floppy, buffer, failed>> BY DEF floppyVars
<1>2. CASE UNCHANGED <<pc, at>> /\ (Served' => Served)
  <2>1. Current' = Current /\ (Returned' <=> Returned)
    BY <1>2 DEF Current, Returned
  <2> QED BY <1>1, <1>2, <2>1 DEF ReadInv, Reported
<1>3. CASE at = "start" /\ at' = "start"
  BY <1>1, <1>3 DEF ReadInv, Reported
<1> QED BY <1>2, <1>3

\* While a system call is served the main program is not in a read.
LEMMA CallsInNoRead ==
    ASSUME KernelInv, ReadInv, frames # <<>>, Inner \in Call, NEW f \in Call, InnerBecomes(f),
           UNCHANGED floppyVars, UNCHANGED <<pc, at>>, Latched' => Latched
    PROVE  ReadInv'
<1>1. Inner' = f /\ (Served' <=> Served)
  BY InnerBecomesIs, FramesDiffer DEF KernelInv
<1>2. ~ HandlerDue'
  <2>1. f.id = SyscallVector BY FramesDiffer
  <2> QED BY <1>1, <2>1 DEF HandlerDue, SyscallVector
<1> QED BY <1>1, <1>2, ReadsStay

\* A read that is issued starts with nothing left over.
LEMMA IssueReads ==
    ASSUME KernelInv, ReadInv, Issue
    PROVE  ReadInv'
<1>1. /\ floppy' = Current.lba /\ Current.lba \in Nat /\ at' = "wait"
      /\ UNCHANGED <<interruptVars, pc, interfaces, IRQReceived, buffer, failed>>
  BY IssueKeeps
<1>2. frames = <<>> /\ ~ Returned /\ Current.op = "read" /\ at = "start"
  BY DEF Issue, Here, Main
<1>3. UNCHANGED <<frames, pic>> BY <1>1 DEF interruptVars
<1>4. Current' = Current /\ ~ Returned' BY <1>1, <1>2 DEF Current, Returned
<1>5. ~ Reported BY <1>2 DEF ReadInv
<1>6. ~ Reported' BY <1>1, <1>3, <1>5 DEF Reported, Latched, HandlerDue, Inner
<1>7. floppy' # Idle BY <1>1 DEF Idle
<1>8. ~ Served' BY <1>2, <1>3 DEF Served
<1> QED BY <1>1, <1>2, <1>4, <1>6, <1>7, <1>8 DEF ReadInv, Reported

\* The main program between the issuing of a read and its return.
LEMMA WaitingReads ==
    ASSUME ReadInv, TestIRQ \/ Halt \/ ClearIRQ
    PROVE  ReadInv'
<1>1. frames = <<>> /\ ~ Returned
  BY DEF TestIRQ, Halt, ClearIRQ, Waits, Here, Main
<1>2. UNCHANGED <<pc, frames, pic, floppy, buffer, failed>>
  BY DEF TestIRQ, Halt, ClearIRQ, Waits, interruptVars
<1>3. Current' = Current /\ ~ Returned' /\ ~ Served'
  BY <1>1, <1>2 DEF Current, Returned, Served
<1>4. (Latched' <=> Latched) /\ (HandlerDue' <=> HandlerDue)
  BY <1>2 DEF Latched, HandlerDue, Inner
<1>5. CASE TestIRQ
  <2>1. /\ at = "wait" /\ at' = IF IRQReceived = 0 THEN "hlt" ELSE "clear"
        /\ IRQReceived' = IRQReceived
    BY <1>5 DEF TestIRQ, Waits
  <2> QED BY <1>2, <1>3, <1>4, <2>1 DEF ReadInv, Reported
<1>6. CASE Halt
  <2>1. at = "hlt" /\ at' = "halted" /\ IRQReceived' = IRQReceived
    BY <1>6 DEF Halt, Waits
  <2> QED BY <1>2, <1>3, <1>4, <2>1 DEF ReadInv, Reported
<1>7. CASE ClearIRQ
  <2>1. at = "clear" /\ at' = "done" /\ IRQReceived' = 0
    BY <1>7 DEF ClearIRQ, Waits
  <2> QED BY <1>2, <1>3, <1>4, <2>1 DEF ReadInv, Reported
<1> QED BY <1>5, <1>6, <1>7

\* A read that returns leaves nothing over.
LEMMA DoneReads ==
    ASSUME ReadInv, ReadDone
    PROVE  ReadInv'
<1>1. at = "done" /\ at' = "start"
      /\ UNCHANGED <<frames, pic, IRQReceived, floppy, buffer, failed>>
  BY DEF ReadDone, Advance, interruptVars, floppyVars
<1>2. ~ Reported' BY <1>1 DEF ReadInv, Reported, Latched, HandlerDue, Inner
<1> QED BY <1>1, <1>2 DEF ReadInv, Reported

\* The controller has read the sector that is waited for, or has failed.
LEMMA FloppyReads ==
    ASSUME KernelInv, ReadInv, FloppyDone
    PROVE  ReadInv'
<1>1. /\ floppy # Idle /\ floppy' = Idle /\ pic' = [pic EXCEPT !.irr = @ \cup {6}]
      /\ UNCHANGED <<frames, pc, at, IRQReceived>>
      /\ \/ buffer' = floppy /\ failed' = failed
         \/ failed' = TRUE
  BY DEF FloppyDone, Raise, mainVars
<1>2. Latched' BY <1>1 DEF KernelInv, CpuInv, Controllers, Latched
<1>3. Current' = Current /\ (Returned' <=> Returned) /\ (Served' <=> Served)
      /\ (HandlerDue' <=> HandlerDue)
  BY <1>1 DEF Current, Returned, Served, HandlerDue, Inner
<1>4. at \notin {"start", "clear", "done"} /\ floppy = Current.lba /\ ~ Reported
  BY <1>1 DEF ReadInv
<1>5. IRQReceived # 1 /\ ~ HandlerDue BY <1>4 DEF Reported
<1> QED BY <1>1, <1>2, <1>3, <1>4, <1>5 DEF ReadInv, Reported

\* The other lines have nothing to do with reads.
LEMMA TickReads ==
    ASSUME KernelInv, ReadInv, NEW l \in Lines \ {6}, Ticks(l)
    PROVE  ReadInv'
<1>1. pic' = [pic EXCEPT !.irr = @ \cup {l}] /\ UNCHANGED <<frames, pc, at>>
      /\ UNCHANGED floppyVars
  BY DEF Ticks, Raise, mainVars
<1>2. Latched' => Latched BY <1>1 DEF KernelInv, CpuInv, Controllers, Latched
<1>3. (Served' <=> Served) /\ (HandlerDue' <=> HandlerDue)
  BY <1>1 DEF Served, HandlerDue, Inner
<1> QED BY <1>1, <1>2, <1>3, ReadsStay

\* An interrupt is latched no longer when it is taken, and its handler is due.
LEMMA TakeReads ==
    ASSUME KernelInv, KernelInv', ReadInv, NEW l \in Lines, TakeLine(l)
    PROVE  ReadInv'
<1>1. Take(l) /\ UNCHANGED <<pc, IRQReceived, floppy, buffer, failed>>
      /\ at' = IF at = "halted" THEN "wait" ELSE at
  BY DEF TakeLine, Wake, floppyVars
<1>2. pic' \in Controllers /\ pic'.irr = pic.irr \ {l} /\ l \in pic.irr
  <2>1. pic \in Controllers /\ pic' \in Controllers BY DEF KernelInv, CpuInv
  <2>2. \/ pic' = [pic EXCEPT !.irr = @ \ {l}]
        \/ pic' = [pic EXCEPT !.irr = @ \ {l}, !.isr = @ \cup InService(l)]
    BY <1>1 DEF Take
  <2>3. l \in pic.irr BY <1>1 DEF Take
  <2> QED BY <2>1, <2>2, <2>3 DEF Controllers
<1>3. Current' = Current /\ (Returned' <=> Returned)
  BY <1>1 DEF Current, Returned
<1>4. ~ (Latched' /\ l = 6) /\ (Latched' => Latched) /\ (l = 6 => Latched)
  BY <1>2 DEF Latched
<1>5. \/ UNCHANGED frames
      \/ /\ frames' = Append(frames, [id |-> l, todo |-> "handler", flag |-> cpu.flag])
         /\ frames = <<>> \/ (Inner.id = SyscallVector /\ Inner.todo = "iret")
  <2>1. ~ lost' /\ CpuInv BY DEF KernelInv
  <2>2. CASE Stage = 7 \/ Stage = 8
    <3>1. cpu.mode = "real" /\ cpu.table = "bios" /\ pic.base = "bios"
      BY <2>1, <2>2 DEF CpuInv
    <3> QED BY <1>1, <3>1 DEF Take
  <2>3. CASE ~ (Stage = 7 \/ Stage = 8)
    <3>1. frames = <<>> \/ (Inner.id = SyscallVector /\ Inner.todo = "iret")
      <4>1. cpu.flag BY <1>1 DEF Take
      <4> QED BY <2>1, <2>3, <4>1 DEF CpuInv
    <3> QED BY <1>1, <2>1, <3>1 DEF Take, Enter
  <2> QED BY <2>2, <2>3
<1>6. CASE UNCHANGED frames
  <2>1. (Served' <=> Served) /\ (HandlerDue' <=> HandlerDue)
    BY <1>6 DEF Served, HandlerDue, Inner
  <2> QED BY <1>1, <1>3, <1>4, <2>1 DEF ReadInv, Reported
<1>7. CASE /\ frames' = Append(frames, [id |-> l, todo |-> "handler", flag |-> cpu.flag])
           /\ frames = <<>> \/ (Inner.id = SyscallVector /\ Inner.todo = "iret")
  <2> DEFINE f == [id |-> l, todo |-> "handler", flag |-> cpu.flag]
  <2>1. f \in Interruption /\ f.id = l
    <3>1. cpu.flag \in BOOLEAN BY DEF KernelInv, CpuInv, Processors
    <3>2. f \in Interruption BY <3>1, FramesAre
    <3> QED BY <3>2
  <2>2. frames' = Append(frames, f) BY <1>7
  <2> HIDE DEF f
  <2>3. (Served' <=> Served) /\ Inner' = f
    BY <1>7, <2>1, <2>2, EntersInterrupt DEF KernelInv
  <2>4. ~ HandlerDue /\ (HandlerDue' => l = 6)
    BY <1>7, <2>1, <2>3 DEF HandlerDue, SyscallVector
  <2> QED BY <1>1, <1>3, <1>4, <2>3, <2>4 DEF ReadInv, Reported
<1> QED BY <1>5, <1>6, <1>7

\* Only the handler of the floppy raises the flag, and only for its interrupt.
LEMMA HandlerReads ==
    ASSUME KernelInv, KernelInv', ReadInv, Handler
    PROVE  ReadInv'
<1>1. /\ frames # <<>> /\ Inner.todo = "handler" /\ ~ lost'
      /\ UNCHANGED <<pc, at, floppy, buffer, failed>>
  BY DEF Handler, CallHandler, Serving, mainVars, KernelInv
<1>2. InnerBecomes([Inner EXCEPT !.todo = "eoi"]) /\ pic' = pic
  BY <1>1 DEF Handler, CallHandler, Lose
<1>3. Inner \in Interruption BY <1>1, InnerIs, FrameTypes DEF KernelInv
<1>4. [Inner EXCEPT !.todo = "eoi"] \in Interruption
      /\ [Inner EXCEPT !.todo = "eoi"].todo = "eoi"
  BY <1>1, <1>3, FrameTypes DEF Interruption
<1>5. Inner'.todo = "eoi" /\ (Served' <=> Served)
  <2>1. ~ (Inner \in Call) BY <1>3, FramesDiffer
  <2> DEFINE f == [Inner EXCEPT !.todo = "eoi"]
  <2>2. f \in Interruption /\ f.todo = "eoi" /\ InnerBecomes(f) BY <1>2, <1>4
  <2> HIDE DEF f
  <2> QED BY <1>1, <2>1, <2>2, InnerBecomesIs DEF KernelInv
<1>6. ~ HandlerDue' /\ (Latched' <=> Latched)
  BY <1>2, <1>5 DEF HandlerDue, Latched
<1>7. CASE HandlerCalled = "IRQHandler"
  <2>1. IRQReceived' = 1 BY <1>7 DEF Handler
  <2>2. Inner.id = 6
    <3>1. Inner.id \in 0 .. 15 BY <1>3, FramesDiffer
    <3>2. \A l \in 0 .. 15 : InterruptHandlers[l] = "IRQHandler" => l = 6
      BY DEF KernelInv, TablesInv
    <3> QED BY <1>7, <3>1, <3>2 DEF HandlerCalled
  <2>3. HandlerDue BY <1>1, <2>2 DEF HandlerDue
  <2>4. Current' = Current /\ (Returned' <=> Returned)
    BY <1>1 DEF Current, Returned
  <2> QED BY <1>1, <1>5, <1>6, <2>1, <2>3, <2>4 DEF ReadInv, Reported
<1>8. CASE HandlerCalled # "IRQHandler"
  <2>1. UNCHANGED floppyVars BY <1>8 DEF Handler, floppyVars
  <2> QED BY <1>1, <1>5, <1>6, <2>1, ReadsStay
<1> QED BY <1>7, <1>8

-----------------------------------------------------------------------------
(* Every step *)

\* What holds of the machine and of the reads.
OldKernelInv == KernelInv /\ ReadInv

\* No read is under way at the start.
LEMMA InitReads == OldInit => ReadInv
BY DEF OldInit, OldInterruptsInit, ReadInv, Reported, Latched, HandlerDue, Served, Idle

\* The main program is in no read while it does something else.
LEMMA OtherReads ==
    ASSUME KernelInv, ReadInv, Here, Current.op # "read", at' = "start",
           UNCHANGED floppyVars, Latched' => Latched, HandlerDue' => HandlerDue
    PROVE  ReadInv'
<1>1. at = "start" BY DEF ReadInv
<1> QED BY <1>1, ReadsStay

\* The main program keeps both invariants.
LEMMA MainKeeps ==
    ASSUME OldKernelInv, MainStep
    PROVE  OldKernelInv'
<1>1. KernelInv /\ ReadInv BY DEF OldKernelInv
<1>2. CASE PutsStep
  <2>1. /\ Here /\ Current.op = "puts" /\ pc' = pc + 1 /\ at' = "start"
        /\ UNCHANGED <<interruptVars, interfaces>> /\ UNCHANGED floppyVars
    BY <1>2 DEF PutsStep, Advance
  <2>2. KernelInv' BY <1>1, <2>1, PassesCommand
  <2>3. UNCHANGED <<frames, pic>> BY <2>1 DEF interruptVars
  <2>4. Latched' = Latched /\ HandlerDue' = HandlerDue
    BY <2>3 DEF Latched, HandlerDue, Inner
  <2>5. ReadInv' BY <1>1, <2>1, <2>4, OtherReads
  <2> QED BY <2>2, <2>5 DEF OldKernelInv
<1>3. CASE SetupStep
  <2>1. KernelInv' BY <1>1, <1>3, SetUpKeeps
  <2>2. /\ Here /\ Current.op # "read" /\ at' = "start" /\ UNCHANGED floppyVars
        /\ frames' = frames /\ (pic' = pic \/ pic'.irr = {})
    <3>1. \A base : ResetPic(base) => pic'.irr = {} BY DEF ResetPic
    <3>2. /\ \A on : SetFlag(on) => frames' = frames /\ pic' = pic
          /\ InitializePic => frames' = frames /\ pic'.irr = {}
          /\ RegisterIRQs => frames' = frames /\ pic' = pic
          /\ ReloadIDT => frames' = frames /\ pic' = pic
          /\ Syscalls_Initialize => frames' = frames /\ pic' = pic
     
        BY <3>1 DEF SetFlag, InitializePic, RegisterIRQs, ReloadIDT, Syscalls_Initialize
    <3>3. Current.op # "read" BY <1>3 DEF SetupStep
    <3> QED BY <1>3, <3>2, <3>3 DEF SetupStep, Advance
  <2>3. (Latched' => Latched) /\ (HandlerDue' => HandlerDue)
    BY <2>2 DEF Latched, HandlerDue, Inner
  <2>4. ReadInv' BY <1>1, <2>2, <2>3, OtherReads
  <2> QED BY <2>1, <2>4 DEF OldKernelInv
<1>4. CASE SyscallStep
  <2>1. KernelInv' BY <1>1, <1>4, SyscallKeeps
  <2>2. /\ Here /\ Current.op = "int80" /\ at' = "start" /\ UNCHANGED floppyVars
        /\ pic' = pic /\ Int80(Current.eax, Current.ebx, Current.edx)
    BY <1>4 DEF SyscallStep, Advance, Int80
  <2>3. ~ HandlerDue' /\ (Latched' => Latched)
    <3>1. pc \in 1 .. Len(Program)
      BY <1>1, <2>2, ProgramIs DEF KernelInv, Here, Returned
    <3>2. CommandFits(pc, Current) BY <3>1, ProgramFits DEF Current
    <3> DEFINE eax == Current.eax
               ebx == Current.ebx
               edx == Current.edx
    <3>3. pc >= 9 /\ Asks(pc, eax, ebx, edx) /\ Int80(eax, ebx, edx) /\ frames = <<>>
      BY <2>2, <3>2 DEF CommandFits, Here, Main
    <3> HIDE DEF eax, ebx, edx
    <3>4. pc > 8 /\ eax \in {0, 1, 3, 4, 16, 32} /\ ebx \in Nat /\ edx \in Pointers
      BY <3>1, <3>3 DEF Asks
    <3>5. Inner'.id = SyscallVector BY <1>1, <3>3, <3>4, CallEnters
    <3> QED BY <2>2, <3>5 DEF HandlerDue, Latched, SyscallVector
  <2>4. ReadInv' BY <1>1, <2>2, <2>3, OtherReads
  <2> QED BY <2>1, <2>4 DEF OldKernelInv
<1>5. CASE Issue
  BY <1>1, <1>5, IssueKeeps, IssueReads DEF OldKernelInv
<1>6. CASE TestIRQ \/ Halt \/ ClearIRQ
  <2>1. UNCHANGED <<interruptVars, pc, interfaces>>
    BY <1>6 DEF TestIRQ, Halt, ClearIRQ, Waits
  <2> QED BY <1>1, <1>6, <2>1, NothingMoves, WaitingReads DEF OldKernelInv
<1>7. CASE ReadDone
  <2>1. Here /\ pc' = pc + 1 /\ UNCHANGED <<interruptVars, interfaces>> /\ at = "done"
    BY <1>7 DEF ReadDone, Advance
  <2>2. Current.op = "read" BY <1>1, <2>1 DEF ReadInv
  <2> QED BY <1>1, <1>7, <2>1, <2>2, PassesCommand, DoneReads DEF OldKernelInv
<1>8. CASE PrintsOn
  <2>1. UNCHANGED <<interruptVars, pc, interfaces>> /\ UNCHANGED <<pc, at>>
        /\ UNCHANGED floppyVars
    BY <1>8 DEF PrintsOn, mainVars
  <2>2. UNCHANGED <<frames, pic>> BY <2>1 DEF interruptVars
  <2>3. Latched' = Latched /\ HandlerDue' = HandlerDue /\ Served' = Served
    BY <2>2 DEF Latched, HandlerDue, Served, Inner
  <2> QED BY <1>1, <2>1, <2>3, NothingMoves, ReadsStay DEF OldKernelInv
<1> QED BY <1>2, <1>3, <1>4, <1>5, <1>6, <1>7, <1>8 DEF MainStep

\* Interrupts and system calls keep both invariants.
LEMMA ServeKeeps ==
    ASSUME OldKernelInv, Serve
    PROVE  OldKernelInv'
<1>1. KernelInv /\ ReadInv BY DEF OldKernelInv
<1>2. CASE Handler
  BY <1>1, <1>2, HandlerKeeps, HandlerReads DEF OldKernelInv
<1>3. CASE \/ Function
           \/ /\ StoreHandler \/ EnableInHandler \/ Int32Step
              /\ UNCHANGED <<videoVars, mainVars, floppyVars>>
  <2>1. /\ frames # <<>> /\ Inner.todo \in {"function", "store", "sti", "int32"}
        /\ UNCHANGED floppyVars /\ UNCHANGED <<pc, at>>
   
      BY <1>3 DEF Function, CallFunction, StoreHandler, EnableInHandler, Int32Step,
                Serving, mainVars
  <2>2. Inner \in Call BY <1>1, <2>1, InnerIs, FrameTypes DEF KernelInv
  <2>3. KernelInv' /\ \E f \in Call : InnerBecomes(f)
    BY <1>1, <1>3, FunctionKeeps, StoreKeeps, EnableKeeps, Int32Keeps
  <2>4. Latched' => Latched
    <3>1. pic' = pic \/ pic'.irr = {}
      <4>1. \A base : ResetPic(base) => pic'.irr = {} BY DEF ResetPic
      <4>2. CASE Function BY <4>2 DEF Function, CallFunction, Lose
      <4>3. CASE StoreHandler \/ EnableInHandler
        BY <4>3 DEF StoreHandler, EnableInHandler
      <4>4. CASE Int32Step BY <4>1, <4>4 DEF Int32Step
      <4> QED BY <1>3, <4>2, <4>3, <4>4
    <3> QED BY <3>1 DEF Latched
  <2> QED BY <1>1, <2>1, <2>2, <2>3, <2>4, CallsInNoRead DEF OldKernelInv
<1>4. CASE EndOfInterrupt /\ UNCHANGED <<videoVars, mainVars, floppyVars>>
  <2>1. /\ frames # <<>> /\ Inner.todo = "eoi" /\ UNCHANGED floppyVars
        /\ UNCHANGED <<pc, at>> /\ pic' = [pic EXCEPT !.isr = Eoi(@, Inner.id >= 8)]
        /\ InnerBecomes([Inner EXCEPT !.todo = "iret"])
    BY <1>4 DEF EndOfInterrupt, Serving, mainVars
  <2>2. Inner \in Interruption BY <1>1, <2>1, InnerIs, FrameTypes DEF KernelInv
  <2>3. [Inner EXCEPT !.todo = "iret"] \in Interruption
        /\ [Inner EXCEPT !.todo = "iret"].todo = "iret"
    BY <2>1, <2>2, FrameTypes DEF Interruption
  <2>4. Inner'.todo = "iret" /\ (Served' <=> Served)
    <3>1. ~ (Inner \in Call) BY <2>2, FramesDiffer
    <3> DEFINE f == [Inner EXCEPT !.todo = "iret"]
    <3>2. f \in Interruption /\ f.todo = "iret" /\ InnerBecomes(f) BY <2>1, <2>3
    <3> HIDE DEF f
    <3> QED BY <1>1, <2>1, <3>1, <3>2, InnerBecomesIs DEF KernelInv
  <2>5. Latched' => Latched
    BY <1>1, <2>1 DEF Latched, KernelInv, CpuInv, Controllers
  <2>6. ~ HandlerDue' BY <2>4 DEF HandlerDue
  <2>7. KernelInv' BY <1>1, <1>4, EoiKeeps
  <2> QED BY <1>1, <2>1, <2>4, <2>5, <2>6, <2>7, ReadsStay DEF OldKernelInv
<1>5. CASE Iret /\ UNCHANGED <<videoVars, mainVars, floppyVars>>
  <2>1. /\ frames # <<>> /\ UNCHANGED floppyVars /\ UNCHANGED <<pc, at>> /\ pic' = pic
        /\ frames' = SubSeq(frames, 1, Len(frames) - 1)
    BY <1>5 DEF Iret, Serving, mainVars
  <2>2. ~ HandlerDue' /\ (Served' => Served)
    <3>1. frames' = <<>> \/ (Inner'.todo = "iret" /\ Served)
      BY <1>1, <2>1, LeavesFrame DEF KernelInv
    <3> QED BY <3>1 DEF HandlerDue, Served
  <2>3. Latched' => Latched BY <2>1 DEF Latched
  <2>4. KernelInv' BY <1>1, <1>5, IretKeeps
  <2> QED BY <1>1, <2>1, <2>2, <2>3, <2>4, ReadsStay DEF OldKernelInv
<1> QED BY <1>2, <1>3, <1>4, <1>5 DEF Serve

\* Every step keeps both invariants.
LEMMA OldKernelStep ==
    ASSUME OldKernelInv, [OldNext]_oldVars
    PROVE  OldKernelInv'
<1>1. KernelInv /\ ReadInv BY DEF OldKernelInv
<1>2. CASE DriverCalls
  <2>1. KernelInv' BY <1>1, <1>2, DriverKeeps
  <2>2. PICK eax \in {3, 4} : Int80(eax, 0, Null) BY <1>2 DEF DriverCalls
  <2>3. frames = <<>> /\ Returned /\ UNCHANGED <<pc, at>> /\ UNCHANGED floppyVars
        /\ pic' = pic
    BY <1>2, <2>2 DEF DriverCalls, Main, mainVars, Int80
  <2>4. at = "start" /\ at' = "start" BY <1>1, <2>3 DEF ReadInv
  <2>5. Inner'.id = SyscallVector
    <3>1. Sectors \in Nat /\ pc > 8 /\ 0 \in Nat /\ Null \in Pointers
      BY <1>1, <2>3, ProgramIs DEF KernelInv, Returned, Pointers
    <3> QED BY <1>1, <2>2, <2>3, <3>1, CallEnters
  <2>6. ~ HandlerDue' /\ (Latched' => Latched)
    BY <2>3, <2>5 DEF HandlerDue, Latched, SyscallVector
  <2> QED BY <1>1, <2>1, <2>3, <2>4, <2>6, ReadsStay DEF OldKernelInv
<1>3. CASE Stop
  <2>1. UNCHANGED <<pc, at>> /\ UNCHANGED floppyVars /\ UNCHANGED <<pic, frames>>
    BY <1>3 DEF Stop, SetFlag, mainVars
  <2>2. Latched' = Latched /\ HandlerDue' = HandlerDue /\ Served' = Served
    BY <2>1 DEF Latched, HandlerDue, Served, Inner
  <2> QED BY <1>1, <1>3, <2>1, <2>2, StopKeeps, ReadsStay DEF OldKernelInv
<1>4. ASSUME NEW l \in Lines, TakeLine(l) PROVE OldKernelInv'
  <2>1. KernelInv' BY <1>1, <1>4, TakeKeeps DEF TakeLine
  <2> QED BY <1>1, <1>4, <2>1, TakeReads DEF OldKernelInv
<1>5. CASE FloppyDone
  <2>1. Raise(6) /\ UNCHANGED <<pc, interfaces>> /\ 6 \in Lines
    BY <1>5, OldLineAssumption DEF FloppyDone, mainVars
  <2>2. KernelInv' BY <1>1, <2>1, RaiseKeeps
  <2> QED BY <1>1, <1>5, <2>2, FloppyReads DEF OldKernelInv
<1>6. ASSUME NEW l \in Lines \ {6}, Ticks(l) PROVE OldKernelInv'
  <2>1. Raise(l) /\ UNCHANGED <<pc, interfaces>> BY <1>6 DEF Ticks, mainVars
  <2>2. KernelInv' BY <1>1, <2>1, RaiseKeeps
  <2> QED BY <1>1, <1>6, <2>2, TickReads DEF OldKernelInv
<1>7. CASE UNCHANGED oldVars
  <2>1. UNCHANGED <<interruptVars, pc, interfaces>> /\ UNCHANGED <<pc, at>>
        /\ UNCHANGED floppyVars
    BY <1>7 DEF oldVars, mainVars
  <2>2. UNCHANGED <<frames, pic>> BY <2>1 DEF interruptVars
  <2>3. Latched' = Latched /\ HandlerDue' = HandlerDue /\ Served' = Served
    BY <2>2 DEF Latched, HandlerDue, Served, Inner
  <2> QED BY <1>1, <2>1, <2>3, NothingMoves, ReadsStay DEF OldKernelInv
<1> QED
 
    BY <1>2, <1>3, <1>4, <1>5, <1>6, <1>7, MainKeeps, ServeKeeps DEF OldNext, Devices

\* The invariant of the previous kernel holds (Stage2.c, Kernel.c, FDC.c,
\* Interrupts.c, Int32.asm).
THEOREM OldKernelHolds == OldSpec => []OldKernelInv
<1>1. OldInit => OldKernelInv BY InitKernel, InitReads DEF OldKernelInv
<1>2. OldKernelInv /\ [OldNext]_oldVars => OldKernelInv' BY OldKernelStep
<1> QED BY <1>1, <1>2, PTL DEF OldSpec

\* The processor never goes anywhere the source has not sent it: every interrupt
\* finds the table, the mode and the vectors that belong together, also through a
\* BIOS call, and every handler, system call and interface used has been set
\* (Stage2.c:31-55, Int32.asm:35-119, Kernel.c:25-42).
THEOREM NeverGetsLost == OldSpec => []NeverLost
<1>1. OldKernelInv => NeverLost BY DEF OldKernelInv, KernelInv, NeverLost
<1> QED BY <1>1, OldKernelHolds, PTL

\* When a read returns, its own command is over and its sector is in the buffer,
\* unless a command has failed (FDC.c:106-115).
THEOREM ReadsAreComplete == OldSpec => []ReadsComplete
<1>1. OldKernelInv => ReadsComplete BY DEF OldKernelInv, ReadInv, ReadsComplete
<1> QED BY <1>1, OldKernelHolds, PTL

-----------------------------------------------------------------------------
(* Text output *)

\* The next row begins inside the screen or just behind it.
LEMMA RowsBelow ==
    ASSUME NEW p \in Nat, p < VGA_MEMORY_SIZE
    PROVE  /\ NextRow(p, p) \in Nat
           /\ VGA_XRESOLUTION <= NextRow(p, p)
           /\ NextRow(p, p) <= VGA_MEMORY_SIZE
<1> DEFINE X == VGA_XRESOLUTION
           Y == VGA_YRESOLUTION
           q == p \div X
           r == p % X
<1>1. X \in Nat /\ X > 2 /\ Y \in Nat /\ Y > 0 BY VideoAssumption
<1>2. q \in Int /\ r \in Int /\ p = X * q + r /\ 0 <= r /\ r < X BY <1>1
<1>3. q < Y
  <2>1. SUFFICES ASSUME q >= Y PROVE FALSE BY <1>1, <1>2
  <2>2. X * q >= X * Y BY <2>1, <1>1, <1>2
  <2>3. X * q \in Int /\ X * Y \in Int BY <1>1, <1>2
  <2> QED BY <2>2, <2>3, <1>2 DEF VGA_MEMORY_SIZE
<1>4. X * q + X <= X * Y
  <2>1. X * (q + 1) <= X * Y BY <1>1, <1>2, <1>3
  <2> QED BY <2>1, <1>1, <1>2
<1>5. X * q >= 0
  <2>1. q >= 0
    <3>1. SUFFICES ASSUME q <= -1 PROVE FALSE BY <1>2
    <3>2. X * q <= X * (-1) BY <3>1, <1>1, <1>2
    <3> QED BY <3>2, <1>1, <1>2
  <2> QED BY <2>1, <1>1, <1>2
<1>6. X * q \in Int /\ X * Y \in Int BY <1>1, <1>2
<1>7. NextRow(p, p) = X * q + X BY <1>1, <1>2, <1>6 DEF NextRow
<1> QED BY <1>1, <1>4, <1>5, <1>6, <1>7 DEF VGA_MEMORY_SIZE

\* The screen has at least one row.
LEMMA SizeOfMemory == VGA_MEMORY_SIZE \in Nat /\ VGA_MEMORY_SIZE >= VGA_XRESOLUTION
<1>1. VGA_XRESOLUTION * VGA_YRESOLUTION \in Nat
      /\ VGA_XRESOLUTION * VGA_YRESOLUTION >= VGA_XRESOLUTION * 1
  BY VideoAssumption
<1> QED BY <1>1, VideoAssumption DEF VGA_MEMORY_SIZE

\* The next row of a position that may be stale.
LEMMA AnyRowBelow ==
    ASSUME NEW p \in Nat, NEW q \in Nat
    PROVE  NextRow(p, q) \in Nat /\ NextRow(p, q) <= p + VGA_XRESOLUTION
<1>1. q % VGA_XRESOLUTION \in Nat /\ q % VGA_XRESOLUTION < VGA_XRESOLUTION
  BY VideoAssumption
<1> QED BY <1>1, VideoAssumption DEF NextRow

\* Where ScreenPos may be, and what the main program may have loaded of it.
ScreenType ==
    /\ screen \in [pos : Nat, beyond : Nat]
    /\ screen.pos <= VGA_MEMORY_SIZE + VGA_XRESOLUTION
    /\ screen.beyond <= 2
    /\ loaded \in Nat

\* Where the main program is in a scroll, and what it has loaded.
VideoInv ==
    /\ ScreenType
    /\ step = "scroll" => screen.pos >= VGA_XRESOLUTION
    /\ step = "scrolled" => /\ loaded >= VGA_XRESOLUTION
                            /\ loaded <= VGA_MEMORY_SIZE + VGA_XRESOLUTION
    /\ step = "put" => screen.pos <= VGA_MEMORY_SIZE
    /\ step \in {"row", "char"} => loaded <= VGA_MEMORY_SIZE
    /\ step = "colour" => screen.pos <= VGA_MEMORY_SIZE + 1
    /\ step = "coloured" => loaded <= VGA_MEMORY_SIZE + 1

\* A glyph that is stored near the screen.
LEMMA StoredNear ==
    ASSUME NEW s \in [pos : Nat, beyond : Nat], s.beyond <= 2,
           NEW p \in Nat, p <= VGA_MEMORY_SIZE + 1
    PROVE  /\ Stored(s, p) \in [pos : Nat, beyond : Nat]
           /\ Stored(s, p).pos = p + 1
           /\ Stored(s, p).beyond <= 2
BY SizeOfMemory DEF Stored

\* The handler's message leaves ScreenPos at the start of a row on the screen
\* or just behind it.
LEMMA HandlerStaysNear ==
    ASSUME NEW s \in [pos : Nat, beyond : Nat], s.beyond <= 2,
           s.pos <= VGA_MEMORY_SIZE + VGA_XRESOLUTION
    PROVE  /\ puts(s) \in [pos : Nat, beyond : Nat]
           /\ puts(s).beyond <= 2
           /\ VGA_XRESOLUTION <= puts(s).pos
           /\ puts(s).pos <= VGA_MEMORY_SIZE
<1> DEFINE M == VGA_MEMORY_SIZE
           X == VGA_XRESOLUTION
           Scrolled(t) == IF t.pos >= M THEN [t EXCEPT !.pos = @ - X] ELSE t
           t1 == Scrolled(s)
           t2 == Stored(t1, t1.pos)
           t3 == Stored(t2, t1.pos + 1)
           t4 == Scrolled(t3)
<1>1. M \in Nat /\ X \in Nat /\ X > 2 /\ M >= X BY SizeOfMemory, VideoAssumption
<1>2. t1 \in [pos : Nat, beyond : Nat] /\ t1.beyond <= 2 /\ t1.pos <= M BY <1>1
<1> HIDE DEF M, X, t1
<1>3. t2 \in [pos : Nat, beyond : Nat] /\ t2.beyond <= 2
  BY <1>1, <1>2, StoredNear DEF M
<1> HIDE DEF t2
<1>4. t3 \in [pos : Nat, beyond : Nat] /\ t3.beyond <= 2 /\ t3.pos = t1.pos + 2
  <2> DEFINE p == t1.pos + 1
  <2>1. p \in Nat /\ p <= VGA_MEMORY_SIZE + 1 /\ p + 1 = t1.pos + 2
    BY <1>1, <1>2 DEF M
  <2>2. t3 = Stored(t2, p) OBVIOUS
  <2> HIDE DEF p, t3
  <2> QED BY <2>1, <2>2, <1>3, StoredNear
<1> HIDE DEF t3
<1>5. t4 \in [pos : Nat, beyond : Nat] /\ t4.beyond <= 2 /\ t4.pos < M
  BY <1>1, <1>2, <1>4
<1>6. puts(s) = [t4 EXCEPT !.pos = NextRow(t4.pos, t4.pos)]
  <2>1. putch(s, "glyph") = t3 BY DEF putch, t3, t2, t1, M, X, Newline
  <2>2. putch(t3, Newline) = [t4 EXCEPT !.pos = NextRow(t4.pos, t4.pos)]
    BY DEF putch, M, X
  <2> QED BY <2>1, <2>2 DEF puts
<1> HIDE DEF t4
<1>7. NextRow(t4.pos, t4.pos) \in Nat /\ X <= NextRow(t4.pos, t4.pos)
      /\ NextRow(t4.pos, t4.pos) <= M
  BY <1>5, RowsBelow DEF M, X
<1> QED BY <1>5, <1>6, <1>7 DEF M, X

\* The handler of the floppy prints in between, and keeps the invariant.
LEMMA HandlerKeepsVideo ==
    ASSUME VideoInv, screen' = puts(screen), UNCHANGED <<step, loaded>>
    PROVE  VideoInv'
<1>1. screen \in [pos : Nat, beyond : Nat] /\ screen.beyond <= 2
      /\ screen.pos <= VGA_MEMORY_SIZE + VGA_XRESOLUTION
  BY DEF VideoInv, ScreenType
<1>2. /\ screen' \in [pos : Nat, beyond : Nat] /\ screen'.beyond <= 2
      /\ VGA_XRESOLUTION <= screen'.pos /\ screen'.pos <= VGA_MEMORY_SIZE
  BY <1>1, HandlerStaysNear
<1> QED BY <1>2, SizeOfMemory, VideoAssumption DEF VideoInv, ScreenType

\* A step of the text output keeps the invariant.
LEMMA PrintingKeepsVideo ==
    ASSUME VideoInv, PrintStep
    PROVE  VideoInv'
<1>1. VGA_MEMORY_SIZE \in Nat /\ VGA_MEMORY_SIZE >= VGA_XRESOLUTION
      /\ VGA_XRESOLUTION \in Nat /\ VGA_XRESOLUTION > 2
  BY SizeOfMemory, VideoAssumption
<1> USE <1>1
<1>2. CASE Test BY <1>2 DEF VideoInv, ScreenType, Test, Goes
<1>3. CASE Load BY <1>3 DEF VideoInv, ScreenType, Load, Goes
<1>4. CASE Scroll BY <1>4 DEF VideoInv, ScreenType, Scroll, Goes
<1>5. CASE NewRow
  <2>1. loaded \in Nat /\ loaded <= VGA_MEMORY_SIZE /\ screen.pos \in Nat
    BY <1>5 DEF VideoInv, ScreenType, NewRow, Goes
  <2>2. NextRow(loaded, screen.pos) \in Nat
        /\ NextRow(loaded, screen.pos) <= VGA_MEMORY_SIZE + VGA_XRESOLUTION
    <3> DEFINE q == screen.pos
    <3>1. q \in Nat BY <2>1
    <3> HIDE DEF q
    <3>2. NextRow(loaded, q) \in Nat /\ NextRow(loaded, q) <= loaded + VGA_XRESOLUTION
      BY <2>1, <3>1, AnyRowBelow
    <3> QED BY <2>1, <3>2 DEF q
  <2> QED BY <1>5, <2>2 DEF VideoInv, ScreenType, NewRow, Goes
<1>6. CASE StoreChar
  <2>1. loaded \in Nat /\ loaded <= VGA_MEMORY_SIZE
    BY <1>6 DEF VideoInv, ScreenType, StoreChar, Goes
  <2>2. screen' \in [pos : Nat, beyond : Nat] /\ screen'.pos = loaded + 1 /\ screen'.beyond <= 2
    BY <1>6, <2>1, StoredNear DEF VideoInv, ScreenType, StoreChar
  <2> QED BY <1>6, <2>1, <2>2 DEF VideoInv, ScreenType, StoreChar, Goes
<1>7. CASE StoreColour
  <2>1. loaded \in Nat /\ loaded <= VGA_MEMORY_SIZE + 1
    BY <1>7 DEF VideoInv, ScreenType, StoreColour, Goes
  <2>2. screen' \in [pos : Nat, beyond : Nat] /\ screen'.pos = loaded + 1 /\ screen'.beyond <= 2
    BY <1>7, <2>1, StoredNear DEF VideoInv, ScreenType, StoreColour
  <2> QED BY <1>7, <2>1, <2>2 DEF VideoInv, ScreenType, StoreColour, Goes
<1> QED BY <1>2, <1>3, <1>4, <1>5, <1>6, <1>7 DEF PrintStep

\* A step that prints nothing keeps the invariant.
LEMMA NothingPrinted ==
    ASSUME VideoInv, UNCHANGED <<screen, step, loaded>>
    PROVE  VideoInv'
BY DEF VideoInv, ScreenType

\* ScreenPos and what has been loaded of it stay near the screen in every
\* interleaving of the main program with the handler (Video.c).
THEOREM VideoStaysNear == OldSpec => []VideoInv
<1>1. OldInit => VideoInv
  BY SizeOfMemory, VideoAssumption DEF OldInit, VideoInit, VideoInv, ScreenType
<1>2. VideoInv /\ [OldNext]_oldVars => VideoInv'
  <2> SUFFICES ASSUME VideoInv, [OldNext]_oldVars PROVE VideoInv' OBVIOUS
  <2>1. CASE PrintsOn BY <2>1, PrintingKeepsVideo DEF PrintsOn
  <2>2. CASE Handler BY <2>2, HandlerKeepsVideo, NothingPrinted DEF Handler
  <2>3. CASE UNCHANGED <<screen, step, loaded>> BY <2>3, NothingPrinted
  <2>4. CASE OldNext
    <3>1. MainStep => PrintsOn \/ UNCHANGED <<screen, step, loaded>>
     
        BY DEF MainStep, PutsStep, SetupStep, SyscallStep, Issue, TestIRQ, Halt, ClearIRQ,
             ReadDone, Prints, videoVars
    <3>2. Serve => Handler \/ UNCHANGED <<screen, step, loaded>>
      BY DEF Serve, Function, videoVars
    <3>3. DriverCalls \/ Stop \/ Takes \/ FloppyDone \/ Devices
          => UNCHANGED <<screen, step, loaded>>
     
        BY DEF DriverCalls, Stop, Takes, TakeLine, FloppyDone, Devices, Ticks, videoVars
    <3> QED BY <2>1, <2>2, <2>3, <2>4, <3>1, <3>2, <3>3 DEF OldNext, Takes
  <2>5. CASE UNCHANGED oldVars BY <2>3, <2>5 DEF oldVars, videoVars
  <2> QED BY <2>4, <2>5
<1> QED BY <1>1, <1>2, PTL DEF OldSpec

\* The text output stays near the screen.
THEOREM ScreenStaysNear == OldSpec => []NearScreen
<1>1. VideoInv => NearScreen BY DEF VideoInv, ScreenType, NearScreen
<1> QED BY <1>1, VideoStaysNear, PTL
=============================================================================
