----------------------------- MODULE FDCProofs ------------------------------
(***************************************************************************)
(* Theorems about FDC for every set of requests, every timeout and every   *)
(* width of its counter: each wait is ended by the interrupt it is for, a  *)
(* transfer is commanded with the heads and the DMA channel where they     *)
(* should be, and the callers of the driver have a block device.           *)
(***************************************************************************)
EXTENDS FDC, TLAPS

-----------------------------------------------------------------------------
(* The DMA channel *)

\* A state of the channel; its page is always 0.
State(masked, high, address, count, mode, midway) ==
    [masked |-> masked, high |-> high, address |-> address, count |-> count,
     page |-> 0, mode |-> mode, midway |-> midway]

\* The channel as DMAInit leaves it, with the mode of the last transfer.
Channel(mode, midway) == State(0, 0, 32256, 511, mode, midway)

\* The writes of DMAInit, one after another.
LEMMA SetUp == DMAInit(BiosChannel) = Channel(0, FALSE)
<1> DEFINE masked == State(1, 0, 0, 0, 0, FALSE)
           addressed == State(1, 0, 32256, 0, 0, FALSE)
           counted == State(1, 0, 32256, 511, 0, FALSE)
           ready == State(0, 0, 32256, 511, 0, FALSE)
<1>1. Mask(BiosChannel) = masked
  BY SMT DEF Mask, Outb, BiosChannel, State
<1>2. ResetFlipFlop(masked) = masked
  BY SMT DEF ResetFlipFlop, Outb, State
<1>3. SetAddress(masked) = addressed
  <2> DEFINE low == State(1, 1, 0, 0, 0, FALSE)
  <2>1. Outb(masked, <<4, 0>>) = low
    BY SMT DEF Outb, State, WithByte
  <2>2. Outb(low, <<4, 126>>) = addressed
    BY SMT DEF Outb, State, WithByte
  <2> HIDE DEF masked, low, addressed
  <2> QED BY <2>1, <2>2 DEF SetAddress
<1>4. ResetFlipFlop(addressed) = addressed
  BY SMT DEF ResetFlipFlop, Outb, State
<1>5. SetCount(addressed) = counted
  <2> DEFINE low == State(1, 1, 32256, 255, 0, FALSE)
  <2>1. Outb(addressed, <<5, 255>>) = low
    BY SMT DEF Outb, State, WithByte
  <2>2. Outb(low, <<5, 1>>) = counted
    BY SMT DEF Outb, State, WithByte
  <2> HIDE DEF addressed, low, counted
  <2> QED BY <2>1, <2>2 DEF SetCount
<1>6. SetPage(counted) = counted
  BY SMT DEF SetPage, Outb, State
<1>7. Unmask(counted) = ready
  BY SMT DEF Unmask, Outb, State
<1>8. Channel(0, FALSE) = ready
  BY DEF Channel
<1> HIDE DEF masked, addressed, counted, ready
<1> QED BY <1>1, <1>2, <1>3, <1>4, <1>5, <1>6, <1>7, <1>8, Zenon DEF DMAInit

LEMMA Directions ==
    ASSUME NEW mode, NEW midway
    PROVE  /\ DMARead(Channel(mode, midway)) = Channel(86, midway)
           /\ DMAWrite(Channel(mode, midway)) = Channel(90, midway)
<1> DEFINE S(m, o) == State(m, 0, 32256, 511, o, midway)
<1>1. Mask(S(0, mode)) = S(1, mode)
  BY SMT DEF Mask, Outb, State
<1>2. Outb(S(1, mode), <<11, 86>>) = S(1, 86)
  BY SMT DEF Outb, State
<1>3. Outb(S(1, mode), <<11, 90>>) = S(1, 90)
  BY SMT DEF Outb, State
<1>4. Unmask(S(1, 86)) = S(0, 86)
  BY SMT DEF Unmask, Outb, State
<1>5. Unmask(S(1, 90)) = S(0, 90)
  BY SMT DEF Unmask, Outb, State
<1>6. /\ Channel(mode, midway) = S(0, mode)
      /\ Channel(86, midway) = S(0, 86)
      /\ Channel(90, midway) = S(0, 90)
  BY DEF Channel
<1> HIDE DEF S
<1> QED BY <1>1, <1>2, <1>3, <1>4, <1>5, <1>6 DEF DMARead, DMAWrite

LEMMA Fields ==
    ASSUME NEW mode, NEW midway \in BOOLEAN, NEW m \in BOOLEAN
    PROVE  /\ Channel(mode, midway).mode = mode
           /\ Channel(mode, midway).midway = midway
           /\ [Channel(mode, midway) EXCEPT !.midway = m] = Channel(mode, m)
BY SMT DEF Channel, State

LEMMA Carries ==
    ASSUME NEW write \in BOOLEAN, NEW midway
    PROVE  CarriesSector(Channel(IF write THEN 90 ELSE 86, midway), write)
BY SMT DEF CarriesSector, Channel, State

-----------------------------------------------------------------------------
(* Sector numbers *)

\* The three bytes of a command name the sector asked for, and no other.
LEMMA SectorAsked ==
    ASSUME NEW lba \in Nat, lba < SectorCount
    PROVE  OnDisk(LBA2CHS(lba)) /\ SectorAt(LBA2CHS(lba)) = lba
<1> DEFINE c == lba \div 36
           r == lba % 36
           h == r \div 18
           s == r % 18
<1>1. c \in 0 .. 79 /\ r \in 0 .. 35 /\ lba = 36 * c + r
  BY DEF SectorCount
<1> HIDE DEF c, r
<1>2. h \in 0 .. 1 /\ s \in 0 .. 17 /\ r = 18 * h + s BY <1>1
<1>3. LBA2CHS(lba) = [C |-> c, H |-> h, S |-> s + 1]
  BY DEF LBA2CHS, c, r
<1> HIDE DEF h, s
<1>4. (c * 2 + h) * 18 + (s + 1) - 1 = lba BY <1>1, <1>2
<1> QED BY <1>1, <1>2, <1>3, <1>4 DEF OnDisk, SectorAt

-----------------------------------------------------------------------------
(* The invariant *)

Places ==
    {"start", "idle", "seek", "wait", "hlt", "halted", "clear", "sense", "count",
     "drain", "compare", "transfer", "result", "sense2", "off"}

Waits == {"sense", "drain", "result"}

\* In WaitIRQ.
Waiting == pc \in {"wait", "hlt", "halted", "clear"}

Controllers ==
    [busy : {"no", "seek", "transfer", "reset"}, pending : BOOLEAN, polled : Nat,
     results : {0, 7}]

Drives ==
    [motor : BOOLEAN, cylinder : Int, buffer : Int, wrote : SUBSET Int,
     panicked : BOOLEAN, outcome : {"none", "moved", "failed", "misplaced"}]

USE DEF Controllers, Drives

\* The controller and the drive have the fields their users expect.
PartsInv ==
    /\ pc \in Places
    /\ line \in BOOLEAN
    /\ IRQReceived \in {0, 1}
    /\ fdc \in Controllers
    /\ drive \in Drives
    /\ call \in [write : BOOLEAN, lba : Nat] /\ call.lba < SectorCount

\* The command WaitIRQ waits for.
CommandOf(where) ==
    IF where = "sense" THEN "seek"
    ELSE IF where = "drain" THEN "reset" ELSE "transfer"

\* The controller has done the command and says so.
Answered == fdc.busy = "no" /\ fdc.pending

\* A command is given only right before its wait, and a wait is left only after
\* its interrupt has come by, so there is never more than one interrupt about.
WaitInv ==
    /\ Waiting =>
          /\ resume \in Waits
          /\ \/ fdc.busy = CommandOf(resume) /\ ~ line /\ IRQReceived = 0
             \/ Answered /\ (line <=> IRQReceived = 0)
          /\ pc = "clear" => IRQReceived = 1
    /\ ~ Waiting => fdc.busy = "no" /\ ~ line /\ IRQReceived = 0
    /\ pc \in Waits => Answered

\* The answer to the command under way, or just over, can be read.
AnswerInv ==
    /\ pc = "drain" \/ (Waiting /\ resume = "drain" /\ fdc.busy = "no")
          => fdc.polled = 4
    /\ pc = "result" \/ (Waiting /\ resume = "result" /\ fdc.busy = "no")
          => fdc.results = 7

\* Until a seek has been given up the driver knows where the heads are.
HeadsInv ==
    ~ drive.panicked =>
        /\ pc \notin {"start", "idle"} => drive.motor
        /\ pc \in {"count", "compare", "transfer"} => read = drive.cylinder
        /\ pc = "transfer" => read = Target.C
        /\ fdc.busy = "transfer" => drive.cylinder = Target.C
        /\ pc # "drain" /\ ~ (Waiting /\ resume = "drain")

\* FDC_Init sets the channel up for good, but for the direction.
ChannelInv ==
    /\ pc = "start" => dma = BiosChannel
    /\ pc # "start" => dma = Channel(dma.mode, dma.midway)
    /\ dma.midway \in BOOLEAN
    /\ fdc.busy = "transfer" => dma.mode = IF call.write THEN 90 ELSE 86

\* The transfer of the call has been made.
Over ==
    \/ pc \in {"result", "sense2", "off"}
    \/ Waiting /\ resume = "result" /\ fdc.busy = "no"

\* A call makes one transfer.
CallInv ==
    /\ pc \notin {"start", "idle"} /\ ~ Over =>
          drive.outcome = "none" /\ drive.wrote = {}
    /\ Over => drive.outcome # "none"

-----------------------------------------------------------------------------
(* The invariant holds *)

LEMMA NoSectorIsANumber == NoSector \in Int
BY DEF NoSector

LEMMA CylindersAreNumbers == Cylinders \subseteq Int
<1>1. \A lba \in Requests : LBA2CHS(lba).C \in Int
  BY RequestsAssumption DEF LBA2CHS
<1> QED BY <1>1 DEF Cylinders

\* The answers SENSE_INTERRUPT can give.
LEMMA SenseLeaves ==
    ASSUME PartsInv, SenseInterrupt
    PROVE  /\ fdc' \in Controllers
           /\ fdc'.busy = fdc.busy /\ fdc'.results = fdc.results
           /\ fdc.pending => read' = drive.cylinder
<1> DEFINE left == IF fdc.polled > 0 THEN fdc.polled - 1 ELSE 0
           more == left > 0
<1>1. left \in Nat BY DEF PartsInv
<1>2. more \in BOOLEAN OBVIOUS
<1>3. fdc' = [fdc EXCEPT !.polled = left, !.pending = more]
  BY DEF SenseInterrupt
<1> HIDE DEF left, more
<1>4. /\ fdc' \in Controllers
      /\ fdc'.busy = fdc.busy /\ fdc'.results = fdc.results
  BY <1>1, <1>2, <1>3 DEF PartsInv
<1>5. fdc.pending => read' = drive.cylinder
  BY DEF SenseInterrupt
<1> QED BY <1>4, <1>5

\* However a transfer ends, it leaves the heads and the channel's set-up.
LEMMA TransferLeaves ==
    ASSUME PartsInv, Moves \/ Errs \/ Misplaces
    PROVE  /\ drive'.motor = drive.motor /\ drive'.cylinder = drive.cylinder
           /\ drive'.panicked = drive.panicked /\ drive'.outcome # "none"
           /\ \E midway \in BOOLEAN : dma' = [dma EXCEPT !.midway = midway]
                                     \/ dma' = dma
<1>1. CASE Moves
  <2>1. CASE call.write BY <1>1, <2>1 DEF Moves, PartsInv
  <2>2. CASE ~ call.write BY <1>1, <2>2 DEF Moves, PartsInv
  <2> QED BY <2>1, <2>2
<1>2. CASE Errs
  <2>1. PICK b : drive' = [drive EXCEPT !.outcome = "failed", !.buffer = b]
    BY <1>2, Zenon DEF Errs
  <2>2. \E midway \in BOOLEAN : dma' = [dma EXCEPT !.midway = midway]
    BY <1>2, Zenon DEF Errs
  <2> QED BY <2>1, <2>2 DEF PartsInv
<1>3. CASE Misplaces
  BY <1>3 DEF Misplaces, PartsInv
<1> QED BY <1>1, <1>2, <1>3

\* Every step leaves the parts what they are.
LEMMA PartsStep ==
    ASSUME PartsInv, WaitInv, [Next]_vars
    PROVE  PartsInv'
<1> USE DEF PartsInv, Places
<1>1. CASE SeekEnds
  BY <1>1, CylindersAreNumbers DEF SeekEnds
<1>2. CASE TransferEnds
  <2>1. CASE Moves
    <3>1. SectorAt(Target) \in Int
      BY SectorAsked DEF Target
    <3>2. CASE call.write
      BY <1>2, <2>1, <3>1, <3>2 DEF TransferEnds, Moves
    <3>3. CASE ~ call.write
      BY <1>2, <2>1, <3>1, <3>3 DEF TransferEnds, Moves
    <3> QED BY <3>2, <3>3
  <2>2. CASE Errs
    <3>1. PICK b \in {drive.buffer} \cup (IF call.write THEN {} ELSE {NoSector}) :
              drive' = [drive EXCEPT !.outcome = "failed", !.buffer = b]
      BY <2>2, Zenon DEF Errs
    <3>2. b \in Int
      BY <3>1, NoSectorIsANumber
    <3>3. drive' \in Drives
      BY <3>1, <3>2
    <3> QED BY <1>2, <3>3 DEF TransferEnds
  <2>3. CASE Misplaces
    <3>1. CASE call.write
      BY <1>2, <2>3, <3>1 DEF TransferEnds, Misplaces
    <3>2. CASE ~ call.write
      BY <1>2, <2>3, <3>2, NoSectorIsANumber DEF TransferEnds, Misplaces
    <3> QED BY <3>1, <3>2
  <2> QED BY <1>2, <2>1, <2>2, <2>3 DEF TransferEnds
<1>3. CASE ResetEnds
  BY <1>3 DEF ResetEnds
<1>4. CASE IRQHandler
  BY <1>4 DEF IRQHandler
<1>5. CASE Tick
  BY <1>5 DEF Tick
<1>6. CASE TestIRQ
  BY <1>6 DEF TestIRQ
<1>7. CASE Halt
  BY <1>7 DEF Halt
<1>8. CASE ClearIRQ
  BY <1>8 DEF ClearIRQ, Waiting, WaitInv, Waits
<1>9. CASE FDC_Init
  BY <1>9 DEF FDC_Init
<1>10. CASE Seek
  BY <1>10 DEF Seek, Issue, WaitThen
<1>11. CASE SenseSeek
  <2>1. fdc' \in Controllers
    BY <1>11, SenseLeaves DEF SenseSeek
  <2> QED BY <1>11, <2>1 DEF SenseSeek
<1>12. CASE CountTimeout
  <2>1. CASE Timeout = TimeoutLimit
    <3>1. drive' \in Drives
      BY <1>12, <2>1 DEF CountTimeout
    <3>2. fdc' \in Controllers
      BY <1>12, <2>1 DEF CountTimeout, Issue
    <3> QED BY <1>12, <2>1, <3>1, <3>2 DEF CountTimeout, WaitThen
  <2>2. CASE Timeout # TimeoutLimit
    BY <1>12, <2>2 DEF CountTimeout
  <2> QED BY <2>1, <2>2
<1>13. CASE DrainReset
  BY <1>13 DEF DrainReset
<1>14. CASE Compare
  BY <1>14 DEF Compare
<1>15. CASE Transfer
  BY <1>15 DEF Transfer, Issue, WaitThen
<1>16. CASE Results
  BY <1>16 DEF Results
<1>17. CASE SenseTransfer
  <2>1. fdc' \in Controllers
    BY <1>17, SenseLeaves DEF SenseTransfer
  <2> QED BY <1>17, <2>1 DEF SenseTransfer
<1>18. CASE MotorOff
  BY <1>18 DEF MotorOff
<1>19. ASSUME NEW write \in BOOLEAN, NEW lba \in Requests, Call(write, lba)
      PROVE  PartsInv'
  <2>1. call' \in [write : BOOLEAN, lba : Nat] /\ call'.lba < SectorCount
    BY <1>19, RequestsAssumption DEF Call
  <2>2. drive' = [drive EXCEPT !.motor = TRUE, !.wrote = {}, !.outcome = "none"]
    BY <1>19 DEF Call
  <2>3. drive' \in Drives
    BY <2>2
  <2> QED BY <1>19, <2>1, <2>3 DEF Call
<1>20. CASE UNCHANGED vars
  BY <1>20 DEF vars
<1> QED BY <1>1, <1>2, <1>3, <1>4, <1>5, <1>6, <1>7, <1>8, <1>9, <1>10,
          <1>11, <1>12, <1>13, <1>14, <1>15, <1>16, <1>17, <1>18, <1>19, <1>20
       DEF Next, Driver, Hardware, WaitIRQ, CallIgnored

\* The flag and the line are raised once for each command.
LEMMA WaitStep ==
    ASSUME PartsInv, WaitInv, [Next]_vars
    PROVE  WaitInv'
<1> USE DEF WaitInv, PartsInv, Places, Waits, Waiting, Answered, CommandOf
<1>1. CASE SeekEnds
  BY <1>1 DEF SeekEnds
<1>2. CASE TransferEnds
  BY <1>2 DEF TransferEnds
<1>3. CASE ResetEnds
  BY <1>3 DEF ResetEnds
<1>4. CASE IRQHandler
  BY <1>4 DEF IRQHandler
<1>5. CASE Tick
  BY <1>5 DEF Tick
<1>6. CASE TestIRQ
  BY <1>6 DEF TestIRQ
<1>7. CASE Halt
  BY <1>7 DEF Halt
<1>8. CASE ClearIRQ
  BY <1>8 DEF ClearIRQ
<1>9. CASE FDC_Init
  BY <1>9 DEF FDC_Init
<1>10. CASE Seek
  BY <1>10 DEF Seek, Issue, WaitThen
<1>11. CASE SenseSeek
  BY <1>11, SenseLeaves DEF SenseSeek
<1>12. CASE CountTimeout
  BY <1>12 DEF CountTimeout, Issue, WaitThen
<1>13. CASE DrainReset
  BY <1>13 DEF DrainReset
<1>14. CASE Compare
  BY <1>14 DEF Compare
<1>15. CASE Transfer
  BY <1>15 DEF Transfer, Issue, WaitThen
<1>16. CASE Results
  BY <1>16 DEF Results
<1>17. CASE SenseTransfer
  BY <1>17, SenseLeaves DEF SenseTransfer
<1>18. CASE MotorOff
  BY <1>18 DEF MotorOff
<1>19. ASSUME NEW write \in BOOLEAN, NEW lba \in Requests, Call(write, lba)
      PROVE  WaitInv'
  BY <1>19 DEF Call
<1>20. CASE UNCHANGED vars
  BY <1>20 DEF vars
<1> QED BY <1>1, <1>2, <1>3, <1>4, <1>5, <1>6, <1>7, <1>8, <1>9, <1>10,
          <1>11, <1>12, <1>13, <1>14, <1>15, <1>16, <1>17, <1>18, <1>19, <1>20
       DEF Next, Driver, Hardware, WaitIRQ, CallIgnored

\* The result stays until it is read.
LEMMA AnswerStep ==
    ASSUME PartsInv, WaitInv, AnswerInv, [Next]_vars
    PROVE  AnswerInv'
<1> USE DEF AnswerInv, WaitInv, PartsInv, Places, Waits, Waiting, Answered, CommandOf
<1>1. CASE SeekEnds
  BY <1>1 DEF SeekEnds
<1>2. CASE TransferEnds
  BY <1>2 DEF TransferEnds
<1>3. CASE ResetEnds
  BY <1>3 DEF ResetEnds
<1>4. CASE IRQHandler
  BY <1>4 DEF IRQHandler
<1>5. CASE Tick
  BY <1>5 DEF Tick
<1>6. CASE TestIRQ
  BY <1>6 DEF TestIRQ
<1>7. CASE Halt
  BY <1>7 DEF Halt
<1>8. CASE ClearIRQ
  BY <1>8 DEF ClearIRQ
<1>9. CASE FDC_Init
  BY <1>9 DEF FDC_Init
<1>10. CASE Seek
  BY <1>10 DEF Seek, Issue, WaitThen
<1>11. CASE SenseSeek
  BY <1>11, SenseLeaves DEF SenseSeek
<1>12. CASE CountTimeout
  BY <1>12 DEF CountTimeout, Issue, WaitThen
<1>13. CASE DrainReset
  BY <1>13 DEF DrainReset
<1>14. CASE Compare
  BY <1>14 DEF Compare
<1>15. CASE Transfer
  BY <1>15 DEF Transfer, Issue, WaitThen
<1>16. CASE Results
  BY <1>16 DEF Results
<1>17. CASE SenseTransfer
  BY <1>17, SenseLeaves DEF SenseTransfer
<1>18. CASE MotorOff
  BY <1>18 DEF MotorOff
<1>19. ASSUME NEW write \in BOOLEAN, NEW lba \in Requests, Call(write, lba)
      PROVE  AnswerInv'
  BY <1>19 DEF Call
<1>20. CASE UNCHANGED vars
  BY <1>20 DEF vars
<1> QED BY <1>1, <1>2, <1>3, <1>4, <1>5, <1>6, <1>7, <1>8, <1>9, <1>10,
          <1>11, <1>12, <1>13, <1>14, <1>15, <1>16, <1>17, <1>18, <1>19, <1>20
       DEF Next, Driver, Hardware, WaitIRQ, CallIgnored

\* What the driver read of the heads stays true until it seeks again.
LEMMA HeadsStep ==
    ASSUME PartsInv, WaitInv, HeadsInv, [Next]_vars
    PROVE  HeadsInv'
<1> USE DEF HeadsInv, Target, PartsInv, WaitInv, Places, Waits, Waiting, Answered, CommandOf
<1>1. CASE SeekEnds
  BY <1>1 DEF SeekEnds
<1>2. CASE TransferEnds
  BY <1>2, TransferLeaves DEF TransferEnds
<1>3. CASE ResetEnds
  BY <1>3 DEF ResetEnds
<1>4. CASE IRQHandler
  BY <1>4 DEF IRQHandler
<1>5. CASE Tick
  BY <1>5 DEF Tick
<1>6. CASE TestIRQ
  BY <1>6 DEF TestIRQ
<1>7. CASE Halt
  BY <1>7 DEF Halt
<1>8. CASE ClearIRQ
  BY <1>8 DEF ClearIRQ
<1>9. CASE FDC_Init
  BY <1>9 DEF FDC_Init
<1>10. CASE Seek
  BY <1>10 DEF Seek, Issue, WaitThen
<1>11. CASE SenseSeek
  BY <1>11, SenseLeaves DEF SenseSeek
<1>12. CASE CountTimeout
  BY <1>12 DEF CountTimeout, Issue, WaitThen
<1>13. CASE DrainReset
  BY <1>13 DEF DrainReset
<1>14. CASE Compare
  BY <1>14 DEF Compare
<1>15. CASE Transfer
  BY <1>15 DEF Transfer, Issue, WaitThen
<1>16. CASE Results
  BY <1>16 DEF Results
<1>17. CASE SenseTransfer
  BY <1>17, SenseLeaves DEF SenseTransfer
<1>18. CASE MotorOff
  BY <1>18 DEF MotorOff
<1>19. ASSUME NEW write \in BOOLEAN, NEW lba \in Requests, Call(write, lba)
      PROVE  HeadsInv'
  BY <1>19 DEF Call
<1>20. CASE UNCHANGED vars
  BY <1>20 DEF vars
<1> QED BY <1>1, <1>2, <1>3, <1>4, <1>5, <1>6, <1>7, <1>8, <1>9, <1>10,
          <1>11, <1>12, <1>13, <1>14, <1>15, <1>16, <1>17, <1>18, <1>19, <1>20
       DEF Next, Driver, Hardware, WaitIRQ, CallIgnored

\* A call has one outcome.
LEMMA CallStep ==
    ASSUME PartsInv, WaitInv, CallInv, [Next]_vars
    PROVE  CallInv'
<1> USE DEF CallInv, Over, PartsInv, WaitInv, Places, Waits, Waiting, Answered, CommandOf
<1>1. CASE SeekEnds
  BY <1>1 DEF SeekEnds
<1>2. CASE TransferEnds
  BY <1>2, TransferLeaves DEF TransferEnds
<1>3. CASE ResetEnds
  BY <1>3 DEF ResetEnds
<1>4. CASE IRQHandler
  BY <1>4 DEF IRQHandler
<1>5. CASE Tick
  BY <1>5 DEF Tick
<1>6. CASE TestIRQ
  BY <1>6 DEF TestIRQ
<1>7. CASE Halt
  BY <1>7 DEF Halt
<1>8. CASE ClearIRQ
  BY <1>8 DEF ClearIRQ
<1>9. CASE FDC_Init
  BY <1>9 DEF FDC_Init
<1>10. CASE Seek
  BY <1>10 DEF Seek, Issue, WaitThen
<1>11. CASE SenseSeek
  BY <1>11, SenseLeaves DEF SenseSeek
<1>12. CASE CountTimeout
  BY <1>12 DEF CountTimeout, Issue, WaitThen
<1>13. CASE DrainReset
  BY <1>13 DEF DrainReset
<1>14. CASE Compare
  BY <1>14 DEF Compare
<1>15. CASE Transfer
  BY <1>15 DEF Transfer, Issue, WaitThen
<1>16. CASE Results
  BY <1>16 DEF Results
<1>17. CASE SenseTransfer
  BY <1>17, SenseLeaves DEF SenseTransfer
<1>18. CASE MotorOff
  BY <1>18 DEF MotorOff
<1>19. ASSUME NEW write \in BOOLEAN, NEW lba \in Requests, Call(write, lba)
      PROVE  CallInv'
  BY <1>19 DEF Call
<1>20. CASE UNCHANGED vars
  BY <1>20 DEF vars
<1> QED BY <1>1, <1>2, <1>3, <1>4, <1>5, <1>6, <1>7, <1>8, <1>9, <1>10,
          <1>11, <1>12, <1>13, <1>14, <1>15, <1>16, <1>17, <1>18, <1>19, <1>20
       DEF Next, Driver, Hardware, WaitIRQ, CallIgnored

\* No write to the channel undoes its set-up.
LEMMA ChannelStep ==
    ASSUME PartsInv, WaitInv, ChannelInv, [Next]_vars
    PROVE  ChannelInv'
<1>1. CASE SeekEnds
  BY <1>1 DEF SeekEnds, ChannelInv, PartsInv, WaitInv, Waiting
<1>2. CASE TransferEnds
  <2>1. PICK midway \in BOOLEAN :
            dma' = [dma EXCEPT !.midway = midway] \/ dma' = dma
    BY <1>2, TransferLeaves DEF TransferEnds
  <2>2. pc' # "start" /\ fdc'.busy = "no" /\ dma = Channel(dma.mode, dma.midway)
    BY <1>2 DEF TransferEnds, ChannelInv, PartsInv, WaitInv, Waiting
  <2>3. CASE dma' = dma
    BY <2>2, <2>3 DEF ChannelInv
  <2>4. CASE dma' = [dma EXCEPT !.midway = midway]
    <3>1. dma' = Channel(dma.mode, midway)
      BY <2>2, <2>4, Fields DEF ChannelInv
    <3>2. dma'.mode = dma.mode /\ dma'.midway = midway
      BY <3>1, Fields
    <3> QED BY <2>2, <3>1, <3>2 DEF ChannelInv
  <2> QED BY <2>1, <2>3, <2>4
<1>3. CASE ResetEnds
  BY <1>3 DEF ResetEnds, ChannelInv, PartsInv, WaitInv, Waiting
<1>4. CASE IRQHandler
  BY <1>4 DEF IRQHandler, ChannelInv, PartsInv, WaitInv, Waiting
<1>5. CASE Tick
  BY <1>5 DEF Tick, ChannelInv, PartsInv, WaitInv, Waiting
<1>6. CASE TestIRQ
  BY <1>6 DEF TestIRQ, ChannelInv, PartsInv, WaitInv, Waiting
<1>7. CASE Halt
  BY <1>7 DEF Halt, ChannelInv, PartsInv, WaitInv, Waiting
<1>8. CASE ClearIRQ
  BY <1>8 DEF ClearIRQ, Waits, ChannelInv, PartsInv, WaitInv, Waiting
<1>9. CASE FDC_Init
  <2>1. dma' = Channel(0, FALSE)
    BY <1>9, SetUp DEF FDC_Init, ChannelInv
  <2>2. dma'.mode = 0 /\ dma'.midway = FALSE
    BY <2>1, Fields
  <2> QED BY <1>9, <2>1, <2>2 DEF ChannelInv, FDC_Init, WaitInv, Waiting
<1>10. CASE Seek
  BY <1>10 DEF Seek, Issue, WaitThen, ChannelInv, PartsInv, WaitInv, Waiting
<1>11. CASE SenseSeek
  BY <1>11, SenseLeaves DEF SenseSeek, ChannelInv, PartsInv, WaitInv, Waiting
<1>12. CASE CountTimeout
  BY <1>12 DEF CountTimeout, Issue, WaitThen, ChannelInv, PartsInv, WaitInv, Waiting
<1>13. CASE DrainReset
  BY <1>13 DEF DrainReset, ChannelInv, PartsInv, WaitInv, Waiting
<1>14. CASE Compare
  BY <1>14 DEF Compare, ChannelInv, PartsInv, WaitInv, Waiting
<1>15. CASE Transfer
  <2> DEFINE mode == IF call.write THEN 90 ELSE 86
  <2>1. dma = Channel(dma.mode, dma.midway) /\ dma.midway \in BOOLEAN
    BY <1>15 DEF Transfer, ChannelInv
  <2>2. dma' = Channel(mode, dma.midway)
    BY <1>15, <2>1, Directions DEF Transfer
  <2>3. dma'.mode = mode /\ dma'.midway = dma.midway
    BY <2>1, <2>2, Fields
  <2>4. pc' = "wait" /\ call' = call
    BY <1>15 DEF Transfer, WaitThen
  <2> QED BY <2>1, <2>2, <2>3, <2>4 DEF ChannelInv
<1>16. CASE Results
  BY <1>16 DEF Results, ChannelInv, PartsInv, WaitInv, Waiting
<1>17. CASE SenseTransfer
  BY <1>17, SenseLeaves DEF SenseTransfer, ChannelInv, PartsInv, WaitInv, Waiting
<1>18. CASE MotorOff
  BY <1>18 DEF MotorOff, ChannelInv, PartsInv, WaitInv, Waiting
<1>19. ASSUME NEW write \in BOOLEAN, NEW lba \in Requests, Call(write, lba)
      PROVE  ChannelInv'
  BY <1>19 DEF Call, ChannelInv, PartsInv, WaitInv, Waiting
<1>20. CASE UNCHANGED vars
  BY <1>20 DEF vars, ChannelInv, PartsInv, WaitInv, Waiting
<1> QED BY <1>1, <1>2, <1>3, <1>4, <1>5, <1>6, <1>7, <1>8, <1>9, <1>10,
          <1>11, <1>12, <1>13, <1>14, <1>15, <1>16, <1>17, <1>18, <1>19, <1>20
       DEF Next, Driver, Hardware, WaitIRQ, CallIgnored

-----------------------------------------------------------------------------
(* The theorems *)

Inv == PartsInv /\ WaitInv /\ AnswerInv /\ HeadsInv /\ CallInv /\ ChannelInv

LEMMA InvInit == Init => Inv
<1> SUFFICES ASSUME Init PROVE Inv
  OBVIOUS
<1>1. PartsInv
  <2>1. pc \in Places /\ line \in BOOLEAN /\ IRQReceived \in {0, 1}
    BY DEF Init, Places
  <2>2. fdc \in Controllers
    BY DEF Init
  <2>3. drive \in Drives
    <3>1. {} \in SUBSET Int OBVIOUS
    <3> QED BY <3>1, NoSectorIsANumber DEF Init
  <2>4. call \in [write : BOOLEAN, lba : Nat] /\ call.lba < SectorCount
    BY DEF Init, SectorCount
  <2> QED BY <2>1, <2>2, <2>3, <2>4 DEF PartsInv
<1>2. WaitInv /\ AnswerInv /\ HeadsInv /\ CallInv
  BY DEF Init, WaitInv, AnswerInv, HeadsInv, CallInv, Over, Waiting, Waits
<1>3. ChannelInv
  BY DEF Init, ChannelInv, BiosChannel
<1> QED BY <1>1, <1>2, <1>3 DEF Inv

LEMMA InvStep == Inv /\ [Next]_vars => Inv'
BY PartsStep, WaitStep, AnswerStep, HeadsStep, CallStep, ChannelStep DEF Inv

LEMMA Invariant == Spec => []Inv
BY InvInit, InvStep, PTL DEF Spec

\* Every wait of the driver, for a seek, a reset or a transfer, is ended by the
\* interrupt of its own command, whatever the timer does and wherever in the
\* wait the interrupt comes (FDC.c:106-115).
THEOREM EachWaitItsOwn == Spec => []WaitsForItsOwn
<1>1. Inv => WaitsForItsOwn
  BY DEF Inv, WaitsForItsOwn, WaitInv, AnswerInv, Answered, Waiting, Waits
<1> QED BY <1>1, Invariant, PTL

\* Whatever calls came before and however their transfers ended, the channel of
\* a running transfer is set up for one sector in the call's direction, and until
\* a seek has been given up the motor is on and the heads are on the sector's
\* cylinder, for every timeout and every width of its counter (FDC.c:124-151,
\* 235-250).
THEOREM TransfersPrepared == Spec => []ReadyToTransfer
<1>1. Inv => ReadyToTransfer
  <2> SUFFICES ASSUME Inv, fdc.busy = "transfer"
               PROVE  /\ CarriesSector(dma, call.write)
                      /\ ~ drive.panicked => drive.motor /\ drive.cylinder = Target.C
    BY DEF ReadyToTransfer
  <2>1. dma = Channel(dma.mode, dma.midway) /\ dma.midway \in BOOLEAN
    BY DEF Inv, ChannelInv, WaitInv, Waiting
  <2>2. dma.mode = IF call.write THEN 90 ELSE 86
    BY DEF Inv, ChannelInv
  <2>3. call.write \in BOOLEAN
    BY DEF Inv, PartsInv
  <2>4. CarriesSector(dma, call.write)
    BY <2>1, <2>2, <2>3, Carries
  <2>5. ~ drive.panicked => drive.motor /\ drive.cylinder = Target.C
    BY DEF Inv, HeadsInv, WaitInv, Waiting
  <2> QED BY <2>4, <2>5
<1> QED BY <1>1, Invariant, PTL

-----------------------------------------------------------------------------
(* The driver is a block device *)

LEMMA BlockStart == Init => B!BlockInit
BY DEF Init, B!BlockInit, NoSector, BiosChannel

\* FDC_Init and the command of a transfer set registers of the channel, not
\* where its bytes go next.
LEMMA SetUpKeepsPlace ==
    ASSUME Inv, FDC_Init \/ Transfer
    PROVE  dma'.midway = dma.midway
<1>1. CASE FDC_Init
  <2>1. dma = BiosChannel BY <1>1 DEF FDC_Init, Inv, ChannelInv
  <2>2. dma' = Channel(0, FALSE) BY <1>1, <2>1, SetUp DEF FDC_Init
  <2> QED BY <2>1, <2>2, Fields DEF BiosChannel
<1>2. CASE Transfer
  <2>1. dma = Channel(dma.mode, dma.midway) /\ dma.midway \in BOOLEAN
    BY <1>2 DEF Transfer, Inv, ChannelInv
  <2>2. dma' = Channel(IF call.write THEN 90 ELSE 86, dma.midway)
    BY <1>2, <2>1, Directions DEF Transfer
  <2> QED BY <2>1, <2>2, Fields
<1> QED BY <1>1, <1>2

\* The steps between the call, its transfer and its return are unseen.
LEMMA Unseen ==
    ASSUME Inv,
           \/ SeekEnds \/ ResetEnds \/ IRQHandler \/ Tick \/ WaitIRQ \/ FDC_Init
           \/ Seek \/ SenseSeek \/ CountTimeout \/ DrainReset \/ Compare
           \/ Transfer \/ Results \/ SenseTransfer \/ UNCHANGED vars
    PROVE  UNCHANGED B!blockVars
<1> USE DEF Inv, PartsInv, B!blockVars
<1>1. CASE SeekEnds
  BY <1>1 DEF SeekEnds
<1>2. CASE ResetEnds
  BY <1>2 DEF ResetEnds
<1>3. CASE IRQHandler
  BY <1>3 DEF IRQHandler
<1>4. CASE Tick
  BY <1>4 DEF Tick
<1>5. CASE TestIRQ
  BY <1>5 DEF TestIRQ
<1>6. CASE Halt
  BY <1>6 DEF Halt
<1>7. CASE ClearIRQ
  BY <1>7 DEF ClearIRQ, WaitInv, Waiting, Waits
<1>8. CASE FDC_Init
  BY <1>8, SetUpKeepsPlace DEF FDC_Init
<1>9. CASE Seek
  BY <1>9 DEF Seek, WaitThen
<1>10. CASE SenseSeek
  BY <1>10 DEF SenseSeek
<1>11. CASE CountTimeout
  BY <1>11 DEF CountTimeout, WaitThen
<1>12. CASE DrainReset
  BY <1>12 DEF DrainReset
<1>13. CASE Compare
  BY <1>13 DEF Compare
<1>14. CASE Transfer
  BY <1>14, SetUpKeepsPlace DEF Transfer, WaitThen
<1>15. CASE Results
  BY <1>15 DEF Results
<1>16. CASE SenseTransfer
  BY <1>16 DEF SenseTransfer
<1>17. CASE UNCHANGED vars
  BY <1>17 DEF vars
<1> QED BY <1>1, <1>2, <1>3, <1>4, <1>5, <1>6, <1>7, <1>8, <1>9, <1>10,
          <1>11, <1>12, <1>13, <1>14, <1>15, <1>16, <1>17
       DEF WaitIRQ

\* The end of the transfer command is the abstract transfer.
LEMMA TransferIsOne ==
    ASSUME Inv, TransferEnds
    PROVE  B!Transfer
<1>1. /\ pc \notin {"start", "idle"} /\ pc' = pc /\ call' = call
      /\ drive.outcome = "none" /\ drive.wrote = {}
  BY DEF TransferEnds, Inv, PartsInv, WaitInv, CallInv, Over, Waiting
<1>2. call.write \in BOOLEAN /\ call.lba \in Nat /\ call.lba < SectorCount
  BY DEF Inv, PartsInv
<1>3. SectorAt(Target) = call.lba
  BY <1>2, SectorAsked DEF Target
<1>4. drive \in Drives
  BY DEF Inv, PartsInv
<1>5. dma = Channel(dma.mode, dma.midway) /\ dma.midway \in BOOLEAN
  BY DEF TransferEnds, Inv, ChannelInv, WaitInv, Waiting
<1>6. CASE Moves
  <2>1. dma'.midway = dma.midway /\ ~ dma.midway
    BY <1>6 DEF Moves
  <2>2. CASE call.write
    BY <1>1, <1>3, <1>4, <1>6, <2>1, <2>2 DEF Moves, B!Moves, B!Transfer
  <2>3. CASE ~ call.write
    BY <1>1, <1>3, <1>4, <1>6, <2>1, <2>3 DEF Moves, B!Moves, B!Transfer
  <2> QED BY <2>2, <2>3
<1>7. CASE Errs
  <2>1. PICK b \in {drive.buffer} \cup (IF call.write THEN {} ELSE {NoSector}) :
            drive' = [drive EXCEPT !.outcome = "failed", !.buffer = b]
    BY <1>7, Zenon DEF Errs
  <2>2. PICK midway \in BOOLEAN : dma' = [dma EXCEPT !.midway = midway]
    BY <1>7, Zenon DEF Errs
  <2>3. dma' = Channel(dma.mode, midway)
    BY <1>5, <2>2, Fields
  <2>4. dma'.midway \in BOOLEAN
    BY <2>3, Fields
  <2>5. drive'.buffer = b /\ drive'.outcome = "failed" /\ drive'.wrote = drive.wrote
    BY <1>4, <2>1
  <2>6. drive'.buffer \in IF call.write THEN {drive.buffer} ELSE {drive.buffer, -1}
    BY <2>1, <2>5 DEF NoSector
  <2> QED BY <1>1, <2>4, <2>5, <2>6 DEF B!Fails, B!Transfer
<1>8. CASE Misplaces
  <2>1. dma' = [dma EXCEPT !.midway = FALSE] /\ dma.midway
    BY <1>8 DEF Misplaces
  <2>2. dma' = Channel(dma.mode, FALSE)
    BY <1>5, <2>1, Fields
  <2>3. dma'.midway = FALSE
    BY <2>2, Fields
  <2>4. CASE call.write
    BY <1>1, <1>4, <1>8, <2>1, <2>3, <2>4 DEF Misplaces, B!Misplaces, B!Transfer
  <2>5. CASE ~ call.write
    BY <1>1, <1>4, <1>8, <2>1, <2>3, <2>5
       DEF Misplaces, B!Misplaces, B!Transfer, NoSector
  <2> QED BY <2>4, <2>5
<1> QED BY <1>6, <1>7, <1>8 DEF TransferEnds

LEMMA CallIsBegin ==
    ASSUME Inv, NEW write \in BOOLEAN, NEW lba \in Requests, Call(write, lba)
    PROVE  B!BlockNext
<1>1. lba \in {r \in Requests : r < SectorCount}
  BY DEF Call
<1>2. B!Begin(write, lba)
  BY DEF Call, B!Begin, Inv, PartsInv
<1> QED BY <1>1, <1>2 DEF B!BlockNext

LEMMA MotorOffIsReturn ==
    ASSUME Inv, MotorOff
    PROVE  B!Return
BY DEF MotorOff, B!Return, Inv, PartsInv, CallInv, Over

LEMMA BlockStep ==
    ASSUME Inv, [Next]_vars
    PROVE  [B!BlockNext]_B!blockVars
<1>1. ASSUME NEW write \in BOOLEAN, NEW lba \in Requests, Call(write, lba)
      PROVE  B!BlockNext
  BY <1>1, CallIsBegin
<1>2. CASE TransferEnds BY <1>2, TransferIsOne DEF B!BlockNext
<1>3. CASE MotorOff BY <1>3, MotorOffIsReturn DEF B!BlockNext
<1> QED BY <1>1, <1>2, <1>3, Unseen DEF Next, Driver, Hardware, CallIgnored

\* The driver is a block device for every set of requests: from a call to its
\* return it moves the sector asked for and no other, unless the transfer fails,
\* and only a transfer that stopped halfway makes the next one miss its place
\* (FDC.c:235-308).
THEOREM DriverIsBlockDevice == Spec => ImplementsBlockDevice
<1> QED BY Invariant, BlockStart, BlockStep, PTL
        DEF Spec, ImplementsBlockDevice, B!BlockSpec
=============================================================================
