-------------------------------- MODULE DMA ---------------------------------
(***************************************************************************)
(* Channel 2 of the first 8237, which carries the floppy's bytes, and the  *)
(* port writes with which the drivers set it up.  Kernel/Floppy.c has the  *)
(* three functions of Old/.../FDC.c unchanged.                             *)
(***************************************************************************)
EXTENDS Integers

\* The channel as the BIOS leaves it after the loader's reads, all of them to
\* addresses below 64 KiB: the page is 0 and its flip-flop at the low byte.
BiosChannel ==
    [masked |-> 0, high |-> 0, address |-> 0, count |-> 0, page |-> 0,
     mode |-> 0, midway |-> FALSE]

\* The byte of a word that the flip-flop points at.
WithByte(word, high, byte) ==
    IF high = 1 THEN byte * 256 + (word % 256)
    ELSE (word \div 256) * 256 + byte

\* What a write of <<port, byte>> does to the channel.  Port 0x0C is the
\* flip-flop's reset and 0x81 the channel's page.  Setting an address or a
\* count starts a transfer over; the transfer itself moves both along.
Outb(d, write) ==
    LET port == write[1] byte == write[2] IN
    [masked  |-> IF port = 10 /\ byte % 4 = 2 THEN byte \div 4 ELSE d.masked,
     mode    |-> IF port = 11 /\ byte % 4 = 2 THEN byte ELSE d.mode,
     address |-> IF port = 4 THEN WithByte(d.address, d.high, byte) ELSE d.address,
     count   |-> IF port = 5 THEN WithByte(d.count, d.high, byte) ELSE d.count,
     high    |-> IF port \in {4, 5} THEN 1 - d.high
                 ELSE IF port = 12 THEN 0 ELSE d.high,
     page    |-> IF port = 129 THEN byte ELSE d.page,
     midway  |-> IF port \in {4, 5} THEN FALSE ELSE d.midway]

Mask(d) == Outb(d, <<10, 6>>)
Unmask(d) == Outb(d, <<10, 2>>)

\* The flip-flop's reset goes to port 0xD8, the second controller's, and the
\* page to port 0x80: neither reaches the channel.
ResetFlipFlop(d) == Outb(d, <<216, 255>>)
SetPage(d) == Outb(d, <<128, 0>>)

\* Mutant of SetAddress: the low byte of the address is left out.
SetAddressHighOnly(d) == Outb(d, <<4, 126>>)

\* Address 0x7E00, count 0x01FF.
SetAddress(d) == Outb(Outb(d, <<4, 0>>), <<4, 126>>)
SetCount(d) == Outb(Outb(d, <<5, 255>>), <<5, 1>>)

DMAInit(d) ==
    LET addressed == SetAddress(ResetFlipFlop(Mask(d)))
        counted == SetCount(ResetFlipFlop(addressed))
    IN Unmask(SetPage(counted))

DMARead(d) == Unmask(Outb(Mask(d), <<11, 86>>))

DMAWrite(d) == Unmask(Outb(Mask(d), <<11, 90>>))

\* The channel carries a sector of 512 bytes between the drive and 0x7E00.
CarriesSector(d, write) ==
    /\ d.masked = 0
    /\ d.page * 65536 + d.address = 32256 /\ d.count = 511
    /\ d.mode = IF write THEN 90 ELSE 86
=============================================================================
