------------------------------- MODULE Video --------------------------------
(***************************************************************************)
(* The loader's text output, Old/.../BootloaderStage2/Video.c: where the   *)
(* next byte goes, and how far behind the screen one has been stored.  The *)
(* main program prints with interrupts on, load by load and store by       *)
(* store; the floppy's interrupt handler prints with interrupts off, in    *)
(* one step for the main program.  What is on the screen is left out.      *)
(***************************************************************************)
EXTENDS Integers, Sequences

CONSTANTS
    VGA_XRESOLUTION,  \* bytes of a row; 160 in the code
    VGA_YRESOLUTION   \* 25 in the code

\* A row has room for a cell and the byte behind it.
ASSUME VideoAssumption ==
    /\ VGA_XRESOLUTION \in Nat /\ VGA_XRESOLUTION > 2
    /\ VGA_YRESOLUTION \in Nat /\ VGA_YRESOLUTION > 0

VARIABLES
    screen,  \* pos: ScreenPos; beyond: bytes behind the screen stored to
    text,    \* what the main program still has to print
    step,    \* where in putch it is
    loaded   \* the register it has loaded ScreenPos into

videoVars == <<screen, text, step, loaded>>

VGA_MEMORY_SIZE == VGA_XRESOLUTION * VGA_YRESOLUTION

\* A message is a glyph and a newline; the loader's dots are glyphs alone.
Newline == "newline"

VideoInit ==
    /\ screen = [pos |-> 0, beyond |-> 0]
    /\ text = <<>> /\ step = "test" /\ loaded = 0

\* A byte is stored at p and ScreenPos is the one behind it.
Stored(s, p) ==
    LET far == p + 1 - VGA_MEMORY_SIZE IN
    [pos |-> p + 1, beyond |-> IF far > s.beyond THEN far ELSE s.beyond]

NextRow(p, q) == p + VGA_XRESOLUTION - (q % VGA_XRESOLUTION)

\* A whole putch, and a whole puts of a message.
putch(s, ch) ==
    LET t == IF s.pos >= VGA_MEMORY_SIZE
             THEN [s EXCEPT !.pos = @ - VGA_XRESOLUTION] ELSE s IN
    IF ch = Newline THEN [t EXCEPT !.pos = NextRow(t.pos, t.pos)]
    ELSE Stored(Stored(t, t.pos), t.pos + 1)

puts(s) == putch(putch(s, "glyph"), Newline)

-----------------------------------------------------------------------------
(* putch in the main program *)

Printing == text # <<>>
Goes(from, to) == Printing /\ step = from /\ step' = to
NextChar == text' = Tail(text)

\* Mutant of Test: only a position just behind the screen scrolls.
TestEqual ==
    /\ Goes("test", IF screen.pos = VGA_MEMORY_SIZE THEN "scroll" ELSE "put")
    /\ UNCHANGED <<screen, text, loaded>>

Test ==
    /\ Goes("test", IF screen.pos >= VGA_MEMORY_SIZE THEN "scroll" ELSE "put")
    /\ UNCHANGED <<screen, text, loaded>>

\* ScreenPos is volatile: each use of it is a load, each assignment a store.
Load ==
    /\ \/ Goes("scroll", "scrolled")
       \/ Goes("put", IF Head(text) = Newline THEN "row" ELSE "char")
       \/ Goes("colour", "coloured")
    /\ loaded' = screen.pos
    /\ UNCHANGED <<screen, text>>

Scroll ==
    /\ Goes("scrolled", "put")
    /\ screen' = [screen EXCEPT !.pos = loaded - VGA_XRESOLUTION]
    /\ UNCHANGED <<text, loaded>>

NewRow ==
    /\ Goes("row", "test") /\ NextChar
    /\ screen' = [screen EXCEPT !.pos = NextRow(loaded, screen.pos)]
    /\ UNCHANGED loaded

StoreChar ==
    /\ Goes("char", "colour")
    /\ screen' = Stored(screen, loaded)
    /\ UNCHANGED <<text, loaded>>

StoreColour ==
    /\ Goes("coloured", "test") /\ NextChar
    /\ screen' = Stored(screen, loaded)
    /\ UNCHANGED loaded

PrintStep == Test \/ Load \/ Scroll \/ NewRow \/ StoreChar \/ StoreColour

\* Nothing is stored more than one cell behind the screen, also when the
\* handler fills the last row between the test of ScreenPos and the stores
\* (Video.c:22-38), and ScreenPos, which is unsigned, never goes below zero.
NearScreen == screen.beyond <= 2 /\ screen.pos >= 0
=============================================================================
