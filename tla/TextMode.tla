------------------------------ MODULE TextMode ------------------------------
(***************************************************************************)
(* The text-mode driver src/RedFox32/Source/Kernel/TextMode.c.  Video      *)
(* memory is an array of bytes, a character and a colour for each cell;    *)
(* ScreenPos is an unsigned offset into it that wraps at WordSize.  A byte *)
(* stored outside the array is not lost: it is recorded in stray.  A       *)
(* character and its colour are one model value g, stored as the two bytes *)
(* <<g, "char">> and <<g, "colour">>; Blank and Unset stand for the zero   *)
(* byte and for what the boot loader left.                                 *)
(***************************************************************************)
EXTENDS Integers

CONSTANTS
    XRESOLUTION,  \* TEXT_MODE_XRESOLUTION: bytes in a line, 160
    YRESOLUTION,  \* TEXT_MODE_YRESOLUTION: lines, 25
    WordSize,     \* 2^32: unsigned int wraps at it
    Glyphs,       \* characters with their colours
    Space,        \* the blank ' ' among them
    Blank, Unset

ASSUME ScreenAssumption ==
    /\ XRESOLUTION \in Nat /\ YRESOLUTION \in Nat
    /\ XRESOLUTION > 0 /\ XRESOLUTION % 2 = 0 /\ YRESOLUTION > 1
    /\ WordSize \in Nat /\ WordSize % 2 = 0
    /\ (YRESOLUTION + 2) * XRESOLUTION < WordSize
    /\ Space \in Glyphs /\ {Blank, Unset} \cap Glyphs = {}

MEMORY_SIZE == XRESOLUTION * YRESOLUTION

VARIABLES
    memory,     \* the bytes at TEXT_MODE_VIDEO_MEMORY
    ScreenPos,
    stray       \* offsets outside the array that have been stored to

vars == <<memory, ScreenPos, stray>>

Zero == <<Blank, "byte">>
Bios == <<Unset, "byte">>

Minus(a, b) == (a - b) % WordSize
Plus(a, b) == (a + b) % WordSize

\* The driver's state while a call is under way.
Video == [memory |-> memory, pos |-> ScreenPos, stray |-> stray]

\* ScrollScreen(1): each byte is copied XRESOLUTION lower and zeroed behind.
ScrollScreen(mem) ==
    [p \in 0 .. MEMORY_SIZE - 1 |->
        IF p < MEMORY_SIZE - XRESOLUTION THEN mem[p + XRESOLUTION] ELSE Zero]

\* Mutant of StickWithinBounds: the screen is scrolled a character too late.
StickOneLater(v) ==
    IF v.pos <= MEMORY_SIZE THEN v
    ELSE [v EXCEPT !.memory = ScrollScreen(@), !.pos = Minus(@, XRESOLUTION)]

\* The head of putch, which every call and every recursive call runs.
StickWithinBounds(v) ==
    IF v.pos < MEMORY_SIZE THEN v
    ELSE [v EXCEPT !.memory = ScrollScreen(@), !.pos = Minus(@, XRESOLUTION)]

Store(v, byte) ==
    LET p == v.pos IN
    IF p \in DOMAIN v.memory
    THEN [v EXCEPT !.memory = [@ EXCEPT ![p] = byte], !.pos = Plus(@, 1)]
    ELSE [v EXCEPT !.stray = @ \cup {p}, !.pos = Plus(@, 1)]

putch(v, g) ==
    Store(Store(StickWithinBounds(v), <<g, "char">>), <<g, "colour">>)

Return(v) == memory' = v.memory /\ ScreenPos' = v.pos /\ stray' = v.stray

-----------------------------------------------------------------------------

Init ==
    /\ memory = [p \in 0 .. MEMORY_SIZE - 1 |-> Bios]
    /\ ScreenPos = 0
    /\ stray = {}

PutGlyph(g) == Return(putch(Video, g))

\* case '\n'
NewLine ==
    LET v == StickWithinBounds(Video)
    IN Return([v EXCEPT !.pos = Plus(@, XRESOLUTION - (@ % XRESOLUTION))])

\* case '\t'
Tab ==
    LET v == StickWithinBounds(Video)
    IN Return(putch(putch(putch(putch(v, Space), Space), Space), Space))

\* case '\b', with the test ScreenPos > ScreenPos+2 at its end.
Backspace ==
    LET v == StickWithinBounds(Video)
        w == putch([v EXCEPT !.pos = Minus(@, 2)], Space)
        p == Minus(w.pos, 2)
    IN Return([w EXCEPT !.pos = IF p > Plus(p, 2) THEN 0 ELSE p])

ClearScreen ==
    Return([Video EXCEPT !.pos = 0,
                         !.memory = [p \in 0 .. MEMORY_SIZE - 1 |-> Zero]])

Lost == stray # {}

Call ==
    \/ \E g \in Glyphs : PutGlyph(g)
    \/ NewLine \/ Tab \/ Backspace \/ ClearScreen

\* Bound of the model: it ends with the first byte stored outside the screen,
\* from where on some other part of the machine has been written over.
Overwritten == Lost /\ UNCHANGED vars

Next == (~ Lost /\ Call) \/ Overwritten

Spec == Init /\ [][Next]_vars

-----------------------------------------------------------------------------

Rows == YRESOLUTION
Columns == XRESOLUTION \div 2

\* Where the cell of column x in line r begins.
At(r, x) == r * XRESOLUTION + 2 * x

\* The cell made of the bytes at p and p + 1, which always belong together.
Cell(mem, p) ==
    IF /\ mem[p][1] = mem[p + 1][1]
       /\ mem[p][2] = "char" <=> mem[p + 1][2] = "colour"
    THEN mem[p][1] ELSE "torn"

Grid(mem) == [r \in 0 .. Rows - 1 |-> [x \in 0 .. Columns - 1 |-> Cell(mem, At(r, x))]]

\* What a reader of the screen sees: cells and cursor.
Shown ==
    [cells |-> Grid(memory),
     row |-> ScreenPos \div XRESOLUTION,
     column |-> (ScreenPos % XRESOLUTION) \div 2]

T == INSTANCE Terminal WITH lost <- Lost, screen <- Shown

\* Whatever is printed, video memory and ScreenPos are those of a terminal
\* that scrolls line by line, and no byte outside the screen is touched, up to
\* a backspace in the top left corner (TextMode.c:10-72 and 118-125).
ImplementsTerminal == T!Spec
=============================================================================
