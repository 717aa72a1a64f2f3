------------------------------ MODULE Terminal ------------------------------
(***************************************************************************)
(* What Kernel/TextMode.c promises: a terminal of Rows lines of Columns    *)
(* cells with a cursor that moves right and down and scrolls by a line.    *)
(* The scroll is put off until the next character after the last line is   *)
(* full: till then the cursor is at line Rows.  Nothing is promised once a *)
(* backspace has been printed with the cursor in the top left corner.      *)
(***************************************************************************)
EXTENDS Integers

CONSTANTS
    Rows, Columns,
    Glyphs,  \* what is printed in a cell: a character and its colour
    Space,   \* the glyph a tab and a backspace leave
    Blank,   \* a cell of zero bytes
    Unset    \* a cell as the boot loader left it

VARIABLES
    screen,  \* the state of the terminal: cells and cursor
    lost     \* a backspace has been printed in the corner

terminalVars == <<screen, lost>>

Cells == [0 .. Rows - 1 -> [0 .. Columns - 1 -> Glyphs \cup {Blank, Unset}]]

Scrolled(s) ==
    IF s.row < Rows THEN s
    ELSE [s EXCEPT !.row = Rows - 1,
                   !.cells = [r \in 0 .. Rows - 1 |->
                       IF r < Rows - 1 THEN s.cells[r + 1]
                       ELSE [x \in 0 .. Columns - 1 |-> Blank]]]

Advanced(s) ==
    IF s.column < Columns - 1 THEN [s EXCEPT !.column = @ + 1]
    ELSE [s EXCEPT !.row = @ + 1, !.column = 0]

StepBack(s) ==
    IF s.column > 0 THEN [s EXCEPT !.column = @ - 1]
    ELSE [s EXCEPT !.row = @ - 1, !.column = Columns - 1]

Written(s, g) ==
    LET t == Scrolled(s)
    IN Advanced([t EXCEPT !.cells[t.row][t.column] = g])

Home(s) == s.row = 0 /\ s.column = 0

-----------------------------------------------------------------------------

Init ==
    /\ screen = [cells |-> [r \in 0 .. Rows - 1 |->
                               [x \in 0 .. Columns - 1 |-> Unset]],
                 row |-> 0, column |-> 0]
    /\ lost = FALSE

PutGlyph(g) == screen' = Written(screen, g) /\ UNCHANGED lost

NewLine ==
    /\ screen' = LET t == Scrolled(screen)
                 IN [t EXCEPT !.row = @ + 1, !.column = 0]
    /\ UNCHANGED lost

Tab ==
    /\ screen' = Written(Written(Written(Written(screen, Space), Space),
                                 Space), Space)
    /\ UNCHANGED lost

\* The cell before the cursor is emptied and the cursor moves onto it.
Backspace ==
    /\ ~ Home(screen)
    /\ screen' = LET t == StepBack(Scrolled(screen))
                 IN [t EXCEPT !.cells[t.row][t.column] = Space]
    /\ UNCHANGED lost

Clear ==
    /\ screen' = [cells |-> [r \in 0 .. Rows - 1 |->
                                [x \in 0 .. Columns - 1 |-> Blank]],
                  row |-> 0, column |-> 0]
    /\ UNCHANGED lost

Lose == Home(screen) /\ lost' = TRUE

Next ==
    /\ ~ lost
    /\ \/ \E g \in Glyphs : PutGlyph(g)
       \/ NewLine \/ Tab \/ Backspace \/ Clear
       \/ Lose

Spec == Init /\ [][Next]_terminalVars
=============================================================================
