-------------------------------- MODULE PIC ---------------------------------
(***************************************************************************)
(* The pair of 8259 interrupt controllers: in which order they deliver     *)
(* their lines, and what a delivery and an end-of-interrupt do to the set  *)
(* of lines in service.  Line 2 of the first stands for the second.        *)
(***************************************************************************)
EXTENDS Integers

\* Lines of the second controller come in at line 2 of the first.
Rank(l) == IF l <= 2 THEN l ELSE IF l >= 8 THEN l - 5 ELSE l + 8

InService(id) == IF id >= 8 THEN {2, id} ELSE {id}

\* The latched line of the highest priority.
First(irr) == CHOOSE l \in irr : \A m \in irr : Rank(l) <= Rank(m)

\* Nothing in service is in the way of a line.
Passes(l, isr) == \A s \in isr : Rank(l) < Rank(s)

\* Non-specific end of interrupt, sent to the first controller and perhaps to
\* the second: the line of the highest priority in service there is done.
Eoi(isr, second) ==
    LET Done(lines) == IF lines = {} THEN {}
                       ELSE {CHOOSE l \in lines : \A m \in lines : l <= m} IN
    isr \ (Done(isr \cap 0 .. 7) \cup IF second THEN Done(isr \cap 8 .. 15) ELSE {})
=============================================================================
