--------------------------- MODULE MCKeyboardGetch --------------------------
(***************************************************************************)
(* KeyboardGetch on six keys: left shift, the two control keys, which have *)
(* one code between them, a lock key, a key with a character and Print     *)
(* Screen, an extended key without one, around which the keyboard may fake *)
(* a left shift, as it may around right control.                           *)
(***************************************************************************)
EXTENDS KeyboardGetch

CONSTANTS LeftShift, Control, A, PrintScreen, LeftControl, RightControl

SixKeys == {LeftShift, LeftControl, RightControl, CapsLock, A, PrintScreen}
SharedCode ==
    [k \in SixKeys |-> IF k \in {LeftControl, RightControl} THEN Control ELSE k]
=============================================================================
