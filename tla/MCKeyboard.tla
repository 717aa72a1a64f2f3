----------------------------- MODULE MCKeyboard -----------------------------
(***************************************************************************)
(* Keyboard on four keys: a hold key, a lock key, Escape and a key with an *)
(* extended scancode, moved up to MaxStrokes times.  The loop's properties *)
(* do not depend on the codes two keys share; those are in MCKeyboardGetch.*)
(***************************************************************************)
EXTENDS Keyboard

CONSTANT Delete

FourKeys == {LeftShift, CapsLock, Escape, Delete}
OwnCode == [k \in FourKeys |-> k]
=============================================================================
