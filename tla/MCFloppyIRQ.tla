---------------------------- MODULE MCFloppyIRQ -----------------------------
(***************************************************************************)
(* FloppyIRQ with a counter of eight values.                               *)
(***************************************************************************)
EXTENDS FloppyIRQ
=============================================================================
