------------------------------- MODULE MCFDC --------------------------------
(***************************************************************************)
(* FDC with a seek that panics when it is repeated a third time.           *)
(***************************************************************************)
EXTENDS FDC
=============================================================================
