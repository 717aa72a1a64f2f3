---------------------------- MODULE MCOldKernel -----------------------------
(***************************************************************************)
(* OldKernel with a screen of two rows of four cells, two sectors of       *)
(* kernel and a line of the second controller beside timer and floppy.     *)
(***************************************************************************)
EXTENDS OldKernel
=============================================================================
