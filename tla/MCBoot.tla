------------------------------- MODULE MCBoot -------------------------------
(***************************************************************************)
(* Boot with the sector counts and addresses of the source, a BIOS list of *)
(* up to three descriptors and every value of A20's Byte.                  *)
(***************************************************************************)
EXTENDS Boot
=============================================================================
