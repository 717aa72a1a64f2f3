---------------------------- MODULE MCMemoryMap -----------------------------
(***************************************************************************)
(* MemoryMap with a BIOS list of up to three descriptors of any kind, the  *)
(* first of them for memory from address 0 on, as on every PC.             *)
(***************************************************************************)
EXTENDS MemoryMap
=============================================================================
