-------------------------- MODULE MCInterruptEntry --------------------------
(***************************************************************************)
(* InterruptEntry with a line of each controller beside those of the timer *)
(* and the keyboard, the stubs of 16 lines at the end of the first 64 KiB  *)
(* and the system call's among the first addresses of the kernel.          *)
(***************************************************************************)
EXTENDS InterruptEntry

\* Nothing, the byte of ID, its upper half, EDI, EBX, the last two halves of
\* Regs, everything.
Written == {{}, {0}, {1}, {2, 3}, {10}, {16}, {17}, 0 .. 17}

Linked == [n \in IDs |-> IF n = SYSCALL THEN 10496 ELSE 65535 - 16 * n]
=============================================================================
