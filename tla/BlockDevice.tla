---------------------------- MODULE BlockDevice -----------------------------
(***************************************************************************)
(* What a floppy driver with one buffer promises: a call moves the sector  *)
(* it was asked for between disk and buffer, or fails; a failure may stop  *)
(* halfway, and only the call after such a one may move a sector's bytes   *)
(* to the wrong place.  The caller is not told which it was.               *)
(***************************************************************************)
EXTENDS Integers

CONSTANT Sectors

VARIABLES
    busy,
    call,    \* the call under way: [write, lba]
    outcome, \* of the transfer: "none" yet, "moved", "failed" or "misplaced"
    buffer,  \* the sector whose contents the buffer holds, or -1
    wrote,   \* the sectors the call has written
    midway   \* a transfer has stopped halfway

blockVars == <<busy, call, outcome, buffer, wrote, midway>>

BlockInit ==
    /\ ~ busy /\ call = [write |-> FALSE, lba |-> 0]
    /\ outcome = "none" /\ buffer = -1 /\ wrote = {} /\ ~ midway

Begin(write, lba) ==
    /\ ~ busy /\ busy' = TRUE
    /\ call' = [write |-> write, lba |-> lba]
    /\ outcome' = "none" /\ wrote' = {}
    /\ UNCHANGED <<buffer, midway>>

Moves ==
    /\ outcome' = "moved" /\ ~ midway
    /\ buffer' = IF call.write THEN buffer ELSE call.lba
    /\ wrote' = IF call.write THEN {call.lba} ELSE {}
    /\ UNCHANGED midway

\* The buffer keeps what it held or holds parts of two sectors.
Fails ==
    /\ outcome' = "failed"
    /\ buffer' \in IF call.write THEN {buffer} ELSE {buffer, -1}
    /\ midway' \in BOOLEAN
    /\ UNCHANGED wrote

Misplaces ==
    /\ outcome' = "misplaced" /\ midway
    /\ buffer' = IF call.write THEN buffer ELSE -1
    /\ midway' = FALSE
    /\ UNCHANGED wrote

Transfer == busy /\ outcome = "none" /\ (Moves \/ Fails \/ Misplaces) /\ UNCHANGED <<busy, call>>

Return ==
    /\ busy /\ outcome # "none" /\ busy' = FALSE
    /\ UNCHANGED <<call, outcome, buffer, wrote, midway>>

BlockNext ==
    \/ \E write \in BOOLEAN, lba \in Sectors : Begin(write, lba)
    \/ Transfer \/ Return

BlockSpec == BlockInit /\ [][BlockNext]_blockVars
=============================================================================
