----------------------------- MODULE MemoryMap ------------------------------
(***************************************************************************)
(* CreateMemoryMap of BootloaderStage2/Stage2A.asm: the loop over the      *)
(* BIOS's list of memory regions (int 0x15, eax = 0xE820), and what        *)
(* MMAP_Display and CanSafelyAllocate of Kernel/Memory.c find of the table *)
(* it leaves at 0x8000.                                                    *)
(*                                                                         *)
(* A descriptor is told from the others by the number of the call it       *)
(* answered; of its fields only those are kept that the loop looks at.     *)
(* The buffer es:di is at slot di of the table, the count is in bp.        *)
(***************************************************************************)
EXTENDS Integers, Sequences

CONSTANTS
    MaxCalls,   \* bound of the model: calls until the BIOS ends its list
    FirstStart  \* the low word of the first region's start, as an address

VARIABLES
    pc,      \* "call", "answered", "created", "failed"
    answers, \* what the BIOS has answered so far (history)
    bp,      \* entries counted
    table,   \* what is stored in the slots from 0x8004 on
    mmap_ent \* the word at 0x8000

vars == <<pc, answers, bp, table, mmap_ent>>

\* size is what the BIOS leaves in cx, 0 for nothing stored; valid is bit 0 of
\* the extended attributes, which only a 24-byte answer overwrites; last is
\* ebx = 0; carry and signature are the carry flag and eax = "SMAP".
Answer ==
    [size : {0, 20, 24}, empty : BOOLEAN, valid : BOOLEAN, last : BOOLEAN,
     carry : BOOLEAN, signature : BOOLEAN]

\* What a slot holds: the number of the answer stored there last.
Nothing == 0
ENTRIES == 32772                   \* 0x8004

Init ==
    /\ pc = "call"
    /\ answers = <<>>
    /\ bp = 0
    /\ table = [s \in 0 .. MaxCalls |-> Nothing]
    /\ mmap_ent = 0    \* Stage2 zeroes it before the call

-----------------------------------------------------------------------------

First == Len(answers) = 1
Latest == answers[Len(answers)]

\* int 0x15: the BIOS (outside the repository) stores its next descriptor at
\* es:di.  It may do so in any size, and end the list with the last descriptor
\* or with the carry flag one call later.
Call ==
    /\ pc = "call"
    /\ \E a \in Answer :
          /\ Len(answers) = MaxCalls => a.carry
          /\ a.carry => a.size = 0
          /\ ~ a.signature => answers = <<>>
          /\ answers' = Append(answers, a)
          /\ table' = IF a.size = 0 THEN table
                      ELSE [table EXCEPT ![bp] = Len(answers')]
    /\ pc' = "answered"
    /\ UNCHANGED <<bp, mmap_ent>>

\* .failed: the first call is not supported, or there is a single descriptor.
Failed == First /\ (Latest.carry \/ ~ Latest.signature \/ Latest.last)

\* Mutant of Good: a region marked as ignored is kept.
KeepIgnored(a) == ~ a.carry /\ a.size # 0 /\ ~ a.empty

\* .jmpin: the descriptor is kept unless it is ignored or has no length.
Good(a) ==
    /\ ~ a.carry
    /\ a.size # 0
    /\ a.size = 24 => a.valid
    /\ ~ a.empty

Fail ==
    /\ pc = "answered" /\ Failed
    /\ pc' = "failed"
    /\ UNCHANGED <<answers, bp, table, mmap_ent>>

\* .jmpin to .e820f: only a kept descriptor moves bp and di on.
Advance ==
    /\ pc = "answered" /\ ~ Failed
    /\ bp' = IF Good(Latest) THEN bp + 1 ELSE bp
    /\ IF Latest.carry \/ Latest.last
       THEN pc' = "created" /\ mmap_ent' = bp'
       ELSE pc' = "call" /\ UNCHANGED mmap_ent
    /\ UNCHANGED <<answers, table>>

\* Stage2 goes on whether or not the carry flag is set.
Stopped == pc \in {"created", "failed"} /\ UNCHANGED vars

Next == Call \/ Fail \/ Advance \/ Stopped

Spec == Init /\ [][Next]_vars

-----------------------------------------------------------------------------

\* struct MemoryMap of Kernel/Memory.h laid over 0x8000: the word behind
\* NumEntries is the pointer Entries, so the entries CanSafelyAllocate walks
\* are where the first descriptor's start says.
NumEntries == mmap_ent
Entries == IF table[0] = Nothing THEN 0 ELSE FirstStart

\* MMAP_Display takes the address of the member for that of the first entry.
Displayed == ENTRIES

\* The regions of memory the BIOS described: those it did not mark as ignored
\* and that have a length, by the number of the answer.
Described ==
    {n \in DOMAIN answers : LET a == answers[n] IN
        /\ ~ a.carry /\ ~ a.empty
        /\ a.size = 20 \/ (a.size = 24 /\ a.valid)}

\* The table holds the BIOS's regions, all of them and in its order, whatever
\* it interleaves with them and however it ends the list (Stage2A.asm:216-242).
TableIsTheMap ==
    pc = "created" =>
        LET entries == 0 .. mmap_ent - 1 IN
        /\ {table[n] : n \in entries} = Described
        /\ \A m, n \in entries : m < n => table[m] < table[n]

\* What Stage2A.asm:195-196 says of the table, and MMAP_Display takes for
\* granted: the entries the kernel checks its allocations against are the ones
\* stored from 0x8004 on.
KernelFindsEntries ==
    pc = "created" /\ NumEntries > 0 => Entries = Displayed
=============================================================================
