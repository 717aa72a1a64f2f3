------------------------------- MODULE Memory -------------------------------
(***************************************************************************)
(* The kernel heap of src/RedFox32/Source/Kernel/Memory.c: a bump          *)
(* allocator that writes a packed header before every block and links the  *)
(* headers in a doubly linked list.  malloc, free and realloc run with no  *)
(* caller but the kernel's main loop, so each call is one action.          *)
(*                                                                         *)
(* Addresses are integers below WordSize and the code's pointer arithmetic *)
(* is reduced modulo WordSize.  heap maps the address of every header that *)
(* malloc has written to the fields of that header; the field reserved is  *)
(* a history variable, the size the block was carved with.  Of the bytes   *)
(* of the payloads only one thing is modelled: a caller that writes to all *)
(* the bytes it was handed may write over a header (Fill).                 *)
(***************************************************************************)
EXTENDS Integers, Sequences

CONSTANTS
    WordSize,      \* 2^32: unsigned int and pointers wrap at it
    MemoryStart,   \* MEMORY_START, 0x00105000
    MemoryEnd,     \* the 0xFFFF0000 of CanSafelyAllocate
    HeaderSize,    \* sizeof(struct MemoryAllocation), 17
    Regions,       \* the memory-map entries CanSafelyAllocate walks, in order
    Requests,      \* the sizes callers ask malloc and realloc for
    FreshWords     \* what malloc may find in the Next word of a new header

ASSUME LayoutAssumption ==
    /\ WordSize \in Nat /\ MemoryStart \in Nat /\ MemoryEnd \in Nat
    /\ HeaderSize \in Nat
    /\ 0 < MemoryStart /\ MemoryStart <= MemoryEnd
    /\ MemoryEnd + HeaderSize + 1 < WordSize

ASSUME RequestAssumption ==
    /\ Requests \subseteq 0 .. WordSize - 1
    /\ FreshWords \subseteq 0 .. WordSize - 1

ASSUME RegionAssumption ==
    Regions \in Seq([Start : 0 .. WordSize - 1, Length : 0 .. WordSize - 1])

Word == 0 .. WordSize - 1
NULL == 0
Magic == "magic"       \* ALLOCATION_HEADER_MAGIC
Released == "released" \* the same word after free has incremented it

VARIABLES
    heap,                    \* header address -> header
    NextAllocationPosition,  \* where the next header goes
    MemoryAllocationList,    \* First, Last, NumAllocs
    status                   \* running, or how the machine was lost

vars == <<heap, NextAllocationPosition, MemoryAllocationList, status>>

Header ==
    [AllocationHeader : {Magic, Released}, Previous : Word, Next : Word,
     Length : Word, Flags : {0, 1}, reserved : Word]

Plus(a, b) == (a + b) % WordSize

RegionEnd(r) == Plus(r.Start, r.Length)

Within(a, lo, hi) == lo <= a /\ a <= hi

\* The two bounds checks of CanSafelyAllocate.
InBounds(p, n) ==
    /\ Within(p, MemoryStart, MemoryEnd)
    /\ Within(Plus(p, n), MemoryStart, MemoryEnd)

\* Mutant of Conflicts: the far end of the block is not tested.
ConflictsAtHeader(p, n, r) ==
    p <= RegionEnd(r) /\ Within(p, r.Start, RegionEnd(r))

\* The test CanSafelyAllocate makes of one entry of the memory map.
Conflicts(p, n, r) ==
    /\ p <= RegionEnd(r)
    /\ \/ Within(p, r.Start, RegionEnd(r))
       \/ Within(Plus(p, n), r.Start, RegionEnd(r))

MapClear(p, n) == \A i \in DOMAIN Regions : ~ Conflicts(p, n, Regions[i])

-----------------------------------------------------------------------------

Init ==
    /\ heap = [a \in {} |-> NULL]
    /\ NextAllocationPosition = MemoryStart
    /\ MemoryAllocationList = [First |-> NULL, Last |-> NULL, NumAllocs |-> 0]
    /\ status = "running"

\* MEMORY_START is also how malloc recognises the first block of the list.
IsFirst == NextAllocationPosition = MemoryStart

\* Mutant of NewHeader: the new block points back at the first, not the last.
NewHeaderAfterFirst(n, junk) ==
    [AllocationHeader |-> Magic,
     Previous |-> IF IsFirst THEN NULL ELSE MemoryAllocationList.First,
     Next |-> junk, Length |-> n, Flags |-> 1, reserved |-> n]

NewHeader(n, junk) ==
    [AllocationHeader |-> Magic,
     Previous |-> IF IsFirst THEN NULL ELSE MemoryAllocationList.Last,
     Next |-> junk,        \* malloc leaves this word as it finds it
     Length |-> n, Flags |-> 1, reserved |-> n]

\* Mutant of Carved: the last block is not told of the new one.
CarvedUnlinked(n, junk) ==
    [a \in DOMAIN heap \cup {NextAllocationPosition} |->
        IF a = NextAllocationPosition THEN NewHeader(n, junk) ELSE heap[a]]

\* The headers after malloc has carved n bytes at NextAllocationPosition and
\* hung the new header behind the last one.
Carved(n, junk) ==
    [a \in DOMAIN heap \cup {NextAllocationPosition} |->
        IF a = NextAllocationPosition THEN NewHeader(n, junk)
        ELSE IF a = MemoryAllocationList.Last /\ ~ IsFirst
        THEN [heap[a] EXCEPT !.Next = NextAllocationPosition]
        ELSE heap[a]]

Dropped(h, a) ==
    [h EXCEPT ![a] = [@ EXCEPT !.Flags = 0, !.AllocationHeader = Released]]

\* Mutant of Place: the next position does not count the header.
PlaceWithoutHeader(n, moved) ==
    /\ status' = IF NextAllocationPosition + n + HeaderSize + 1 >= WordSize
                 THEN "wrapped" ELSE status
    /\ \E junk \in FreshWords :
           heap' = IF moved = NULL THEN Carved(n, junk)
                   ELSE Dropped(Carved(n, junk), moved)
    /\ MemoryAllocationList' =
           [First |-> IF IsFirst THEN NextAllocationPosition
                      ELSE MemoryAllocationList.First,
            Last |-> NextAllocationPosition,
            NumAllocs |-> Plus(MemoryAllocationList.NumAllocs, 1)]
    /\ NextAllocationPosition' = Plus(NextAllocationPosition, n + 1)

\* What malloc(n) leaves behind when it returns; realloc then frees the block
\* it has moved (moved), and malloc none (NULL).  A size with which the sum of
\* the bounds check has come round to MemoryStart again hands out a block that
\* runs over the end of the address space, and with it over the heap.
Place(n, moved) ==
    /\ status' = IF NextAllocationPosition + n + HeaderSize + 1 >= WordSize
                 THEN "wrapped" ELSE status
    /\ \E junk \in FreshWords :
           heap' = IF moved = NULL THEN Carved(n, junk)
                   ELSE Dropped(Carved(n, junk), moved)
    /\ MemoryAllocationList' =
           [First |-> IF IsFirst THEN NextAllocationPosition
                      ELSE MemoryAllocationList.First,
            Last |-> NextAllocationPosition,
            NumAllocs |-> Plus(MemoryAllocationList.NumAllocs, 1)]
    /\ NextAllocationPosition' =
           Plus(NextAllocationPosition, n + HeaderSize + 1)

Carve(n, moved) ==
    /\ InBounds(NextAllocationPosition, n)
    /\ MapClear(NextAllocationPosition, n)
    /\ Place(n, moved)

\* malloc(n) does not return.  Outside the bounds it halts the machine.  Where
\* the memory map is in the way it calls itself for the gap, a call that finds
\* the same entry in the way; MemorySteps shows that no such call returns.
Fail(n) ==
    /\ \/ /\ ~ InBounds(NextAllocationPosition, n)
          /\ status' = "oom"
       \/ /\ InBounds(NextAllocationPosition, n)
          /\ ~ MapClear(NextAllocationPosition, n)
          /\ status' \in {"oom", "runaway"}
    /\ UNCHANGED <<heap, NextAllocationPosition, MemoryAllocationList>>

\* malloc.  A size of 0 returns NULL and changes nothing.
Malloc(n) ==
    /\ status = "running"
    /\ n # 0
    /\ Carve(n, NULL) \/ Fail(n)

\* free of a block malloc has returned; a second free is refused.
Free(a) ==
    /\ status = "running"
    /\ heap[a].AllocationHeader = Magic
    /\ heap' = Dropped(heap, a)
    /\ UNCHANGED <<NextAllocationPosition, MemoryAllocationList, status>>

\* realloc of a block malloc has returned.  It refuses a freed block, shrinks
\* in place, grows in place a block whose Next word is NULL, and otherwise
\* carves a new block and frees the old one.
Realloc(a, n) ==
    /\ status = "running"
    /\ heap[a].AllocationHeader = Magic
    /\ \/ /\ heap[a].Length >= n \/ heap[a].Next = NULL
          /\ heap' = [heap EXCEPT ![a] = [@ EXCEPT !.Length = n]]
          /\ UNCHANGED <<NextAllocationPosition, MemoryAllocationList, status>>
       \/ /\ heap[a].Length < n /\ heap[a].Next # NULL
          /\ Carve(n, a) \/ Fail(n)

\* The bytes malloc or realloc has handed out for the block at a end here.
End(a) == a + HeaderSize + heap[a].Length

Live(a) == heap[a].AllocationHeader = Magic

\* The caller writes to the bytes it was handed, and they hold the header of a
\* later block: realloc has lengthened the block at a in place and malloc has
\* carved another since.  Nothing is known of the list from here on.
Fill(a) ==
    /\ status = "running"
    /\ Live(a)
    /\ \E b \in DOMAIN heap : a < b /\ b < End(a)
    /\ status' = "overwritten"
    /\ UNCHANGED <<heap, NextAllocationPosition, MemoryAllocationList>>

\* The machine is lost: halted with interrupts off, recursing for ever, or with
\* a heap that is no longer one.
Lost == status # "running" /\ UNCHANGED vars

Next ==
    \/ \E n \in Requests : Malloc(n)
    \/ \E a \in DOMAIN heap : Free(a)
    \/ \E a \in DOMAIN heap, n \in Requests : Realloc(a, n)
    \/ \E a \in DOMAIN heap : Fill(a)
    \/ Lost

Spec == Init /\ [][Next]_vars

-----------------------------------------------------------------------------

Blocks == DOMAIN heap

\* No header has been overwritten and no block runs over the end of memory.
Intact == status \notin {"wrapped", "overwritten"}

\* realloc has made the block at a longer than malloc carved it.
Grown(a) == heap[a].Length > heap[a].reserved

\* The fields and the addresses keep to machine words.
TypeOK ==
    /\ Blocks \subseteq Word
    /\ heap \in [Blocks -> Header]
    /\ NextAllocationPosition \in Word
    /\ MemoryAllocationList \in [First : Word, Last : Word, NumAllocs : Word]
    /\ status \in {"running", "oom", "runaway", "wrapped", "overwritten"}

\* Two blocks share bytes only because realloc has lengthened the lower one in
\* place: a block that is not longer than malloc carved it ends, header and all,
\* below the next header and below the next position, although the bounds check
\* adds neither the header nor the carry.  Headers never meet, a header is only
\* overwritten by a caller whose block has grown, and only a size that takes the
\* sum of the bounds check past the word makes a block run over the end of
\* memory (malloc and realloc, Memory.c:161-225).
NoOverlap ==
    /\ Intact => \A a \in Blocks :
           /\ MemoryStart <= a /\ a + HeaderSize < NextAllocationPosition
           /\ Grown(a) \/ End(a) < NextAllocationPosition
           /\ \A b \in Blocks :
                  a < b => a + HeaderSize < b /\ (Grown(a) \/ End(a) < b)
    /\ status = "overwritten" => \E a \in Blocks : Grown(a)
    /\ status = "wrapped" =>
           \E n \in Requests : MemoryEnd - MemoryStart + n >= WordSize

\* The headers form one list in address order as long as none is overwritten:
\* Next and Previous lead from a block to its neighbours, whatever word malloc
\* found in fresh memory; only the Next of the last block is that word
\* (Memory.c:162-177).
ListWellFormed == Intact =>
    /\ \A a \in Blocks : a <= MemoryAllocationList.Last
    /\ \A a \in Blocks : a # MemoryAllocationList.Last =>
           /\ heap[a].Next \in Blocks /\ a < heap[a].Next
           /\ heap[heap[a].Next].Previous = a
           /\ \A b \in Blocks : b <= a \/ heap[a].Next <= b
    /\ Blocks # {} => /\ MemoryAllocationList.Last \in Blocks
                      /\ MemoryAllocationList.First = MemoryStart
                      /\ heap[MemoryStart].Previous = NULL

\* realloc grows in place only the topmost block: a block with another above
\* it always moves, so its growth cannot run into the header that follows
\* (Memory.c:209-223).
GrowsOnlyLast ==
    [][\A a, b \in Blocks : heap'[a].Length > heap[a].Length => b <= a]_vars

\* A freed block stays freed: neither realloc nor a later malloc brings its
\* header back to life, so a stale pointer is refused for ever (free and
\* realloc test the magic word, Memory.c:88 and 205).
FreedForever ==
    [][\A a \in Blocks : ~ Live(a) =>
           a \in Blocks' /\ heap'[a] \in {heap[a],
               [heap[a] EXCEPT !.Next = NextAllocationPosition]}]_vars

\* A request that only an address space gone round can satisfy.
Huge(n) == n > MemoryEnd - MemoryStart

\* CanSafelyAllocate tests the two addresses position and position + size, which
\* is the block but for the last HeaderSize bytes of it, and realloc tests none.
\* So of a region that does not wrap and is as long as any request, a block that
\* realloc has not lengthened keeps clear except for its last bytes, fewer than
\* a header has; a shorter region may be spanned (Memory.c:121-151, 209-212).
OnlyTailInLongRegion ==
    Intact => \A a \in Blocks, i \in DOMAIN Regions :
        LET r == Regions[i] IN
        /\ ~ Grown(a)
        /\ r.Start + r.Length < WordSize
        /\ \A n \in Requests : n <= r.Length \/ Huge(n)
        => End(a) < r.Start + HeaderSize \/ r.Start + r.Length < a
=============================================================================
