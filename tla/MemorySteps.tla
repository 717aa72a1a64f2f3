---------------------------- MODULE MemorySteps -----------------------------
(***************************************************************************)
(* malloc of Kernel/Memory.c at the grain of its loop and its recursion.   *)
(* CanSafelyAllocate walks the memory map; at an entry that is in the way  *)
(* it calls malloc for the gap below the entry, drops the result and walks *)
(* the map again.  Memory takes a whole call as one action and claims that *)
(* the inner call never returns; here every call is a frame on a stack,    *)
(* and the module is shown to implement Memory.                            *)
(***************************************************************************)
EXTENDS Memory

CONSTANT MaxDepth  \* frames the kernel stack below MEMORY_START has room for

ASSUME DepthAssumption == MaxDepth \in Nat \ {0}

VARIABLES
    stack,  \* the calls of malloc in progress, the innermost last: each has
            \* its size and the entry i its walk is at, 0 before the bounds checks
    moved   \* the block the outermost call moves for realloc, or NULL

stepVars == <<heap, NextAllocationPosition, MemoryAllocationList, status,
              stack, moved>>

Idle == stack = <<>> /\ status = "running"
Busy == stack # <<>> /\ status = "running"
Depth == Len(stack)
Inner == stack[Depth]

StepsInit == Init /\ stack = <<>> /\ moved = NULL

CallMalloc(n) ==
    /\ Idle
    /\ n # 0
    /\ stack' = <<[size |-> n, i |-> 0]>>
    /\ moved' = NULL
    /\ UNCHANGED vars

CallFree(a) == Idle /\ Free(a) /\ UNCHANGED <<stack, moved>>

CallFill(a) == Idle /\ Fill(a) /\ UNCHANGED <<stack, moved>>

\* Mutants of CallRealloc: a shrunk block keeps the difference as its length; a
\* freed block is not refused.
ReallocKeepsDifference(a, n) ==
    /\ Idle
    /\ heap[a].AllocationHeader = Magic
    /\ \/ /\ heap[a].Length >= n \/ heap[a].Next = NULL
          /\ heap' = [heap EXCEPT ![a] = [@ EXCEPT !.Length = @ - n]]
          /\ UNCHANGED <<NextAllocationPosition, MemoryAllocationList, status,
                         stack, moved>>
       \/ /\ heap[a].Length < n /\ heap[a].Next # NULL
          /\ stack' = <<[size |-> n, i |-> 0]>>
          /\ moved' = a
          /\ UNCHANGED vars

ReallocUnguarded(a, n) ==
    /\ Idle
    /\ \/ /\ heap[a].Length >= n \/ heap[a].Next = NULL
          /\ heap' = [heap EXCEPT ![a] = [@ EXCEPT !.Length = n]]
          /\ UNCHANGED <<NextAllocationPosition, MemoryAllocationList, status,
                         stack, moved>>
       \/ /\ heap[a].Length < n /\ heap[a].Next # NULL
          /\ stack' = <<[size |-> n, i |-> 0]>>
          /\ moved' = a
          /\ UNCHANGED vars

\* realloc up to its return in place, or up to its call of malloc.
CallRealloc(a, n) ==
    /\ Idle
    /\ heap[a].AllocationHeader = Magic
    /\ \/ /\ heap[a].Length >= n \/ heap[a].Next = NULL
          /\ heap' = [heap EXCEPT ![a] = [@ EXCEPT !.Length = n]]
          /\ UNCHANGED <<NextAllocationPosition, MemoryAllocationList, status,
                         stack, moved>>
       \/ /\ heap[a].Length < n /\ heap[a].Next # NULL
          /\ stack' = <<[size |-> n, i |-> 0]>>
          /\ moved' = a
          /\ UNCHANGED vars

\* The bounds checks at the head of CanSafelyAllocate; the loop of malloc that
\* reports the memory exhausted halts the machine.
CheckBounds ==
    /\ Busy
    /\ Inner.i = 0
    /\ IF InBounds(NextAllocationPosition, Inner.size)
       THEN /\ stack' = [stack EXCEPT ![Depth] = [@ EXCEPT !.i = 1]]
            /\ UNCHANGED status
       ELSE status' = "oom" /\ UNCHANGED stack
    /\ UNCHANGED <<heap, NextAllocationPosition, MemoryAllocationList, moved>>

AtEntry == Busy /\ Inner.i \in DOMAIN Regions

InTheWay == Conflicts(NextAllocationPosition, Inner.size, Regions[Inner.i])

\* Mutant of SkipEntry: the walk starts over where it should go on.
SkipToFirst ==
    /\ AtEntry
    /\ ~ InTheWay
    /\ stack' = [stack EXCEPT ![Depth] = [@ EXCEPT !.i = 1]]
    /\ UNCHANGED <<vars, moved>>

SkipEntry ==
    /\ AtEntry
    /\ ~ InTheWay
    /\ stack' = [stack EXCEPT ![Depth] = [@ EXCEPT !.i = Inner.i + 1]]
    /\ UNCHANGED <<vars, moved>>

\* Mutant of Gap: stop one short of the region.
GapBelow == (Regions[Inner.i].Start - 1 - NextAllocationPosition) % WordSize

\* Entry->Start - Position, in unsigned int.
Gap == (Regions[Inner.i].Start - NextAllocationPosition) % WordSize

\* Mutant of Recurse: the walk goes on behind the region instead of starting
\* over.
RecurseGoesOn ==
    /\ AtEntry
    /\ InTheWay
    /\ LET on == [stack EXCEPT ![Depth] = [@ EXCEPT !.i = Inner.i + 1]] IN
       IF Gap = 0 THEN stack' = on /\ UNCHANGED status
       ELSE IF Depth < MaxDepth
       THEN /\ stack' = Append(on, [size |-> Gap, i |-> 0])
            /\ UNCHANGED status
       ELSE status' = "runaway" /\ UNCHANGED stack
    /\ UNCHANGED <<heap, NextAllocationPosition, MemoryAllocationList, moved>>

\* The walk of this frame starts over once the inner call is done; malloc(0)
\* is done at once.  A call too deep runs off the kernel stack.
Recurse ==
    /\ AtEntry
    /\ InTheWay
    /\ LET again == [stack EXCEPT ![Depth] = [@ EXCEPT !.i = 1]] IN
       IF Gap = 0 THEN stack' = again /\ UNCHANGED status
       ELSE IF Depth < MaxDepth
       THEN /\ stack' = Append(again, [size |-> Gap, i |-> 0])
            /\ UNCHANGED status
       ELSE status' = "runaway" /\ UNCHANGED stack
    /\ UNCHANGED <<heap, NextAllocationPosition, MemoryAllocationList, moved>>

\* CanSafelyAllocate returns 1 and malloc carves the block.
Return ==
    /\ Busy
    /\ Inner.i = Len(Regions) + 1
    /\ Place(Inner.size, IF Depth = 1 THEN moved ELSE NULL)
    /\ stack' = SubSeq(stack, 1, Depth - 1)
    /\ moved' = IF Depth = 1 THEN NULL ELSE moved

Step == CheckBounds \/ SkipEntry \/ Recurse \/ Return

StepsNext ==
    \/ \E n \in Requests : CallMalloc(n)
    \/ \E a \in DOMAIN heap : CallFree(a)
    \/ \E a \in DOMAIN heap, n \in Requests : CallRealloc(a, n)
    \/ \E a \in DOMAIN heap : CallFill(a)
    \/ Step
    \/ status # "running" /\ UNCHANGED stepVars

\* The processor keeps executing a call it has begun.
StepsSpec == StepsInit /\ [][StepsNext]_stepVars /\ WF_stepVars(Step)

-----------------------------------------------------------------------------

\* A frame below another is stuck behind an entry that is in the way of the gap
\* as well, so a call of malloc that CanSafelyAllocate makes for the gap below a
\* region never returns: it ends in the out-of-memory halt, in the stack overflow
\* or in a loop, and allocation never resumes above the region (Memory.c:148-149
\* retries as if it could).
NestedNeverReturns ==
    [][Depth > 1 => Depth' >= Depth]_stepVars

\* The whole of malloc, free and realloc, recursion included, does what
\* Memory says of each call.
M == INSTANCE Memory
ImplementsMemory == M!Spec

\* A call whose place is within the bounds and clear of the map returns.
ClearCallReturns ==
    ( /\ Busy /\ Depth = 1
      /\ InBounds(NextAllocationPosition, stack[1].size)
      /\ MapClear(NextAllocationPosition, stack[1].size) ) ~> stack = <<>>
=============================================================================
