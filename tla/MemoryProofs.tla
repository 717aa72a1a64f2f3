---------------------------- MODULE MemoryProofs ----------------------------
(***************************************************************************)
(* Theorems about Memory for every word size, layout, memory map and set   *)
(* of request sizes, and about MemorySteps for every depth of the stack as *)
(* well; MemorySteps implements Memory, so the former hold of it too.      *)
(***************************************************************************)
EXTENDS MemorySteps, TLAPS

-----------------------------------------------------------------------------
(* Whole calls: pointer arithmetic *)

\* Pointer arithmetic stays in the word, and below WordSize it is addition.
LEMMA PlusFacts ==
    ASSUME NEW a \in Nat, NEW b \in Nat
    PROVE  /\ Plus(a, b) \in Word
           /\ a + b < WordSize => Plus(a, b) = a + b
<1> USE LayoutAssumption
<1>1. WordSize \in Nat \ {0} OBVIOUS
<1>2. a + b \in Nat OBVIOUS
<1>3. \A m \in Nat : m % WordSize \in 0 .. WordSize - 1 BY <1>1
<1>4. \A m \in Nat : m < WordSize => m % WordSize = m BY <1>1
<1> QED BY <1>2, <1>3, <1>4 DEF Plus, Word

\* An element of a sequence is of the sequence's type.
LEMMA Element ==
    ASSUME NEW S, NEW s \in Seq(S), NEW i \in DOMAIN s PROVE s[i] \in S
OBVIOUS

\* A sum that overflows once comes back WordSize lower.
LEMMA PlusWraps ==
    ASSUME NEW a \in Nat, NEW b \in Nat, WordSize <= a + b,
           a + b < WordSize + WordSize
    PROVE  Plus(a, b) = a + b - WordSize
<1> USE LayoutAssumption
<1> DEFINE m == a + b
<1>1. m \in Nat /\ m - WordSize \in 0 .. WordSize - 1 OBVIOUS
<1>2. (m - WordSize) % WordSize = m - WordSize BY <1>1
<1>3. m % WordSize = (m - WordSize) % WordSize BY <1>1
<1> QED BY <1>1, <1>2, <1>3 DEF Plus

-----------------------------------------------------------------------------
(* Whole calls: what each operation does to the headers *)

\* The headers after a block of n bytes is placed above all others and the
\* block at old, if any, is freed: old headers keep all but the Next of the
\* last one and the magic word of the old one.
LEMMA PlaceEffect ==
    ASSUME TypeOK, NEW n \in Word, NEW old \in Blocks \cup {NULL},
           NextAllocationPosition \notin Blocks, Place(n, old)
    PROVE  /\ Blocks' = Blocks \cup {NextAllocationPosition}
           /\ heap' \in [Blocks' -> Header]
           /\ heap'[NextAllocationPosition].reserved = n
           /\ heap'[NextAllocationPosition].Previous
                  = IF IsFirst THEN NULL ELSE MemoryAllocationList.Last
           /\ \A a \in Blocks :
                 /\ heap'[a].reserved = heap[a].reserved
                 /\ heap'[a].Length = heap[a].Length
                 /\ heap'[a].Previous = heap[a].Previous
                 /\ heap'[a].Next =
                        IF a = MemoryAllocationList.Last /\ ~ IsFirst
                        THEN NextAllocationPosition ELSE heap[a].Next
                 /\ a # old => /\ heap'[a].AllocationHeader
                                        = heap[a].AllocationHeader
                                 /\ heap'[a].Flags = heap[a].Flags
<1> DEFINE p == NextAllocationPosition
<1> USE LayoutAssumption, RequestAssumption
<1>1. PICK junk \in FreshWords :
          heap' = IF old = NULL THEN Carved(n, junk)
                  ELSE Dropped(Carved(n, junk), old)
  BY DEF Place
<1>2. 0 \in Word BY DEF Word
<1>3. NewHeader(n, junk) \in Header
  BY <1>2 DEF NewHeader, Header, TypeOK, NULL, Word
<1>4. \A a \in Blocks : heap[a] \in Header BY DEF TypeOK
<1> DEFINE C == Carved(n, junk)
<1>5. DOMAIN C = Blocks \cup {p} BY DEF Carved, Blocks
<1>6. C[p] = NewHeader(n, junk) BY DEF Carved
<1>7. \A a \in Blocks :
         C[a] = IF a = MemoryAllocationList.Last /\ ~ IsFirst
                THEN [heap[a] EXCEPT !.Next = p] ELSE heap[a]
  BY DEF Carved, Blocks
<1>8. p \in Word BY DEF TypeOK
<1>9. \A a \in Blocks : C[a] \in Header
  BY <1>4, <1>7, <1>8 DEF Header
<1>10. C = [x \in Blocks \cup {p} |-> C[x]] BY <1>5 DEF Carved, Blocks
<1> HIDE DEF C
<1>11. CASE old = NULL
  <2>1. heap' = C BY <1>1, <1>11 DEF C
  <2> QED BY <2>1, <1>3, <1>4, <1>5, <1>6, <1>7, <1>8, <1>9, <1>10
          DEF Blocks, Header, NewHeader
<1>12. CASE old # NULL
  <2>1. old \in Blocks /\ old # p BY <1>12
  <2>2. heap' = [C EXCEPT ![old] =
                     [@ EXCEPT !.Flags = 0, !.AllocationHeader = Released]]
    BY <1>1, <1>12 DEF Dropped, C
  <2>3. DOMAIN heap' = Blocks \cup {p} BY <2>2, <1>5
  <2>4. \A a \in Blocks \cup {p} : a # old => heap'[a] = C[a]
    BY <2>2, <1>5
  <2>5. heap'[old] = [C[old] EXCEPT !.Flags = 0,
                                        !.AllocationHeader = Released]
    BY <2>1, <2>2, <1>5
  <2>6. heap'[old] \in Header BY <2>1, <2>5, <1>9 DEF Header
  <2>7. heap' = [x \in Blocks \cup {p} |-> heap'[x]] BY <2>2, <1>5
  <2>8. \A a \in Blocks \cup {p} : heap'[a] \in Header
    BY <2>4, <2>6, <1>3, <1>6, <1>9
  <2>9. heap' \in [Blocks' -> Header] BY <2>3, <2>7, <2>8 DEF Blocks
  <2>10. \A a \in Blocks :
            /\ heap'[a].reserved = C[a].reserved
            /\ heap'[a].Length = C[a].Length
            /\ heap'[a].Previous = C[a].Previous
            /\ heap'[a].Next = C[a].Next
    <3> SUFFICES ASSUME NEW a \in Blocks
                 PROVE /\ heap'[a].reserved = C[a].reserved
                       /\ heap'[a].Length = C[a].Length
                       /\ heap'[a].Previous = C[a].Previous
                       /\ heap'[a].Next = C[a].Next
      OBVIOUS
    <3>1. CASE a # old BY <3>1, <2>4
    <3>2. CASE a = old BY <3>2, <2>5, <1>9 DEF Header
    <3> QED BY <3>1, <3>2
  <2>11. heap'[p] = NewHeader(n, junk) BY <2>1, <2>4, <1>6
  <2>12. \A a \in Blocks :
            /\ C[a].reserved = heap[a].reserved
            /\ C[a].Length = heap[a].Length
            /\ C[a].Previous = heap[a].Previous
            /\ C[a].AllocationHeader = heap[a].AllocationHeader
            /\ C[a].Flags = heap[a].Flags
            /\ C[a].Next = IF a = MemoryAllocationList.Last /\ ~ IsFirst
                           THEN p ELSE heap[a].Next
    BY <1>4, <1>7 DEF Header
  <2>13. Blocks' = Blocks \cup {p} BY <2>3 DEF Blocks
  <2>14. /\ heap'[p].reserved = n
         /\ heap'[p].Previous = IF IsFirst THEN NULL
                                ELSE MemoryAllocationList.Last
    BY <2>11 DEF NewHeader
  <2> QED BY <2>4, <2>9, <2>10, <2>12, <2>13, <2>14
<1> QED BY <1>11, <1>12

\* free and a realloc in place change no header but the one they are given,
\* and of that one neither the links nor the reserved size.
LEMMA InPlaceEffect ==
    ASSUME TypeOK, NEW a \in Blocks, NEW n \in Word,
           \/ heap' = Dropped(heap, a)
           \/ heap' = [heap EXCEPT ![a] = [@ EXCEPT !.Length = n]]
    PROVE  /\ Blocks' = Blocks
           /\ heap' \in [Blocks' -> Header]
           /\ \A b \in Blocks : /\ heap'[b].reserved = heap[b].reserved
                                /\ heap'[b].Previous = heap[b].Previous
                                /\ heap'[b].Next = heap[b].Next
                                /\ b # a => heap'[b] = heap[b]
<1>1. heap \in [Blocks -> Header] /\ heap[a] \in Header BY DEF TypeOK
<1>2. CASE heap' = Dropped(heap, a)
  <2>1. heap' = [heap EXCEPT ![a] =
                    [heap[a] EXCEPT !.Flags = 0, !.AllocationHeader = Released]]
    BY <1>2, <1>1 DEF Dropped
  <2>2. [heap[a] EXCEPT !.Flags = 0, !.AllocationHeader = Released] \in Header
    BY <1>1 DEF Header
  <2>3. heap' \in [Blocks -> Header] BY <2>1, <2>2, <1>1
  <2> QED BY <2>1, <2>2, <2>3, <1>1 DEF Blocks, Header
<1>3. CASE heap' = [heap EXCEPT ![a] = [@ EXCEPT !.Length = n]]
  <2>1. heap' = [heap EXCEPT ![a] = [heap[a] EXCEPT !.Length = n]]
    BY <1>3, <1>1
  <2>2. [heap[a] EXCEPT !.Length = n] \in Header BY <1>1 DEF Header
  <2>3. heap' \in [Blocks -> Header] BY <2>1, <2>2, <1>1
  <2> QED BY <2>1, <2>2, <2>3, <1>1 DEF Blocks, Header
<1> QED BY <1>2, <1>3

-----------------------------------------------------------------------------
(* Whole calls: the inductive invariant *)

\* The end of the bytes malloc carved for the block at a, header included.
Top(a) == a + HeaderSize + heap[a].reserved

\* The bytes carved for two blocks never meet, and all of them lie below the
\* next position.
ReservedDisjoint ==
    /\ \A a, b \in Blocks : a < b => Top(a) < b
    /\ \A a \in Blocks : MemoryStart <= a /\ Top(a) < NextAllocationPosition

\* NoOverlap alone is not inductive: it says little of a block that has grown,
\* and what the next one is clear of is what malloc carved, which growth in
\* place leaves alone.  The links of a new block are right because Last is the
\* highest header and the list is empty only at MemoryStart.
IInv ==
    /\ TypeOK
    /\ ListWellFormed
    /\ Intact => /\ ReservedDisjoint
                 /\ MemoryStart <= NextAllocationPosition
                 /\ Blocks = {} => NextAllocationPosition = MemoryStart
                 /\ Blocks # {} => MemoryStart \in Blocks
    /\ status = "overwritten" => \E a \in Blocks : Grown(a)
    /\ status = "wrapped" =>
           \E n \in Requests : MemoryEnd - MemoryStart + n >= WordSize

\* A place that passes the bounds checks and does not run over the end of the
\* word moves the next position up by the whole block.
LEMMA NoWrap ==
    ASSUME TypeOK, NEW n \in Word,
           InBounds(NextAllocationPosition, n),
           ~ (NextAllocationPosition + n + HeaderSize + 1 >= WordSize)
    PROVE  /\ Plus(NextAllocationPosition, n) = NextAllocationPosition + n
           /\ NextAllocationPosition + n <= MemoryEnd
           /\ Plus(NextAllocationPosition, n + HeaderSize + 1)
                  = NextAllocationPosition + n + HeaderSize + 1
<1> USE LayoutAssumption
<1> DEFINE p == NextAllocationPosition
<1>1. p \in Nat /\ n \in Nat BY DEF TypeOK, Word
<1>2. Plus(p, n) <= MemoryEnd BY DEF InBounds, Within
<1>3. p + n < WordSize BY <1>1
<1>4. Plus(p, n) = p + n BY <1>1, <1>3, PlusFacts
<1>5. p + (n + HeaderSize + 1) < WordSize BY <1>1
<1>6. Plus(p, n + HeaderSize + 1) = p + (n + HeaderSize + 1)
  BY <1>1, <1>5, PlusFacts
<1> QED BY <1>1, <1>2, <1>4, <1>6

\* The bounds checks let only a size through to the end of the word with which
\* their own sum has come round.
LEMMA Wraps ==
    ASSUME TypeOK, NEW n \in Word,
           InBounds(NextAllocationPosition, n),
           NextAllocationPosition + n + HeaderSize + 1 >= WordSize
    PROVE  MemoryEnd - MemoryStart + n >= WordSize
<1> USE LayoutAssumption
<1> DEFINE p == NextAllocationPosition
<1>1. p \in Nat /\ n \in Nat /\ p < WordSize /\ n < WordSize
  BY DEF TypeOK, Word
<1>2. p <= MemoryEnd /\ MemoryStart <= Plus(p, n) /\ Plus(p, n) <= MemoryEnd
  BY DEF InBounds, Within
<1>3. WordSize <= p + n
  <2> SUFFICES ASSUME p + n < WordSize PROVE FALSE BY <1>1
  <2>1. Plus(p, n) = p + n BY <1>1, PlusFacts
  <2> QED BY <1>1, <1>2, <2>1
<1>4. Plus(p, n) = p + n - WordSize BY <1>1, <1>3, PlusWraps
<1> QED BY <1>1, <1>2, <1>4

\* Below the invariant every block is below the next position, and the list
\* is empty exactly where malloc takes it to be.
LEMMA AllBelow ==
    ASSUME IInv, Intact
    PROVE  /\ \A a \in Blocks : /\ a \in Nat
                                /\ heap[a].reserved \in Nat
                                /\ a < NextAllocationPosition
           /\ NextAllocationPosition \notin Blocks
           /\ IsFirst <=> Blocks = {}
<1> USE LayoutAssumption
<1>1. \A a \in Blocks : heap[a] \in Header /\ a \in Nat
  BY DEF IInv, TypeOK, Word
<1>2. \A a \in Blocks : heap[a].reserved \in Nat BY <1>1 DEF Header, Word
<1>3. NextAllocationPosition \in Nat BY DEF IInv, TypeOK, Word
<1>4. \A a \in Blocks : MemoryStart <= a /\ a < NextAllocationPosition
  BY <1>1, <1>2, <1>3 DEF IInv, ReservedDisjoint, Top
<1> QED BY <1>1, <1>2, <1>3, <1>4 DEF IInv, IsFirst

LEMMA InitInvariant == Init => IInv
<1> SUFFICES ASSUME Init PROVE IInv OBVIOUS
<1> USE LayoutAssumption DEF Init
<1>1. Blocks = {} BY DEF Blocks
<1>2. MemoryStart \in Word /\ NULL \in Word BY DEF Word, NULL
<1>3. heap \in [Blocks -> Header] BY <1>1
<1>4. TypeOK BY <1>1, <1>2, <1>3 DEF TypeOK, NULL
<1> QED BY <1>1, <1>4 DEF IInv, ReservedDisjoint, ListWellFormed, Intact

\* malloc, and realloc when it moves a block.
LEMMA CarvePreserves ==
    ASSUME IInv, status = "running", NEW n \in Requests,
           NEW old \in Blocks \cup {NULL}, Carve(n, old)
    PROVE  IInv'
<1> USE LayoutAssumption, RequestAssumption
<1> DEFINE p == NextAllocationPosition
<1>0. Intact /\ TypeOK /\ n \in Word /\ n \in Nat /\ p \in Nat
  BY DEF Intact, IInv, TypeOK, Word
<1>2. /\ \A a \in Blocks : a \in Nat /\ heap[a].reserved \in Nat /\ a < p
      /\ p \notin Blocks
      /\ IsFirst <=> Blocks = {}
  BY <1>0, AllBelow
<1>3. TypeOK /\ p \in Nat /\ p \in Word /\ MemoryStart <= p
  BY <1>0 DEF IInv, TypeOK, Word
<1>4. /\ Blocks' = Blocks \cup {p}
      /\ heap' \in [Blocks' -> Header]
      /\ heap'[p].reserved = n
      /\ heap'[p].Previous = IF IsFirst THEN NULL ELSE MemoryAllocationList.Last
      /\ \A a \in Blocks :
            /\ heap'[a].reserved = heap[a].reserved
            /\ heap'[a].Previous = heap[a].Previous
            /\ heap'[a].Next = IF a = MemoryAllocationList.Last /\ ~ IsFirst
                               THEN p ELSE heap[a].Next
  BY <1>0, <1>2, <1>3, PlaceEffect DEF Carve
<1>5. /\ MemoryAllocationList'.Last = p
      /\ MemoryAllocationList'.First = IF IsFirst THEN p
                                       ELSE MemoryAllocationList.First
      /\ MemoryAllocationList' \in [First : Word, Last : Word, NumAllocs : Word]
  <2>1. MemoryAllocationList.NumAllocs \in Nat BY <1>3 DEF TypeOK, Word
  <2>2. Plus(MemoryAllocationList.NumAllocs, 1) \in Word BY <2>1, PlusFacts
  <2> QED BY <2>2, <1>3 DEF Carve, Place, TypeOK
<1>6. TypeOK'
  <2>1. p' \in Word
    <3>1. n + HeaderSize + 1 \in Nat BY <1>0
    <3> QED BY <1>0, <3>1, PlusFacts DEF Carve, Place
  <2>2. Blocks' \subseteq Word BY <1>3, <1>4 DEF TypeOK
  <2>3. status' \in {"running", "wrapped"} BY DEF Carve, Place
  <2> QED BY <2>1, <2>2, <2>3, <1>3, <1>4, <1>5 DEF TypeOK
<1> DEFINE Over == p + n + HeaderSize + 1 >= WordSize
<1>1. /\ ~ Over => /\ status' = "running" /\ p + n <= MemoryEnd
                   /\ p' = p + n + HeaderSize + 1
      /\ Over => /\ status' = "wrapped"
                 /\ MemoryEnd - MemoryStart + n >= WordSize
  BY <1>0, NoWrap, Wraps DEF Carve, Place
<1>7. ASSUME ~ Over PROVE ReservedDisjoint'
  <2>1. \A a \in Blocks : /\ Top(a)' = Top(a)
                          /\ Top(a) < p /\ MemoryStart <= a
    BY <1>0, <1>4 DEF Top, IInv, ReservedDisjoint
  <2>2. \A a \in Blocks' : a = p => Top(a)' = p + HeaderSize + n
    BY <1>4 DEF Top
  <2>3. \A a \in Blocks' : MemoryStart <= a /\ Top(a)' < p'
    <3> SUFFICES ASSUME NEW a \in Blocks'
                 PROVE MemoryStart <= a /\ Top(a)' < p'
      OBVIOUS
    <3>1. CASE a = p BY <3>1, <2>2, <1>1, <1>3, <1>7, <1>0
    <3>2. CASE a \in Blocks
      <4>1. Top(a) \in Int BY <3>2, <1>2 DEF Top
      <4> QED BY <3>2, <4>1, <2>1, <1>1, <1>3, <1>7, <1>0
    <3> QED BY <3>1, <3>2, <1>4
  <2>4. \A a, b \in Blocks' : a < b => Top(a)' < b
    BY <1>0, <2>1, <1>2, <1>3, <1>4 DEF IInv, ReservedDisjoint
  <2> QED BY <2>3, <2>4 DEF ReservedDisjoint, Top
<1>8. ListWellFormed'
  <2>1. \A a \in Blocks' : a <= MemoryAllocationList'.Last
    BY <1>2, <1>3, <1>4, <1>5
  <2>2. \A a \in Blocks' : a # MemoryAllocationList'.Last =>
           /\ heap'[a].Next \in Blocks' /\ a < heap'[a].Next
           /\ heap'[heap'[a].Next].Previous = a
           /\ \A b \in Blocks' : b <= a \/ heap'[a].Next <= b
    <3> SUFFICES ASSUME NEW a \in Blocks
                 PROVE /\ heap'[a].Next \in Blocks' /\ a < heap'[a].Next
                       /\ heap'[heap'[a].Next].Previous = a
                       /\ \A b \in Blocks' : b <= a \/ heap'[a].Next <= b
      BY <1>4, <1>5
    <3>1. ~ IsFirst BY <1>2
    <3>2. CASE a = MemoryAllocationList.Last
      <4>1. heap'[a].Next = p BY <3>1, <3>2, <1>4
      <4>2. heap'[p].Previous = a BY <3>1, <3>2, <1>4
      <4>3. \A b \in Blocks : b <= a
        BY <1>0, <3>2 DEF IInv, ListWellFormed, Intact
      <4> QED BY <4>1, <4>2, <4>3, <1>2, <1>3, <1>4
    <3>3. CASE a # MemoryAllocationList.Last
      <4>1. heap'[a].Next = heap[a].Next BY <3>3, <1>4
      <4>2. /\ heap[a].Next \in Blocks /\ a < heap[a].Next
            /\ heap[heap[a].Next].Previous = a
            /\ \A b \in Blocks : b <= a \/ heap[a].Next <= b
        BY <1>0, <3>3 DEF IInv, ListWellFormed, Intact
      <4> QED BY <4>1, <4>2, <1>2, <1>3, <1>4
    <3> QED BY <3>2, <3>3
  <2>3. /\ MemoryAllocationList'.Last \in Blocks'
        /\ MemoryAllocationList'.First = MemoryStart
        /\ heap'[MemoryStart].Previous = NULL
    <3>1. CASE IsFirst
      BY <3>1, <1>4, <1>5 DEF IsFirst
    <3>2. CASE ~ IsFirst
      <4>1. Blocks # {} BY <3>2, <1>2
      <4>2. /\ MemoryAllocationList.First = MemoryStart
            /\ heap[MemoryStart].Previous = NULL
            /\ MemoryAllocationList.Last \in Blocks
        BY <1>0, <4>1 DEF IInv, ListWellFormed, Intact
      <4>3. MemoryStart \in Blocks
        BY <1>0, <4>1 DEF IInv
      <4> QED BY <3>2, <4>2, <4>3, <1>4, <1>5
    <3> QED BY <3>1, <3>2
  <2> QED BY <2>1, <2>2, <2>3 DEF ListWellFormed
<1>9. MemoryStart \in Blocks' BY <1>0, <1>2, <1>4 DEF IInv, IsFirst
<1>10. CASE ~ Over
  <2>1. MemoryStart <= p' BY <1>0, <1>1, <1>3, <1>10
  <2> QED BY <2>1, <1>1, <1>4, <1>6, <1>7, <1>8, <1>9, <1>10 DEF IInv, Intact
<1>11. CASE Over BY <1>1, <1>6, <1>8, <1>11 DEF IInv, Intact
<1> QED BY <1>10, <1>11

\* free, and realloc in place.
LEMMA InPlacePreserves ==
    ASSUME IInv, status = "running", NEW a \in Blocks, NEW n \in Word,
           \/ heap' = Dropped(heap, a)
           \/ heap' = [heap EXCEPT ![a] = [@ EXCEPT !.Length = n]],
           UNCHANGED <<NextAllocationPosition, MemoryAllocationList, status>>
    PROVE  IInv'
<1>1. TypeOK BY DEF IInv
<1>2. /\ Blocks' = Blocks
      /\ heap' \in [Blocks' -> Header]
      /\ \A b \in Blocks : /\ heap'[b].reserved = heap[b].reserved
                           /\ heap'[b].Previous = heap[b].Previous
                           /\ heap'[b].Next = heap[b].Next
  BY <1>1, InPlaceEffect
<1>3. TypeOK' BY <1>1, <1>2 DEF TypeOK
<1>4. \A b \in Blocks : Top(b)' = Top(b) BY <1>2 DEF Top
<1>5. Intact => ReservedDisjoint' BY <1>2, <1>4 DEF IInv, ReservedDisjoint
<1>6. ListWellFormed' BY <1>2 DEF IInv, ListWellFormed, Intact
<1> QED BY <1>2, <1>3, <1>5, <1>6 DEF IInv, Intact

LEMMA FailPreserves ==
    ASSUME IInv, status = "running", NEW n \in Requests, Fail(n)
    PROVE  IInv'
<1>1. UNCHANGED <<heap, NextAllocationPosition, MemoryAllocationList>>
      /\ status' \in {"running", "oom", "runaway"}
  BY DEF Fail
<1>2. Blocks' = Blocks BY <1>1 DEF Blocks
<1>3. TypeOK' BY <1>1, <1>2 DEF IInv, TypeOK
<1>4. ReservedDisjoint'
  BY <1>1, <1>2 DEF IInv, ReservedDisjoint, Top, Intact
<1>5. ListWellFormed' BY <1>1, <1>2 DEF IInv, ListWellFormed, Intact
<1> QED BY <1>1, <1>2, <1>3, <1>4, <1>5 DEF IInv, Intact

\* Only a block longer than malloc carved it reaches a later header.
LEMMA FillPreserves ==
    ASSUME IInv, NEW a \in Blocks, Fill(a)
    PROVE  IInv'
<1>1. Intact /\ TypeOK BY DEF Fill, Intact, IInv
<1>2. PICK b \in Blocks : a < b /\ b < End(a) BY DEF Fill, Blocks
<1>3. a + HeaderSize + heap[a].reserved < b
  BY <1>1, <1>2 DEF IInv, ReservedDisjoint, Top
<1>4. /\ a \in Nat /\ b \in Nat
      /\ heap[a].Length \in Nat /\ heap[a].reserved \in Nat
  <2>1. heap[a] \in Header /\ a \in Word /\ b \in Word BY <1>1 DEF TypeOK
  <2> QED BY <2>1, LayoutAssumption DEF Header, Word
<1>5. Grown(a)
  BY <1>2, <1>3, <1>4, LayoutAssumption DEF Grown, End
<1>6. UNCHANGED <<heap, NextAllocationPosition, MemoryAllocationList>>
      /\ status' = "overwritten"
  BY DEF Fill
<1>7. Blocks' = Blocks BY <1>6 DEF Blocks
<1>8. TypeOK' BY <1>1, <1>6, <1>7 DEF TypeOK
<1> QED BY <1>5, <1>6, <1>7, <1>8 DEF IInv, ListWellFormed, Intact, Grown

LEMMA NextPreserves ==
    ASSUME IInv, [Next]_vars
    PROVE  IInv'
<1> USE RequestAssumption
<1>1. \A n \in Requests : n \in Word BY DEF Word
<1>2. ASSUME NEW n \in Requests, Malloc(n) PROVE IInv'
  BY <1>2, CarvePreserves, FailPreserves DEF Malloc
<1>3. ASSUME NEW a \in Blocks, Free(a) PROVE IInv'
  <2>1. 0 \in Word BY LayoutAssumption DEF Word
  <2> QED BY <2>1, <1>3, InPlacePreserves DEF Free
<1>4. ASSUME NEW a \in Blocks, NEW n \in Requests, Realloc(a, n) PROVE IInv'
  BY <1>1, <1>4, CarvePreserves, FailPreserves, InPlacePreserves DEF Realloc
<1>5. CASE UNCHANGED vars
  <2>1. Blocks' = Blocks BY <1>5 DEF vars, Blocks
  <2>2. TypeOK' BY <1>5, <2>1 DEF vars, IInv, TypeOK
  <2>3. Intact => ReservedDisjoint'
    BY <1>5, <2>1 DEF vars, IInv, ReservedDisjoint, Top
  <2>4. ListWellFormed' BY <1>5, <2>1 DEF vars, IInv, ListWellFormed, Intact
  <2> QED BY <1>5, <2>1, <2>2, <2>3, <2>4 DEF vars, IInv, Intact, Grown
<1>6. ASSUME NEW a \in Blocks, Fill(a) PROVE IInv'
  BY <1>6, FillPreserves
<1> QED BY <1>2, <1>3, <1>4, <1>5, <1>6 DEF Next, Lost, Blocks

LEMMA Invariant == Spec => []IInv
<1>1. Init => IInv BY InitInvariant
<1>2. IInv /\ [Next]_vars => IInv' BY NextPreserves
<1> QED BY <1>1, <1>2, PTL DEF Spec

-----------------------------------------------------------------------------
(* Whole calls: the properties *)

\* Headers, positions and the list keep to their types.
THEOREM TypeCorrect == Spec => []TypeOK
<1>1. IInv => TypeOK BY DEF IInv
<1> QED BY <1>1, Invariant, PTL

\* Two blocks share bytes only because realloc has lengthened the lower one in
\* place, whatever sizes are asked for.
THEOREM SharedOnlyByGrowth == Spec => []NoOverlap
<1> USE LayoutAssumption
<1>1. ASSUME IInv PROVE NoOverlap
  <2> SUFFICES ASSUME Intact, NEW a \in Blocks
               PROVE /\ MemoryStart <= a
                     /\ a + HeaderSize < NextAllocationPosition
                     /\ Grown(a) \/ End(a) < NextAllocationPosition
                     /\ \A b \in Blocks : a < b =>
                           a + HeaderSize < b /\ (Grown(a) \/ End(a) < b)
    BY <1>1 DEF NoOverlap, IInv
  <2>1. ReservedDisjoint BY <1>1 DEF IInv
  <2>2. /\ a \in Nat /\ heap[a].Length \in Nat /\ heap[a].reserved \in Nat
        /\ \A b \in Blocks : b \in Nat
        /\ NextAllocationPosition \in Nat
    <3>1. /\ heap[a] \in Header /\ Blocks \subseteq Word
          /\ NextAllocationPosition \in Word
      BY <1>1 DEF IInv, TypeOK
    <3> QED BY <3>1 DEF Header, Word
  <2>3. /\ MemoryStart <= a
        /\ a + HeaderSize + heap[a].reserved < NextAllocationPosition
        /\ \A b \in Blocks : a < b => a + HeaderSize + heap[a].reserved < b
    BY <2>1 DEF ReservedDisjoint, Top
  <2> QED BY <2>2, <2>3 DEF Grown, End
<1> QED BY <1>1, Invariant, PTL

\* The headers form one list in address order, whatever malloc finds in fresh
\* memory, until a caller whose block has grown writes over one.
THEOREM ListCorrect == Spec => []ListWellFormed
<1>1. IInv => ListWellFormed BY DEF IInv
<1> QED BY <1>1, Invariant, PTL

\* A step never lengthens a block that has another above it: its Next word
\* leads to that block, so realloc moves it.
THEOREM InPlaceGrowthIsLast == Spec => GrowsOnlyLast
<1> USE LayoutAssumption, RequestAssumption
<1> DEFINE Grows == \A a, b \in Blocks :
                       heap'[a].Length > heap[a].Length => b <= a
<1>1. IInv /\ [Next]_vars => [Grows]_vars
  <2> SUFFICES ASSUME IInv, Next, NEW c \in Blocks, NEW b \in Blocks,
                      heap'[c].Length > heap[c].Length
               PROVE  b <= c
    OBVIOUS
  <2>1. \A a \in Blocks : heap[a] \in Header /\ a \in Nat
    BY DEF IInv, TypeOK, Word
  <2>2. \A a \in Blocks : ~ (heap[a].Length > heap[a].Length)
    BY <2>1 DEF Header, Word
  <2>3. ASSUME NEW n \in Requests, NEW old \in Blocks \cup {NULL},
               status = "running", Carve(n, old)
        PROVE FALSE
    <3>1. NextAllocationPosition \notin Blocks BY <2>3, AllBelow DEF Intact
    <3>2. n \in Word /\ TypeOK BY DEF IInv, Word
    <3>3. heap'[c].Length = heap[c].Length
      BY <2>3, <3>1, <3>2, PlaceEffect DEF Carve
    <3> QED BY <3>3, <2>2
  <2>4. ASSUME NEW n \in Requests, Fail(n) PROVE FALSE
    BY <2>4, <2>2 DEF Fail
  <2>5. ASSUME NEW n \in Requests, Malloc(n) PROVE FALSE
    BY <2>5, <2>3, <2>4 DEF Malloc
  <2>6. ASSUME NEW a \in Blocks, Free(a) PROVE FALSE
    <3>1. heap' = [heap EXCEPT ![a] =
             [heap[a] EXCEPT !.Flags = 0, !.AllocationHeader = Released]]
      BY <2>6, <2>1 DEF Free, Dropped, IInv, TypeOK
    <3>2. heap'[c].Length = heap[c].Length
      BY <3>1, <2>1 DEF IInv, TypeOK, Header
    <3> QED BY <3>2, <2>2
  <2>7. ASSUME NEW a \in Blocks, NEW n \in Requests, Realloc(a, n)
        PROVE  b <= c
    <3>1. CASE Carve(n, a) \/ Fail(n) BY <3>1, <2>3, <2>4, <2>7 DEF Realloc
    <3>2. CASE /\ heap[a].Length >= n \/ heap[a].Next = NULL
               /\ heap' = [heap EXCEPT ![a] = [@ EXCEPT !.Length = n]]
      <4>1. heap' = [heap EXCEPT ![a] = [heap[a] EXCEPT !.Length = n]]
        BY <3>2, <2>1 DEF IInv, TypeOK
      <4>2. \A x \in Blocks : x # a => heap'[x] = heap[x]
        BY <4>1 DEF IInv, TypeOK
      <4>3. c = a BY <4>2, <2>2
      <4>4. heap'[a].Length = n BY <4>1, <2>1 DEF IInv, TypeOK, Header
      <4>5. n \in Nat /\ heap[a].Length \in Nat
        BY <2>1 DEF Header, Word
      <4>6. heap[a].Next = NULL BY <3>2, <4>3, <4>4, <4>5
      <4>7. Intact BY <2>7 DEF Realloc, Intact
      <4>8. \A x \in Blocks : x # NULL
        BY <4>7 DEF IInv, ReservedDisjoint, NULL
      <4>9. a = MemoryAllocationList.Last
        BY <4>6, <4>7, <4>8 DEF IInv, ListWellFormed
      <4> QED BY <4>3, <4>7, <4>9 DEF IInv, ListWellFormed
    <3> QED BY <3>1, <3>2, <2>7 DEF Realloc
  <2>8. CASE Lost BY <2>8, <2>2 DEF Lost, vars
  <2>9. ASSUME NEW a \in Blocks, Fill(a) PROVE FALSE
    BY <2>9, <2>2 DEF Fill
  <2> QED BY <2>5, <2>6, <2>7, <2>8, <2>9 DEF Next, Blocks
<1> QED BY <1>1, Invariant, PTL DEF Spec, GrowsOnlyLast

\* The two addresses CanSafelyAllocate tests keep a block out of the regions
\* that are as long as any request, but for its last bytes, fewer than a header
\* has, and for what realloc adds in place.
THEOREM OnlyTailsInLongRegions == Spec => []OnlyTailInLongRegion
<1> USE LayoutAssumption, RequestAssumption
\* The inductive form: what malloc carved, less the header it does not count.
<1> DEFINE ClearOfLongRegions == Intact =>
             \A a \in Blocks, i \in DOMAIN Regions :
               /\ Regions[i].Start + Regions[i].Length < WordSize
               /\ \A n \in Requests : n <= Regions[i].Length \/ Huge(n)
               => \/ a + heap[a].reserved < Regions[i].Start
                  \/ Regions[i].Start + Regions[i].Length < a
<1>1. Init => ClearOfLongRegions
  BY DEF Init, Blocks
<1>2. IInv /\ ClearOfLongRegions /\ [Next]_vars => ClearOfLongRegions'
  <2> SUFFICES ASSUME IInv, ClearOfLongRegions, [Next]_vars
               PROVE  ClearOfLongRegions'
    OBVIOUS
  <2>1. ASSUME Blocks' = Blocks,
               \A a \in Blocks : heap'[a].reserved = heap[a].reserved,
               Intact' => Intact
        PROVE  ClearOfLongRegions'
    BY <2>1 DEF Huge
  <2>2. ASSUME NEW n \in Requests, NEW old \in Blocks \cup {NULL},
               status = "running", Carve(n, old)
        PROVE  ClearOfLongRegions'
    <3> DEFINE p == NextAllocationPosition
    <3> SUFFICES ASSUME Intact' PROVE ClearOfLongRegions'
      OBVIOUS
    <3>0. Intact BY <2>2 DEF Intact
    <3>1. p \notin Blocks BY <3>0, AllBelow
    <3>2. n \in Word /\ n \in Nat /\ p \in Nat /\ TypeOK
      BY DEF IInv, TypeOK, Word
    <3>3. /\ Blocks' = Blocks \cup {p} /\ heap'[p].reserved = n
          /\ \A a \in Blocks : heap'[a].reserved = heap[a].reserved
      BY <2>2, <3>1, <3>2, PlaceEffect DEF Carve
    <3>4. /\ Plus(p, n) = p + n /\ p + n <= MemoryEnd /\ MemoryStart <= p
          /\ ~ Huge(n)
      <4>1. ~ (p + n + HeaderSize + 1 >= WordSize)
        BY <2>2 DEF Carve, Place, Intact
      <4>2. Plus(p, n) = p + n /\ p + n <= MemoryEnd
        BY <2>2, <3>2, <4>1, NoWrap DEF Carve
      <4>3. MemoryStart <= p BY <3>0 DEF IInv
      <4> QED BY <3>2, <4>2, <4>3 DEF Huge
    <3>5. ASSUME NEW i \in DOMAIN Regions,
                 Regions[i].Start + Regions[i].Length < WordSize,
                 n <= Regions[i].Length
          PROVE  \/ p + n < Regions[i].Start
                 \/ Regions[i].Start + Regions[i].Length < p
      <4>1. Regions[i].Start \in Nat /\ Regions[i].Length \in Nat
        <5>1. Regions[i] \in [Start : 0 .. WordSize - 1,
                             Length : 0 .. WordSize - 1]
          BY RegionAssumption, Element, Zenon
        <5> QED BY <5>1
      <4>2. RegionEnd(Regions[i]) = Regions[i].Start + Regions[i].Length
        BY <3>5, <4>1, PlusFacts DEF RegionEnd
      <4>3. ~ Conflicts(p, n, Regions[i]) BY <2>2 DEF Carve, MapClear
      <4> QED BY <3>2, <3>4, <3>5, <4>1, <4>2, <4>3 DEF Conflicts, Within
    <3>6. ASSUME NEW a \in Blocks', NEW i \in DOMAIN Regions,
                 Regions[i].Start + Regions[i].Length < WordSize,
                 \A m \in Requests : m <= Regions[i].Length \/ Huge(m)
          PROVE  \/ a + heap'[a].reserved < Regions[i].Start
                 \/ Regions[i].Start + Regions[i].Length < a
      <4>1. CASE a = p BY <4>1, <3>3, <3>4, <3>5, <3>6
      <4>2. CASE a \in Blocks
        BY <4>2, <3>0, <3>3, <3>6
      <4> QED BY <4>1, <4>2, <3>3
    <3> QED BY <3>6 DEF Huge
  <2>3. ASSUME NEW a \in Blocks, NEW n \in Word,
               \/ heap' = Dropped(heap, a)
               \/ heap' = [heap EXCEPT ![a] = [@ EXCEPT !.Length = n]],
               UNCHANGED status
        PROVE  ClearOfLongRegions'
    BY <2>1, <2>3, InPlaceEffect DEF IInv, Intact
  <2>4. ASSUME UNCHANGED heap, Intact' => Intact PROVE ClearOfLongRegions'
    BY <2>1, <2>4 DEF Blocks
  <2>5. ASSUME NEW n \in Requests, Malloc(n) PROVE ClearOfLongRegions'
    BY <2>5, <2>2, <2>4 DEF Malloc, Fail, Intact
  <2>6. ASSUME NEW a \in Blocks, Free(a) PROVE ClearOfLongRegions'
    <3>1. 0 \in Word BY DEF Word
    <3> QED BY <3>1, <2>3, <2>6 DEF Free
  <2>7. ASSUME NEW a \in Blocks, NEW n \in Requests, Realloc(a, n)
        PROVE  ClearOfLongRegions'
    <3>1. n \in Word BY DEF Word
    <3> QED BY <3>1, <2>2, <2>3, <2>4, <2>7 DEF Realloc, Fail, Intact
  <2>8. CASE Lost \/ UNCHANGED vars BY <2>8, <2>4 DEF Lost, vars, Intact
  <2>9. ASSUME NEW a \in Blocks, Fill(a) PROVE ClearOfLongRegions'
    BY <2>9, <2>4 DEF Fill, Intact
  <2> QED BY <2>5, <2>6, <2>7, <2>8, <2>9 DEF Next, Blocks
<1>3. IInv /\ ClearOfLongRegions => OnlyTailInLongRegion
  <2> SUFFICES ASSUME IInv, ClearOfLongRegions, Intact,
                      NEW a \in Blocks, NEW i \in DOMAIN Regions, ~ Grown(a),
                      Regions[i].Start + Regions[i].Length < WordSize,
                      \A n \in Requests : n <= Regions[i].Length \/ Huge(n)
               PROVE  \/ End(a) < Regions[i].Start + HeaderSize
                      \/ Regions[i].Start + Regions[i].Length < a
    BY DEF OnlyTailInLongRegion
  <2>1. heap[a] \in Header /\ a \in Word BY DEF IInv, TypeOK
  <2>2. a \in Nat /\ heap[a].Length \in Nat /\ heap[a].reserved \in Nat
    BY <2>1 DEF Header, Word
  <2>3. Regions[i] \in [Start : 0 .. WordSize - 1, Length : 0 .. WordSize - 1]
    BY RegionAssumption, Element, Zenon
  <2>4. Regions[i].Start \in Nat BY <2>3
  <2>5. heap[a].Length <= heap[a].reserved BY <2>2 DEF Grown
  <2>6. \/ a + heap[a].reserved < Regions[i].Start
        \/ Regions[i].Start + Regions[i].Length < a
    OBVIOUS
  <2> QED BY <2>2, <2>4, <2>5, <2>6 DEF End
<1> HIDE DEF ClearOfLongRegions
<1> QED BY <1>1, <1>2, <1>3, Invariant, PTL DEF Spec

\* A freed block stays freed: only its Next may still change, when the block
\* after it is placed.
THEOREM NeverRevived == Spec => FreedForever
<1> USE LayoutAssumption, RequestAssumption
<1> DEFINE Same(a) ==
      a \in Blocks' /\ heap'[a] \in {heap[a],
          [heap[a] EXCEPT !.Next = NextAllocationPosition]}
<1>1. IInv /\ [Next]_vars => [\A a \in Blocks : ~ Live(a) => Same(a)]_vars
  <2> SUFFICES ASSUME IInv, Next, NEW c \in Blocks, ~ Live(c)
               PROVE  Same(c)
    OBVIOUS
  <2>1. TypeOK /\ \A a \in Blocks : heap[a] \in Header
    BY DEF IInv, TypeOK
  <2>2. ASSUME NEW n \in Requests, NEW old \in Blocks \cup {NULL},
               old # c, status = "running", Carve(n, old)
        PROVE Same(c)
    <3>1. NextAllocationPosition \notin Blocks BY <2>2, AllBelow DEF Intact
    <3>2. n \in Word BY DEF Word
    <3>3. /\ Blocks' = Blocks \cup {NextAllocationPosition}
          /\ heap' \in [Blocks' -> Header]
          /\ heap'[c].reserved = heap[c].reserved
          /\ heap'[c].Length = heap[c].Length
          /\ heap'[c].Previous = heap[c].Previous
          /\ heap'[c].AllocationHeader = heap[c].AllocationHeader
          /\ heap'[c].Flags = heap[c].Flags
          /\ heap'[c].Next \in {heap[c].Next, NextAllocationPosition}
      BY <2>1, <2>2, <3>1, <3>2, PlaceEffect DEF Carve
    <3>4. heap'[c] \in Header /\ heap[c] \in Header BY <3>3, <2>1
    <3>5. heap'[c] = [heap[c] EXCEPT !.Next = heap'[c].Next]
      BY <3>3, <3>4 DEF Header
    <3>6. heap[c] = [heap[c] EXCEPT !.Next = heap[c].Next]
      BY <3>4 DEF Header
    <3> QED BY <3>3, <3>5, <3>6
  <2>3. ASSUME heap' = heap PROVE Same(c) BY <2>3 DEF Blocks
  <2>4. status = "running" => NULL \notin Blocks
    BY DEF IInv, ReservedDisjoint, NULL, Intact
  <2>5. ASSUME NEW n \in Requests, Malloc(n) PROVE Same(c)
    BY <2>5, <2>2, <2>3, <2>4 DEF Malloc, Fail
  <2>6. ASSUME NEW a \in Blocks, NEW n \in Word, a # c,
               \/ heap' = Dropped(heap, a)
               \/ heap' = [heap EXCEPT ![a] = [@ EXCEPT !.Length = n]]
        PROVE Same(c)
    BY <2>1, <2>6, InPlaceEffect
  <2>7. ASSUME NEW a \in Blocks, Free(a) PROVE Same(c)
    <3>1. 0 \in Word /\ a # c BY <2>7 DEF Word, Free, Live
    <3> QED BY <3>1, <2>6, <2>7 DEF Free
  <2>8. ASSUME NEW a \in Blocks, NEW n \in Requests, Realloc(a, n)
        PROVE Same(c)
    <3>1. n \in Word /\ a # c BY <2>8 DEF Word, Realloc, Live
    <3> QED BY <3>1, <2>2, <2>3, <2>6, <2>8 DEF Realloc, Fail
  <2>9. CASE Lost BY <2>9, <2>3 DEF Lost, vars
  <2>10. ASSUME NEW a \in Blocks, Fill(a) PROVE Same(c)
    BY <2>10, <2>3 DEF Fill
  <2> QED BY <2>5, <2>7, <2>8, <2>9, <2>10 DEF Next, Blocks
<1> QED BY <1>1, Invariant, PTL DEF Spec, FreedForever


-----------------------------------------------------------------------------
(* Step by step: modular arithmetic and frames *)

\* From p, the distance to s modulo WordSize leads to s.
LEMMA GapReaches ==
    ASSUME NEW p \in Word, NEW s \in Word
    PROVE  /\ (s - p) % WordSize \in Word
           /\ Plus(p, (s - p) % WordSize) = s
<1> USE LayoutAssumption DEF Word
<1>1. WordSize \in Nat \ {0} OBVIOUS
<1>2. CASE p <= s
  <2>1. (s - p) % WordSize = s - p BY <1>1, <1>2
  <2>2. s - p \in 0 .. WordSize - 1 /\ p + (s - p) = s BY <1>2
  <2>3. Plus(p, s - p) = s BY <2>2, PlusFacts
  <2> QED BY <2>1, <2>2, <2>3
<1>3. CASE s < p
  <2> DEFINE g == s - p + WordSize
  <2>1. g \in 0 .. WordSize - 1 BY <1>3
  <2>2. (s - p) % WordSize = g % WordSize BY <1>1
  <2>3. g % WordSize = g BY <1>1, <2>1
  <2> HIDE DEF g
  <2>4. Plus(p, g) = p + g - WordSize
    <3>1. p + g = s + WordSize BY DEF g
    <3> QED BY <2>1, <3>1, PlusWraps
  <2> QED BY <2>1, <2>2, <2>3, <2>4 DEF g
<1> QED BY <1>2, <1>3

Frame == [size : Word, i : 0 .. Len(Regions) + 1]

\* The stack after the innermost walk has moved to entry k.
WalkedTo(k) == [stack EXCEPT ![Depth] = [@ EXCEPT !.i = k]]

LEMMA WalkOn ==
    ASSUME stack \in Seq(Frame), stack # <<>>, NEW k \in 0 .. Len(Regions) + 1
    PROVE  /\ WalkedTo(k) \in Seq(Frame) /\ Len(WalkedTo(k)) = Depth
           /\ \A d \in 1 .. Depth - 1 : WalkedTo(k)[d] = stack[d]
           /\ WalkedTo(k)[Depth].size = Inner.size /\ WalkedTo(k)[Depth].i = k
<1>1. Depth \in 1 .. Len(stack) /\ Inner \in Frame BY DEF Depth, Inner
<1>2. [Inner EXCEPT !.i = k] \in Frame BY <1>1 DEF Frame
<1>3. WalkedTo(k) = [stack EXCEPT ![Depth] = [Inner EXCEPT !.i = k]]
  BY <1>1 DEF Inner, WalkedTo
<1>4. WalkedTo(k) \in Seq(Frame) /\ Len(WalkedTo(k)) = Len(stack)
  BY <1>1, <1>2, <1>3
<1> QED BY <1>1, <1>3, <1>4 DEF Depth, Frame

-----------------------------------------------------------------------------
(* Step by step: the inductive invariant *)

\* The call at the bottom of the stack, as Memory would take it: its size, the
\* block realloc moves, and what its walk has found so far.
OuterInv ==
    /\ stack[1].size \in Requests
    /\ \/ moved = NULL /\ stack[1].size # 0
       \/ /\ moved \in DOMAIN heap
          /\ heap[moved].AllocationHeader = Magic
          /\ heap[moved].Length < stack[1].size
          /\ heap[moved].Next # NULL
    /\ stack[1].i # 0 => InBounds(NextAllocationPosition, stack[1].size)
    /\ \A j \in 1 .. stack[1].i - 1 :
          ~ Conflicts(NextAllocationPosition, stack[1].size, Regions[j])
    /\ Depth > 1 => /\ stack[1].i # 0
                    /\ ~ MapClear(NextAllocationPosition, stack[1].size)

\* A frame is stuck: an entry its walk has yet to reach is in its way.
Stuck(f) ==
    \E j \in DOMAIN Regions :
        /\ Conflicts(NextAllocationPosition, f.size, Regions[j])
        /\ f.i <= j

StepsInv ==
    /\ NextAllocationPosition \in Word
    /\ stack \in Seq(Frame)
    /\ stack # <<>> => OuterInv
    /\ \A d \in 2 .. Depth : Stuck(stack[d])

\* A walk that is through has found no entry in the way, so only the outermost
\* call returns.
LEMMA OnlyOuterReturns ==
    ASSUME StepsInv, Return
    PROVE  /\ Depth = 1 /\ Inner = stack[1]
           /\ InBounds(NextAllocationPosition, Inner.size)
           /\ MapClear(NextAllocationPosition, Inner.size)
<1>1. Depth \in Nat \ {0} BY DEF Return, Busy, Depth, StepsInv
<1>2. Len(Regions) \in Nat /\ DOMAIN Regions = 1 .. Len(Regions)
  BY RegionAssumption
<1>3. Depth = 1
  <2> SUFFICES ASSUME Depth \in 2 .. Depth PROVE FALSE BY <1>1
  <2>1. Stuck(Inner) BY DEF StepsInv, Inner
  <2> QED BY <1>2, <2>1 DEF Stuck, Return, Inner
<1> QED BY <1>2, <1>3 DEF StepsInv, OuterInv, Return, Busy, Inner, MapClear

\* The entry in the way of a call is in the way of the call for the gap too.
LEMMA GapIsInTheWay ==
    ASSUME NextAllocationPosition \in Word, Inner.size \in Word, AtEntry, InTheWay
    PROVE  /\ Gap \in Word
           /\ Conflicts(NextAllocationPosition, Gap, Regions[Inner.i])
<1> DEFINE r == Regions[Inner.i]
<1>1. r.Start \in Word /\ r.Length \in Word
  <2>1. r \in [Start : 0 .. WordSize - 1, Length : 0 .. WordSize - 1]
    BY RegionAssumption, Element, Zenon DEF AtEntry
  <2> HIDE DEF r
  <2> QED BY <2>1 DEF Word
<1>2. /\ Gap \in Word
      /\ Plus(NextAllocationPosition, Gap) = r.Start
  BY <1>1, GapReaches DEF Gap
<1>3. RegionEnd(r) \in Word
  <2> HIDE DEF r
  <2>1. r.Start \in Nat /\ r.Length \in Nat BY <1>1 DEF Word
  <2>2. Plus(r.Start, r.Length) \in Word BY <2>1, PlusFacts
  <2> QED BY <2>2 DEF RegionEnd
<1>4. \A a \in Word : Plus(NextAllocationPosition, a) \in Word
  BY PlusFacts DEF Word
<1>5. NextAllocationPosition <= RegionEnd(r) BY DEF InTheWay, Conflicts
<1>6. r.Start <= RegionEnd(r)
  <2>1. PICK a : r.Start <= a /\ a <= RegionEnd(r) /\ a \in Word
    BY <1>4 DEF InTheWay, Conflicts, Within
  <2> QED BY <1>1, <1>3, <2>1 DEF Word
<1> QED BY <1>1, <1>2, <1>3, <1>5, <1>6 DEF Conflicts, Within, Word

LEMMA StepPreserves ==
    ASSUME StepsInv, Step
    PROVE  StepsInv'
<1> USE RegionAssumption
<1>1. /\ NextAllocationPosition \in Word /\ stack \in Seq(Frame)
      /\ stack # <<>> /\ Depth \in Nat \ {0} /\ OuterInv
      /\ Inner \in Frame
      /\ Len(Regions) \in Nat /\ DOMAIN Regions = 1 .. Len(Regions)
  BY DEF StepsInv, Step, CheckBounds, SkipEntry, Recurse, Return, AtEntry, Busy,
         Depth, Inner
\* Memory's variables are as they were until the outermost call returns.
<1> DEFINE SameMemory == UNCHANGED <<heap, NextAllocationPosition, moved>>
           OuterWalk ==
               /\ stack'[1].size = stack[1].size
               /\ stack'[1].i # 0 =>
                     InBounds(NextAllocationPosition, stack[1].size)
               /\ \A j \in 1 .. stack'[1].i - 1 :
                     ~ Conflicts(NextAllocationPosition, stack[1].size, Regions[j])
               /\ Len(stack') > 1 =>
                     /\ stack'[1].i # 0
                     /\ ~ MapClear(NextAllocationPosition, stack[1].size)
           OthersStuck == \A d \in 2 .. Len(stack') : Stuck(stack'[d])
<1>2. ASSUME stack' \in Seq(Frame), stack' # <<>>, SameMemory, OuterWalk,
             OthersStuck
      PROVE  StepsInv'
  <2>1. OuterInv' BY <1>1, <1>2 DEF OuterInv, Depth, InBounds, MapClear, Conflicts
  <2>2. \A d \in 2 .. Depth' : Stuck(stack[d])' BY <1>2 DEF Stuck, Depth, Conflicts
  <2> QED BY <1>1, <1>2, <2>1, <2>2 DEF StepsInv
\* The innermost call walks on to k, past no entry that is in its way.
<1> DEFINE Passes(k) ==
               /\ Inner.i = 0 => InBounds(NextAllocationPosition, Inner.size)
               /\ \A j \in 1 .. k - 1 : j >= Inner.i =>
                     ~ Conflicts(NextAllocationPosition, Inner.size, Regions[j])
<1>3. ASSUME NEW k \in 1 .. Len(Regions) + 1, stack' = WalkedTo(k), SameMemory,
             Passes(k)
      PROVE  StepsInv'
  <2>1. /\ stack' \in Seq(Frame) /\ Len(stack') = Depth /\ stack' # <<>>
        /\ \A d \in 1 .. Depth - 1 : stack'[d] = stack[d]
        /\ stack'[Depth].size = Inner.size /\ stack'[Depth].i = k
    <3>1. k \in 0 .. Len(Regions) + 1 BY <1>1
    <3>2. Len(stack') # 0 BY <1>1, <1>3, <3>1, WalkOn
    <3> QED BY <1>1, <1>3, <3>1, <3>2, WalkOn
  <2>2. CASE Depth = 1
    <3>1. /\ stack'[1].size = stack[1].size /\ stack'[1].i = k
          /\ stack[1] = Inner /\ Len(stack') = 1
      BY <2>1, <2>2 DEF Inner
    <3>2. InBounds(NextAllocationPosition, stack[1].size)
      BY <1>3, <3>1, <1>1 DEF OuterInv
    <3>3. \A j \in 1 .. k - 1 :
             ~ Conflicts(NextAllocationPosition, stack[1].size, Regions[j])
      BY <1>1, <1>3, <3>1 DEF OuterInv, Frame
    <3>4. OuterWalk BY <3>1, <3>2, <3>3
    <3>5. OthersStuck BY <3>1
    <3> QED BY <1>2, <1>3, <2>1, <3>4, <3>5
  <2>3. CASE Depth > 1
    <3>1. stack'[1] = stack[1] BY <1>1, <2>1, <2>3
    <3>2. \A d \in 2 .. Depth - 1 : Stuck(stack'[d]) BY <1>1, <2>1 DEF StepsInv
    <3>3. PICK j \in DOMAIN Regions :
             /\ Conflicts(NextAllocationPosition, Inner.size, Regions[j])
             /\ Inner.i <= j
      BY <1>1, <2>3 DEF StepsInv, Stuck, Inner
    <3>4. k <= j BY <1>1, <1>3, <3>3 DEF Frame
    <3>5. \A d \in 2 .. Depth : Stuck(stack'[d])
      <4>1. Stuck(stack'[Depth]) BY <2>1, <3>3, <3>4 DEF Stuck
      <4> QED BY <1>1, <3>2, <4>1
    <3>6. /\ stack[1].i # 0 /\ InBounds(NextAllocationPosition, stack[1].size)
          /\ ~ MapClear(NextAllocationPosition, stack[1].size)
          /\ \A e \in 1 .. stack[1].i - 1 :
                ~ Conflicts(NextAllocationPosition, stack[1].size, Regions[e])
      BY <1>1, <2>3 DEF OuterInv
    <3>7. OuterWalk /\ OthersStuck BY <2>1, <3>1, <3>5, <3>6
    <3> QED BY <1>2, <1>3, <2>1, <3>7
  <2> QED BY <1>1, <2>2, <2>3
<1>4. ASSUME stack' = stack, SameMemory
      PROVE  StepsInv'
  BY <1>4 DEF StepsInv, OuterInv, Stuck, Depth, InBounds, MapClear, Conflicts
<1> HIDE DEF SameMemory, OuterWalk, OthersStuck, Passes
<1>5. CASE CheckBounds
  <2>1. Inner.i = 0 /\ SameMemory BY <1>5 DEF CheckBounds, SameMemory
  <2>2. CASE InBounds(NextAllocationPosition, Inner.size)
    <3>1. stack' = WalkedTo(1) BY <1>5, <2>2 DEF CheckBounds, WalkedTo
    <3>2. Passes(1) BY <2>2 DEF Passes
    <3> QED BY <1>1, <1>3, <2>1, <3>1, <3>2
  <2>3. CASE ~ InBounds(NextAllocationPosition, Inner.size)
    BY <1>4, <1>5, <2>1, <2>3 DEF CheckBounds
  <2> QED BY <2>2, <2>3
<1>6. CASE SkipEntry
  <2>1. /\ Inner.i \in 1 .. Len(Regions) /\ SameMemory
        /\ stack' = WalkedTo(Inner.i + 1)
    BY <1>1, <1>6 DEF SkipEntry, AtEntry, vars, WalkedTo, SameMemory
  <2>2. ~ Conflicts(NextAllocationPosition, Inner.size, Regions[Inner.i])
    BY <1>6 DEF SkipEntry, InTheWay
  <2>3. Passes(Inner.i + 1) BY <2>1, <2>2 DEF Passes
  <2> QED BY <1>1, <1>3, <2>1, <2>3
<1>7. CASE Recurse
  <2>1. AtEntry /\ InTheWay /\ Inner.i \in DOMAIN Regions
    BY <1>7 DEF Recurse, AtEntry
  <2>2. /\ Gap \in Word
        /\ Conflicts(NextAllocationPosition, Gap, Regions[Inner.i])
    BY <1>1, <2>1, GapIsInTheWay DEF Frame
  <2>3. SameMemory BY <1>7 DEF Recurse, SameMemory
  <2>4. CASE stack' = WalkedTo(1)
    <3>1. Passes(1) BY <1>1, <2>1 DEF Passes
    <3> QED BY <1>1, <1>3, <2>3, <2>4, <3>1
  <2>5. CASE stack' = Append(WalkedTo(1), [size |-> Gap, i |-> 0])
    <3> DEFINE again == WalkedTo(1)
    <3>1. /\ again \in Seq(Frame) /\ Len(again) = Depth
          /\ \A d \in 1 .. Depth - 1 : again[d] = stack[d]
          /\ again[Depth].size = Inner.size /\ again[Depth].i = 1
      BY <1>1, WalkOn
    <3>2. [size |-> Gap, i |-> 0] \in Frame BY <1>1, <2>2 DEF Frame
    <3> HIDE DEF again
    <3>3. /\ stack' \in Seq(Frame) /\ Len(stack') = Depth + 1 /\ stack' # <<>>
          /\ \A d \in 1 .. Depth : stack'[d] = again[d]
          /\ stack'[Depth + 1] = [size |-> Gap, i |-> 0]
      BY <1>1, <2>5, <3>1, <3>2 DEF again
    <3>4. \A d \in 2 .. Depth + 1 : Stuck(stack'[d])
      <4>1. \A d \in 2 .. Depth - 1 : Stuck(stack'[d])
        BY <1>1, <3>1, <3>3 DEF StepsInv
      <4>2. stack'[Depth].size = Inner.size /\ stack'[Depth].i = 1
        BY <1>1, <3>1, <3>3
      <4>3. Stuck(stack'[Depth]) BY <1>1, <2>1, <4>2 DEF InTheWay, Stuck
      <4>4. Stuck(stack'[Depth + 1])
        <5>1. stack'[Depth + 1].size = Gap /\ stack'[Depth + 1].i = 0 BY <3>3
        <5>2. 0 <= Inner.i BY <1>1, <2>1
        <5> QED BY <2>1, <2>2, <5>1, <5>2 DEF Stuck
      <4>5. \A d \in 2 .. Depth + 1 :
               d \in 2 .. Depth - 1 \/ d = Depth \/ d = Depth + 1
        BY <1>1
      <4> QED BY <4>1, <4>3, <4>4, <4>5
    <3>5. /\ stack'[1].size = stack[1].size /\ stack'[1].i # 0
          /\ \A j \in 1 .. stack'[1].i - 1 :
                ~ Conflicts(NextAllocationPosition, stack[1].size, Regions[j])
          /\ InBounds(NextAllocationPosition, stack[1].size)
          /\ ~ MapClear(NextAllocationPosition, stack[1].size)
      <4>1. CASE Depth = 1
        <5>1. Inner = stack[1] BY <4>1 DEF Inner
        <5>2. stack'[1].size = Inner.size /\ stack'[1].i = 1
          BY <4>1, <3>1, <3>3
        <5>3. Inner.i # 0 BY <1>1, <2>1
        <5> QED BY <1>1, <2>1, <5>1, <5>2, <5>3 DEF OuterInv, InTheWay, MapClear
      <4>2. CASE Depth > 1
        <5>1. stack'[1] = stack[1] BY <1>1, <4>2, <3>1, <3>3
        <5> QED BY <1>1, <4>2, <5>1 DEF OuterInv
      <4> QED BY <1>1, <4>1, <4>2
    <3>6. OuterWalk BY <3>5 DEF OuterWalk
    <3>7. OthersStuck BY <3>3, <3>4 DEF OthersStuck
    <3> QED BY <1>2, <2>3, <3>3, <3>6, <3>7
  <2>6. CASE stack' = stack BY <1>4, <2>3, <2>6
  <2> QED BY <1>7, <2>4, <2>5, <2>6 DEF Recurse, WalkedTo
<1>8. CASE Return
  <2>1. Depth = 1 /\ stack[1].size \in Word
    BY <1>1, <1>8, OnlyOuterReturns DEF Frame, Inner
  <2>2. stack' = <<>> BY <1>8, <2>1 DEF Return, Depth
  <2>3. NextAllocationPosition' \in Word
    <3>1. NextAllocationPosition'
            = Plus(NextAllocationPosition, Inner.size + HeaderSize + 1)
      BY <1>8 DEF Return, Place
    <3>2. NextAllocationPosition \in Nat /\ Inner.size + HeaderSize + 1 \in Nat
      BY <1>1, LayoutAssumption DEF Frame, Word
    <3> QED BY <3>1, <3>2, PlusFacts
  <2> QED BY <2>2, <2>3 DEF StepsInv, Depth
<1> QED BY <1>5, <1>6, <1>7, <1>8 DEF Step


LEMMA NextStepPreserves ==
    ASSUME StepsInv, [StepsNext]_stepVars
    PROVE  StepsInv'
<1> USE RequestAssumption
\* A call starts with one frame, whose walk is in front of the bounds checks.
<1>1. ASSUME NEW n \in Requests, stack' = <<[size |-> n, i |-> 0]>>,
             UNCHANGED vars,
             \/ moved' = NULL /\ n # 0
             \/ /\ moved' \in DOMAIN heap
                /\ heap[moved'].AllocationHeader = Magic
                /\ heap[moved'].Length < n /\ heap[moved'].Next # NULL
      PROVE  StepsInv'
  <2>1. [size |-> n, i |-> 0] \in Frame
    BY RegionAssumption DEF Frame, Word
  <2>2. /\ stack' \in Seq(Frame) /\ Len(stack') = 1
        /\ stack'[1].size = n /\ stack'[1].i = 0
    BY <1>1, <2>1
  <2>3. OuterInv' BY <1>1, <2>2 DEF OuterInv, Depth, vars
  <2> QED BY <1>1, <2>2, <2>3 DEF StepsInv, Depth, vars
<1>2. ASSUME NEW n \in Requests, CallMalloc(n) PROVE StepsInv'
  BY <1>1, <1>2 DEF CallMalloc
<1>3. ASSUME UNCHANGED <<NextAllocationPosition, stack>>, stack = <<>>
      PROVE  StepsInv'
  BY <1>3 DEF StepsInv, Depth, Stuck
<1>4. ASSUME NEW a \in DOMAIN heap, CallFree(a) PROVE StepsInv'
  BY <1>3, <1>4 DEF CallFree, Free, Idle
<1>7. ASSUME NEW a \in DOMAIN heap, CallFill(a) PROVE StepsInv'
  BY <1>3, <1>7 DEF CallFill, Fill, Idle
<1>5. ASSUME NEW a \in DOMAIN heap, NEW n \in Requests, CallRealloc(a, n)
      PROVE  StepsInv'
  BY <1>1, <1>3, <1>5 DEF CallRealloc, Idle
<1>6. CASE UNCHANGED stepVars
  BY <1>6 DEF StepsInv, OuterInv, Stuck, Depth, InBounds, MapClear, Conflicts,
         stepVars
<1> QED BY <1>2, <1>4, <1>5, <1>6, <1>7, StepPreserves DEF StepsNext

LEMMA StepsInvariant == StepsSpec => []StepsInv
<1>1. StepsInit => StepsInv
  BY LayoutAssumption
     DEF StepsInit, Init, StepsInv, Depth, Word
<1> QED BY <1>1, NextStepPreserves, PTL DEF StepsSpec

-----------------------------------------------------------------------------
(* Step by step: the theorems *)

\* A malloc that CanSafelyAllocate calls for the gap below a region never
\* returns, in whatever order the memory map lists its entries and however
\* they overlap or wrap (Memory.c:121-151).
THEOREM NeverReturnsFromGap == StepsSpec => NestedNeverReturns
<1>1. StepsInv /\ [StepsNext]_stepVars => [Depth > 1 => Depth' >= Depth]_stepVars
  <2> SUFFICES ASSUME StepsInv, StepsNext, Depth > 1 PROVE Depth' >= Depth
    OBVIOUS
  <2>1. stack \in Seq(Frame) /\ stack # <<>> /\ Depth \in Nat
    BY DEF StepsInv, Depth
  <2>2. WalkedTo(1) \in Seq(Frame) /\ Len(WalkedTo(1)) = Depth
    BY <2>1, RegionAssumption, WalkOn
  <2>3. CASE stack' = stack BY <2>1, <2>3 DEF Depth
  <2>4. CASE SkipEntry BY <2>1, <2>4 DEF SkipEntry, Depth
  <2>5. CASE CheckBounds BY <2>1, <2>5 DEF CheckBounds, Depth
  <2>6. CASE Recurse
    <3>1. \/ stack' = WalkedTo(1) \/ stack' = stack
          \/ stack' = Append(WalkedTo(1), [size |-> Gap, i |-> 0])
      BY <2>6 DEF Recurse, WalkedTo
    <3> QED BY <2>1, <2>2, <2>3, <3>1 DEF Depth
  <2>7. ~ Return BY OnlyOuterReturns
  <2> QED BY <2>1, <2>3, <2>4, <2>5, <2>6, <2>7
          DEF StepsNext, Step, CallMalloc, CallFree, CallRealloc, CallFill, Idle,
              stepVars
<1> QED BY <1>1, StepsInvariant, PTL DEF StepsSpec, NestedNeverReturns


\* A step of malloc's loop is none of Memory's, its end for want of memory or
\* stack is Memory's Fail, its return is Carve.
LEMMA StepImplements ==
    ASSUME StepsInv, Step
    PROVE  \/ UNCHANGED vars
           \/ \E n \in Requests : Malloc(n)
           \/ \E a \in DOMAIN heap, n \in Requests : Realloc(a, n)
<1> DEFINE n == stack[1].size
<1>1. /\ status = "running" /\ stack # <<>> /\ Depth \in Nat \ {0} /\ OuterInv
      /\ n \in Requests
  BY DEF StepsInv, OuterInv, Step, CheckBounds, SkipEntry, Recurse, Return,
         AtEntry, Busy, Depth
<1>2. ASSUME Carve(n, moved) \/ Fail(n)
      PROVE  \/ \E m \in Requests : Malloc(m)
             \/ \E a \in DOMAIN heap, m \in Requests : Realloc(a, m)
  BY <1>1, <1>2 DEF OuterInv, Malloc, Realloc
<1>3. ASSUME UNCHANGED <<heap, NextAllocationPosition, MemoryAllocationList>>,
             status' = "oom" \/ (status' = "runaway" /\ AtEntry /\ InTheWay),
             Depth = 1 => (Inner.i = 0 /\ ~ InBounds(NextAllocationPosition, n))
                          \/ (AtEntry /\ InTheWay)
      PROVE  Fail(n)
  <2>1. CASE Depth = 1 /\ Inner.i = 0 /\ ~ InBounds(NextAllocationPosition, n)
    <3>1. ~ AtEntry BY <2>1, RegionAssumption DEF AtEntry
    <3> QED BY <1>3, <2>1, <3>1 DEF Fail
  <2>2. CASE Depth = 1 /\ AtEntry /\ InTheWay
    <3>1. Inner = stack[1] /\ Inner.i # 0
      BY <2>2, RegionAssumption DEF Inner, AtEntry
    <3> QED BY <1>1, <1>3, <2>2, <3>1 DEF OuterInv, Fail, AtEntry, InTheWay, MapClear
  <2>3. CASE Depth > 1 BY <1>1, <1>3, <2>3 DEF OuterInv, Fail
  <2> QED BY <1>1, <1>3, <2>1, <2>2, <2>3
<1>4. CASE CheckBounds
  BY <1>1, <1>2, <1>3, <1>4 DEF CheckBounds, Inner, vars
<1>5. CASE SkipEntry BY <1>5 DEF SkipEntry
<1>6. CASE Recurse
  BY <1>2, <1>3, <1>6 DEF Recurse, vars
<1>7. CASE Return
  BY <1>2, <1>7, OnlyOuterReturns DEF Return, Carve
<1> QED BY <1>4, <1>5, <1>6, <1>7 DEF Step

\* The instance of Memory that MemorySteps speaks of is the module it extends.
LEMMA SameAsInstance ==
    /\ M!Init <=> Init
    /\ UNCHANGED M!vars <=> UNCHANGED vars
    /\ M!Next <=> Next
<1>1. \A p, n : M!InBounds(p, n) <=> InBounds(p, n)
  BY DEF M!InBounds, InBounds, M!Within, Within, M!Plus, Plus
<1>2. \A p, n : M!MapClear(p, n) <=> MapClear(p, n)
  BY DEF M!MapClear, MapClear, M!Conflicts, Conflicts, M!Within, Within,
         M!RegionEnd, RegionEnd, M!Plus, Plus
<1>3. \A n, moved_ : M!Place(n, moved_) <=> Place(n, moved_)
  BY DEF M!Place, Place, M!Carved, Carved, M!NewHeader, NewHeader, M!Dropped,
         Dropped, M!IsFirst, IsFirst, M!Plus, Plus, M!NULL, NULL, M!Magic, Magic,
         M!Released, Released
<1> QED
  BY <1>1, <1>2, <1>3
     DEF M!Init, Init, M!vars, vars, M!Next, Next, M!Malloc, Malloc, M!Free, Free,
         M!Realloc, Realloc, M!Fill, Fill, M!Live, Live, M!End, End, M!Lost, Lost, M!Carve, Carve, M!Fail, Fail,
         M!Dropped, Dropped, M!NULL, NULL, M!Magic, Magic, M!Released, Released

\* The loop and the recursion of malloc, and the calls of it that realloc makes,
\* do what Memory says of a whole call; the properties of Memory are theirs.
THEOREM StepsImplementMemory == StepsSpec => ImplementsMemory
<1>1. StepsInit => M!Init BY SameAsInstance DEF StepsInit
<1>2. StepsInv /\ [StepsNext]_stepVars => [M!Next]_(M!vars)
  <2> SUFFICES ASSUME StepsInv, [StepsNext]_stepVars PROVE [Next]_vars
    BY SameAsInstance
  <2>1. CASE Step BY <2>1, StepImplements DEF Next
  <2>2. ASSUME NEW n \in Requests, CallMalloc(n) PROVE [Next]_vars
    BY <2>2 DEF CallMalloc
  <2>3. ASSUME NEW a \in DOMAIN heap, CallFree(a) PROVE [Next]_vars
    BY <2>3 DEF CallFree, Next
  <2>4. ASSUME NEW a \in DOMAIN heap, NEW n \in Requests, CallRealloc(a, n)
        PROVE  [Next]_vars
    <3>1. Realloc(a, n) \/ UNCHANGED vars
      BY <2>4 DEF CallRealloc, Idle, Realloc
    <3> QED BY <3>1 DEF Next
  <2>5. ASSUME NEW a \in DOMAIN heap, CallFill(a) PROVE [Next]_vars
    BY <2>5 DEF CallFill, Next
  <2>6. CASE UNCHANGED stepVars BY <2>6 DEF stepVars, vars
  <2> QED BY <2>1, <2>2, <2>3, <2>4, <2>5, <2>6 DEF StepsNext
<1> QED BY <1>1, <1>2, StepsInvariant, PTL DEF StepsSpec, ImplementsMemory, M!Spec
=============================================================================
