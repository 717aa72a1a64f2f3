----------------------------- MODULE DriverProofs ----------------------------
(***************************************************************************)
(* Theorems about two drivers of the kernel: TextMode, which is a terminal *)
(* on a screen of any size, and FloppyIRQ, the waits of which take one     *)
(* interrupt each, for every width of the counter, every number of         *)
(* commands and every number of them in flight.                            *)
(***************************************************************************)
EXTENDS TextMode, FloppyIRQ, TLAPS

-----------------------------------------------------------------------------
(* The states of the driver a terminal has: an array of bytes, a place for *)
(* the cursor and nothing stored elsewhere.                                *)
Array(mem) == mem = [p \in 0 .. MEMORY_SIZE - 1 |-> mem[p]]
Lines == 0 .. Rows - 1
Places == 0 .. Columns - 1
Place(r, x) == (r \in Lines /\ x \in Places) \/ (r = Rows /\ x = 0)
State(mem, p) == [memory |-> mem, pos |-> p, stray |-> {}]
Seen(mem, r, x) == [cells |-> Grid(mem), row |-> r, column |-> x]

\* Of a state of the driver and one of the terminal: they show the same.
Agree(v, s) ==
    \E mem, r, x :
        /\ Array(mem) /\ Place(r, x)
        /\ v = State(mem, At(r, x))
        /\ s = Seen(mem, r, x)

AgreeOnScreen(v, s) ==
    \E mem, r, x :
        /\ Array(mem) /\ r \in Lines /\ x \in Places
        /\ v = State(mem, At(r, x))
        /\ s = Seen(mem, r, x)

LEMMA Sizes ==
    /\ XRESOLUTION \in Nat /\ XRESOLUTION > 0
    /\ Rows \in Nat /\ Rows > 1 /\ Columns \in Nat /\ Columns > 0
    /\ XRESOLUTION = 2 * Columns
    /\ WordSize \in Nat /\ WordSize > 0 /\ WordSize % 2 = 0
    /\ MEMORY_SIZE = At(Rows, 0)
    /\ MEMORY_SIZE \in Nat
    /\ At(Rows, 0) + 2 * XRESOLUTION < WordSize
PROOF
<1>1. XRESOLUTION * YRESOLUTION \in Nat
      /\ (YRESOLUTION + 2) * XRESOLUTION = YRESOLUTION * XRESOLUTION + 2 * XRESOLUTION
      /\ XRESOLUTION * YRESOLUTION = YRESOLUTION * XRESOLUTION
  BY ScreenAssumption, SMT
<1> QED
  BY <1>1, ScreenAssumption, SMT DEF Rows, Columns, MEMORY_SIZE, At

\* Lines follow one another.
LEMMA LinesApart ==
    ASSUME NEW r \in Nat, NEW q \in Nat, r < q
    PROVE  At(r, 0) + XRESOLUTION <= At(q, 0)
PROOF
<1>1. PICK d \in Nat : q = r + 1 + d
  <2>1. q - r - 1 \in Nat /\ q = r + 1 + (q - r - 1)
    OBVIOUS
  <2> QED BY <2>1
<1>2. (r + 1 + d) * XRESOLUTION = r * XRESOLUTION + XRESOLUTION + d * XRESOLUTION
  BY Sizes, SMT
<1>3. d * XRESOLUTION \in Nat /\ r * XRESOLUTION \in Nat
  BY Sizes, SMT
<1> QED BY <1>1, <1>2, <1>3, Sizes, SMT DEF At

LEMMA AtNat ==
    ASSUME NEW r \in Nat, NEW x \in Nat
    PROVE  At(r, x) \in Nat /\ At(r, x) = At(r, 0) + 2 * x /\ At(r, 0) \in Nat
           /\ At(r + 1, 0) = At(r, 0) + XRESOLUTION /\ At(0, 0) = 0
BY Sizes, SMT DEF At

LEMMA LastLine ==
    /\ Rows - 1 \in Lines
    /\ At(Rows, 0) = At(Rows - 1, 0) + XRESOLUTION
    /\ At(Rows - 1, 0) \in Nat
PROOF
<1>1. Rows - 1 \in Nat /\ Rows - 1 + 1 = Rows
  BY Sizes
<1>2. At(Rows - 1 + 1, 0) = At(Rows - 1, 0) + XRESOLUTION /\ At(Rows - 1, 0) \in Nat
  BY <1>1, AtNat
<1> QED BY <1>1, <1>2, Sizes DEF Lines

LEMMA InMemory ==
    ASSUME NEW r \in Lines, NEW x \in Places
    PROVE  /\ At(r, x) \in 0 .. MEMORY_SIZE - 1
           /\ At(r, x) + 1 \in 0 .. MEMORY_SIZE - 1
           /\ At(r, x) + 2 <= At(r, 0) + XRESOLUTION
PROOF
<1>1. r \in Nat /\ r < Rows /\ x \in Nat /\ x < Columns
  BY Sizes DEF Lines, Places
<1>2. At(r, 0) + XRESOLUTION <= At(Rows, 0)
  BY <1>1, LinesApart, Sizes
<1>3. At(r, x) = At(r, 0) + 2 * x /\ At(r, 0) \in Nat
  BY <1>1, AtNat
<1> QED BY <1>1, <1>2, <1>3, Sizes

\* Two cells share no byte.
LEMMA CellsApart ==
    ASSUME NEW r \in Lines, NEW x \in Places, NEW q \in Lines, NEW y \in Places,
           r # q \/ x # y
    PROVE  At(r, x) # At(q, y) /\ At(r, x) # At(q, y) + 1 /\ At(r, x) + 1 # At(q, y)
PROOF
<1>1. r \in Nat /\ x \in Nat /\ q \in Nat /\ y \in Nat
      /\ x < Columns /\ y < Columns
  BY Sizes DEF Lines, Places
<1>2. /\ At(r, x) = At(r, 0) + 2 * x /\ At(r, 0) \in Nat
      /\ At(q, y) = At(q, 0) + 2 * y /\ At(q, 0) \in Nat
  BY <1>1, AtNat
<1>3. CASE r < q
  <2>1. At(r, 0) + XRESOLUTION <= At(q, 0)
    BY <1>1, <1>3, LinesApart
  <2> QED BY <2>1, <1>1, <1>2, Sizes
<1>4. CASE q < r
  <2>1. At(q, 0) + XRESOLUTION <= At(r, 0)
    BY <1>1, <1>4, LinesApart
  <2> QED BY <2>1, <1>1, <1>2, Sizes
<1>5. CASE r = q
  BY <1>5, <1>1, <1>2
<1> QED BY <1>1, <1>3, <1>4, <1>5

\* A place in the text determines its line and its column.
LEMMA PlaceOf ==
    ASSUME NEW r \in Nat, NEW x \in Places
    PROVE  /\ At(r, x) \div XRESOLUTION = r
           /\ (At(r, x) % XRESOLUTION) \div 2 = x
           /\ At(r, x) % XRESOLUTION = 2 * x
PROOF
<1>1. x \in Nat /\ 2 * x \in 0 .. XRESOLUTION - 1
  BY Sizes DEF Places
<1>2. \A k \in 0 .. XRESOLUTION - 1 :
        (r * XRESOLUTION + k) \div XRESOLUTION = r /\ (r * XRESOLUTION + k) % XRESOLUTION = k
  BY Sizes, SMTT(30)
<1>3. At(r, x) \div XRESOLUTION = r /\ At(r, x) % XRESOLUTION = 2 * x
  BY <1>1, <1>2 DEF At
<1>4. (2 * x) \div 2 = x
  BY <1>1
<1> QED BY <1>3, <1>4

LEMMA InWord ==
    ASSUME NEW a \in Nat, a < WordSize
    PROVE  a % WordSize = a
BY Sizes

-----------------------------------------------------------------------------
(* Scrolling *)

LEMMA ScrolledCell ==
    ASSUME NEW mem, NEW r \in Lines, NEW x \in Places
    PROVE  Cell(ScrollScreen(mem), At(r, x)) =
               IF r < Rows - 1 THEN Cell(mem, At(r + 1, x)) ELSE Blank
PROOF
<1>1. /\ At(r, x) \in 0 .. MEMORY_SIZE - 1
      /\ At(r, x) + 1 \in 0 .. MEMORY_SIZE - 1
      /\ At(r, x) + 2 <= At(r, 0) + XRESOLUTION
  BY InMemory
<1>2. r \in Nat /\ r < Rows /\ x \in Nat
  BY Sizes DEF Lines, Places
<1>3. At(r + 1, x) = At(r, x) + XRESOLUTION
  <2>1. At(r + 1, x) = At(r + 1, 0) + 2 * x /\ At(r + 1, 0) = At(r, 0) + XRESOLUTION
        /\ At(r, x) = At(r, 0) + 2 * x /\ At(r, 0) \in Nat
    BY <1>2, AtNat
  <2> QED BY <2>1, <1>2, Sizes
<1>4. MEMORY_SIZE - XRESOLUTION = At(Rows - 1, 0)
  BY LastLine, Sizes
<1>5. At(r, x) \in Nat /\ At(r, x) = At(r, 0) + 2 * x /\ At(r, 0) \in Nat /\ At(Rows - 1, 0) \in Nat
  <2>1. Rows - 1 \in Nat
    BY Sizes
  <2> QED BY <1>2, <2>1, AtNat
<1>6. CASE r < Rows - 1
  <2>1. At(r, 0) + XRESOLUTION <= At(Rows - 1, 0)
    BY <1>2, <1>6, LinesApart, Sizes
  <2>2. At(r, x) < MEMORY_SIZE - XRESOLUTION /\ At(r, x) + 1 < MEMORY_SIZE - XRESOLUTION
    BY <2>1, <1>1, <1>4, <1>5, Sizes
  <2>3. /\ ScrollScreen(mem)[At(r, x)] = mem[At(r + 1, x)]
        /\ ScrollScreen(mem)[At(r, x) + 1] = mem[At(r, x) + 1 + XRESOLUTION]
    BY <1>1, <2>2, <1>3 DEF ScrollScreen
  <2>4. At(r, x) + 1 + XRESOLUTION = At(r + 1, x) + 1
    BY <1>3, <1>5, Sizes
  <2> QED BY <2>3, <2>4, <1>6 DEF Cell
<1>7. CASE ~ (r < Rows - 1)
  <2>1. r = Rows - 1
    BY <1>2, <1>7, Sizes
  <2>2. ~ (At(r, x) < MEMORY_SIZE - XRESOLUTION) /\ ~ (At(r, x) + 1 < MEMORY_SIZE - XRESOLUTION)
    BY <2>1, <1>4, <1>5, <1>2, Sizes
  <2>3. ScrollScreen(mem)[At(r, x)] = Zero /\ ScrollScreen(mem)[At(r, x) + 1] = Zero
    BY <1>1, <2>2 DEF ScrollScreen
  <2> QED BY <2>3, <1>7 DEF Cell, Zero
<1> QED BY <1>6, <1>7

LEMMA ScrolledGrid ==
    ASSUME NEW mem
    PROVE  Grid(ScrollScreen(mem)) =
               [r \in Lines |-> IF r < Rows - 1 THEN Grid(mem)[r + 1]
                                ELSE [x \in Places |-> Blank]]
PROOF
<1>1. ASSUME NEW r \in Lines
      PROVE  [x \in Places |-> Cell(ScrollScreen(mem), At(r, x))] =
                 IF r < Rows - 1 THEN Grid(mem)[r + 1] ELSE [x \in Places |-> Blank]
  <2>1. CASE r < Rows - 1
    <3>1. r + 1 \in Lines
      BY <2>1, Sizes DEF Lines
    <3>2. Grid(mem)[r + 1] = [x \in Places |-> Cell(mem, At(r + 1, x))]
      BY <3>1 DEF Grid, Lines, Places
    <3>3. \A x \in Places : Cell(ScrollScreen(mem), At(r, x)) = Cell(mem, At(r + 1, x))
      BY <2>1, ScrolledCell
    <3> HIDE DEF Places
    <3> QED BY <2>1, <3>2, <3>3
  <2>2. CASE ~ (r < Rows - 1)
    <3>1. \A x \in Places : Cell(ScrollScreen(mem), At(r, x)) = Blank
      BY <2>2, ScrolledCell
    <3> QED BY <2>2, <3>1
  <2> QED BY <2>1, <2>2
<1>2. Grid(ScrollScreen(mem)) =
          [r \in Lines |-> [x \in Places |-> Cell(ScrollScreen(mem), At(r, x))]]
  BY DEF Grid, Lines, Places
<1> QED BY <1>1, <1>2

LEMMA StickScrolls ==
    ASSUME NEW v, NEW mem, NEW p, v = State(mem, p), ~ (p < MEMORY_SIZE)
    PROVE  StickWithinBounds(v) = State(ScrollScreen(mem), Minus(p, XRESOLUTION))
PROOF
<1>1. v.pos = p /\ v.memory = mem
  BY DEF State
<1>2. StickWithinBounds(v) =
          [v EXCEPT !.memory = ScrollScreen(mem), !.pos = Minus(p, XRESOLUTION)]
  BY <1>1 DEF StickWithinBounds
<1> QED BY <1>2 DEF State

\* The head of putch is the terminal's putting off the scroll.
LEMMA Sticks ==
    ASSUME NEW v, NEW s, Agree(v, s)
    PROVE  AgreeOnScreen(StickWithinBounds(v), T!Scrolled(s))
PROOF
<1>1. PICK mem, r, x : /\ Array(mem) /\ Place(r, x)
                       /\ v = State(mem, At(r, x))
                       /\ s = Seen(mem, r, x)
  BY DEF Agree
<1>2. v.pos = At(r, x) /\ v.memory = mem /\ s.row = r /\ s.cells = Grid(mem)
  BY <1>1 DEF State, Seen
<1>3. CASE r \in Lines /\ x \in Places
  <2>1. v.pos < MEMORY_SIZE /\ r < Rows
    BY <1>2, <1>3, InMemory, Sizes DEF Lines
  <2>2. StickWithinBounds(v) = v /\ T!Scrolled(s) = s
    BY <2>1, <1>2 DEF StickWithinBounds, T!Scrolled
  <2> QED BY <2>2, <1>1, <1>3 DEF AgreeOnScreen
<1>4. CASE r = Rows /\ x = 0
  <2>1. ~ (v.pos < MEMORY_SIZE) /\ ~ (r < Rows)
    BY <1>2, <1>4, Sizes
  <2>2. Minus(v.pos, XRESOLUTION) = At(Rows - 1, 0)
    <3>1. At(Rows, 0) - XRESOLUTION = At(Rows - 1, 0) /\ At(Rows - 1, 0) < WordSize
      BY LastLine, Sizes
    <3> QED BY <3>1, LastLine, <1>2, <1>4, InWord DEF Minus
  <2>4. StickWithinBounds(v) = State(ScrollScreen(mem), At(Rows - 1, 0))
    BY <2>1, <2>2, <1>1, <1>2, StickScrolls
  <2>5. T!Scrolled(s) = [s EXCEPT !.row = Rows - 1, !.cells = Grid(ScrollScreen(mem))]
    BY <2>1, <1>2, ScrolledGrid DEF T!Scrolled, Lines, Places
  <2>6. T!Scrolled(s) = Seen(ScrollScreen(mem), Rows - 1, 0)
    BY <2>5, <1>1, <1>4 DEF Seen
  <2>7. Array(ScrollScreen(mem)) /\ Rows - 1 \in Lines /\ 0 \in Places
    BY Sizes DEF Array, ScrollScreen, Lines, Places
  <2> QED BY <2>4, <2>6, <2>7 DEF AgreeOnScreen
<1> QED BY <1>1, <1>3, <1>4 DEF Place

-----------------------------------------------------------------------------
(* Printing a character *)

\* A character and its colour behind one another, as putch stores them.
Pair(v, g) == Store(Store(v, <<g, "char">>), <<g, "colour">>)

LEMMA StoresAByte ==
    ASSUME NEW mem, Array(mem), NEW p \in 0 .. MEMORY_SIZE - 1, NEW byte
    PROVE  /\ Store(State(mem, p), byte) = State([mem EXCEPT ![p] = byte], p + 1)
           /\ Array([mem EXCEPT ![p] = byte])
PROOF
<1>1. DOMAIN mem = 0 .. MEMORY_SIZE - 1
  BY DEF Array
<1>2. Plus(p, 1) = p + 1
  BY Sizes, InWord DEF Plus
<1>3. State(mem, p).pos = p /\ State(mem, p).memory = mem
  BY DEF State
<1>4. Store(State(mem, p), byte) =
          [State(mem, p) EXCEPT !.memory = [mem EXCEPT ![p] = byte], !.pos = p + 1]
  BY <1>1, <1>2, <1>3 DEF Store
<1>5. Array([mem EXCEPT ![p] = byte])
  BY <1>1 DEF Array
<1> QED BY <1>4, <1>5 DEF State

LEMMA Halves ==
    \A byte, g, half : byte = <<g, half>> => byte[1] = g /\ byte[2] = half
OBVIOUS

LEMMA CellPut ==
    ASSUME NEW mem, Array(mem), NEW r \in Lines, NEW x \in Places, NEW g, NEW mem2,
           mem2 = [[mem EXCEPT ![At(r, x)] = <<g, "char">>]
                       EXCEPT ![At(r, x) + 1] = <<g, "colour">>]
    PROVE  Grid(mem2) = [Grid(mem) EXCEPT ![r][x] = g]
PROOF
<1>1. /\ At(r, x) \in 0 .. MEMORY_SIZE - 1 /\ At(r, x) + 1 \in 0 .. MEMORY_SIZE - 1
      /\ At(r, x) # At(r, x) + 1
      /\ DOMAIN mem = 0 .. MEMORY_SIZE - 1
  BY InMemory DEF Array
<1>2. Cell(mem2, At(r, x)) = g
  <2>1. mem2[At(r, x)] = <<g, "char">> /\ mem2[At(r, x) + 1] = <<g, "colour">>
    BY <1>1
  <2>2. /\ mem2[At(r, x)][1] = g /\ mem2[At(r, x) + 1][1] = g
        /\ mem2[At(r, x)][2] = "char" /\ mem2[At(r, x) + 1][2] = "colour"
    BY <2>1, Halves
  <2> QED BY <2>2 DEF Cell
<1>3. ASSUME NEW q \in Lines, NEW y \in Places, r # q \/ x # y
      PROVE  Cell(mem2, At(q, y)) = Cell(mem, At(q, y))
  <2>1. At(r, x) # At(q, y) /\ At(r, x) # At(q, y) + 1 /\ At(r, x) + 1 # At(q, y)
    BY <1>3, CellsApart
  <2>2. At(q, y) \in 0 .. MEMORY_SIZE - 1 /\ At(q, y) + 1 \in 0 .. MEMORY_SIZE - 1
    BY InMemory
  <2>3. mem2[At(q, y)] = mem[At(q, y)] /\ mem2[At(q, y) + 1] = mem[At(q, y) + 1]
    BY <2>1, <2>2, <1>1
  <2> QED BY <2>3 DEF Cell
<1>4. ASSUME NEW m
      PROVE  Grid(m) = [q \in Lines |-> [y \in Places |-> Cell(m, At(q, y))]]
  BY DEF Grid, Lines, Places
<1>5. \A q \in Lines, y \in Places : Cell(mem2, At(q, y)) =
          IF q = r /\ y = x THEN g ELSE Cell(mem, At(q, y))
  BY <1>2, <1>3
<1> HIDE DEF Lines, Places
<1>6. [Grid(mem) EXCEPT ![r][x] = g] =
          [q \in Lines |-> [y \in Places |-> IF q = r /\ y = x THEN g ELSE Cell(mem, At(q, y))]]
  BY <1>4
<1>7. Grid(mem2) = [q \in Lines |-> [y \in Places |-> Cell(mem2, At(q, y))]]
  BY <1>4
<1>8. \A q \in Lines : [y \in Places |-> Cell(mem2, At(q, y))] =
          [y \in Places |-> IF q = r /\ y = x THEN g ELSE Cell(mem, At(q, y))]
  BY <1>5
<1> QED BY <1>6, <1>7, <1>8

LEMMA Puts ==
    ASSUME NEW mem, Array(mem), NEW r \in Lines, NEW x \in Places, NEW g
    PROVE  \E mem2 : /\ Array(mem2)
                     /\ Pair(State(mem, At(r, x)), g) = State(mem2, At(r, x) + 2)
                     /\ Grid(mem2) = [Grid(mem) EXCEPT ![r][x] = g]
PROOF
<1> DEFINE half == [mem EXCEPT ![At(r, x)] = <<g, "char">>]
           mem2 == [half EXCEPT ![At(r, x) + 1] = <<g, "colour">>]
<1>1. At(r, x) \in 0 .. MEMORY_SIZE - 1 /\ At(r, x) + 1 \in 0 .. MEMORY_SIZE - 1
  BY InMemory
<1>2. Store(State(mem, At(r, x)), <<g, "char">>) = State(half, At(r, x) + 1) /\ Array(half)
  BY <1>1, StoresAByte
<1>3. Grid(mem2) = [Grid(mem) EXCEPT ![r][x] = g]
  BY CellPut
<1> HIDE DEF half
<1>4. /\ Store(State(half, At(r, x) + 1), <<g, "colour">>) = State(mem2, At(r, x) + 1 + 1)
      /\ Array(mem2)
  BY <1>1, <1>2, StoresAByte
<1>5. At(r, x) + 1 + 1 = At(r, x) + 2
  BY <1>1
<1>6. Pair(State(mem, At(r, x)), g) = State(mem2, At(r, x) + 2)
  BY <1>2, <1>4, <1>5 DEF Pair
<1> HIDE DEF mem2
<1> QED BY <1>3, <1>4, <1>6

\* The cursor moves right, or to the line below.
LEMMA Advances ==
    ASSUME NEW mem, Array(mem), NEW r \in Lines, NEW x \in Places
    PROVE  Agree(State(mem, At(r, x) + 2), T!Advanced(Seen(mem, r, x)))
PROOF
<1>1. r \in Nat /\ x \in Nat /\ r < Rows /\ x < Columns
  BY Sizes DEF Lines, Places
<1>2. /\ At(r, x) = At(r, 0) + 2 * x /\ At(r, 0) \in Nat
      /\ At(r, x + 1) = At(r, 0) + 2 * (x + 1)
      /\ At(r + 1, 0) = At(r, 0) + XRESOLUTION
  BY <1>1, AtNat
<1>3. CASE x < Columns - 1
  <2>1. T!Advanced(Seen(mem, r, x)) = Seen(mem, r, x + 1)
    BY <1>3 DEF T!Advanced, Seen
  <2>2. At(r, x) + 2 = At(r, x + 1) /\ x + 1 \in Places
    BY <1>1, <1>2, <1>3, Sizes DEF Places
  <2> QED BY <2>1, <2>2 DEF Agree, Place
<1>4. CASE ~ (x < Columns - 1)
  <2>1. T!Advanced(Seen(mem, r, x)) = Seen(mem, r + 1, 0)
    BY <1>4 DEF T!Advanced, Seen
  <2>2. At(r, x) + 2 = At(r + 1, 0)
    BY <1>1, <1>2, <1>4, Sizes
  <2>3. Place(r + 1, 0)
    BY <1>1, Sizes DEF Place, Lines, Places
  <2> QED BY <2>1, <2>2, <2>3 DEF Agree
<1> QED BY <1>3, <1>4

LEMMA Writes ==
    ASSUME NEW v, NEW s, Agree(v, s), NEW g
    PROVE  Agree(putch(v, g), T!Written(s, g))
PROOF
<1> DEFINE w == StickWithinBounds(v)
           t == T!Scrolled(s)
<1>1. AgreeOnScreen(w, t)
  BY Sticks
<1>2. putch(v, g) = Pair(w, g)
  BY DEF putch, Pair
<1>3. T!Written(s, g) = T!Advanced([t EXCEPT !.cells[t.row][t.column] = g])
  BY DEF T!Written
<1> HIDE DEF w, t
<1>4. PICK mem, r, x : /\ Array(mem) /\ r \in Lines /\ x \in Places
                       /\ w = State(mem, At(r, x))
                       /\ t = Seen(mem, r, x)
  BY <1>1 DEF AgreeOnScreen
<1>5. PICK mem2 : /\ Array(mem2)
                  /\ Pair(State(mem, At(r, x)), g) = State(mem2, At(r, x) + 2)
                  /\ Grid(mem2) = [Grid(mem) EXCEPT ![r][x] = g]
  BY <1>4, Puts
<1>6. [t EXCEPT !.cells[t.row][t.column] = g] = Seen(mem2, r, x)
  BY <1>4, <1>5 DEF Seen
<1> QED BY <1>2, <1>3, <1>4, <1>5, <1>6, Advances

-----------------------------------------------------------------------------
(* The steps *)

\* What a reader sees of a state of the driver.
LEMMA AgreeShows ==
    ASSUME NEW v, NEW s, Agree(v, s)
    PROVE  /\ v.stray = {}
           /\ v = [memory |-> v.memory, pos |-> v.pos, stray |-> v.stray]
           /\ s = [cells |-> Grid(v.memory),
                   row |-> v.pos \div XRESOLUTION,
                   column |-> (v.pos % XRESOLUTION) \div 2]
PROOF
<1>1. PICK mem, r, x : /\ Array(mem) /\ Place(r, x)
                       /\ v = State(mem, At(r, x))
                       /\ s = Seen(mem, r, x)
  BY DEF Agree
<1>2. r \in Nat /\ x \in Places
  BY <1>1, Sizes DEF Place, Lines, Places
<1>3. At(r, x) \div XRESOLUTION = r /\ (At(r, x) % XRESOLUTION) \div 2 = x
  BY <1>2, PlaceOf
<1>4. /\ v.memory = mem /\ v.pos = At(r, x) /\ v.stray = {}
      /\ v = [memory |-> v.memory, pos |-> v.pos, stray |-> v.stray]
  BY <1>1 DEF State
<1> QED BY <1>1, <1>3, <1>4 DEF Seen

\* A call that returns a state of a terminal leaves that terminal on show.
LEMMA Returns ==
    ASSUME NEW v, NEW s, Agree(v, s), Return(v)
    PROVE  Agree(Video', Shown') /\ Shown' = s /\ ~ Lost'
PROOF
<1>1. memory' = v.memory /\ ScreenPos' = v.pos /\ stray' = v.stray
  BY DEF Return
<1>2. /\ v.stray = {}
      /\ v = [memory |-> v.memory, pos |-> v.pos, stray |-> v.stray]
      /\ s = [cells |-> Grid(v.memory),
              row |-> v.pos \div XRESOLUTION,
              column |-> (v.pos % XRESOLUTION) \div 2]
  BY AgreeShows
<1>3. Video' = v
  BY <1>1, <1>2 DEF Video
<1>4. Shown' = s
  BY <1>1, <1>2 DEF Shown
<1> QED BY <1>1, <1>2, <1>3, <1>4 DEF Lost

LEMMA OnScreenAgree ==
    ASSUME NEW v, NEW s, AgreeOnScreen(v, s)
    PROVE  Agree(v, s) /\ T!Scrolled(s) = s
PROOF
<1>1. PICK mem, r, x : /\ Array(mem) /\ r \in Lines /\ x \in Places
                       /\ v = State(mem, At(r, x))
                       /\ s = Seen(mem, r, x)
  BY DEF AgreeOnScreen
<1>2. s.row < Rows
  BY <1>1, Sizes DEF Seen, Lines
<1> QED BY <1>1, <1>2 DEF Agree, Place, T!Scrolled

LEMMA PosMoved ==
    ASSUME NEW w, NEW mem, NEW p, w = State(mem, p), NEW q
    PROVE  [w EXCEPT !.pos = q] = State(mem, q)
BY DEF State

LEMMA ColumnMoved ==
    ASSUME NEW t, NEW mem, NEW r, NEW x, t = Seen(mem, r, x), NEW y
    PROVE  [t EXCEPT !.column = y] = Seen(mem, r, y)
BY DEF Seen

LEMMA RowMoved ==
    ASSUME NEW t, NEW mem, NEW r, NEW x, t = Seen(mem, r, x), NEW q
    PROVE  [t EXCEPT !.row = q] = Seen(mem, q, x)
BY DEF Seen

LEMMA NewLines ==
    ASSUME NEW v, NEW s, Agree(v, s), NEW w, w = StickWithinBounds(v),
           NEW t, t = T!Scrolled(s)
    PROVE  Agree([w EXCEPT !.pos = Plus(@, XRESOLUTION - (@ % XRESOLUTION))],
                 [t EXCEPT !.row = @ + 1, !.column = 0])
PROOF
<1>1. PICK mem, r, x : /\ Array(mem) /\ r \in Lines /\ x \in Places
                       /\ w = State(mem, At(r, x))
                       /\ t = Seen(mem, r, x)
  BY Sticks DEF AgreeOnScreen
<1>2. r \in Nat /\ x \in Nat /\ r < Rows /\ x < Columns
  BY <1>1, Sizes DEF Lines, Places
<1>3. /\ At(r, x) = At(r, 0) + 2 * x /\ At(r, 0) \in Nat
      /\ At(r + 1, 0) = At(r, 0) + XRESOLUTION
      /\ At(r, x) % XRESOLUTION = 2 * x
  BY <1>1, <1>2, AtNat, PlaceOf
<1>4. At(r, x) + (XRESOLUTION - (At(r, x) % XRESOLUTION)) = At(r + 1, 0)
  BY <1>2, <1>3, Sizes
<1>5. At(r + 1, 0) \in Nat /\ At(r + 1, 0) < WordSize
  <2>1. r + 1 \in Nat /\ (r + 1 < Rows \/ r + 1 = Rows)
    BY <1>2, Sizes
  <2>2. At(r + 1, 0) <= At(Rows, 0)
    <3>1. CASE r + 1 < Rows
      <4>1. At(r + 1, 0) + XRESOLUTION <= At(Rows, 0)
        BY <2>1, <3>1, LinesApart, Sizes
      <4> QED BY <4>1, <1>3, Sizes
    <3>2. CASE r + 1 = Rows
      BY <3>2, Sizes
    <3> QED BY <2>1, <3>1, <3>2
  <2> QED BY <2>2, <1>3, Sizes
<1>6. Plus(At(r, x), XRESOLUTION - (At(r, x) % XRESOLUTION)) = At(r + 1, 0)
  BY <1>4, <1>5, InWord DEF Plus
<1>7. [w EXCEPT !.pos = Plus(@, XRESOLUTION - (@ % XRESOLUTION))] = State(mem, At(r + 1, 0))
  <2>1. w.pos = At(r, x)
    BY <1>1 DEF State
  <2> QED BY <2>1, <1>1, <1>6, PosMoved
<1>8. [t EXCEPT !.row = @ + 1, !.column = 0] = Seen(mem, r + 1, 0)
  <2>1. t.row = r
    BY <1>1 DEF Seen
  <2> DEFINE u == [t EXCEPT !.row = r + 1]
  <2>2. [t EXCEPT !.row = @ + 1, !.column = 0] = [u EXCEPT !.column = 0]
    BY <2>1
  <2>3. u = Seen(mem, r + 1, x)
    BY <1>1, RowMoved
  <2> HIDE DEF u
  <2> QED BY <2>2, <2>3, ColumnMoved
<1>9. Place(r + 1, 0)
  BY <1>2, Sizes DEF Place, Lines, Places
<1> QED BY <1>1, <1>7, <1>8, <1>9 DEF Agree

LEMMA Tabs ==
    ASSUME NEW v, NEW s, Agree(v, s), NEW g
    PROVE  Agree(putch(putch(putch(putch(StickWithinBounds(v), g), g), g), g),
                 T!Written(T!Written(T!Written(T!Written(s, g), g), g), g))
PROOF
<1>1. AgreeOnScreen(StickWithinBounds(v), T!Scrolled(s))
  BY Sticks
<1>2. Agree(StickWithinBounds(v), T!Scrolled(s)) /\ T!Scrolled(T!Scrolled(s)) = T!Scrolled(s)
  BY <1>1, OnScreenAgree
<1>3. T!Written(T!Scrolled(s), g) = T!Written(s, g)
  BY <1>2 DEF T!Written
<1>4. Agree(putch(StickWithinBounds(v), g), T!Written(s, g))
  BY <1>2, <1>3, Writes
<1>5. Agree(putch(putch(StickWithinBounds(v), g), g), T!Written(T!Written(s, g), g))
  BY <1>4, Writes
<1>6. Agree(putch(putch(putch(StickWithinBounds(v), g), g), g),
            T!Written(T!Written(T!Written(s, g), g), g))
  BY <1>5, Writes
<1> QED BY <1>6, Writes

\* The place before one, a backspace in the corner apart.
LEMMA StepsBack ==
    ASSUME NEW mem, NEW r \in Lines, NEW x \in Places, r # 0 \/ x # 0
    PROVE  \E q \in Lines, y \in Places :
               /\ At(r, x) = At(q, y) + 2
               /\ T!StepBack(Seen(mem, r, x)) = Seen(mem, q, y)
PROOF
<1>1. r \in Nat /\ x \in Nat /\ r < Rows /\ x < Columns
  BY Sizes DEF Lines, Places
<1>2. At(r, x) = At(r, 0) + 2 * x /\ At(r, 0) \in Nat
  BY <1>1, AtNat
<1>3. CASE x > 0
  <2>1. x - 1 \in Places /\ x - 1 \in Nat
    BY <1>1, <1>3, Sizes DEF Places
  <2>2. At(r, x - 1) = At(r, 0) + 2 * (x - 1)
    BY <1>1, <2>1, AtNat
  <2>3. At(r, x) = At(r, x - 1) + 2
    BY <1>1, <1>2, <2>2
  <2>4. Seen(mem, r, x).column = x
    BY DEF Seen
  <2>5. T!StepBack(Seen(mem, r, x)) = [Seen(mem, r, x) EXCEPT !.column = x - 1]
    BY <1>3, <2>4 DEF T!StepBack
  <2>6. T!StepBack(Seen(mem, r, x)) = Seen(mem, r, x - 1)
    BY <2>5, ColumnMoved
  <2> QED BY <2>1, <2>3, <2>6
<1>4. CASE ~ (x > 0)
  <2>1. r - 1 \in Lines /\ r - 1 \in Nat /\ r - 1 + 1 = r /\ x = 0
    BY <1>1, <1>4, Sizes DEF Lines
  <2>2. Columns - 1 \in Places /\ Columns - 1 \in Nat
    BY Sizes DEF Places
  <2>3. At(r - 1, Columns - 1) = At(r - 1, 0) + 2 * (Columns - 1) /\ At(r - 1, 0) \in Nat
        /\ At(r - 1 + 1, 0) = At(r - 1, 0) + XRESOLUTION
    BY <2>1, <2>2, AtNat
  <2>4. At(r, x) = At(r - 1, Columns - 1) + 2
    BY <2>1, <2>3, Sizes
  <2>5. Seen(mem, r, x).column = x /\ Seen(mem, r, x).row = r
    BY DEF Seen
  <2>6. T!StepBack(Seen(mem, r, x)) =
            [Seen(mem, r, x) EXCEPT !.row = r - 1, !.column = Columns - 1]
    BY <1>4, <2>5 DEF T!StepBack
  <2>7. T!StepBack(Seen(mem, r, x)) = Seen(mem, r - 1, Columns - 1)
    <3> DEFINE u == [Seen(mem, r, x) EXCEPT !.row = r - 1]
    <3>1. T!StepBack(Seen(mem, r, x)) = [u EXCEPT !.column = Columns - 1]
      BY <2>6
    <3>2. u = Seen(mem, r - 1, x)
      BY DEF Seen
    <3> HIDE DEF u
    <3> QED BY <3>1, <3>2, ColumnMoved
  <2> QED BY <2>1, <2>2, <2>4, <2>7
<1> QED BY <1>3, <1>4

\* What a backspace leaves in the driver.
Backspaced(v) ==
    LET w == putch([StickWithinBounds(v) EXCEPT !.pos = Minus(@, 2)], Space)
        p == Minus(w.pos, 2)
    IN [w EXCEPT !.pos = IF p > Plus(p, 2) THEN 0 ELSE p]

LEMMA Backspaces ==
    ASSUME NEW v, NEW s, Agree(v, s), ~ T!Home(s)
    PROVE  Agree(Backspaced(v), LET t == T!StepBack(T!Scrolled(s))
                                IN [t EXCEPT !.cells[t.row][t.column] = Space])
PROOF
<1> DEFINE a == StickWithinBounds(v)
           t == T!StepBack(T!Scrolled(s))
<1>1. PICK mem, r, x : /\ Array(mem) /\ r \in Lines /\ x \in Places
                       /\ a = State(mem, At(r, x))
                       /\ T!Scrolled(s) = Seen(mem, r, x)
  BY Sticks DEF AgreeOnScreen
<1>2. r # 0 \/ x # 0
  <2>1. CASE s.row < Rows
    <3>1. s = Seen(mem, r, x)
      BY <1>1, <2>1 DEF T!Scrolled
    <3> QED BY <3>1 DEF T!Home, Seen
  <2>2. CASE ~ (s.row < Rows)
    <3>1. PICK m, r2, x2 : s = Seen(m, r2, x2)
      BY DEF Agree
    <3>2. T!Scrolled(s).row = Rows - 1
      BY <2>2, <3>1 DEF T!Scrolled, Seen
    <3>3. r = Rows - 1
      BY <3>2, <1>1 DEF Seen
    <3> QED BY <3>3, Sizes
  <2> QED BY <2>1, <2>2
<1>3. PICK q \in Lines, y \in Places : At(r, x) = At(q, y) + 2 /\ t = Seen(mem, q, y)
  BY <1>1, <1>2, StepsBack
<1>4. At(q, y) \in Nat /\ At(q, y) < MEMORY_SIZE /\ At(q, y) + 2 < WordSize
      /\ At(r, x) < MEMORY_SIZE
  BY InMemory, Sizes, <1>1, <1>3
<1>5. Minus(At(r, x), 2) = At(q, y)
  <2>1. At(r, x) - 2 = At(q, y)
    BY <1>3, <1>4
  <2>2. At(q, y) % WordSize = At(q, y)
    BY <1>4, InWord, Sizes
  <2> QED BY <2>1, <2>2 DEF Minus
<1> HIDE DEF a, t
<1>6. [a EXCEPT !.pos = Minus(@, 2)] = State(mem, At(q, y))
  <2>1. a.pos = At(r, x)
    BY <1>1 DEF State
  <2> QED BY <2>1, <1>1, <1>5, PosMoved
<1>7. StickWithinBounds(State(mem, At(q, y))) = State(mem, At(q, y))
  BY <1>4 DEF StickWithinBounds, State
<1>8. PICK mem2 : /\ Array(mem2)
                  /\ Pair(State(mem, At(q, y)), Space) = State(mem2, At(q, y) + 2)
                  /\ Grid(mem2) = [Grid(mem) EXCEPT ![q][y] = Space]
  BY <1>1, Puts
<1>9. putch([a EXCEPT !.pos = Minus(@, 2)], Space) = State(mem2, At(q, y) + 2)
  BY <1>6, <1>7, <1>8 DEF putch, Pair
<1>10. Minus(At(q, y) + 2, 2) = At(q, y)
       /\ ~ (At(q, y) > Plus(At(q, y), 2))
  <2>1. At(q, y) + 2 - 2 = At(q, y) /\ At(q, y) + 2 \in Nat /\ At(q, y) < WordSize
        /\ ~ (At(q, y) > At(q, y) + 2)
    BY <1>4, Sizes
  <2>2. At(q, y) % WordSize = At(q, y)
    BY <1>4, <2>1, InWord
  <2>3. (At(q, y) + 2) % WordSize = At(q, y) + 2
    BY <1>4, <2>1, InWord
  <2>4. Plus(At(q, y), 2) = At(q, y) + 2
    BY <2>3 DEF Plus
  <2>5. Minus(At(q, y) + 2, 2) = At(q, y)
    BY <1>4, <2>1, <2>2 DEF Minus
  <2> QED BY <2>1, <2>4, <2>5
<1>11. Backspaced(v) = State(mem2, At(q, y))
  <2>1. State(mem2, At(q, y) + 2).pos = At(q, y) + 2
    BY DEF State
  <2>2. Backspaced(v) = [State(mem2, At(q, y) + 2) EXCEPT !.pos = At(q, y)]
    BY <1>9, <1>10, <2>1 DEF Backspaced, a
  <2> QED BY <2>2, PosMoved
<1>12. [t EXCEPT !.cells[t.row][t.column] = Space] = Seen(mem2, q, y)
  BY <1>3, <1>8 DEF Seen
<1>13. Agree(Backspaced(v), [t EXCEPT !.cells[t.row][t.column] = Space])
  BY <1>8, <1>11, <1>12 DEF Agree, Place
<1> QED BY <1>13 DEF t

\* A backspace in the corner takes the position below zero: the character is
\* stored outside the screen.
LEMMA BackspaceLoses ==
    ASSUME NEW v, NEW s, Agree(v, s), T!Home(s)
    PROVE  Backspaced(v).stray # {}
PROOF
<1>1. PICK mem, r, x : /\ Array(mem) /\ r \in Lines /\ x \in Places
                       /\ StickWithinBounds(v) = State(mem, At(r, x))
                       /\ T!Scrolled(s) = Seen(mem, r, x)
  BY Sticks DEF AgreeOnScreen
<1>2. r = 0 /\ x = 0
  <2>1. T!Scrolled(s) = s
    BY Sizes DEF T!Home, T!Scrolled
  <2> QED BY <2>1, <1>1 DEF T!Home, Seen
<1>3. At(r, x) = 0
  BY <1>2, AtNat
<1> DEFINE a == [StickWithinBounds(v) EXCEPT !.pos = Minus(@, 2)]
           out == WordSize - 2 - XRESOLUTION
<1>4. /\ WordSize - 2 \in Nat /\ WordSize - 2 < WordSize
      /\ out \in Nat /\ out < WordSize /\ out >= MEMORY_SIZE /\ WordSize - 2 >= MEMORY_SIZE
  BY Sizes
<1>5. Minus(0, 2) = WordSize - 2
  <2>1. (0 - 2) % WordSize = WordSize - 2
    BY <1>4, Sizes
  <2> QED BY <2>1 DEF Minus
<1>6. a = State(mem, WordSize - 2)
  <2>1. StickWithinBounds(v).pos = 0
    BY <1>1, <1>3 DEF State
  <2> QED BY <2>1, <1>1, <1>5, PosMoved
<1>7. StickWithinBounds(a) = State(ScrollScreen(mem), out)
  <2>1. Minus(WordSize - 2, XRESOLUTION) = out
    BY <1>4, InWord DEF Minus
  <2> HIDE DEF a, out
  <2> QED BY <2>1, <1>4, <1>6, StickScrolls, Sizes
<1> HIDE DEF a, out
<1>8. putch(a, Space).stray # {}
  <2>1. DOMAIN ScrollScreen(mem) = 0 .. MEMORY_SIZE - 1
    BY DEF ScrollScreen
  <2>2. out \notin DOMAIN ScrollScreen(mem)
    BY <2>1, <1>4, Sizes
  <2>3. State(ScrollScreen(mem), out).pos = out
        /\ State(ScrollScreen(mem), out).memory = ScrollScreen(mem)
    BY DEF State
  <2>4. Store(State(ScrollScreen(mem), out), <<Space, "char">>) =
            [State(ScrollScreen(mem), out) EXCEPT !.stray = @ \cup {out}, !.pos = Plus(@, 1)]
    BY <2>2, <2>3 DEF Store
  <2>5. PICK u : /\ u = Store(State(ScrollScreen(mem), out), <<Space, "char">>)
                 /\ DOMAIN u = {"memory", "pos", "stray"} /\ out \in u.stray
    BY <2>4 DEF State
  <2>6. out \in Store(u, <<Space, "colour">>).stray
    BY <2>5 DEF Store
  <2> QED BY <2>5, <2>6, <1>7 DEF putch
<1>9. ASSUME NEW u, NEW p PROVE [u EXCEPT !.pos = p].stray = u.stray
  OBVIOUS
<1> QED BY <1>8, <1>9 DEF Backspaced, a

-----------------------------------------------------------------------------
(* The refinement *)

\* Inductive invariant: until something is stored outside the screen the
\* driver shows a terminal.
ShowsATerminal == ~ Lost => Agree(Video, Shown)

LEMMA Erased ==
    ASSUME NEW g, NEW mem, mem = [p \in 0 .. MEMORY_SIZE - 1 |-> <<g, "byte">>]
    PROVE  /\ Array(mem)
           /\ Grid(mem) = [r \in 0 .. Rows - 1 |-> [x \in 0 .. Columns - 1 |-> g]]
           /\ Agree(State(mem, 0), Seen(mem, 0, 0))
PROOF
<1>1. Array(mem)
  BY DEF Array
<1>2. ASSUME NEW r \in Lines, NEW x \in Places PROVE Cell(mem, At(r, x)) = g
  <2>1. mem[At(r, x)] = <<g, "byte">> /\ mem[At(r, x) + 1] = <<g, "byte">>
    BY InMemory
  <2>2. /\ mem[At(r, x)][1] = g /\ mem[At(r, x) + 1][1] = g
        /\ mem[At(r, x)][2] = "byte" /\ mem[At(r, x) + 1][2] = "byte"
    BY <2>1, Halves
  <2> QED BY <2>2 DEF Cell
<1>3. Grid(mem) = [r \in 0 .. Rows - 1 |-> [x \in 0 .. Columns - 1 |-> g]]
  BY <1>2 DEF Grid, Lines, Places
<1>4. At(0, 0) = 0 /\ Place(0, 0)
  BY AtNat, Sizes DEF Place, Lines, Places
<1>5. Agree(State(mem, 0), Seen(mem, 0, 0))
  BY <1>1, <1>4 DEF Agree
<1> QED BY <1>1, <1>3, <1>5

LEMMA TerminalInit == Init => ShowsATerminal /\ T!Init
PROOF
<1> SUFFICES ASSUME Init PROVE ShowsATerminal /\ T!Init
  OBVIOUS
<1>1. /\ Agree(State(memory, 0), Seen(memory, 0, 0))
      /\ Grid(memory) = [r \in 0 .. Rows - 1 |-> [x \in 0 .. Columns - 1 |-> Unset]]
  <2>1. memory = [p \in 0 .. MEMORY_SIZE - 1 |-> <<Unset, "byte">>]
    BY DEF Init, Bios
  <2> QED BY <2>1, Erased, Zenon
<1>2. Video = State(memory, 0) /\ ~ Lost
  BY DEF Init, Video, State, Lost
<1>3. Shown = Seen(memory, 0, 0)
  <2>1. State(memory, 0).memory = memory /\ State(memory, 0).pos = 0
    BY DEF State
  <2> QED BY <1>1, <2>1, AgreeShows DEF Shown, Init
<1> QED BY <1>1, <1>2, <1>3 DEF ShowsATerminal, T!Init, Seen

\* Every call of putch is a step of the terminal, or the one that loses it.
LEMMA TerminalCall ==
    ASSUME ~ Lost, Agree(Video, Shown), Call
    PROVE  ShowsATerminal' /\ T!Next
PROOF
<1>1. ASSUME NEW s, NEW v, Agree(v, s), Return(v)
      PROVE  ShowsATerminal' /\ Shown' = s /\ Lost' = Lost
  BY <1>1, Returns DEF ShowsATerminal, Lost
<1>2. ASSUME NEW g \in Glyphs, PutGlyph(g) PROVE ShowsATerminal' /\ T!Next
  <2>1. Agree(putch(Video, g), T!Written(Shown, g))
    BY Writes
  <2>2. ShowsATerminal' /\ Shown' = T!Written(Shown, g) /\ Lost' = Lost
    BY <1>1, <1>2, <2>1 DEF PutGlyph
  <2> QED BY <2>2 DEF T!Next, T!PutGlyph
<1>3. CASE NewLine
  <2> DEFINE w == StickWithinBounds(Video)
             v == [w EXCEPT !.pos = Plus(@, XRESOLUTION - (@ % XRESOLUTION))]
             t == T!Scrolled(Shown)
             s == [t EXCEPT !.row = @ + 1, !.column = 0]
  <2>1. Agree(v, s)
    BY NewLines
  <2>2. Return(v)
    BY <1>3 DEF NewLine
  <2> HIDE DEF v, s
  <2>3. ShowsATerminal' /\ Shown' = s /\ Lost' = Lost
    BY <1>1, <2>1, <2>2
  <2> QED BY <2>3 DEF T!Next, T!NewLine, s
<1>4. CASE Tab
  <2> DEFINE v == putch(putch(putch(putch(StickWithinBounds(Video), Space), Space), Space), Space)
             s == T!Written(T!Written(T!Written(T!Written(Shown, Space), Space), Space), Space)
  <2>1. Agree(v, s)
    BY Tabs
  <2>2. Return(v)
    BY <1>4 DEF Tab
  <2> HIDE DEF v, s
  <2>3. ShowsATerminal' /\ Shown' = s /\ Lost' = Lost
    BY <1>1, <2>1, <2>2
  <2> QED BY <2>3 DEF T!Next, T!Tab, s
<1>5. CASE Backspace
  <2>1. Return(Backspaced(Video))
    BY <1>5 DEF Backspace, Backspaced
  <2>2. CASE T!Home(Shown)
    <3>1. Backspaced(Video).stray # {}
      BY <2>2, BackspaceLoses
    <3>2. Lost'
      BY <2>1, <3>1 DEF Return, Lost
    <3> QED BY <2>2, <3>2 DEF ShowsATerminal, T!Next, T!Lose, Lost
  <2>3. CASE ~ T!Home(Shown)
    <3> DEFINE t == T!StepBack(T!Scrolled(Shown))
               s == [t EXCEPT !.cells[t.row][t.column] = Space]
    <3>1. Agree(Backspaced(Video), s)
      BY <2>3, Backspaces
    <3> HIDE DEF s
    <3>2. ShowsATerminal' /\ Shown' = s /\ Lost' = Lost
      BY <1>1, <2>1, <3>1
    <3> QED BY <2>3, <3>2 DEF T!Next, T!Backspace, s
  <2> QED BY <2>2, <2>3
<1>6. CASE ClearScreen
  <2> DEFINE mem == [p \in 0 .. MEMORY_SIZE - 1 |-> Zero]
             s == [cells |-> [r \in 0 .. Rows - 1 |-> [x \in 0 .. Columns - 1 |-> Blank]],
                   row |-> 0, column |-> 0]
  <2>1. Agree(State(mem, 0), Seen(mem, 0, 0)) /\ Seen(mem, 0, 0) = s
    <3>1. mem = [p \in 0 .. MEMORY_SIZE - 1 |-> <<Blank, "byte">>]
      BY DEF Zero
    <3> HIDE DEF mem
    <3>2. /\ Agree(State(mem, 0), Seen(mem, 0, 0))
          /\ Grid(mem) = [r \in 0 .. Rows - 1 |-> [x \in 0 .. Columns - 1 |-> Blank]]
      BY <3>1, Erased, Zenon
    <3> QED BY <3>2 DEF Seen
  <2>2. Return(State(mem, 0))
    BY <1>6 DEF ClearScreen, Return, State, Video, Lost
  <2> HIDE DEF mem, s
  <2>3. ShowsATerminal' /\ Shown' = s /\ Lost' = Lost
    BY <1>1, <2>1, <2>2
  <2> QED BY <2>3 DEF T!Next, T!Clear, s
<1> QED BY <1>2, <1>3, <1>4, <1>5, <1>6 DEF Call

LEMMA TerminalNext ==
    ShowsATerminal /\ [Next]_vars => ShowsATerminal' /\ [T!Next]_(T!terminalVars)
PROOF
<1> SUFFICES ASSUME ShowsATerminal, [Next]_vars
             PROVE  ShowsATerminal' /\ [T!Next]_(T!terminalVars)
  OBVIOUS
<1>1. CASE ~ Lost /\ Call
  BY <1>1, TerminalCall DEF ShowsATerminal
<1>2. CASE UNCHANGED vars
  BY <1>2 DEF ShowsATerminal, vars, Video, Shown, Lost, T!terminalVars
<1> QED BY <1>1, <1>2 DEF Next, Overwritten

\* For a screen of any size and whatever is printed on it, the driver is a
\* scrolling terminal that stores no byte outside the screen, up to a backspace
\* in the top left corner (TextMode.c:10-72 and 118-125).
THEOREM ScreenIsATerminal == Spec => ImplementsTerminal
PROOF
<1>1. Init => ShowsATerminal /\ T!Init
  BY TerminalInit
<1>2. ShowsATerminal /\ [Next]_vars => ShowsATerminal' /\ [T!Next]_(T!terminalVars)
  BY TerminalNext
<1> QED BY <1>1, <1>2, PTL DEF Spec, ImplementsTerminal, T!Spec

-----------------------------------------------------------------------------
(* The floppy's interrupt *)

\* The values of a signed counter.
Chars == -Half .. Half - 1

\* Interrupts that no return of WaitIRQ has used up.
Unmet == raised - returned

Labels == {"idle", "test", "hlt", "halted", "load", "store"}

LEMMA HalfFacts == Half \in Nat /\ Half > 0 /\ Width = Half + Half
BY WidthAssumption DEF Half

\* One more or one less in a char: only at the two ends does it wrap.
LEMMA CharFacts ==
    ASSUME NEW n \in Chars
    PROVE  /\ Char(n + 1) = IF n = Half - 1 THEN -Half ELSE n + 1
           /\ Char(n - 1) = IF n = -Half THEN Half - 1 ELSE n - 1
<1> USE WidthAssumption, HalfFacts DEF Chars
<1>1. \A m \in 0 .. Width - 1 : m % Width = m OBVIOUS
<1>2. Width % Width = 0 OBVIOUS
<1>3. (-1) % Width = Width - 1 OBVIOUS
<1>4. Char(n + 1) = IF n = Half - 1 THEN -Half ELSE n + 1
  <2>1. CASE n = Half - 1 BY <2>1, <1>2 DEF Char
  <2>2. CASE n # Half - 1
    <3>1. n + 1 + Half \in 0 .. Width - 1 BY <2>2
    <3> QED BY <2>2, <3>1, <1>1 DEF Char
  <2> QED BY <2>1, <2>2
<1>5. Char(n - 1) = IF n = -Half THEN Half - 1 ELSE n - 1
  <2>1. CASE n = -Half BY <2>1, <1>3 DEF Char
  <2>2. CASE n # -Half
    <3>1. n - 1 + Half \in 0 .. Width - 1 BY <2>2
    <3> QED BY <2>2, <3>1, <1>1 DEF Char
  <2> QED BY <2>1, <2>2
<1> QED BY <1>4, <1>5

-----------------------------------------------------------------------------

\* The counter never says more than there are interrupts unmet.  That alone is
\* not inductive: behind the test it may wrap from the highest value to the
\* lowest, which counts down to the highest again; but then it has said a whole
\* Width less than there are.
IRQInv ==
    /\ IRQReceived \in Chars /\ loaded \in Chars
    /\ pc \in Labels
    /\ raised \in Nat /\ returned \in Nat /\ issued \in Nat
    /\ OneInterruptEach
    /\ IRQReceived <= Unmet
    /\ pc = "load" =>
           /\ Unmet > 0
           /\ IRQReceived > 0 \/ IRQReceived + Width <= Unmet
    /\ pc = "store" =>
           /\ Unmet > 0
           /\ (loaded > 0 /\ loaded <= Unmet) \/ loaded + Width <= Unmet

LEMMA IRQInvariant == IRQSpec => []IRQInv
<1> USE WidthAssumption, HalfFacts
<1>1. IRQInit => IRQInv
  BY DEF IRQInit, IRQInv, Chars, Labels, OneInterruptEach, Unmet
<1>2. IRQInv /\ [IRQNext]_irqVars => IRQInv'
  <2> SUFFICES ASSUME IRQInv, [IRQNext]_irqVars PROVE IRQInv' OBVIOUS
  <2> USE DEF IRQInv, Labels, OneInterruptEach, Unmet
  <2>1. CASE Command BY <2>1 DEF Command
  <2>2. CASE Wait BY <2>2 DEF Wait
  <2>3. CASE Test BY <2>3 DEF Test, Chars
  <2>4. CASE Halt BY <2>4 DEF Halt
  <2>5. CASE LoadCount BY <2>5 DEF LoadCount, Chars
  <2>6. CASE StoreCount
    <3>1. IRQReceived' = IF loaded = -Half THEN Half - 1 ELSE loaded - 1
      BY <2>6, CharFacts DEF StoreCount
    <3> QED BY <2>6, <3>1 DEF StoreCount, Chars
  <2>7. CASE IRQHandler
    <3>1. IRQReceived' = IF IRQReceived = Half - 1 THEN -Half
                         ELSE IRQReceived + 1
      BY <2>7, CharFacts DEF IRQHandler
    <3>2. raised' = raised + 1 /\ UNCHANGED <<loaded, issued, returned>>
      BY <2>7 DEF IRQHandler
    <3>3. pc' = pc \/ (pc = "halted" /\ pc' = "test")
      BY <2>7 DEF IRQHandler, Wake
    <3> QED BY <3>1, <3>2, <3>3 DEF Chars
  <2>8. CASE Tick BY <2>8 DEF Tick
  <2>9. CASE UNCHANGED irqVars BY <2>9 DEF irqVars
  <2> QED
    BY <2>1, <2>2, <2>3, <2>4, <2>5, <2>6, <2>7, <2>8, <2>9 DEF IRQNext, WaitIRQ
<1> QED BY <1>1, <1>2, PTL DEF IRQSpec

\* No call of WaitIRQ returns without an interrupt of its own, whatever the
\* width of the counter, with any number of commands in flight and wherever
\* the handler comes between the test, the load and the store
\* (Floppy.c:88-95).
THEOREM NoReturnWithoutInterrupt == IRQSpec => []OneInterruptEach
<1>1. IRQInv => OneInterruptEach BY DEF IRQInv
<1> QED BY <1>1, IRQInvariant, PTL
=============================================================================
