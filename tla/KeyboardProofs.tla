--------------------------- MODULE KeyboardProofs ---------------------------
(***************************************************************************)
(* Theorems about Keyboard and KeyboardGetch for every set of keys and any *)
(* number of strokes: what the main loop's byte-by-byte copy of            *)
(* PreviousEvent can look like, wherever the keyboard handler interrupts   *)
(* it; what the modifier bits of the handler say about the keys held; and  *)
(* which event Keyboard_getch answers.                                     *)
(***************************************************************************)
EXTENDS Keyboard, KeyboardGetch, SequenceTheorems, TLAPS

-----------------------------------------------------------------------------
(* Fields and events *)

Names == Stamped \cup {"Modifiers"}

\* The stamps of the global event and of the copy, by position.
P == [j \in 1 .. 5 |-> PreviousEvent[Fields[j]]]
E == [j \in 1 .. 5 |-> Event[Fields[j]]]

LEMMA FieldNames ==
    /\ Len(Fields) = 6 /\ DOMAIN Fields = 1 .. 6
    /\ \A j \in 1 .. 6 : Fields[j] \in Names
    /\ \A j \in 1 .. 5 : Fields[j] \in Stamped /\ Zero(Fields[j]) = 0
    /\ \A j, k \in 1 .. 6 : j # k => Fields[j] # Fields[k]
    /\ Fields[1] = "Ready" /\ Fields[5] = "State" /\ Fields[6] = "Modifiers"
    /\ \A f \in Stamped : \E j \in 1 .. 5 : f = Fields[j]
BY DEF Fields, Names, Stamped, Zero

\* A record with the fields of an event.
Fielded(p) == p = [f \in Names |-> p[f]]

\* The number of events, as long as events is a sequence of something.
IsSequence == \E S : events \in Seq(S)
Last == Len(events)

LEMMA AppendEvent ==
    ASSUME IsSequence, NEW e, events' = Append(events, e)
    PROVE  /\ IsSequence' /\ Last \in Nat /\ Last' = Last + 1
           /\ DOMAIN events' = 1 .. Last'
           /\ \A n \in 1 .. Last : events'[n] = events[n]
<1>1. PICK S : events \in Seq(S) BY DEF IsSequence
<1>2. events \in Seq(S \cup {e}) BY <1>1
<1>3. events' \in Seq(S \cup {e}) BY <1>2
<1>4. Len(events) \in Nat /\ Len(events') = Len(events) + 1 BY <1>2
<1>5. \A n \in 1 .. Len(events) : events'[n] = events[n] BY <1>2
<1> QED BY <1>3, <1>4, <1>5 DEF IsSequence, Last

\* A run of the handler stores one event in all the fields, or none and then
\* changes no field but Modifiers.
Stores ==
    /\ \E e : events' = Append(events, e)
    /\ Fielded(PreviousEvent')
    /\ P' = [j \in 1 .. 5 |-> Last + 1]

StoresNone == events' = events /\ Fielded(PreviousEvent') /\ P' = P

LEMMA HandlerEffect ==
    ASSUME Fielded(PreviousEvent), Keyboard_Handler
    PROVE  Stores \/ StoresNone
<1>1. PICK b, extended, rest, again : Decode(b, extended, rest, again)
  BY DEF Keyboard_Handler
<1>2. ASSUME UpdateEventModifiers, events' = events PROVE StoresNone
  <2>1. /\ Fielded(PreviousEvent')
        /\ \A f \in Stamped : PreviousEvent'[f] = PreviousEvent[f]
    BY <1>2 DEF UpdateEventModifiers, Fielded, Names, Stamped
  <2> QED BY <1>2, <2>1, FieldNames DEF StoresNone, P
<1>3. CASE RegularKey(b, extended, rest, again)
  <2>1. \E e : events' = Append(events, e) BY <1>3 DEF RegularKey
  <2>2. PICK m : LET e == Last + 1 IN
                 PreviousEvent' =
                     [Ready |-> e, Keycode |-> e, Extended |-> e,
                      Character |-> e, State |-> e, Modifiers |-> m]
    BY <1>3 DEF RegularKey, Last
  <2>3. \A f \in Stamped : PreviousEvent'[f] = Last + 1 BY <2>2 DEF Stamped
  <2>4. Fielded(PreviousEvent') BY <2>2 DEF Fielded, Names, Stamped
  <2> QED BY <2>1, <2>3, <2>4, FieldNames DEF Stores, P
<1>4. CASE PreviousEvent' = PreviousEvent /\ events' = events
  BY <1>4 DEF StoresNone, P
<1> QED
  BY <1>1, <1>2, <1>3, <1>4 DEF Decode, HoldKey, LockKey, IgnoredKey

\* Copying a field and clearing it, in terms of the stamps.
LEMMA ReadEffect ==
    ASSUME Fielded(Event), i \in 1 .. 6, ReadField
    PROVE  /\ Fielded(Event') /\ P' = P
           /\ E' = [j \in 1 .. 5 |-> IF j = i THEN P[j] ELSE E[j]]
<1>1. /\ Event' = [Event EXCEPT ![Fields[i]] = PreviousEvent[Fields[i]]]
      /\ PreviousEvent' = PreviousEvent
  BY DEF ReadField, driverVars
<1>2. /\ Fielded(Event')
      /\ \A j \in 1 .. 6 : Event'[Fields[j]] = IF j = i THEN PreviousEvent[Fields[j]]
                                               ELSE Event[Fields[j]]
  BY <1>1, FieldNames DEF Fielded
<1> QED BY <1>1, <1>2 DEF P, E

LEMMA ClearEffect ==
    ASSUME Fielded(PreviousEvent), i \in 1 .. 6, ClearField
    PROVE  /\ Fielded(PreviousEvent') /\ E' = E
           /\ P' = [j \in 1 .. 5 |-> IF j = i THEN 0 ELSE P[j]]
<1>1. /\ PreviousEvent' = [PreviousEvent EXCEPT ![Fields[i]] = Zero(Fields[i])]
      /\ Event' = Event
  BY DEF ClearField
<1>2. /\ Fielded(PreviousEvent')
      /\ \A j \in 1 .. 6 : PreviousEvent'[Fields[j]] = IF j = i THEN Zero(Fields[j])
                                                       ELSE PreviousEvent[Fields[j]]
  BY <1>1, FieldNames DEF Fielded
<1> QED BY <1>1, <1>2, FieldNames DEF P, E

-----------------------------------------------------------------------------
(* The inductive invariant *)

\* The copy in progress has read field j.
Copied(j) == \/ pc = "read" /\ j < i
             \/ pc = "clear" /\ j <= i
             \/ pc = "act"

\* What the handler has stored and is not cleared yet is of the last event.
TypeInv ==
    /\ pc \in {"test", "hlt", "halted", "read", "clear", "act", "shutdown",
               "reboot"}
    /\ i \in 1 .. 6 /\ (pc = "act" => i = 6)
    /\ Fielded(PreviousEvent) /\ Fielded(Event)
    /\ Last \in Nat /\ acted \in 0 .. Last
    /\ P \in [1 .. 5 -> {0, Last}] /\ E \in [1 .. 5 -> 0 .. Last]

ForwardInv ==
    \A j, k \in 1 .. 5 : j < k /\ Copied(k) =>
        E[j] = 0 \/ E[k] = 0 \/ E[j] <= E[k]

\* The State of an event is cleared behind its copy, so that one which is there
\* is newer than the one copied and the one acted on, but for the moment
\* between the copy of the field and its clearing.
OnceInv ==
    /\ Copied(5) /\ E[5] # 0 => E[5] > acted
    /\ P[5] # 0 /\ ~ (pc = "clear" /\ i = 5) =>
           P[5] > acted /\ (Copied(5) => P[5] > E[5])

\* Without an event in the middle of a copy the front of PreviousEvent that has
\* been copied is clear and the rest whole.
WholeInv ==
    ~ overlap =>
        /\ pc \in {"test", "hlt", "halted", "act"} =>
               \A j \in 1 .. 5 : P[j] = P[1]
        /\ pc = "read" => \A j \in i .. 5 : P[j] = Last
        /\ pc = "clear" => \A j \in i + 1 .. 5 : P[j] = Last
        /\ pc \in {"read", "clear"} =>
               /\ Last # 0
               /\ \A j \in 1 .. 5 : j < i => P[j] = 0
               /\ \A j \in 1 .. 5 : Copied(j) => E[j] = Last
        /\ pc = "act" => \A j \in 1 .. 5 : E[j] = E[1] /\ E[1] # 0

KInv == TypeInv /\ ForwardInv /\ OnceInv /\ WholeInv

LEMMA InitInvariant == Init => KInv /\ IsSequence
<1> SUFFICES ASSUME Init PROVE KInv /\ IsSequence OBVIOUS
<1> USE DEF Init, DriverInit
<1>1. Fielded(Cleared) /\ \A f \in Stamped : Cleared[f] = 0
  BY DEF Fielded, Names, Stamped, Cleared
<1>2. P = [j \in 1 .. 5 |-> 0] /\ E = [j \in 1 .. 5 |-> 0]
  BY <1>1, FieldNames DEF P, E
<1>3. Last = 0 /\ IsSequence
  <2>1. events \in Seq({}) BY DEF DriverInit
  <2> QED BY <2>1 DEF Last, IsSequence
<1> QED
  BY <1>1, <1>2, <1>3
     DEF KInv, TypeInv, ForwardInv, OnceInv, WholeInv, Copied

\* A step that leaves both events as they are and is in no copy.
LEMMA OutsidePreserves ==
    ASSUME KInv, UNCHANGED <<PreviousEvent, Event, events, acted, overlap>>,
           pc \in {"test", "hlt", "halted"},
           \/ pc' \in {"test", "hlt", "halted"} /\ i' \in 1 .. 6
           \/ pc' = "read" /\ i' = 1 /\ P[1] # 0
    PROVE  KInv'
<1>1. P' = P /\ E' = E /\ Last' = Last BY DEF P, E, Last
<1> QED BY <1>1 DEF KInv, TypeInv, ForwardInv, OnceInv, WholeInv, Copied

\* The reader's steps.
LEMMA MainPreserves ==
    ASSUME KInv, Main
    PROVE  KInv'
<1>0. i \in 1 .. 6 /\ Fielded(PreviousEvent) /\ Fielded(Event)
  BY DEF KInv, TypeInv
<1>1. CASE TestReady
  <2>1. P[1] = PreviousEvent.Ready BY FieldNames DEF P
  <2> QED BY <1>1, <2>1, OutsidePreserves DEF TestReady, driverVars
<1>2. CASE Halt BY <1>0, <1>2, OutsidePreserves DEF Halt, driverVars
<1>3. CASE ReadField
  <2>1. /\ pc = "read" /\ pc' = "clear" /\ i' = i
        /\ UNCHANGED <<PreviousEvent, events, acted, overlap>>
        /\ E' = [j \in 1 .. 5 |-> IF j = i THEN P[j] ELSE E[j]]
        /\ P' = P /\ Last' = Last
    BY <1>0, <1>3, ReadEffect DEF ReadField, driverVars, Last
  <2>2. TypeInv'
    <3>1. Fielded(Event') BY <1>0, <1>3, ReadEffect
    <3>2. E' \in [1 .. 5 -> 0 .. Last] BY <2>1 DEF KInv, TypeInv
    <3> QED BY <2>1, <3>1, <3>2 DEF KInv, TypeInv
  <2>3. ForwardInv' BY <2>1 DEF KInv, TypeInv, ForwardInv, Copied
  <2>4. OnceInv' BY <2>1 DEF KInv, TypeInv, OnceInv, Copied
  <2>5. WholeInv' BY <2>1 DEF KInv, TypeInv, WholeInv, Copied
  <2> QED BY <2>2, <2>3, <2>4, <2>5 DEF KInv
<1>4. CASE ClearField
  <2>1. /\ pc = "clear"
        /\ UNCHANGED <<Event, events, acted, overlap>>
        /\ P' = [j \in 1 .. 5 |-> IF j = i THEN 0 ELSE P[j]]
        /\ E' = E /\ Last' = Last
        /\ \/ i = 6 /\ pc' = "act" /\ i' = i
           \/ i # 6 /\ pc' = "read" /\ i' = i + 1
    BY <1>0, <1>4, ClearEffect, FieldNames DEF ClearField, Last
  <2>2. TypeInv'
    <3>1. Fielded(PreviousEvent') BY <1>0, <1>4, ClearEffect
    <3>2. P' \in [1 .. 5 -> {0, Last}] BY <2>1 DEF KInv, TypeInv
    <3> QED BY <2>1, <3>1, <3>2 DEF KInv, TypeInv
  <2>3. ForwardInv' BY <2>1 DEF KInv, TypeInv, ForwardInv, Copied
  <2>4. OnceInv' BY <2>1 DEF KInv, TypeInv, OnceInv, Copied
  <2>5. WholeInv' BY <2>1 DEF KInv, TypeInv, WholeInv, Copied
  <2> QED BY <2>2, <2>3, <2>4, <2>5 DEF KInv
<1>5. CASE Act
  <2>1. E[5] = Event.State BY FieldNames DEF E
  <2>2. /\ pc = "act" /\ pc' \in {"test", "shutdown", "reboot"}
        /\ acted' = IF E[5] # 0 THEN E[5] ELSE acted
        /\ UNCHANGED <<PreviousEvent, events, i, Event, overlap>>
    BY <1>5, <2>1 DEF Act, driverVars
  <2>3. P' = P /\ E' = E /\ Last' = Last BY <2>2 DEF P, E, Last
  <2> QED
    BY <2>2, <2>3 DEF KInv, TypeInv, ForwardInv, OnceInv, WholeInv, Copied
<1> QED BY <1>1, <1>2, <1>3, <1>4, <1>5 DEF Main

\* The handler stores a whole event behind everything copied so far.
LEMMA HandlePreserves ==
    ASSUME KInv, IsSequence, Handle
    PROVE  KInv' /\ IsSequence'
<1>1. /\ UNCHANGED <<i, Event, acted>> /\ E' = E
      /\ pc' = IF pc = "halted" THEN "test" ELSE pc
      /\ ~ overlap' => ~ overlap
      /\ ~ overlap' /\ pc \in {"read", "clear"} => events' = events
  <2>1. overlap' = (overlap \/ (pc \in {"read", "clear"} /\ events' # events))
    BY DEF Handle
  <2>2. /\ ~ overlap' => ~ overlap
        /\ ~ overlap' /\ pc \in {"read", "clear"} => events' = events
    BY <2>1, Zenon
  <2> QED BY <2>2 DEF Handle, Wake, E
<1>2. \A j \in 1 .. 5 : Copied(j)' <=> Copied(j) BY <1>1 DEF Copied
<1>3. CASE StoresNone
  <2>1. P' = P /\ Last' = Last /\ IsSequence' /\ Fielded(PreviousEvent')
    BY <1>3 DEF StoresNone, Last, IsSequence
  <2> QED
    BY <1>1, <1>2, <2>1 DEF KInv, TypeInv, ForwardInv, OnceInv, WholeInv
<1>4. CASE Stores
  <2>1. /\ P' = [j \in 1 .. 5 |-> Last'] /\ IsSequence' /\ Last' = Last + 1
        /\ Last \in Nat /\ Fielded(PreviousEvent')
    BY <1>4, AppendEvent DEF Stores
  <2>2. events' # events BY <2>1 DEF Last
  <2>3. TypeInv' BY <1>1, <2>1 DEF KInv, TypeInv
  <2>4. ForwardInv' BY <1>1, <1>2 DEF KInv, ForwardInv
  <2>5. OnceInv' BY <1>1, <1>2, <2>1 DEF KInv, TypeInv, OnceInv
  <2>6. WholeInv' BY <1>1, <2>1, <2>2 DEF KInv, TypeInv, WholeInv
  <2> QED BY <2>1, <2>3, <2>4, <2>5, <2>6 DEF KInv
<1> QED BY <1>3, <1>4, HandlerEffect DEF Handle, KInv, TypeInv

LEMMA Invariant == Spec => [](KInv /\ IsSequence)
<1>1. KInv /\ IsSequence /\ [Next]_vars => KInv' /\ IsSequence'
  <2> SUFFICES ASSUME KInv, IsSequence, [Next]_vars PROVE KInv' /\ IsSequence'
    OBVIOUS
  <2>1. CASE Main
    <3>1. events' = events
      BY <2>1 DEF Main, TestReady, Halt, ReadField, ClearField, Act, driverVars
    <3> QED BY <2>1, <3>1, MainPreserves DEF IsSequence
  <2>2. CASE Handle BY <2>2, HandlePreserves
  <2>3. CASE Tick
    BY <2>3, OutsidePreserves DEF Tick, driverVars, IsSequence, KInv, TypeInv
  <2>4. CASE Device \/ UNCHANGED vars
    <3>1. UNCHANGED <<PreviousEvent, events, pc, i, Event, acted, overlap>>
      BY <2>4 DEF Device, Deliver, Stroke, vars, driverVars
    <3>2. P' = P /\ E' = E /\ Last' = Last BY <3>1 DEF P, E, Last
    <3> QED
      BY <3>1, <3>2 DEF KInv, TypeInv, ForwardInv, OnceInv, WholeInv, Copied,
             IsSequence
  <2> QED BY <2>1, <2>2, <2>3, <2>4 DEF Next
<1> QED BY <1>1, InitInvariant, PTL DEF Spec

-----------------------------------------------------------------------------
(* The theorems *)

\* No stored event is acted on twice, and none after a later one, wherever the
\* handler interrupts the copy (Keyboard.c:161-165).
THEOREM OnceInOrder == Spec => []ActedOnceInOrder
<1>1. KInv => ActedOnceInOrder
  <2>1. E[5] = Event.State BY FieldNames DEF E
  <2> QED BY <2>1 DEF KInv, OnceInv, Copied, ActedOnceInOrder
<1> QED BY <1>1, Invariant, PTL

\* In an event that was torn no field is of an earlier event than one before it.
THEOREM NeverTornBackward == Spec => []TornForward
<1>1. KInv => TornForward
  BY DEF KInv, ForwardInv, Copied, TornForward, E
<1> QED BY <1>1, Invariant, PTL

\* The main loop acts on whole events as long as none arrives during a copy.
THEOREM WholeEvents == Spec => []WholeUnlessOverlapped
<1>1. KInv => WholeUnlessOverlapped
  BY FieldNames DEF KInv, WholeInv, WholeUnlessOverlapped, E
<1> QED BY <1>1, Invariant, PTL


-----------------------------------------------------------------------------
(* The modifiers and the scancodes under way *)

\* Of two runs of bytes one after the other the later one has the last word.
LEMMA Concat ==
    ASSUME NEW q \in Seq(Scancode), NEW r \in Seq(Scancode), NEW h
    PROVE  /\ Sends(q \o r, h) <=> Sends(q, h) \/ Sends(r, h)
           /\ EndsPressed(q \o r, h) <=>
                  IF Sends(r, h) THEN EndsPressed(r, h) ELSE EndsPressed(q, h)
<1> DEFINE s == q \o r
           m == Len(q)
<1>1. /\ m \in Nat /\ Len(r) \in Nat
      /\ DOMAIN q = 1 .. m /\ DOMAIN r = 1 .. Len(r)
      /\ DOMAIN s = 1 .. m + Len(r)
      /\ \A j \in DOMAIN q : j \in DOMAIN s /\ s[j] = q[j]
      /\ \A j \in DOMAIN r : m + j \in DOMAIN s /\ s[m + j] = r[j]
  OBVIOUS
<1>2. \A j \in DOMAIN s : j \in DOMAIN q \/ j - m \in DOMAIN r BY <1>1
<1>3. \A j \in DOMAIN s : j - m \in DOMAIN r => s[j] = r[j - m]
  <2> SUFFICES ASSUME NEW j \in DOMAIN s, j - m \in DOMAIN r
               PROVE  s[j] = r[j - m]
    OBVIOUS
  <2>1. m + (j - m) = j BY <1>1
  <2>2. s[m + (j - m)] = r[j - m] BY <1>1
  <2> QED BY <2>1, <2>2
<1> HIDE DEF s, m
<1>4. Sends(s, h) <=> Sends(q, h) \/ Sends(r, h)
  <2>1. Sends(q, h) \/ Sends(r, h) => Sends(s, h) BY <1>1 DEF Sends
  <2>2. Sends(s, h) => Sends(q, h) \/ Sends(r, h)
    BY <1>1, <1>2, <1>3 DEF Sends
  <2> QED BY <2>1, <2>2
<1>5. CASE Sends(r, h)
  <2>1. ASSUME EndsPressed(s, h) PROVE EndsPressed(r, h)
    <3>1. PICK j \in DOMAIN s : /\ s[j].code = h /\ ~ s[j].up
                                /\ \A n \in DOMAIN s : n > j => s[n].code # h
      BY <2>1 DEF EndsPressed
    <3>2. PICK k \in DOMAIN r : r[k].code = h BY <1>5 DEF Sends
    <3>3. m + k \in DOMAIN s /\ s[m + k].code = h BY <1>1, <3>2
    <3>4. ~ (m + k > j) BY <3>1, <3>3
    <3>5. j - m \in DOMAIN r BY <1>1, <3>2, <3>4
    <3>6. s[j] = r[j - m] BY <1>3, <3>5
    <3>7. ASSUME NEW n \in DOMAIN r, n > j - m PROVE r[n].code # h
      <4>1. m + n \in DOMAIN s /\ s[m + n] = r[n] BY <1>1
      <4>2. m + n > j BY <1>1, <3>7
      <4> QED BY <3>1, <4>1, <4>2
    <3> QED BY <3>1, <3>5, <3>6, <3>7 DEF EndsPressed
  <2>2. ASSUME EndsPressed(r, h) PROVE EndsPressed(s, h)
    <3>1. PICK j \in DOMAIN r : /\ r[j].code = h /\ ~ r[j].up
                                /\ \A n \in DOMAIN r : n > j => r[n].code # h
      BY <2>2 DEF EndsPressed
    <3>2. m + j \in DOMAIN s /\ s[m + j] = r[j] BY <1>1
    <3>3. ASSUME NEW n \in DOMAIN s, n > m + j PROVE s[n].code # h
      <4>1. n - m \in DOMAIN r /\ n - m > j BY <1>1, <3>3
      <4>2. s[n] = r[n - m] BY <1>3, <4>1
      <4> QED BY <3>1, <4>1, <4>2
    <3> QED BY <3>1, <3>2, <3>3 DEF EndsPressed
  <2> QED BY <1>4, <1>5, <2>1, <2>2 DEF s
<1>6. CASE ~ Sends(r, h)
  <2>0. \A n \in DOMAIN s : n \notin DOMAIN q => s[n].code # h
    BY <1>2, <1>3, <1>6 DEF Sends
  <2>1. ASSUME EndsPressed(s, h) PROVE EndsPressed(q, h)
    <3>1. PICK j \in DOMAIN s : /\ s[j].code = h /\ ~ s[j].up
                                /\ \A n \in DOMAIN s : n > j => s[n].code # h
      BY <2>1 DEF EndsPressed
    <3>2. j \in DOMAIN q BY <2>0, <3>1
    <3> QED BY <1>1, <3>1, <3>2 DEF EndsPressed
  <2>2. ASSUME EndsPressed(q, h) PROVE EndsPressed(s, h)
    <3>1. PICK j \in DOMAIN q : /\ q[j].code = h /\ ~ q[j].up
                                /\ \A n \in DOMAIN q : n > j => q[n].code # h
      BY <2>2 DEF EndsPressed
    <3>2. \A n \in DOMAIN s : n > j => s[n].code # h BY <1>1, <2>0, <3>1
    <3> QED BY <1>1, <3>1, <3>2 DEF EndsPressed
  <2> QED BY <1>4, <1>6, <2>1, <2>2 DEF s
<1> QED BY <1>5, <1>6

LEMMA OneByte ==
    ASSUME NEW x, NEW h
    PROVE  /\ Sends(<<x>>, h) <=> x.code = h
           /\ EndsPressed(<<x>>, h) <=> x.code = h /\ ~ x.up
<1>1. DOMAIN <<x>> = {1} /\ <<x>>[1] = x OBVIOUS
<1>2. \A n \in {1} : ~ (n > 1) OBVIOUS
<1> QED BY <1>1, <1>2 DEF Sends, EndsPressed

LEMMA NoByte == \A h : ~ Sends(<<>>, h) /\ ~ EndsPressed(<<>>, h)
<1>1. DOMAIN <<>> = {} OBVIOUS
<1> QED BY <1>1, Zenon DEF Sends, EndsPressed

\* The last of the codes h under way says whether h is in H, the codes last
\* sent by a press; if there is none, the modifiers M say so.
Agrees(h, q, M, H) ==
    h \in H <=> IF Sends(q, h) THEN EndsPressed(q, h) ELSE h \in M

\* What the code b does to the bit of each hold code.
Applied(b, M, N) ==
    \A h \in HoldCodes : h \in N <=> IF b.code = h THEN ~ b.up ELSE h \in M

LEMMA HeadTail ==
    ASSUME NEW q \in Seq(Scancode), q # <<>>, NEW h
    PROVE  /\ Tail(q) \in Seq(Scancode) /\ Head(q) \in Scancode
           /\ Sends(q, h) <=> Head(q).code = h \/ Sends(Tail(q), h)
           /\ EndsPressed(q, h) <=> IF Sends(Tail(q), h)
                                    THEN EndsPressed(Tail(q), h)
                                    ELSE Head(q).code = h /\ ~ Head(q).up
<1>1. /\ Head(q) \in Scancode /\ Tail(q) \in Seq(Scancode)
      /\ <<Head(q)>> \in Seq(Scancode)
      /\ q = <<Head(q)>> \o Tail(q)
  OBVIOUS
<1>2. /\ Sends(<<Head(q)>> \o Tail(q), h) <=>
             Sends(<<Head(q)>>, h) \/ Sends(Tail(q), h)
      /\ EndsPressed(<<Head(q)>> \o Tail(q), h) <=>
             IF Sends(Tail(q), h) THEN EndsPressed(Tail(q), h)
             ELSE EndsPressed(<<Head(q)>>, h)
  BY <1>1, Concat, Zenon
<1> QED BY <1>1, <1>2, OneByte, Zenon

LEMMA Consume ==
    ASSUME NEW q \in Seq(Scancode), q # <<>>, NEW M, NEW N, NEW H,
           NEW h \in HoldCodes, Agrees(h, q, M, H), Applied(Head(q), M, N)
    PROVE  Agrees(h, Tail(q), N, H)
<1>1. h \in N <=> IF Head(q).code = h THEN ~ Head(q).up ELSE h \in M
  BY DEF Applied
<1> QED BY <1>1, HeadTail, Zenon DEF Agrees

-----------------------------------------------------------------------------
(* The inductive invariant of the bits *)

Buffer == {<<>>} \cup {<<x>> : x \in Scancode}

Pending == out \o wire

DriverTypeInv ==
    wire \in Seq(Scancode) /\ out \in Buffer /\ latch \in Scancode

\* Of a code that was not thrown away: the last press or release sent is what
\* the bit says once everything under way is taken over; and the byte the port
\* repeats has been taken over, unless a later one is under way.
CodeTracked(h) ==
    /\ Agrees(h, Pending, Modifiers, pressed)
    /\ latch.code = h /\ ~ Sends(Pending, h) => (h \in Modifiers <=> ~ latch.up)

\* What the presses and releases sent say of the keys: a press of a code is
\* followed by a release no later than the last key with that code goes up.
KeysInv ==
    \A h \in HoldCodes \ FakeCodes :
        /\ h \in pressed => SentBy(h) \cap held # {}
        /\ \A k \in Keys : SentBy(h) = {k} => (k \in held <=> h \in pressed)

TrackInv == KeysInv /\ \A h \in HoldCodes \ missed : CodeTracked(h)

LEMMA Constants ==
    /\ E0 \in Scancode /\ ACK \in Scancode
    /\ E0.code \notin HoldCodes /\ ACK.code \notin HoldCodes
    /\ \A c_ \in Codes, u \in BOOLEAN : [code |-> c_, up |-> u] \in Scancode
BY KeyAssumption DEF E0, ACK, Scancode, Codes

\* The acknowledgements are about no key.
LEMMA Acks ==
    /\ <<ACK, ACK>> \in Seq(Scancode)
    /\ \A h \in HoldCodes : ~ Sends(<<ACK, ACK>>, h)
<1>1. DOMAIN <<ACK, ACK>> = 1 .. 2 /\ \A j \in 1 .. 2 : <<ACK, ACK>>[j] = ACK
  OBVIOUS
<1> QED BY <1>1, Constants DEF Sends

LEMMA OfBuffer ==
    ASSUME DriverTypeInv
    PROVE  /\ Pending \in Seq(Scancode)
           /\ out = <<>> => Pending = wire
           /\ out # <<>> => /\ Pending # <<>>
                            /\ Head(Pending) = out[1] /\ Tail(Pending) = wire
           /\ out # <<>> => out[1] \in Scancode
<1>1. CASE out = <<>> BY <1>1 DEF DriverTypeInv, Pending
<1>2. CASE out # <<>>
  <2>1. PICK x \in Scancode : out = <<x>>
    BY <1>2 DEF DriverTypeInv, Buffer
  <2>2. wire \in Seq(Scancode) BY DEF DriverTypeInv
  <2>3. <<x>> \o wire \in Seq(Scancode) BY <2>1, <2>2
  <2>4. /\ <<x>> \o wire # <<>>
        /\ Head(<<x>> \o wire) = x /\ Tail(<<x>> \o wire) = wire
    BY <2>1, <2>2
  <2> QED BY <1>2, <2>1, <2>3, <2>4 DEF Pending
<1> QED BY <1>1, <1>2

\* What a run of the handler does once it has read the code b: to the bits of
\* the hold codes, and to what is under way.
LEMMA DecodeApplies ==
    ASSUME NEW b \in Scancode, NEW extended, NEW rest, NEW again,
           Decode(b, extended, rest, again)
    PROVE  Applied(b, Modifiers, Modifiers')
<1>1. CASE HoldKey(b, rest, again)
  BY <1>1 DEF HoldKey, Applied, Scancode
<1>2. CASE LockKey(b, rest, again)
  BY <1>2, KeyAssumption DEF LockKey, Applied
<1>3. CASE IgnoredKey(b, rest, again) \/ RegularKey(b, extended, rest, again)
  <2>1. b.code \notin HoldCodes /\ Modifiers' = Modifiers
    BY <1>3, KeyAssumption DEF IgnoredKey, RegularKey, KEY_CAPS_IGNORE, E0,
       Codes
  <2> QED BY <2>1 DEF Applied
<1> QED BY <1>1, <1>2, <1>3 DEF Decode

\* A sequence is what lies before a cut and what lies behind it.
LEMMA Cut ==
    ASSUME NEW q \in Seq(Scancode), NEW n \in 0 .. Len(q)
    PROVE  /\ SubSeq(q, 1, n) \in Seq(Scancode)
           /\ SubSeq(q, n + 1, Len(q)) \in Seq(Scancode)
           /\ q = SubSeq(q, 1, n) \o SubSeq(q, n + 1, Len(q))
           /\ DOMAIN SubSeq(q, 1, n) = 1 .. n
           /\ \A j \in 1 .. n : SubSeq(q, 1, n)[j] = q[j]
<1> DEFINE before == SubSeq(q, 1, n)
           behind == SubSeq(q, n + 1, Len(q))
<1>1. /\ Len(q) \in Nat /\ n \in Nat /\ n <= Len(q)
      /\ before \in Seq(Scancode) /\ Len(before) = n
      /\ DOMAIN before = 1 .. n /\ \A j \in 1 .. n : before[j] = q[j]
  OBVIOUS
<1>2. /\ behind \in Seq(Scancode) /\ Len(behind) = Len(q) - n
      /\ \A j \in 1 .. Len(q) - n : behind[j] = q[n + j]
  OBVIOUS
<1> HIDE DEF before, behind
<1>3. before \o behind \in Seq(Scancode) /\ Len(before \o behind) = Len(q)
  BY <1>1, <1>2
<1>4. \A j \in 1 .. Len(q) : (before \o behind)[j] = q[j]
  <2> TAKE j \in 1 .. Len(q)
  <2>1. (before \o behind)[j] = IF j <= n THEN before[j] ELSE behind[j - n]
    BY <1>1, <1>2
  <2> QED BY <1>1, <1>2, <2>1
<1>5. before \o behind = q
  BY <1>3, <1>4, SeqEqual
<1> QED BY <1>1, <1>2, <1>5 DEF before, behind

\* The byte the port repeats is the code that was read, or one UpdateLEDS threw
\* away, which is then missed or has another of its code behind it.
LEMMA DecodeLeaves ==
    ASSUME NEW b \in Scancode, NEW extended, NEW rest \in Seq(Scancode),
           NEW again, Decode(b, extended, rest, again)
    PROVE  /\ wire' \in Seq(Scancode) /\ latch' \in Scancode
           /\ missed \subseteq missed'
           /\ \A h \in HoldCodes \ missed' :
                 Agrees(h, rest, Modifiers', pressed) =>
                    /\ Agrees(h, wire', Modifiers', pressed)
                    /\ latch'.code = h /\ ~ Sends(wire', h) =>
                          (h \in Modifiers' <=> ~ latch'.up)
<1>0. Applied(b, Modifiers, Modifiers') BY DecodeApplies
<1>1. CASE LockKey(b, rest, again)
  <2>1. PICK n \in 0 .. Len(rest) :
          /\ wire' = SubSeq(rest, n + 1, Len(rest)) \o <<ACK, ACK>>
          /\ latch' = IF n = 0 THEN b ELSE rest[n]
          /\ missed' = missed \cup
                 {h \in HoldCodes :
                     /\ Sends(SubSeq(rest, 1, n), h)
                     /\ ~ Sends(SubSeq(rest, n + 1, Len(rest)), h)}
    BY <1>1 DEF LockKey, UpdateLEDS
  <2> DEFINE gone == SubSeq(rest, 1, n)
             left == SubSeq(rest, n + 1, Len(rest))
  <2>2. /\ gone \in Seq(Scancode) /\ left \in Seq(Scancode)
        /\ rest = gone \o left
        /\ DOMAIN gone = 1 .. n /\ \A j \in 1 .. n : gone[j] = rest[j]
    BY Cut
  <2>3. wire' \in Seq(Scancode)
    <3>1. wire' = left \o <<ACK, ACK>> BY <2>1
    <3> HIDE DEF gone, left
    <3> QED BY <2>2, <3>1, Acks
  <2>4. latch' \in Scancode BY <2>1
  <2>5. ASSUME NEW h \in HoldCodes \ missed',
               Agrees(h, rest, Modifiers', pressed)
        PROVE  /\ Agrees(h, wire', Modifiers', pressed)
               /\ ~ (latch'.code = h /\ ~ Sends(wire', h))
    <3> HIDE DEF gone, left
    <3>1. ~ Sends(gone, h) \/ Sends(left, h)
      BY <2>1, <2>5 DEF gone, left
    <3>2. /\ Sends(rest, h) <=> Sends(gone, h) \/ Sends(left, h)
          /\ EndsPressed(rest, h) <=> IF Sends(left, h)
                                      THEN EndsPressed(left, h)
                                      ELSE EndsPressed(gone, h)
      BY <2>2, Concat, Zenon
    <3>3. /\ Sends(wire', h) <=> Sends(left, h)
          /\ EndsPressed(wire', h) <=> EndsPressed(left, h)
      <4>1. wire' = left \o <<ACK, ACK>> BY <2>1 DEF left
      <4>2. /\ Sends(left \o <<ACK, ACK>>, h) <=>
                   Sends(left, h) \/ Sends(<<ACK, ACK>>, h)
            /\ EndsPressed(left \o <<ACK, ACK>>, h) <=>
                   IF Sends(<<ACK, ACK>>, h) THEN EndsPressed(<<ACK, ACK>>, h)
                   ELSE EndsPressed(left, h)
        BY <2>2, Acks, Concat, Zenon
      <4>3. ~ Sends(<<ACK, ACK>>, h) BY <2>5, Acks
      <4> QED BY <4>1, <4>2, <4>3, Zenon
    <3>4. Agrees(h, wire', Modifiers', pressed)
      BY <2>5, <3>1, <3>2, <3>3, Zenon DEF Agrees
    <3>5. latch'.code = h => Sends(gone, h)
      <4>1. CASE n = 0
        <5>1. latch'.code \in LockCodes BY <1>1, <2>1, <4>1 DEF LockKey
        <5> QED BY <2>5, <5>1, KeyAssumption
      <4>2. CASE n # 0
        <5>1. n \in DOMAIN gone /\ gone[n] = latch' BY <2>1, <2>2, <4>2
        <5> QED BY <5>1 DEF Sends
      <4> QED BY <4>1, <4>2
    <3> QED BY <3>1, <3>3, <3>4, <3>5
  <2> QED BY <2>1, <2>3, <2>4, <2>5
<1>2. CASE wire' = rest /\ latch' = b /\ missed' = missed
  BY <1>0, <1>2 DEF Applied
<1> QED BY <1>1, <1>2 DEF Decode, HoldKey, IgnoredKey, RegularKey

LEMMA HandlerTracks ==
    ASSUME DriverTypeInv, TrackInv, Keyboard_Handler
    PROVE  DriverTypeInv' /\ TrackInv'
<1> USE DEF DriverTypeInv
<1>1. out' = <<>> /\ held' = held /\ pressed' = pressed
  BY DEF Keyboard_Handler
<1>2. ASSUME NEW b \in Scancode, NEW extended, NEW rest \in Seq(Scancode),
             NEW again, Decode(b, extended, rest, again),
             \A h \in HoldCodes \ missed : Agrees(h, rest, Modifiers', pressed)
      PROVE  DriverTypeInv' /\ TrackInv'
  <2>1. /\ wire' \in Seq(Scancode) /\ latch' \in Scancode
        /\ missed \subseteq missed'
        /\ \A h \in HoldCodes \ missed' :
              Agrees(h, rest, Modifiers', pressed) =>
                 /\ Agrees(h, wire', Modifiers', pressed)
                 /\ latch'.code = h /\ ~ Sends(wire', h) =>
                       (h \in Modifiers' <=> ~ latch'.up)
    BY <1>2, DecodeLeaves
  <2>2. DriverTypeInv' BY <1>1, <2>1 DEF Buffer
  <2>3. Pending' = wire' BY <1>1, <2>1 DEF Pending
  <2>4. KeysInv' BY <1>1 DEF TrackInv, KeysInv
  <2>5. ASSUME NEW h \in HoldCodes \ missed' PROVE CodeTracked(h)'
    <3>1. h \in HoldCodes \ missed BY <2>1, <2>5
    <3> QED BY <1>1, <1>2, <2>1, <2>3, <3>1 DEF CodeTracked
  <2> QED BY <2>2, <2>4, <2>5 DEF TrackInv
<1>3. PortByte \in Scancode BY OfBuffer DEF PortByte
<1>4. ASSUME NEW extended, Decode(PortByte, extended, wire, FALSE)
      PROVE  DriverTypeInv' /\ TrackInv'
  <2>1. Applied(PortByte, Modifiers, Modifiers')
    BY <1>3, <1>4, DecodeApplies
  <2>2. ASSUME NEW h \in HoldCodes \ missed
        PROVE  Agrees(h, wire, Modifiers', pressed)
    <3>0. CodeTracked(h) BY DEF TrackInv
    <3>1. CASE out = <<>>
      <4>1. Pending = wire /\ PortByte = latch
        BY <3>1, OfBuffer DEF PortByte
      <4>2. h \in Modifiers' <=> IF latch.code = h THEN ~ latch.up
                                 ELSE h \in Modifiers
        BY <2>1, <4>1 DEF Applied
      <4> QED BY <3>0, <4>1, <4>2, Zenon DEF CodeTracked, Agrees
    <3>2. CASE out # <<>>
      <4>1. /\ Pending \in Seq(Scancode) /\ Pending # <<>>
            /\ Head(Pending) = PortByte /\ Tail(Pending) = wire
            /\ Agrees(h, Pending, Modifiers, pressed)
        BY <3>0, <3>2, OfBuffer DEF CodeTracked, PortByte
      <4> QED BY <2>1, <4>1, Consume
    <3> QED BY <3>1, <3>2
  <2> QED BY <1>2, <1>3, <1>4, <2>2
<1>5. ASSUME PortByte = E0, wire # <<>>, NEW again \in BOOLEAN,
             Decode(Head(wire), TRUE, Tail(wire), again)
      PROVE  DriverTypeInv' /\ TrackInv'
  <2>1. Head(wire) \in Scancode /\ Tail(wire) \in Seq(Scancode) BY <1>5
  <2>2. Applied(Head(wire), Modifiers, Modifiers')
    BY <1>5, <2>1, DecodeApplies
  <2>3. ASSUME NEW h \in HoldCodes \ missed
        PROVE  Agrees(h, wire, Modifiers, pressed)
    <3>0. CodeTracked(h) BY DEF TrackInv
    <3>1. CASE out = <<>> BY <3>0, <3>1, OfBuffer DEF CodeTracked
    <3>2. CASE out # <<>>
      <4>1. /\ Pending \in Seq(Scancode) /\ Pending # <<>>
            /\ Head(Pending) = E0 /\ Tail(Pending) = wire
            /\ Agrees(h, Pending, Modifiers, pressed)
        BY <1>5, <3>0, <3>2, OfBuffer DEF CodeTracked, PortByte
      <4>2. Applied(E0, Modifiers, Modifiers) BY Constants DEF Applied
      <4> QED BY <4>1, <4>2, Consume
    <3> QED BY <3>1, <3>2
  <2>4. ASSUME NEW h \in HoldCodes \ missed
        PROVE  Agrees(h, Tail(wire), Modifiers', pressed)
    BY <1>5, <2>2, <2>3, <2>4, Consume
  <2> QED BY <1>2, <1>5, <2>1, <2>4
<1> QED BY <1>4, <1>5 DEF Keyboard_Handler

\* The bytes of a stroke: of a code that is not faked, the key's own is the only
\* one among them.
LEMMA StrokeBytes ==
    ASSUME NEW k \in Keys, Stroke(k), wire \in Seq(Scancode)
    PROVE  \E bytes \in Seq(Scancode) :
              /\ wire' = wire \o bytes
              /\ pressed' = {h \in HoldCodes :
                                IF Sends(bytes, h) THEN EndsPressed(bytes, h)
                                ELSE h \in pressed}
              /\ missed' = {h \in missed : ~ Sends(bytes, h)}
              /\ \A h \in HoldCodes \ FakeCodes :
                    /\ Sends(bytes, h) <=> Code[k] = h
                    /\ EndsPressed(bytes, h) <=> Code[k] = h /\ k \notin held
<1> DEFINE x == [code |-> Code[k], up |-> k \in held]
           own == IF k \in ExtendedKeys THEN <<E0>> \o <<x>> ELSE <<x>>
           Bytes(fake) == IF k \in held THEN own \o fake ELSE fake \o own
<1>1. PICK fake \in Fakes(k) :
         /\ wire' = wire \o Bytes(fake)
         /\ pressed' = {h \in HoldCodes :
                           IF Sends(Bytes(fake), h)
                           THEN EndsPressed(Bytes(fake), h) ELSE h \in pressed}
         /\ missed' = {h \in missed : ~ Sends(Bytes(fake), h)}
  BY DEF Stroke
<1>2. (k \in held) \in BOOLEAN OBVIOUS
<1>3. x \in Scancode BY <1>2, KeyAssumption DEF Scancode
<1>4. x.code = Code[k] /\ (x.up <=> k \in held) OBVIOUS
<1> HIDE DEF x
<1>5. /\ own \in Seq(Scancode)
      /\ \A h \in HoldCodes : /\ Sends(own, h) <=> Code[k] = h
                              /\ EndsPressed(own, h) <=>
                                     Code[k] = h /\ k \notin held
  <2>1. <<x>> \in Seq(Scancode) /\ <<E0>> \in Seq(Scancode)
    BY <1>3, Constants
  <2>2. CASE k \in ExtendedKeys
    <3>1. own = <<E0>> \o <<x>> BY <2>2
    <3>2. ASSUME NEW h \in HoldCodes
          PROVE  /\ Sends(<<E0>> \o <<x>>, h) <=> Code[k] = h
                 /\ EndsPressed(<<E0>> \o <<x>>, h) <=>
                       Code[k] = h /\ k \notin held
      <4>1. /\ Sends(<<E0>> \o <<x>>, h) <=> Sends(<<E0>>, h) \/ Sends(<<x>>, h)
            /\ EndsPressed(<<E0>> \o <<x>>, h) <=>
                  IF Sends(<<x>>, h) THEN EndsPressed(<<x>>, h)
                  ELSE EndsPressed(<<E0>>, h)
        BY <2>1, Concat, Zenon
      <4>2. ~ Sends(<<E0>>, h) /\ ~ EndsPressed(<<E0>>, h)
        BY OneByte, Constants
      <4>3. /\ Sends(<<x>>, h) <=> x.code = h
            /\ EndsPressed(<<x>>, h) <=> x.code = h /\ ~ x.up
        BY OneByte
      <4> QED BY <1>4, <4>1, <4>2, <4>3, Zenon
    <3> QED BY <2>1, <3>1, <3>2
  <2>3. CASE k \notin ExtendedKeys
    <3>1. own = <<x>> BY <2>3
    <3>2. \A h : /\ Sends(<<x>>, h) <=> x.code = h
                 /\ EndsPressed(<<x>>, h) <=> x.code = h /\ ~ x.up
      BY OneByte
    <3> QED BY <1>4, <2>1, <3>1, <3>2, Zenon
  <2> QED BY <2>2, <2>3
<1>6. /\ fake \in Seq(Scancode)
      /\ \A h \in HoldCodes \ FakeCodes :
            ~ Sends(fake, h) /\ ~ EndsPressed(fake, h)
  <2>1. CASE fake = <<>> BY <2>1, NoByte
  <2>2. ASSUME NEW g \in FakeCodes, NEW u \in BOOLEAN,
               fake = <<E0, [code |-> g, up |-> u]>>
        PROVE  /\ fake \in Seq(Scancode)
               /\ \A h \in HoldCodes \ FakeCodes :
                     ~ Sends(fake, h) /\ ~ EndsPressed(fake, h)
    <3>1. g \in Codes BY KeyAssumption DEF Codes
    <3>2. fake \in Seq(Scancode) BY <2>2, <3>1, Constants
    <3>3. DOMAIN fake = 1 .. 2 /\ fake[1] = E0 /\ fake[2].code = g BY <2>2
    <3>4. \A j \in 1 .. 2 : fake[j].code = E0.code \/ fake[j].code = g
      BY <3>3
    <3> QED BY <3>2, <3>3, <3>4, Constants DEF Sends, EndsPressed
  <2> QED BY <2>1, <2>2 DEF Fakes
<1> HIDE DEF own
<1>7. /\ Bytes(fake) \in Seq(Scancode)
      /\ \A h \in HoldCodes \ FakeCodes :
            /\ Sends(Bytes(fake), h) <=> Code[k] = h
            /\ EndsPressed(Bytes(fake), h) <=> Code[k] = h /\ k \notin held
  <2>1. ASSUME NEW h
        PROVE  /\ Sends(own \o fake, h) <=> Sends(own, h) \/ Sends(fake, h)
               /\ EndsPressed(own \o fake, h) <=>
                     IF Sends(fake, h) THEN EndsPressed(fake, h)
                     ELSE EndsPressed(own, h)
               /\ Sends(fake \o own, h) <=> Sends(fake, h) \/ Sends(own, h)
               /\ EndsPressed(fake \o own, h) <=>
                     IF Sends(own, h) THEN EndsPressed(own, h)
                     ELSE EndsPressed(fake, h)
    BY <1>5, <1>6, Concat, Zenon
  <2>2. own \o fake \in Seq(Scancode) /\ fake \o own \in Seq(Scancode)
    BY <1>5, <1>6
  <2>3. CASE k \in held
    <3>1. Bytes(fake) = own \o fake BY <2>3
    <3> QED BY <1>5, <1>6, <2>1, <2>2, <3>1, Zenon
  <2>4. CASE k \notin held
    <3>1. Bytes(fake) = fake \o own BY <2>4
    <3> QED BY <1>5, <1>6, <2>1, <2>2, <3>1, Zenon
  <2> QED BY <2>3, <2>4
<1> HIDE DEF Bytes
<1> QED BY <1>1, <1>7

\* Appending to the scancodes on the way appends to those pending.
LEMMA AppendedLast ==
    ASSUME NEW q \in Seq(Scancode), NEW r \in Seq(Scancode),
           NEW s \in Seq(Scancode)
    PROVE  q \o (r \o s) = (q \o r) \o s
<1> DEFINE left == q \o (r \o s)
           right == (q \o r) \o s
<1>1. /\ r \o s \in Seq(Scancode) /\ Len(r \o s) = Len(r) + Len(s)
      /\ q \o r \in Seq(Scancode) /\ Len(q \o r) = Len(q) + Len(r)
  OBVIOUS
<1>2. /\ left \in Seq(Scancode) /\ right \in Seq(Scancode)
      /\ Len(left) = Len(q) + Len(r) + Len(s) /\ Len(right) = Len(left)
  BY <1>1
<1>3. ASSUME NEW j \in 1 .. Len(left) PROVE left[j] = right[j]
  <2>1. CASE j <= Len(q) BY <1>1, <1>2, <2>1
  <2>2. CASE j > Len(q) /\ j <= Len(q) + Len(r) BY <1>1, <1>2, <2>2
  <2>3. CASE j > Len(q) + Len(r) BY <1>1, <1>2, <2>3
  <2> QED BY <1>2, <2>1, <2>2, <2>3
<1> HIDE DEF left, right
<1>4. left = right BY <1>2, <1>3, SeqEqual
<1> QED BY <1>4 DEF left, right

LEMMA StrokeTracks ==
    ASSUME DriverTypeInv, TrackInv, NEW k \in Keys, Stroke(k)
    PROVE  DriverTypeInv' /\ TrackInv'
<1>1. wire \in Seq(Scancode) /\ out \in Seq(Scancode)
  <2>1. CASE out = <<>> BY <2>1 DEF DriverTypeInv
  <2>2. ASSUME NEW x \in Scancode, out = <<x>> PROVE out \in Seq(Scancode)
    BY <2>2
  <2> QED BY <2>1, <2>2 DEF DriverTypeInv, Buffer
<1>2. PICK bytes \in Seq(Scancode) :
         /\ wire' = wire \o bytes
         /\ pressed' = {h \in HoldCodes :
                           IF Sends(bytes, h) THEN EndsPressed(bytes, h)
                           ELSE h \in pressed}
         /\ missed' = {h \in missed : ~ Sends(bytes, h)}
         /\ \A h \in HoldCodes \ FakeCodes :
               /\ Sends(bytes, h) <=> Code[k] = h
               /\ EndsPressed(bytes, h) <=> Code[k] = h /\ k \notin held
  BY <1>1, StrokeBytes
<1>3. /\ held' = IF k \in held THEN held \ {k} ELSE held \cup {k}
      /\ UNCHANGED <<out, latch, Modifiers>>
  BY DEF Stroke
<1>4. DriverTypeInv'
  <2>1. wire' \in Seq(Scancode) BY <1>1, <1>2
  <2> QED BY <1>3, <2>1 DEF DriverTypeInv
<1>5. Pending' = Pending \o bytes
  <2>1. bytes \in Seq(Scancode) BY <1>2
  <2>2. out \o (wire \o bytes) = (out \o wire) \o bytes
    BY <1>1, <2>1, AppendedLast, Zenon
  <2>3. wire' = wire \o bytes /\ out' = out BY <1>2, <1>3
  <2> QED BY <2>2, <2>3, Zenon DEF Pending
<1>6. ASSUME NEW h \in HoldCodes \ missed' PROVE CodeTracked(h)'
  <2>1. /\ Sends(Pending', h) <=> Sends(Pending, h) \/ Sends(bytes, h)
        /\ EndsPressed(Pending', h) <=>
              IF Sends(bytes, h) THEN EndsPressed(bytes, h)
              ELSE EndsPressed(Pending, h)
    <3>1. Pending \in Seq(Scancode) BY <1>1 DEF Pending
    <3>2. /\ Sends(Pending \o bytes, h) <=> Sends(Pending, h) \/ Sends(bytes, h)
          /\ EndsPressed(Pending \o bytes, h) <=>
                IF Sends(bytes, h) THEN EndsPressed(bytes, h)
                ELSE EndsPressed(Pending, h)
      BY <3>1, Concat, Zenon
    <3> QED BY <1>5, <3>2
  <2>2. h \in pressed' <=> IF Sends(bytes, h) THEN EndsPressed(bytes, h)
                           ELSE h \in pressed
    BY <1>2
  <2>3. ~ Sends(bytes, h) => CodeTracked(h) BY <1>2 DEF TrackInv
  <2> QED BY <1>3, <2>1, <2>2, <2>3, Zenon DEF CodeTracked, Agrees
<1>7. KeysInv'
  <2> SUFFICES ASSUME NEW h \in HoldCodes \ FakeCodes
               PROVE /\ h \in pressed' => SentBy(h) \cap held' # {}
                     /\ \A m \in Keys : SentBy(h) = {m} =>
                           (m \in held' <=> h \in pressed')
    BY DEF KeysInv, SentBy
  <2>1. h \in pressed' <=> IF Code[k] = h THEN k \notin held ELSE h \in pressed
    BY <1>2
  <2>2. /\ h \in pressed => SentBy(h) \cap held # {}
        /\ \A m \in Keys : SentBy(h) = {m} => (m \in held <=> h \in pressed)
    BY DEF TrackInv, KeysInv
  <2>3. \A m : m \in SentBy(h) <=> m \in Keys /\ Code[m] = h BY DEF SentBy
  <2>4. CASE Code[k] = h
    <3>1. k \in SentBy(h) BY <2>3, <2>4
    <3> QED BY <1>3, <2>1, <2>4, <3>1
  <2>5. CASE Code[k] # h
    <3>1. k \notin SentBy(h) BY <2>3, <2>5
    <3>2. \A m : m # k => (m \in held' <=> m \in held) BY <1>3
    <3>3. SentBy(h) \cap held' = SentBy(h) \cap held BY <3>1, <3>2
    <3> QED BY <2>1, <2>2, <2>5, <3>1, <3>2, <3>3
  <2> QED BY <2>4, <2>5
<1> QED BY <1>4, <1>6, <1>7 DEF TrackInv

LEMMA DeliverTracks ==
    ASSUME DriverTypeInv, TrackInv, Deliver
    PROVE  DriverTypeInv' /\ TrackInv'
<1>1. /\ wire # <<>> /\ out = <<>>
      /\ out' = <<Head(wire)>> /\ wire' = Tail(wire)
      /\ UNCHANGED <<held, latch, pressed, missed, Modifiers>>
  BY DEF Deliver
<1>2. wire \in Seq(Scancode) BY DEF DriverTypeInv
<1>3. /\ Head(wire) \in Scancode /\ Tail(wire) \in Seq(Scancode)
      /\ <<Head(wire)>> \o Tail(wire) = wire
      /\ <<>> \o wire = wire
  BY <1>1, <1>2
<1>4. Pending' = Pending BY <1>1, <1>3 DEF Pending
<1> QED BY <1>1, <1>3, <1>4
        DEF DriverTypeInv, TrackInv, KeysInv, CodeTracked, Buffer

-----------------------------------------------------------------------------
(* The event Keyboard_getch answers *)

Stamp == {0, Last}

\* Ready is of the last event or cleared; while the loop tests its conditions
\* it can only be of an event that came after the one in c.
AnswerInv ==
    /\ Last \in Nat /\ DOMAIN events = 1 .. Last
    /\ place \in {"call", "testChar", "testState", "testReady", "hlt", "halted",
               "woken", "clear", "return"}
    /\ PreviousEvent = [f \in Names |-> PreviousEvent[f]]
    /\ PreviousEvent.Ready \in Stamp /\ PreviousEvent.Character \in Stamp
    /\ c \in 0 .. Last
    /\ place \in {"testChar", "testState", "testReady"} =>
           (PreviousEvent.Ready # 0 => c < Last)
    /\ place \in {"testState", "testReady", "return"} => HasCharacter(c)
    /\ place = "return" => c < Last

\* The same of the two fields getch reads.
LEMMA HandlerStores ==
    ASSUME PreviousEvent = [f \in Names |-> PreviousEvent[f]],
           Keyboard_Handler
    PROVE  /\ PreviousEvent' = [f \in Names |-> PreviousEvent'[f]]
           /\ \/ /\ \E e : events' = Append(events, e)
                 /\ PreviousEvent'.Ready = Last + 1
                 /\ PreviousEvent'.Character = Last + 1
              \/ /\ events' = events
                 /\ PreviousEvent'.Ready = PreviousEvent.Ready
                 /\ PreviousEvent'.Character = PreviousEvent.Character
<1>1. Stores \/ StoresNone BY HandlerEffect DEF Fielded
<1>2. Fields[1] = "Ready" /\ Fields[4] = "Character" BY DEF Fields
<1>3. /\ P[1] = PreviousEvent.Ready /\ P[4] = PreviousEvent.Character
      /\ P'[1] = PreviousEvent'.Ready /\ P'[4] = PreviousEvent'.Character
  BY <1>2 DEF P
<1>4. CASE Stores
  <2>1. P'[1] = Last + 1 /\ P'[4] = Last + 1 BY <1>4 DEF Stores
  <2> QED BY <1>3, <1>4, <2>1 DEF Stores, Fielded
<1>5. CASE StoresNone BY <1>3, <1>5 DEF StoresNone, Fielded
<1> QED BY <1>1, <1>4, <1>5

LEMMA HandleAnswers ==
    ASSUME IsSequence, AnswerInv, HandleInGetch
    PROVE  IsSequence' /\ AnswerInv'
<1>1. /\ c' = c /\ place' = IF place = "halted" THEN "woken" ELSE place
      /\ Keyboard_Handler
  BY DEF HandleInGetch, WakeGetch
<1>2. PreviousEvent' = [f \in Names |-> PreviousEvent'[f]]
  BY <1>1, HandlerStores DEF AnswerInv
<1>3. CASE /\ events' = events
           /\ PreviousEvent'.Ready = PreviousEvent.Ready
           /\ PreviousEvent'.Character = PreviousEvent.Character
  BY <1>1, <1>2, <1>3 DEF AnswerInv, Last, Stamp, HasCharacter, IsSequence
<1>4. CASE /\ \E e : events' = Append(events, e)
           /\ PreviousEvent'.Ready = Last + 1
           /\ PreviousEvent'.Character = Last + 1
  <2>1. /\ IsSequence' /\ Last \in Nat /\ Last' = Last + 1
        /\ DOMAIN events' = 1 .. Last'
        /\ \A n \in 1 .. Last : events'[n] = events[n]
    BY <1>4, AppendEvent
  <2>2. HasCharacter(c) => HasCharacter(c)'
    BY <1>1, <2>1 DEF AnswerInv, HasCharacter
  <2>3. /\ PreviousEvent'.Ready \in Stamp' /\ PreviousEvent'.Character \in Stamp'
        /\ c' \in 0 .. Last' /\ c' < Last'
    BY <1>1, <1>4, <2>1 DEF AnswerInv, Stamp
  <2> QED BY <1>1, <1>2, <2>1, <2>2, <2>3 DEF AnswerInv
<1> QED BY <1>1, <1>3, <1>4, HandlerStores DEF AnswerInv

LEMMA GetchAnswers ==
    ASSUME AnswerInv, Getch
    PROVE  AnswerInv' /\ events' = events
<1> USE DEF AnswerInv, HasCharacter
<1>1. events' = events
  BY DEF Getch, Call, TestChar, TestState, TestStillReady, GetchHalt, ReadCharacter,
     ClearReady, Return, driverVars
<1>2. Last' = Last /\ Stamp' = Stamp BY <1>1 DEF Last, Stamp
<1>3. CASE ClearReady
  <2>1. /\ PreviousEvent'.Ready = 0
        /\ PreviousEvent'.Character = PreviousEvent.Character
        /\ PreviousEvent' = [f \in Names |-> PreviousEvent'[f]]
    BY <1>3 DEF ClearReady, Names, Stamped
  <2> QED BY <1>1, <1>2, <1>3, <2>1 DEF ClearReady, Stamp
<1>4. CASE PreviousEvent' = PreviousEvent
  <2>1. CASE Call BY <1>1, <1>2, <1>4, <2>1 DEF Call, Stamp
  <2>2. CASE TestChar BY <1>1, <1>2, <1>4, <2>2 DEF TestChar
  <2>3. CASE TestState BY <1>1, <1>2, <1>4, <2>3 DEF TestState
  <2>4. CASE TestStillReady BY <1>1, <1>2, <1>4, <2>4 DEF TestStillReady
  <2>5. CASE GetchHalt BY <1>1, <1>2, <1>4, <2>5 DEF GetchHalt
  <2>6. CASE ReadCharacter
    BY <1>1, <1>2, <1>4, <2>6 DEF ReadCharacter, Stamp
  <2>7. CASE Return BY <1>1, <1>2, <1>4, <2>7 DEF Return
  <2>8. CASE ClearReady BY <1>3, <2>8
  <2> QED BY <2>1, <2>2, <2>3, <2>4, <2>5, <2>6, <2>7, <2>8 DEF Getch
<1> QED
  BY <1>1, <1>3, <1>4 DEF Getch, Call, TestChar, TestState, TestStillReady, GetchHalt,
     ReadCharacter, ClearReady, Return, driverVars

-----------------------------------------------------------------------------

GInv == DriverTypeInv /\ TrackInv /\ IsSequence /\ AnswerInv

LEMMA DriverStarts ==
    ASSUME DriverInit
    PROVE  DriverTypeInv /\ TrackInv
<1> USE DEF DriverInit
<1>1. wire \in Seq(Scancode) BY Constants
<1>2. DriverTypeInv BY <1>1, Constants DEF DriverTypeInv, Buffer
<1>3. Pending = <<ACK, ACK>> BY <1>1 DEF Pending
<1>4. \A h \in HoldCodes : CodeTracked(h)
  BY <1>3, Acks, Constants DEF CodeTracked, Agrees
<1> QED BY <1>2, <1>4 DEF TrackInv, KeysInv

LEMMA GetchInitInvariant == GetchInit => GInv
<1> SUFFICES ASSUME GetchInit PROVE GInv OBVIOUS
<1>1. DriverTypeInv /\ TrackInv BY DriverStarts DEF GetchInit
<1> USE DEF GetchInit, DriverInit
<1>2. IsSequence
  <2>1. events \in Seq({}) OBVIOUS
  <2> QED BY <2>1 DEF IsSequence
<1>3. AnswerInv
  BY DEF AnswerInv, Last, Stamp, Names, Stamped, Cleared, HasCharacter
<1> QED BY <1>1, <1>2, <1>3 DEF GInv

LEMMA GetchStepInvariant == GInv /\ [GetchNext]_getchVars => GInv'
<1> SUFFICES ASSUME GInv, [GetchNext]_getchVars PROVE GInv' OBVIOUS
<1> USE DEF GInv
<1>1. ASSUME UNCHANGED driverVars PROVE (DriverTypeInv /\ TrackInv)'
  BY <1>1 DEF driverVars, device, DriverTypeInv, TrackInv, KeysInv, CodeTracked, Pending
<1>2. ASSUME events' = events PROVE IsSequence' BY <1>2 DEF IsSequence
<1>3. CASE Getch
  <2>1. UNCHANGED <<wire, out, latch, pressed, missed, held, Modifiers>>
    BY <1>3 DEF Getch, Call, TestChar, TestState, TestStillReady, GetchHalt,
       ReadCharacter, ClearReady, Return, driverVars, device
  <2>2. (DriverTypeInv /\ TrackInv)'
    BY <2>1 DEF DriverTypeInv, TrackInv, KeysInv, CodeTracked, Pending
  <2> QED BY <1>2, <1>3, <2>2, GetchAnswers
<1>4. CASE HandleInGetch
  BY <1>4, HandlerTracks, HandleAnswers DEF HandleInGetch
<1>5. CASE TickInGetch
  <2>1. AnswerInv' /\ IsSequence'
    BY <1>5 DEF TickInGetch, driverVars, AnswerInv, Last, Stamp, HasCharacter,
       IsSequence
  <2> QED BY <1>1, <1>5, <2>1 DEF TickInGetch
<1>6. CASE DeviceInGetch
  <2>1. UNCHANGED <<PreviousEvent, events, place, c>>
    BY <1>6 DEF DeviceInGetch, Deliver, Stroke
  <2>2. AnswerInv' /\ IsSequence'
    BY <2>1 DEF AnswerInv, Last, Stamp, HasCharacter, IsSequence
  <2> QED BY <1>6, <2>2, DeliverTracks, StrokeTracks DEF DeviceInGetch
<1>7. CASE UNCHANGED getchVars
  <2>1. AnswerInv' /\ IsSequence'
    BY <1>7 DEF getchVars, driverVars, AnswerInv, Last, Stamp, HasCharacter,
       IsSequence
  <2> QED BY <1>1, <1>7, <2>1 DEF getchVars
<1> QED BY <1>3, <1>4, <1>5, <1>6, <1>7 DEF GetchNext

LEMMA GetchInvariant == GetchSpec => []GInv
<1> QED BY GetchInitInvariant, GetchStepInvariant, PTL DEF GetchSpec

LEMMA QuietTracked ==
    ASSUME TrackInv PROVE HoldKeysTracked
<1> SUFFICES ASSUME Quiet, NEW h \in HoldCodes \ missed
             PROVE  /\ h \in Modifiers <=> h \in pressed
                    /\ h \notin FakeCodes =>
                          /\ h \in Modifiers => SentBy(h) \cap held # {}
                          /\ \A k \in Keys : SentBy(h) = {k} =>
                                (k \in held <=> h \in Modifiers)
  BY DEF HoldKeysTracked
<1>1. Pending = <<>> BY DEF Quiet, Pending
<1>2. Agrees(h, <<>>, Modifiers, pressed) BY <1>1 DEF TrackInv, CodeTracked
<1>3. h \in Modifiers <=> h \in pressed BY <1>2, NoByte DEF Agrees
<1> QED BY <1>3 DEF TrackInv, KeysInv

\* Whatever the keys, the codes they share and the shifts the keyboard fakes,
\* however the bytes arrive and whatever UpdateLEDS throws away: once the
\* keyboard is quiet, the bit of a code of which the last was not thrown away is
\* what the keyboard last sent of it, and what its keys are (Keyboard_Handler).
THEOREM ModifiersTracked == GetchSpec => []HoldKeysTracked
<1>1. GInv => HoldKeysTracked BY QuietTracked DEF GInv
<1> QED BY <1>1, GetchInvariant, PTL

\* The same while the main loop copies and clears events in place of getch
\* (Keyboard.c:52-104 and 156-168).
THEOREM ModifiersTrackedInLoop == Spec => []HoldKeysTracked
<1>1. Init => DriverTypeInv /\ TrackInv BY DriverStarts DEF Init
<1>2. DriverTypeInv /\ TrackInv /\ [Next]_vars => (DriverTypeInv /\ TrackInv)'
  <2> SUFFICES ASSUME DriverTypeInv, TrackInv, [Next]_vars
               PROVE  (DriverTypeInv /\ TrackInv)'
    OBVIOUS
  <2>1. ASSUME UNCHANGED <<wire, out, latch, pressed, missed, held, Modifiers>>
        PROVE  (DriverTypeInv /\ TrackInv)'
    BY <2>1 DEF DriverTypeInv, TrackInv, KeysInv, CodeTracked, Pending
  <2>2. CASE Main
    BY <2>1, <2>2 DEF Main, TestReady, Halt, ReadField, ClearField, Act,
       driverVars, device
  <2>3. CASE Handle BY <2>3, HandlerTracks DEF Handle
  <2>4. CASE Tick BY <2>1, <2>4 DEF Tick, driverVars, device
  <2>5. CASE Device BY <2>5, DeliverTracks, StrokeTracks DEF Device
  <2>6. CASE UNCHANGED vars BY <2>1, <2>6 DEF vars, driverVars, device
  <2> QED BY <2>2, <2>3, <2>4, <2>5, <2>6 DEF Next
<1>3. TrackInv => HoldKeysTracked BY QuietTracked
<1> QED BY <1>1, <1>2, <1>3, PTL DEF Spec

\* Keyboard_getch never answers the last event stored: the character it returns
\* is of an earlier one (Keyboard_getch).
THEOREM AnswersBehind == GetchSpec => []AnswersAnEarlierEvent
<1>1. GInv => AnswersAnEarlierEvent
  BY DEF GInv, AnswerInv, AnswersAnEarlierEvent
<1> QED BY <1>1, GetchInvariant, PTL
=============================================================================
