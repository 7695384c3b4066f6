----------------------------- MODULE ReadsProofs -----------------------------
(***************************************************************************)
(* Proofs about reading a document, for every set of well-formed tapes.    *)
(*                                                                         *)
(* Cursors: the inductive invariant says where each iterator stands, at    *)
(* the child of its container that follows those it has yielded, or at the *)
(* closing bracket; the tape's well-formedness carries the position from   *)
(* one child to the next.  Navigation: simdjson's scans stand where such   *)
(* an iterator does, which gives what one token or one wildcard leads to;  *)
(* paths follow by induction on their length, and the order of a wildcard  *)
(* path's answers because every element lies within the one it replaces.   *)
(* Materializer: an element's span of frames is rebuilt to its value       *)
(* wherever the span stands, by induction from the document's end, where   *)
(* recursive functions are defined because containers lie before their     *)
(* contents.                                                               *)
(* Arithmetic: floats by induction on the number of bits, buffers by       *)
(* cases.                                                                  *)
(***************************************************************************)
EXTENDS Reads, SequenceTheorems, SetInduction

Containers == {i \in Starts : TypeAt(i) \in {"array", "object"}}

\* Where an iterator over i stands when it has yielded n children.
StandsAt(i, n) == IF n < Len(Children(i)) THEN Children(i)[n + 1] ELSE AfterIndex(i) - 1

Track(lease) ==
  LET i == origin[lease]  cursor == iterLeases[lease]  y == yields[lease] IN
  /\ i \in Containers
  /\ y \in Seq(Nat) /\ Len(y) <= Len(Children(i))
  /\ \A n \in 1 .. Len(y) : y[n] = Children(i)[n]
  /\ cursor.tag = TypeAt(i)
  /\ cursor.state0 = StandsAt(i, Len(y))
  /\ cursor.state1 = AfterIndex(i) - 1
  /\ TypeAt(i) = "object" => Len(y) % 2 = 0

OnTrack == \A lease \in DOMAIN iterLeases : Track(lease)

IInv == TypeOK /\ IndicesNameElements /\ OnTrack

-----------------------------------------------------------------------------
(* The tape *)

\* Every element has a kind and ends inside the document.
LEMMA ElementFacts ==
  ASSUME tape \in Tapes, NEW i \in Starts
  PROVE  /\ DOMAIN tape = 1 .. Len(tape) /\ Len(tape) \in Nat
         /\ i \in 1 .. Len(tape) /\ tape[i].start
         /\ TypeAt(i) \in Kinds
         /\ AfterIndex(i) \in i + 1 .. Len(tape) + 1
         /\ RootAfterIndex = Len(tape) + 1
         /\ RootIndex \in Starts
         /\ InDocument(i)
<1>1. WellFormed(tape)
  BY CursorAssumption
<1>2. DOMAIN tape = 1 .. Len(tape) /\ Len(tape) \in Nat
  BY <1>1 DEF WellFormed
<1>3. i \in 1 .. Len(tape) /\ tape[i].start
  BY <1>2 DEF Starts
<1>4. tape[i].kind \in Kinds /\ tape[i].after \in i + 1 .. Len(tape) + 1
  BY <1>1, <1>3 DEF WellFormed
<1>5. tape[1].start /\ tape[1].after = Len(tape) + 1 /\ 1 \in 1 .. Len(tape)
  BY <1>1, <1>2, <1>3 DEF WellFormed
<1> QED
  BY <1>2, <1>3, <1>4, <1>5
  DEF TypeAt, AfterIndex, RootAfterIndex, RootIndex, Starts, InDocument

\* The children of a container are elements between its brackets, and each one ends
\* where the next one or the closing bracket is.
LEMMA NextChild ==
  ASSUME tape \in Tapes, NEW i \in Containers, NEW n \in 0 .. Len(Children(i))
  PROVE  /\ Children(i) \in Seq(Nat) /\ Len(Children(i)) \in Nat
         /\ StandsAt(i, n) \in i + 1 .. AfterIndex(i) - 1
         /\ StandsAt(i, Len(Children(i))) = AfterIndex(i) - 1
         /\ n < Len(Children(i)) =>
              /\ StandsAt(i, n) = Children(i)[n + 1]
              /\ StandsAt(i, n) \in Starts
              /\ StandsAt(i, n) < AfterIndex(i) - 1
              /\ AfterIndex(StandsAt(i, n)) = StandsAt(i, n + 1)
         /\ StandsAt(i, 0) = i + 1
<1> DEFINE c == Children(i)  close == AfterIndex(i) - 1
<1>1. i \in Starts /\ tape[i].kind \in {"array", "object"} /\ WellFormed(tape)
  BY CursorAssumption DEF Containers, TypeAt
<1>2. /\ DOMAIN tape = 1 .. Len(tape) /\ Len(tape) \in Nat /\ i \in 1 .. Len(tape)
      /\ tape[i].start /\ AfterIndex(i) \in i + 1 .. Len(tape) + 1
  BY <1>1, ElementFacts
<1>3. Tiled(tape, i)
  BY <1>1, <1>2 DEF WellFormed
<1>4. /\ c \in Seq(i + 1 .. close - 1)
      /\ c = <<>> => close = i + 1
      /\ c # <<>> => c[1] = i + 1 /\ tape[c[Len(c)]].after = close
      /\ \A m \in 1 .. Len(c) : tape[c[m]].start
      /\ \A m \in 1 .. Len(c) - 1 : c[m + 1] = tape[c[m]].after
  BY <1>3 DEF Tiled, Children, AfterIndex
<1> HIDE DEF c, close
<1>5. close \in i .. Len(tape) /\ Len(c) \in Nat /\ n \in 0 .. Len(c)
  BY <1>2, <1>4 DEF c, close
<1>6. \A m \in 1 .. Len(c) : c[m] \in i + 1 .. close - 1 /\ c[m] \in Starts
  <2>1. \A m \in 1 .. Len(c) : c[m] \in i + 1 .. close - 1
    BY <1>4, ElementOfSeq
  <2>2. \A j \in i + 1 .. close - 1 : j \in DOMAIN tape
    BY <1>2, <1>5
  <2> QED
    BY <1>4, <2>1, <2>2 DEF Starts
<1>7. c \in Seq(Nat)
  BY <1>2, <1>4, <1>5, i + 1 .. close - 1 \subseteq Nat
<1>8. close > i
  BY <1>4, <1>5, <1>6, <1>2
<1>9. \A m \in 0 .. Len(c) : StandsAt(i, m) = IF m < Len(c) THEN c[m + 1] ELSE close
  BY DEF StandsAt, c, close
<1>10. ASSUME n < Len(c)
       PROVE  AfterIndex(c[n + 1]) = StandsAt(i, n + 1)
  <2>1. CASE n + 1 < Len(c)
    <3>1. n + 1 \in 1 .. Len(c) - 1 /\ n + 1 \in 0 .. Len(c)
      BY <2>1, <1>5
    <3>2. c[(n + 1) + 1] = tape[c[n + 1]].after
      BY <3>1, <1>4
    <3>3. StandsAt(i, n + 1) = c[(n + 1) + 1]
      BY <2>1, <3>1, <1>9
    <3> QED
      BY <3>2, <3>3 DEF AfterIndex
  <2>2. CASE n + 1 = Len(c)
    <3>1. c # <<>>
      BY <2>2, <1>5
    <3> QED
      BY <2>2, <3>1, <1>4, <1>5, <1>9 DEF AfterIndex
  <2> QED
    BY <1>10, <1>5, <2>1, <2>2
<1>11. StandsAt(i, 0) = i + 1
  <2>1. CASE c = <<>>
    BY <2>1, <1>4, <1>5, <1>9
  <2>2. CASE c # <<>>
    BY <2>2, <1>4, <1>5, <1>9
  <2> QED
    BY <2>1, <2>2
<1>12. StandsAt(i, n) \in i + 1 .. close
  BY <1>2, <1>5, <1>6, <1>8, <1>9
<1>13. n < Len(c) => /\ StandsAt(i, n) = c[n + 1] /\ c[n + 1] \in Starts
                     /\ c[n + 1] < close
  BY <1>5, <1>6, <1>9, <1>2
<1> QED
  BY <1>5, <1>7, <1>9, <1>10, <1>11, <1>12, <1>13 DEF c, close

\* Children are a sequence of numbers.
LEMMA ChildrenSeq ==
  ASSUME tape \in Tapes, NEW i \in Containers
  PROVE  Children(i) \in Seq(Nat) /\ Len(Children(i)) \in Nat
<1>1. i \in 1 .. Len(tape) /\ WellFormed(tape)
  <2>1. i \in Starts
    BY DEF Containers
  <2> QED
    BY <2>1, CursorAssumption, ElementFacts
<1> DEFINE Word == [kind : STRING, after : Nat, start : BOOLEAN, children : Seq(Nat)]
<1>2. tape \in Seq(Word)
  BY <1>1 DEF WellFormed
<1>3. \A w \in Word : w.children \in Seq(Nat)
  OBVIOUS
<1> HIDE DEF Word
<1>4. tape[i] \in Word
  BY <1>1, <1>2
<1> QED
  BY <1>3, <1>4 DEF Children

\* In an object every other child is a key, one word long.
LEMMA Keys ==
  ASSUME tape \in Tapes, NEW i \in Containers, TypeAt(i) = "object",
         NEW n \in 0 .. Len(Children(i)), n < Len(Children(i)), n % 2 = 0
  PROVE  /\ n + 1 < Len(Children(i))
         /\ TypeAt(StandsAt(i, n)) = "string"
         /\ StandsAt(i, n + 1) = StandsAt(i, n) + 1
<1>1. i \in Starts /\ WellFormed(tape) /\ tape[i].kind = "object"
  BY CursorAssumption DEF Containers, TypeAt
<1>2. Tiled(tape, i)
  BY <1>1, ElementFacts DEF WellFormed
<1>3. /\ Len(Children(i)) % 2 = 0
      /\ \A m \in 1 .. Len(Children(i)) : m % 2 = 1 =>
           /\ tape[Children(i)[m]].kind = "string"
           /\ tape[Children(i)[m]].after = Children(i)[m] + 1
  BY <1>1, <1>2 DEF Tiled, Children
<1>4. Len(Children(i)) \in Nat /\ StandsAt(i, n) = Children(i)[n + 1]
      /\ AfterIndex(StandsAt(i, n)) = StandsAt(i, n + 1)
  BY NextChild
<1>5. (n + 1) % 2 = 1 /\ n + 1 \in 1 .. Len(Children(i)) /\ n + 1 < Len(Children(i))
  BY <1>3, <1>4
<1> QED
  BY <1>3, <1>4, <1>5 DEF TypeAt, AfterIndex

\* Where a path leads is an element again.
LEMMA ReachableStarts ==
  ASSUME tape \in Tapes, NEW i \in Starts
  PROVE  /\ TypeAt(i) \in {"array", "object"} =>
              Elements(i) \subseteq Starts /\ Values(i) \subseteq Starts
         /\ Reachable(i) \subseteq Starts
<1>1. ASSUME NEW j \in Starts, TypeAt(j) \in {"array", "object"}
      PROVE  Elements(j) \subseteq Starts /\ Values(j) \subseteq Starts
  <2>1. j \in Containers
    BY <1>1 DEF Containers
  <2>2. Children(j) \in Seq(Nat) /\ Len(Children(j)) \in Nat
        /\ DOMAIN Children(j) = 1 .. Len(Children(j))
    BY <2>1, NextChild
  <2>3. ASSUME NEW n \in 1 .. Len(Children(j))
        PROVE  Children(j)[n] \in Starts
    <3>1. n - 1 \in 0 .. Len(Children(j)) /\ n - 1 < Len(Children(j)) /\ (n - 1) + 1 = n
      BY <2>2
    <3>2. StandsAt(j, n - 1) = Children(j)[(n - 1) + 1] /\ StandsAt(j, n - 1) \in Starts
      BY <2>1, <3>1, NextChild
    <3> QED
      BY <3>1, <3>2
  <2> QED
    BY <2>2, <2>3 DEF Elements, Values
<1> QED
  BY <1>1 DEF Reachable

-----------------------------------------------------------------------------
(* The invariant *)

\* A view that resolves is an element.
LEMMA ResolvesStart ==
  ASSUME IInv, NEW view \in DOMAIN tape, Resolves(view)
  PROVE  view \in Starts
BY ElementFacts, CursorAssumption
DEF IInv, TypeOK, IndicesNameElements, Resolves, ValidateDescendant, RootIndex, WellFormed, Starts

\* A struct that passes the checks of next is the iterator's own, and it stands at
\* a child of its container unless it is at the end.
LEMMA ResolvesIterTrack ==
  ASSUME IInv, NEW lease \in LeaseIds, NEW cursor \in Cursors, NEW tag,
         ResolvesIter(lease, cursor, tag), ~AtEnd(cursor)
  PROVE  /\ lease \in DOMAIN iterLeases /\ cursor = iterLeases[lease]
         /\ Track(lease) /\ TypeAt(origin[lease]) = tag
         /\ Len(yields[lease]) \in 0 .. Len(Children(origin[lease]))
         /\ Len(yields[lease]) < Len(Children(origin[lease]))
<1>1. lease \in DOMAIN iterLeases /\ cursor = iterLeases[lease] /\ cursor.tag = tag
  BY DEF ResolvesIter, LeaseMatches
<1>2. Track(lease)
  BY <1>1 DEF IInv, OnTrack
<1>3. Len(yields[lease]) \in Nat /\ Len(Children(origin[lease])) \in Nat
      /\ Len(yields[lease]) \in 0 .. Len(Children(origin[lease]))
  <2>2. Len(Children(origin[lease])) \in Nat
    <3>1. tape \in Tapes /\ origin[lease] \in Containers
      BY <1>2 DEF IInv, TypeOK, Track
    <3> QED
      BY <3>1, ChildrenSeq
  <2> QED
    BY <1>2, <2>2 DEF Track
<1>4. Len(yields[lease]) < Len(Children(origin[lease]))
  BY <1>1, <1>2, <1>3 DEF AtEnd, Track, StandsAt
<1> QED
  BY <1>1, <1>2, <1>3, <1>4 DEF Track

LEMMA InitInv == Init => IInv
<1> SUFFICES ASSUME Init PROVE IInv
  OBVIOUS
<1>1. DOMAIN NoLeases = {}
  BY DEF NoLeases
<1>2. TypeOK
  BY <1>1, CursorAssumption DEF Init, TypeOK, NoLeases, LeaseIds
<1> QED
  BY <1>1, <1>2 DEF Init, IInv, IndicesNameElements, OnTrack

\* A lease whose record does not change stays on its track.
LEMMA TrackKept ==
  ASSUME NEW lease, Track(lease), tape' = tape, iterLeases'[lease] = iterLeases[lease],
         origin'[lease] = origin[lease], yields'[lease] = yields[lease]
  PROVE  Track(lease)'
BY DEF Track, Containers, Starts, TypeAt, AfterIndex, Children, StandsAt

\* A call that only gives out elements keeps the invariant.
LEMMA GiveOut ==
  ASSUME IInv, NEW indices \in SUBSET Starts, Encode(indices), UNCHANGED <<tape, leases>>
  PROVE  IInv'
<1>1. descendantIndices' \subseteq Starts /\ descendantIndices' \subseteq DOMAIN tape
  BY DEF Encode, IInv, IndicesNameElements, TypeOK, Starts
<1>2. TypeOK' /\ IndicesNameElements'
  BY <1>1 DEF IInv, TypeOK, IndicesNameElements, Starts, leases, Cursors
<1>3. ASSUME NEW lease \in DOMAIN iterLeases'
      PROVE  Track(lease)'
  <2>1. Track(lease)
    BY DEF leases, IInv, OnTrack
  <2> QED
    BY <2>1, TrackKept DEF leases
<1> QED
  BY <1>2, <1>3 DEF IInv, OnTrack

LEMMA NavigationInv ==
  ASSUME IInv, NEW view \in DOMAIN tape,
         ObjectGetField(view) \/ ArrayAt(view) \/ ElementAtPath(view)
  PROVE  IInv'
<1>1. view \in Starts
  BY ResolvesStart DEF ObjectGetField, ArrayAt, ElementAtPath
<1>2. tape \in Tapes
  BY DEF IInv, TypeOK
<1>3. CASE ObjectGetField(view)
  <2>1. PICK i \in Values(view) : Encode({i})
    BY <1>3 DEF ObjectGetField
  <2>2. {i} \in SUBSET Starts
    BY <1>1, <1>2, <1>3, ReachableStarts DEF ObjectGetField
  <2> QED
    BY <1>3, <2>1, <2>2, GiveOut DEF ObjectGetField
<1>4. CASE ArrayAt(view)
  <2>1. PICK i \in Elements(view) : Encode({i})
    BY <1>4 DEF ArrayAt
  <2>2. {i} \in SUBSET Starts
    BY <1>1, <1>2, <1>4, ReachableStarts DEF ArrayAt
  <2> QED
    BY <1>4, <2>1, <2>2, GiveOut DEF ArrayAt
<1>5. CASE ElementAtPath(view)
  <2>1. PICK matches \in SUBSET Reachable(view) : Encode(matches)
    BY <1>5 DEF ElementAtPath
  <2>2. matches \in SUBSET Starts
    BY <1>1, <1>2, <2>1, ReachableStarts
  <2> QED
    BY <1>5, <2>1, <2>2, GiveOut DEF ElementAtPath
<1> QED
  BY <1>3, <1>4, <1>5

\* A new iterator stands at its container's first child.
LEMMA IterNewInv ==
  ASSUME IInv, NEW view \in DOMAIN tape, NEW tag \in {"array", "object"}, IterNew(view, tag)
  PROVE  IInv'
<1> DEFINE cursor == [state0 |-> Bounds(view).state0, state1 |-> Bounds(view).state1,
                      tag |-> tag]
<1>1. view \in Starts /\ tape \in Tapes /\ view \in Containers /\ TypeAt(view) = tag
  BY ResolvesStart DEF IterNew, Containers, IInv, TypeOK
<1>2. PICK lease \in LeaseIds :
        /\ lease \notin DOMAIN iterLeases
        /\ iterLeases' = With(iterLeases, lease, cursor)
        /\ nextIterLease' = NextLease(lease)
        /\ origin' = With(origin, lease, view)
        /\ yields' = With(yields, lease, <<>>)
  BY DEF IterNew, FreeLease
<1>3. tape' = tape /\ descendantIndices' = descendantIndices
  BY DEF IterNew
<1>4. /\ StandsAt(view, 0) = view + 1 /\ Len(Children(view)) \in Nat
      /\ view + 1 \in view + 1 .. AfterIndex(view) - 1
  <2>1. Len(Children(view)) \in Nat
    BY <1>1, ChildrenSeq
  <2>2. 0 \in 0 .. Len(Children(view))
    BY <2>1
  <2> QED
    BY <1>1, <2>1, <2>2, NextChild
<1>5. cursor.state0 = view + 1 /\ cursor.state1 = AfterIndex(view) - 1 /\ cursor.tag = tag
  BY DEF Bounds
<1>6. cursor \in Cursors
  BY <1>1, <1>4, ElementFacts DEF Bounds, Cursors
<1> HIDE DEF cursor
<1>7. TypeOK'
  <2>1. NextLease(lease) \in LeaseIds
    BY CursorAssumption DEF NextLease, LeaseIds
  <2> QED
    BY <1>2, <1>3, <1>6, <2>1 DEF IInv, TypeOK, With, Cursors
<1>8. IndicesNameElements'
  BY <1>3 DEF IInv, IndicesNameElements, Starts
<1>9. ASSUME NEW l \in DOMAIN iterLeases'
      PROVE  Track(l)'
  <2>1. CASE l = lease
    <3>1. iterLeases'[l] = cursor /\ origin'[l] = view /\ yields'[l] = <<>>
      BY <1>2, <2>1 DEF With
    <3>2. Len(<<>>) = 0 /\ <<>> \in Seq(Nat)
      OBVIOUS
    <3> QED
      BY <1>1, <1>3, <1>4, <1>5, <3>1, <3>2
      DEF Track, Containers, Starts, TypeAt, AfterIndex, Children, StandsAt
  <2>2. CASE l # lease
    <3>1. l \in DOMAIN iterLeases /\ iterLeases'[l] = iterLeases[l]
          /\ origin'[l] = origin[l] /\ yields'[l] = yields[l]
      BY <1>2, <2>2 DEF With, IInv, TypeOK
    <3>2. Track(l)
      BY <3>1 DEF IInv, OnTrack
    <3> QED
      BY <1>3, <3>1, <3>2, TrackKept
  <2> QED
    BY <2>1, <2>2
<1> QED
  BY <1>7, <1>8, <1>9 DEF IInv, OnTrack

\* Yielding the next children moves the iterator to the child behind them.
LEMMA AdvanceInv ==
  ASSUME IInv, NEW lease \in DOMAIN iterLeases, NEW i, i = origin[lease],
         NEW k \in Nat, Len(yields[lease]) + k <= Len(Children(i)),
         NEW indices \in Seq(Starts), Len(indices) = k,
         \A n \in 1 .. k : indices[n] = Children(i)[Len(yields[lease]) + n],
         TypeAt(i) = "object" => k % 2 = 0,
         Advance(lease, iterLeases[lease], indices, StandsAt(i, Len(yields[lease]) + k))
  PROVE  IInv'
<1> DEFINE y == yields[lease]  next == StandsAt(i, Len(y) + k)
           cursor == [iterLeases[lease] EXCEPT !.state0 = next]
<1>1. Track(lease) /\ i \in Containers /\ tape \in Tapes /\ i \in Starts
  BY DEF IInv, OnTrack, Track, TypeOK, Containers
<1>2. /\ tape' = tape /\ nextIterLease' = nextIterLease /\ origin' = origin
      /\ iterLeases' = [iterLeases EXCEPT ![lease] = cursor]
      /\ yields' = [yields EXCEPT ![lease] = @ \o indices]
      /\ Encode({indices[n] : n \in DOMAIN indices})
  BY DEF Advance
<1>3. y \in Seq(Nat) /\ Len(y) \in Nat /\ Len(Children(i)) \in Nat
      /\ Len(y) + k \in 0 .. Len(Children(i))
  BY <1>1, ChildrenSeq DEF Track
<1>4. next \in i + 1 .. AfterIndex(i) - 1
  BY <1>1, <1>3, NextChild
<1>5. next \in DOMAIN tape
  BY <1>1, <1>4, ElementFacts
<1>6. cursor \in Cursors /\ cursor.state0 = next
      /\ cursor.state1 = AfterIndex(i) - 1 /\ cursor.tag = TypeAt(i)
  <2>1. iterLeases[lease] \in Cursors
    BY DEF IInv, TypeOK
  <2> QED
    BY <1>1, <1>5, <2>1 DEF Cursors, Track
<1>7. indices \in Seq(Nat) /\ DOMAIN indices = 1 .. k
  <2>1. Starts \subseteq Nat
    BY <1>1, ElementFacts
  <2>2. DOMAIN indices = 1 .. k
    OBVIOUS
  <2> QED
    BY <2>1, <2>2, SeqMonotonic
<1> HIDE DEF cursor, next
<1>8. TypeOK' /\ IndicesNameElements'
  <2>1. {indices[n] : n \in DOMAIN indices} \subseteq Starts
    OBVIOUS
  <2>2. descendantIndices' \subseteq Starts
    BY <1>2, <2>1 DEF Encode, IInv, IndicesNameElements
  <2> QED
    BY <1>2, <1>6, <2>2 DEF IInv, TypeOK, IndicesNameElements, Starts, Cursors
<1>9. ASSUME NEW l \in DOMAIN iterLeases'
      PROVE  Track(l)'
  <2>1. l \in DOMAIN iterLeases /\ Track(l)
    BY <1>2 DEF IInv, OnTrack
  <2>2. CASE l = lease
    <3> DEFINE z == y \o indices
    <3>1. iterLeases'[l] = cursor /\ origin'[l] = i /\ yields'[l] = z
      BY <1>2, <2>1, <2>2 DEF IInv, TypeOK
    <3>2. /\ z \in Seq(Nat) /\ Len(z) = Len(y) + k
          /\ \A n \in 1 .. Len(z) : z[n] = IF n <= Len(y) THEN y[n] ELSE indices[n - Len(y)]
      <4>1. Len(indices) = k
        OBVIOUS
      <4> HIDE DEF y
      <4>2. /\ y \o indices \in Seq(Nat) /\ Len(y \o indices) = Len(y) + Len(indices)
            /\ \A n \in 1 .. Len(y) + Len(indices) :
                 (y \o indices)[n] = IF n <= Len(y) THEN y[n] ELSE indices[n - Len(y)]
        BY ONLY <1>3, <1>7, ConcatProperties
      <4> QED
        BY <4>1, <4>2
    <3> HIDE DEF z
    <3>3. \A n \in 1 .. Len(z) : z[n] = Children(i)[n]
      <4>1. \A n \in 1 .. Len(y) : y[n] = Children(i)[n]
        BY <1>1 DEF Track
      <4>2. ASSUME NEW n \in 1 .. Len(z), n > Len(y)
            PROVE  z[n] = Children(i)[n]
        <5>1. n - Len(y) \in 1 .. k /\ z[n] = indices[n - Len(y)]
          BY <4>2, <1>3, <3>2
        <5>2. Len(y) + (n - Len(y)) = n
          BY <1>3
        <5> QED
          BY <5>1, <5>2
      <4>3. ASSUME NEW n \in 1 .. Len(z), n <= Len(y)
            PROVE  z[n] = y[n] /\ n \in 1 .. Len(y)
        BY <4>3, <1>3, <3>2
      <4> QED
        BY <4>1, <4>2, <4>3, <1>3, <3>2
    <3>4. TypeAt(i) = "object" => Len(z) % 2 = 0
      <4>1. TypeAt(i) = "object" => Len(y) % 2 = 0
        BY <1>1 DEF Track
      <4>2. \A a, b \in Nat : a % 2 = 0 /\ b % 2 = 0 => (a + b) % 2 = 0
        OBVIOUS
      <4> DEFINE a == Len(y)  b == Len(z)
      <4>3. a \in Nat /\ b = a + k
        BY <1>3, <3>2
      <4> HIDE DEF a, b
      <4>4. a % 2 = 0 /\ k % 2 = 0 => b % 2 = 0
        BY <4>2, <4>3
      <4> QED
        BY <4>1, <4>4 DEF a, b
    <3>5. /\ i \in DOMAIN tape /\ tape[i].start /\ tape[i].kind \in {"array", "object"}
          /\ Len(z) <= Len(tape[i].children)
          /\ \A n \in 1 .. Len(z) : z[n] = tape[i].children[n]
          /\ tape[i].kind = "object" => Len(z) % 2 = 0
      BY <1>1, <1>3, <3>2, <3>3, <3>4 DEF Containers, Starts, TypeAt, Children
    <3>6. /\ cursor.tag = tape[i].kind /\ cursor.state1 = tape[i].after - 1
          /\ cursor.state0 = IF Len(z) < Len(tape[i].children)
                             THEN tape[i].children[Len(z) + 1] ELSE tape[i].after - 1
      BY <1>6, <3>2 DEF next, TypeAt, AfterIndex, Children, StandsAt
    <3> QED
      BY <1>2, <3>1, <3>2, <3>5, <3>6
      DEF Track, Containers, Starts, TypeAt, AfterIndex, Children, StandsAt
  <2>3. CASE l # lease
    <3>1. iterLeases'[l] = iterLeases[l] /\ origin'[l] = origin[l] /\ yields'[l] = yields[l]
      BY <1>2, <2>1, <2>3 DEF IInv, TypeOK
    <3> QED
      BY <1>2, <2>1, <3>1, TrackKept
  <2> QED
    BY <2>2, <2>3
<1> QED
  BY <1>8, <1>9 DEF IInv, OnTrack

\* The next k children of the container behind lease are yielded.
Yielding(lease, i, k, indices) ==
  /\ lease \in DOMAIN iterLeases /\ i = origin[lease]
  /\ k \in Nat /\ Len(yields[lease]) + k <= Len(Children(i))
  /\ indices \in Seq(Starts) /\ Len(indices) = k
  /\ \A m \in 1 .. k : indices[m] = Children(i)[Len(yields[lease]) + m]
  /\ TypeAt(i) = "object" => k % 2 = 0
  /\ Advance(lease, iterLeases[lease], indices, StandsAt(i, Len(yields[lease]) + k))

LEMMA YieldingInv ==
  ASSUME IInv, NEW lease, NEW i, NEW k, NEW indices, Yielding(lease, i, k, indices)
  PROVE  IInv'
BY AdvanceInv DEF Yielding

LEMMA ArrayIterNextInv ==
  ASSUME IInv, NEW lease \in LeaseIds, NEW cursor \in Cursors, ArrayIterNext(lease, cursor)
  PROVE  IInv'
<1> DEFINE i == origin[lease]  n == Len(yields[lease])
<1>1. /\ lease \in DOMAIN iterLeases /\ cursor = iterLeases[lease]
      /\ Track(lease) /\ TypeAt(i) = "array"
      /\ n \in 0 .. Len(Children(i)) /\ n < Len(Children(i))
  BY ResolvesIterTrack DEF ArrayIterNext
<1>2. tape \in Tapes /\ i \in Containers /\ cursor.state0 = StandsAt(i, n)
  BY <1>1 DEF IInv, TypeOK, Track
<1>3. /\ StandsAt(i, n) = Children(i)[n + 1] /\ StandsAt(i, n) \in Starts
      /\ AfterIndex(StandsAt(i, n)) = StandsAt(i, n + 1)
      /\ Len(Children(i)) \in Nat
  BY <1>1, <1>2, NextChild
<1>4. <<cursor.state0>> \in Seq(Starts) /\ Len(<<cursor.state0>>) = 1
      /\ <<cursor.state0>>[1] = Children(i)[n + 1]
  BY <1>2, <1>3
<1>5. Advance(lease, iterLeases[lease], <<cursor.state0>>, StandsAt(i, n + 1))
  BY <1>1, <1>2, <1>3 DEF ArrayIterNext
<1>6. n + 1 <= Len(Children(i)) /\ \A m \in 1 .. 1 : m = 1
  BY <1>1, <1>3
<1> HIDE DEF n
<1>7. \A m \in 1 .. 1 : <<cursor.state0>>[m] = Children(i)[n + m]
  BY <1>4, <1>6
<1> HIDE DEF i
<1>8. TypeAt(i) = "object" => 1 % 2 = 0
  BY <1>1
<1>9. Yielding(lease, i, 1, <<cursor.state0>>)
  BY <1>1, <1>4, <1>5, <1>6, <1>7, <1>8 DEF Yielding, i, n
<1> QED
  BY <1>9, YieldingInv

LEMMA ObjectIterNextInv ==
  ASSUME IInv, NEW lease \in LeaseIds, NEW cursor \in Cursors, ObjectIterNext(lease, cursor)
  PROVE  IInv'
<1> DEFINE i == origin[lease]  n == Len(yields[lease])
           indices == <<cursor.state0, cursor.state0 + 1>>
<1>1. /\ lease \in DOMAIN iterLeases /\ cursor = iterLeases[lease]
      /\ Track(lease) /\ TypeAt(i) = "object"
      /\ n \in 0 .. Len(Children(i)) /\ n < Len(Children(i))
  BY ResolvesIterTrack DEF ObjectIterNext
<1>2. tape \in Tapes /\ i \in Containers /\ cursor.state0 = StandsAt(i, n) /\ n % 2 = 0
  BY <1>1 DEF IInv, TypeOK, Track
<1>3. /\ StandsAt(i, n) = Children(i)[n + 1] /\ StandsAt(i, n) \in Starts
      /\ Len(Children(i)) \in Nat
  BY <1>1, <1>2, NextChild
<1>4. n + 1 < Len(Children(i)) /\ StandsAt(i, n + 1) = StandsAt(i, n) + 1
  BY <1>1, <1>2, Keys
<1>5. /\ StandsAt(i, n + 1) = Children(i)[n + 2] /\ StandsAt(i, n + 1) \in Starts
      /\ AfterIndex(StandsAt(i, n + 1)) = StandsAt(i, n + 2)
  <2>1. n + 1 \in 0 .. Len(Children(i)) /\ (n + 1) + 1 = n + 2
    BY <1>1, <1>3, <1>4
  <2> QED
    BY <1>2, <1>4, <2>1, NextChild
<1>6. Advance(lease, iterLeases[lease], indices, StandsAt(i, n + 2))
  BY <1>1, <1>2, <1>4, <1>5 DEF ObjectIterNext, AfterField
<1>7. /\ indices \in Seq(Starts) /\ Len(indices) = 2
      /\ indices[1] = Children(i)[n + 1] /\ indices[2] = Children(i)[n + 2]
  BY <1>2, <1>3, <1>4, <1>5
<1> HIDE DEF indices, n
<1>8. \A m \in 1 .. 2 : indices[m] = Children(i)[n + m]
  BY <1>7
<1>9. n + 2 <= Len(Children(i))
  BY <1>1, <1>3, <1>4
<1> HIDE DEF i
<1>10. TypeAt(i) = "object" => 2 % 2 = 0
  OBVIOUS
<1>11. Yielding(lease, i, 2, indices)
  BY <1>1, <1>6, <1>7, <1>8, <1>9, <1>10 DEF Yielding, i, n
<1> QED
  BY <1>11, YieldingInv

-----------------------------------------------------------------------------
(* Theorems *)

\* No call, whatever struct it is given, leaves the invariant.
THEOREM Invariance == Spec => []IInv
<1>1. IInv /\ [Next]_vars => IInv'
  <2> SUFFICES ASSUME IInv, [Next]_vars PROVE IInv'
    OBVIOUS
  <2>1. ASSUME NEW view \in DOMAIN tape,
               ObjectGetField(view) \/ ArrayAt(view) \/ ElementAtPath(view)
        PROVE  IInv'
    BY <2>1, NavigationInv
  <2>2. ASSUME NEW view \in DOMAIN tape, NEW tag \in {"array", "object"}, IterNew(view, tag)
        PROVE  IInv'
    BY <2>2, IterNewInv
  <2>3. ASSUME NEW lease \in LeaseIds, NEW cursor \in Cursors,
               ArrayIterNext(lease, cursor) \/ ObjectIterNext(lease, cursor)
        PROVE  IInv'
    BY <2>3, ArrayIterNextInv, ObjectIterNextInv
  <2>4. CASE UNCHANGED vars
    <3>1. ASSUME NEW lease \in DOMAIN iterLeases, Track(lease)
          PROVE  Track(lease)'
      BY <2>4, <3>1 DEF vars, leases, Track, Containers, Starts, TypeAt, AfterIndex, Children, StandsAt
    <3> QED
      BY <2>4, <3>1 DEF vars, leases, IInv, TypeOK, IndicesNameElements, OnTrack, Starts, Cursors
  <2> QED
    BY <2>1, <2>2, <2>3, <2>4 DEF Next
<1> QED
  BY <1>1, InitInv, PTL DEF Spec

\* Every state of a document's entry is well typed: the recorded cursors stay inside
\* the tape for every well-formed document.
THEOREM CursorTypeCorrect == Spec => []TypeOK
BY Invariance, PTL DEF IInv

\* No call ever makes the bridge read something that is not an element.
THEOREM IndicesCorrect == Spec => []IndicesNameElements
BY Invariance, PTL DEF IInv

\* Every iterator of every document yields the container's contents in order, each
\* once, and its position is the end bracket exactly when it has yielded them all.
THEOREM YieldsInOrderCorrect == Spec => []YieldsInOrder
<1>1. ASSUME IInv, NEW lease \in DOMAIN iterLeases
      PROVE  LET all == Children(origin[lease])  cursor == iterLeases[lease] IN
             /\ Len(yields[lease]) <= Len(all)
             /\ yields[lease] = SubSeq(all, 1, Len(yields[lease]))
             /\ AtEnd(cursor) <=> yields[lease] = all
  <2> DEFINE i == origin[lease]  all == Children(i)  y == yields[lease]
  <2>1. Track(lease) /\ tape \in Tapes /\ i \in Containers
    BY <1>1 DEF IInv, OnTrack, Track, TypeOK
  <2>2. all \in Seq(Nat) /\ Len(all) \in Nat
    BY <2>1, ChildrenSeq
  <2>3. /\ y \in Seq(Nat) /\ Len(y) \in Nat /\ Len(y) <= Len(all)
        /\ \A n \in 1 .. Len(y) : y[n] = all[n]
    BY <2>1 DEF Track
  <2>4. y = SubSeq(all, 1, Len(y))
    <3> HIDE DEF all, y
    <3>1. SubSeq(all, 1, Len(y)) \in Seq(Nat) /\ Len(SubSeq(all, 1, Len(y))) = Len(y)
          /\ \A n \in 1 .. Len(y) : SubSeq(all, 1, Len(y))[n] = all[n]
      BY <2>2, <2>3
    <3> QED
      BY <2>3, <3>1, SeqEqual
  <2>5. Len(y) = Len(all) <=> y = all
    <3> HIDE DEF all, y
    <3> QED
      BY <2>2, <2>3, SeqEqual
  <2>6. AtEnd(iterLeases[lease]) <=> Len(y) = Len(all)
    <3>1. Len(y) \in 0 .. Len(all) /\ Len(all) \in 0 .. Len(all)
      BY <2>2, <2>3
    <3>2. Len(y) < Len(all) => StandsAt(i, Len(y)) < AfterIndex(i) - 1
                               /\ StandsAt(i, Len(y)) \in i + 1 .. AfterIndex(i) - 1
      BY <2>1, <3>1, NextChild
    <3>3. i \in Nat /\ AfterIndex(i) \in Nat
      <4>1. i \in Starts
        BY <2>1 DEF Containers
      <4> QED
        BY <4>1, <2>1, ElementFacts
    <3>4. Len(y) = Len(all) => StandsAt(i, Len(y)) = AfterIndex(i) - 1
      BY <2>1, <3>1, NextChild
    <3>5. iterLeases[lease].state0 = StandsAt(i, Len(y))
          /\ iterLeases[lease].state1 = AfterIndex(i) - 1
      BY <2>1 DEF Track
    <3> HIDE DEF all, y, i
    <3> QED
      BY <2>2, <2>3, <3>2, <3>3, <3>4, <3>5 DEF AtEnd
  <2> QED
    BY <2>3, <2>4, <2>5, <2>6
<1>2. IInv => YieldsInOrder
  BY <1>1 DEF YieldsInOrder
<1> QED
  BY <1>2, Invariance, PTL

\* On a well-formed document the next functions never refuse a position they led to.
THEOREM NeverStuckCorrect == Spec => []NeverStuck
<1>1. ASSUME IInv, NEW lease \in DOMAIN iterLeases
      PROVE  LET cursor == iterLeases[lease]  i == cursor.state0 IN
             /\ ResolvesIter(lease, cursor, cursor.tag)
             /\ AtEnd(cursor) \/
                  IF cursor.tag = "array"
                  THEN TypeAt(i) \in Kinds /\ AfterIndex(i) \in i + 1 .. cursor.state1
                  ELSE /\ i + 1 < cursor.state1 /\ TypeAt(i) = "string"
                       /\ TypeAt(i + 1) \in Kinds
                       /\ AfterField(i) \in i + 2 .. cursor.state1
  <2> DEFINE o == origin[lease]  n == Len(yields[lease])  cursor == iterLeases[lease]
  <2>1. Track(lease) /\ tape \in Tapes /\ o \in Containers /\ o \in Starts
    BY <1>1 DEF IInv, OnTrack, Track, TypeOK, Containers
  <2>2. Len(Children(o)) \in Nat /\ n \in 0 .. Len(Children(o))
    BY <2>1, ChildrenSeq DEF Track
  <2>3. /\ cursor.state0 = StandsAt(o, n) /\ cursor.state1 = AfterIndex(o) - 1
        /\ cursor.tag = TypeAt(o) /\ cursor.tag \in {"array", "object"}
        /\ TypeAt(o) = "object" => n % 2 = 0
    BY <2>1 DEF Track, Containers
  <2>4. /\ o \in 1 .. Len(tape) /\ AfterIndex(o) \in o + 1 .. Len(tape) + 1
        /\ RootAfterIndex = Len(tape) + 1 /\ Len(tape) \in Nat
    BY <2>1, ElementFacts
  <2>5. StandsAt(o, n) \in o + 1 .. AfterIndex(o) - 1
        /\ StandsAt(o, Len(Children(o))) = AfterIndex(o) - 1
    BY <2>1, <2>2, NextChild
  <2> HIDE DEF o, n
  <2>6. ResolvesIter(lease, cursor, cursor.tag)
    <3>1. InDocument(cursor.state0) /\ InDocument(cursor.state1)
          /\ cursor.state0 <= cursor.state1
      BY <2>3, <2>4, <2>5 DEF InDocument
    <3> QED
      BY <3>1, <1>1 DEF ResolvesIter, LeaseMatches
  <2>7. CASE n = Len(Children(o))
    BY <2>3, <2>5, <2>6, <2>7 DEF AtEnd
  <2>8. CASE n < Len(Children(o))
    <3>1. /\ StandsAt(o, n) \in Starts
          /\ AfterIndex(StandsAt(o, n)) = StandsAt(o, n + 1)
      BY <2>1, <2>2, <2>8, NextChild
    <3>2. TypeAt(StandsAt(o, n)) \in Kinds
          /\ AfterIndex(StandsAt(o, n)) \in StandsAt(o, n) + 1 .. Len(tape) + 1
      BY <2>1, <3>1, ElementFacts
    <3>3. n + 1 \in 0 .. Len(Children(o)) /\ (n + 1) + 1 = n + 2
      BY <2>2, <2>8
    <3>4. StandsAt(o, n + 1) \in o + 1 .. AfterIndex(o) - 1
      BY <2>1, <3>3, NextChild
    <3>5. CASE cursor.tag = "array"
      <4>1. AfterIndex(StandsAt(o, n)) \in StandsAt(o, n) + 1 .. AfterIndex(o) - 1
        BY <2>4, <3>1, <3>2, <3>4
      <4> QED
        BY <2>3, <2>6, <3>2, <3>5, <4>1
    <3>6. CASE cursor.tag = "object"
      <4>1. /\ n + 1 < Len(Children(o)) /\ TypeAt(StandsAt(o, n)) = "string"
            /\ StandsAt(o, n + 1) = StandsAt(o, n) + 1
        BY <2>1, <2>2, <2>3, <2>8, <3>6, Keys
      <4>2. /\ StandsAt(o, n + 1) \in Starts
            /\ StandsAt(o, n + 1) < AfterIndex(o) - 1
            /\ AfterIndex(StandsAt(o, n + 1)) = StandsAt(o, n + 2)
        BY <2>1, <3>3, <4>1, NextChild
      <4>3. TypeAt(StandsAt(o, n + 1)) \in Kinds
            /\ AfterIndex(StandsAt(o, n + 1)) \in StandsAt(o, n + 1) + 1 .. Len(tape) + 1
        BY <2>1, <4>2, ElementFacts
      <4>4. n + 2 \in 0 .. Len(Children(o))
        BY <2>2, <4>1
      <4>5. StandsAt(o, n + 2) \in o + 1 .. AfterIndex(o) - 1
        BY <2>1, <4>4, NextChild
      <4>6. AfterField(StandsAt(o, n)) \in StandsAt(o, n) + 2 .. AfterIndex(o) - 1
        BY <2>4, <2>5, <4>1, <4>2, <4>3, <4>5 DEF AfterField
      <4> QED
        BY <2>3, <2>6, <3>6, <4>1, <4>2, <4>3, <4>6
    <3> QED
      BY <2>3, <3>5, <3>6
  <2> QED
    BY <2>2, <2>7, <2>8
<1>2. IInv => NeverStuck
  BY <1>1 DEF NeverStuck
<1> QED
  BY <1>2, Invariance, PTL

\* A lease stays with its iterator, whose position never goes back: whatever lease
\* modulus, the wrap of next_iter_lease never takes a lease over.
THEOREM LeasesOnlyAdvanceCorrect == Spec => LeasesOnlyAdvance
<1> DEFINE Kept(lease) ==
      /\ lease \in DOMAIN iterLeases'
      /\ origin'[lease] = origin[lease]
      /\ iterLeases'[lease].state0 >= iterLeases[lease].state0
      /\ iterLeases'[lease].state1 = iterLeases[lease].state1
<1>1. ASSUME IInv, [Next]_vars, NEW l \in DOMAIN iterLeases
      PROVE  Kept(l)
  <2>0. \A cursor \in Cursors : cursor.state0 \in Nat /\ cursor.state1 \in Nat
    <3>1. WellFormed(tape)
      BY <1>1, CursorAssumption DEF IInv, TypeOK
    <3>2. DOMAIN tape \subseteq Nat
      BY <3>1 DEF WellFormed
    <3> QED
      BY <3>2 DEF Cursors
  <2>1. iterLeases[l] \in Cursors /\ iterLeases[l].state0 \in Nat
    BY <1>1, <2>0 DEF IInv, TypeOK
  <2>2. ASSUME iterLeases' = iterLeases, origin' = origin
        PROVE  Kept(l)
    BY <2>1, <2>2
  <2>3. ASSUME NEW view \in DOMAIN tape,
               ObjectGetField(view) \/ ArrayAt(view) \/ ElementAtPath(view)
        PROVE  Kept(l)
    BY <2>2, <2>3 DEF ObjectGetField, ArrayAt, ElementAtPath, leases
  <2>4. ASSUME NEW view \in DOMAIN tape, NEW tag \in {"array", "object"}, IterNew(view, tag)
        PROVE  Kept(l)
    <3>1. /\ l \in DOMAIN iterLeases' /\ iterLeases'[l] = iterLeases[l]
          /\ origin'[l] = origin[l]
      BY <1>1, <2>4 DEF IterNew, FreeLease, With, IInv, TypeOK
    <3> QED
      BY <2>1, <3>1
  <2>5. ASSUME NEW lease, NEW cursor, NEW indices, NEW next \in Nat,
               lease \in DOMAIN iterLeases, cursor = iterLeases[lease],
               next >= cursor.state0, Advance(lease, cursor, indices, next)
        PROVE  Kept(l)
    <3>1. origin' = origin
          /\ iterLeases' = [iterLeases EXCEPT ![lease] = [cursor EXCEPT !.state0 = next]]
      BY <2>5 DEF Advance
    <3>2. CASE l = lease
      <4>1. iterLeases'[l] = [cursor EXCEPT !.state0 = next] /\ l \in DOMAIN iterLeases'
        BY <3>1, <3>2
      <4>2. cursor \in Cursors
        BY <2>1, <2>5, <3>2
      <4> QED
        BY <2>5, <3>1, <3>2, <4>1, <4>2 DEF Cursors
    <3>3. CASE l # lease
      BY <2>1, <3>1, <3>3
    <3> QED
      BY <3>2, <3>3
  <2>6. ASSUME NEW lease \in LeaseIds, NEW cursor \in Cursors, ArrayIterNext(lease, cursor)
        PROVE  Kept(l)
    <3>1. lease \in DOMAIN iterLeases /\ cursor = iterLeases[lease]
      BY <2>6 DEF ArrayIterNext, ResolvesIter, LeaseMatches
    <3>2. cursor.state0 \in Nat /\ cursor.state1 \in Nat
      BY <2>0
    <3>3. AfterIndex(cursor.state0) \in Nat /\ AfterIndex(cursor.state0) >= cursor.state0
          /\ Advance(lease, cursor, <<cursor.state0>>, AfterIndex(cursor.state0))
      BY <2>6, <3>2 DEF ArrayIterNext
    <3> QED
      BY <2>5, <3>1, <3>3
  <2>7. ASSUME NEW lease \in LeaseIds, NEW cursor \in Cursors, ObjectIterNext(lease, cursor)
        PROVE  Kept(l)
    <3>1. lease \in DOMAIN iterLeases /\ cursor = iterLeases[lease]
      BY <2>7 DEF ObjectIterNext, ResolvesIter, LeaseMatches
    <3>2. cursor.state0 \in Nat /\ cursor.state1 \in Nat
      BY <2>0
    <3>3. AfterField(cursor.state0) \in Nat /\ AfterField(cursor.state0) >= cursor.state0
          /\ Advance(lease, cursor, <<cursor.state0, cursor.state0 + 1>>,
                     AfterField(cursor.state0))
      BY <2>7, <3>2 DEF ObjectIterNext
    <3> QED
      BY <2>5, <3>1, <3>3
  <2> HIDE DEF Kept
  <2>8. CASE UNCHANGED vars
    BY <2>2, <2>8 DEF vars, leases
  <2> QED
    BY <1>1, <2>3, <2>4, <2>6, <2>7, <2>8 DEF Next
<1>2. IInv /\ [Next]_vars => [\A lease \in DOMAIN iterLeases : Kept(lease)]_vars
  BY <1>1
<1> QED
  BY <1>2, Invariance, PTL DEF Spec, LeasesOnlyAdvance

-----------------------------------------------------------------------------
(* Where simdjson's iterators stand *)

OneFurther(i, p) == IF TypeAt(i) = "object" THEN AfterField(p) ELSE AfterIndex(p)

\* The first n places of the iterator over i.
FirstPlaces(i, n, g) ==
  g = [m \in 0 .. n |-> IF m = 0 THEN Bounds(i).state0 ELSE OneFurther(i, g[m - 1])]

LEMMA FirstPlacesAgree ==
  ASSUME NEW i, NEW n \in Nat, NEW k \in Nat, n <= k, NEW g, NEW h,
         FirstPlaces(i, n, g), FirstPlaces(i, k, h)
  PROVE  \A m \in 0 .. n : g[m] = h[m]
<1> DEFINE T == {m \in Nat : g[m] = h[m]}
<1>1. /\ g[0] = Bounds(i).state0 /\ h[0] = Bounds(i).state0
      /\ \A m \in 0 .. n : m < n => /\ g[m + 1] = OneFurther(i, g[m])
                                    /\ h[m + 1] = OneFurther(i, h[m])
  <2>1. \A m \in 0 .. n : m < n => /\ m + 1 \in 0 .. n /\ m + 1 \in 0 .. k
                                   /\ m + 1 # 0 /\ (m + 1) - 1 = m
    OBVIOUS
  <2> QED
    BY <2>1 DEF FirstPlaces
<1>2. 0 \in T
  BY <1>1
<1>3. \A m \in 0 .. n : m < n /\ m \in T => m + 1 \in T
  BY <1>1
<1> HIDE DEF T
<1>4. 0 .. n \subseteq T
  BY <1>2, <1>3, IntervalInduction
<1> QED
  BY <1>4 DEF T

LEMMA FirstPlacesExist == \A i : \A n \in Nat : \E g : FirstPlaces(i, n, g)
<1> TAKE i
<1> DEFINE T == {n \in Nat : \E g : FirstPlaces(i, n, g)}
<1>1. 0 \in T
  <2> DEFINE g == [m \in 0 .. 0 |-> Bounds(i).state0]
  <2>1. FirstPlaces(i, 0, g)
    BY DEF FirstPlaces
  <2> QED
    BY <2>1
<1>2. ASSUME NEW n \in Nat, n \in T
      PROVE  n + 1 \in T
  <2>1. PICK g : FirstPlaces(i, n, g)
    BY <1>2
  <2> DEFINE h == [m \in 0 .. n + 1 |-> IF m <= n THEN g[m] ELSE OneFurther(i, g[n])]
  <2>2. /\ g[0] = Bounds(i).state0
        /\ \A m \in 1 .. n : g[m] = OneFurther(i, g[m - 1])
    BY <2>1 DEF FirstPlaces
  <2>3. \A m \in 0 .. n + 1 :
          h[m] = IF m = 0 THEN Bounds(i).state0 ELSE OneFurther(i, h[m - 1])
    <3> SUFFICES ASSUME NEW m \in 0 .. n + 1
                 PROVE  h[m] = IF m = 0 THEN Bounds(i).state0 ELSE OneFurther(i, h[m - 1])
      OBVIOUS
    <3>1. CASE m = 0
      BY <2>2, <3>1
    <3>2. CASE m \in 1 .. n
      <4>1. m - 1 \in 0 .. n + 1 /\ m - 1 <= n /\ m <= n /\ m # 0
        BY <3>2
      <4> QED
        BY <2>2, <3>2, <4>1
    <3>3. CASE m = n + 1
      <4>1. m - 1 = n /\ n \in 0 .. n + 1 /\ ~(m <= n) /\ m # 0
        BY <3>3
      <4> QED
        BY <4>1
    <3> QED
      BY <3>1, <3>2, <3>3
  <2>4. FirstPlaces(i, n + 1, h)
    BY <2>3 DEF FirstPlaces
  <2> QED
    BY <2>4
<1> HIDE DEF T
<1>3. Nat \subseteq T
  BY <1>1, <1>2, NatInductionOnSets
<1> QED
  BY <1>3 DEF T

LEMMA IteratorMoves ==
  ASSUME NEW i
  PROVE  /\ Iterator(i)[0] = Bounds(i).state0
         /\ \A n \in Nat : Iterator(i)[n + 1] = OneFurther(i, Iterator(i)[n])
<1> DEFINE Unfolded(g) ==
             g = [n \in Nat |-> IF n = 0 THEN Bounds(i).state0 ELSE OneFurther(i, g[n - 1])]
           First(n) == CHOOSE g : FirstPlaces(i, n, g)
           f == [n \in Nat |-> First(n)[n]]
<1>1. \A n \in Nat : FirstPlaces(i, n, First(n))
  BY FirstPlacesExist
<1> HIDE DEF First
<1>2. \A n \in Nat :
        f[n] = IF n = 0 THEN Bounds(i).state0 ELSE OneFurther(i, f[n - 1])
  <2> SUFFICES ASSUME NEW n \in Nat
               PROVE  f[n] = IF n = 0 THEN Bounds(i).state0 ELSE OneFurther(i, f[n - 1])
    OBVIOUS
  <2>1. CASE n = 0
    BY <1>1, <2>1 DEF FirstPlaces
  <2>2. CASE n # 0
    <3>1. n - 1 \in Nat /\ n - 1 <= n /\ n - 1 \in 0 .. n - 1 /\ n \in 0 .. n
      BY <2>2
    <3>2. First(n)[n] = OneFurther(i, First(n)[n - 1])
      BY <1>1, <2>2, <3>1 DEF FirstPlaces
    <3>3. First(n - 1)[n - 1] = First(n)[n - 1]
      BY <1>1, <3>1, FirstPlacesAgree
    <3> QED
      BY <2>2, <3>1, <3>2, <3>3
  <2> QED
    BY <2>1, <2>2
<1>3. Unfolded(f)
  BY <1>2
<1> HIDE DEF f
<1>4. Unfolded(Iterator(i))
  <2>1. Iterator(i) = CHOOSE g : Unfolded(g)
    BY DEF Iterator, OneFurther
  <2> HIDE DEF Unfolded
  <2> QED
    BY <1>3, <2>1
<1> QED
  <2>1. \A n \in Nat : n + 1 \in Nat /\ n + 1 # 0 /\ (n + 1) - 1 = n
    OBVIOUS
  <2> QED
    BY <1>4, <2>1

\* Each child begins at least one word further on, and not before the one it follows ends.
LEMMA ChildrenGrow ==
  ASSUME tape \in Tapes, NEW i \in Containers, NEW n \in 0 .. Len(Children(i))
  PROVE  StandsAt(i, n) >= i + 1 + n
<1> DEFINE T == {m \in Nat : StandsAt(i, m) >= i + 1 + m}
           N == Len(Children(i))
<1>1. i \in Starts /\ i \in Nat /\ N \in Nat
  <2>1. i \in Starts
    BY DEF Containers
  <2> QED
    BY <2>1, ElementFacts, ChildrenSeq
<1>2. 0 \in T
  <2>1. StandsAt(i, 0) = i + 1
    BY NextChild
  <2> QED
    BY <1>1, <2>1
<1>3. ASSUME NEW m \in 0 .. N, m < N, m \in T
      PROVE  m + 1 \in T
  <2>1. /\ StandsAt(i, m) \in Starts /\ StandsAt(i, m + 1) = AfterIndex(StandsAt(i, m))
    BY <1>3, NextChild
  <2>2. AfterIndex(StandsAt(i, m)) >= StandsAt(i, m) + 1
        /\ AfterIndex(StandsAt(i, m)) \in Nat /\ StandsAt(i, m) \in Nat
    BY <2>1, ElementFacts
  <2> QED
    BY <1>1, <1>3, <2>1, <2>2
<1> HIDE DEF T
<1>4. 0 .. N \subseteq T
  BY <1>1, <1>2, <1>3, IntervalInduction
<1> QED
  BY <1>4 DEF T, N

\* A child ends before a later one begins.
LEMMA ChildrenIncrease ==
  ASSUME tape \in Tapes, NEW i \in Containers,
         NEW n \in 0 .. Len(Children(i)), NEW m \in 0 .. Len(Children(i)), m < n
  PROVE  AfterIndex(StandsAt(i, m)) <= StandsAt(i, n)
<1> DEFINE N == Len(Children(i)) - (m + 1)
           T == {k \in Nat : AfterIndex(StandsAt(i, m)) <= StandsAt(i, m + 1 + k)}
<1>1. Len(Children(i)) \in Nat /\ N \in Nat
  BY ChildrenSeq
<1>2. /\ StandsAt(i, m) \in Starts
      /\ AfterIndex(StandsAt(i, m)) = StandsAt(i, m + 1)
      /\ AfterIndex(StandsAt(i, m)) \in Nat
  <2>1. /\ StandsAt(i, m) \in Starts
        /\ AfterIndex(StandsAt(i, m)) = StandsAt(i, m + 1)
    BY <1>1, NextChild
  <2> QED
    BY <2>1, ElementFacts
<1>3. 0 \in T
  BY <1>2
<1>4. ASSUME NEW k \in 0 .. N, k < N, k \in T
      PROVE  k + 1 \in T
  <2>1. m + 1 + k \in 0 .. Len(Children(i)) /\ m + 1 + k < Len(Children(i))
        /\ (m + 1 + k) + 1 = m + 1 + (k + 1)
    BY <1>1, <1>4
  <2>2. StandsAt(i, m + 1 + k) \in Starts
        /\ AfterIndex(StandsAt(i, m + 1 + k)) = StandsAt(i, m + 1 + (k + 1))
    <3> HIDE DEF N
    <3> QED
      BY <2>1, NextChild
  <2>3. StandsAt(i, m + 1 + k) \in Nat /\ AfterIndex(StandsAt(i, m + 1 + k)) \in Nat
        /\ AfterIndex(StandsAt(i, m + 1 + k)) >= StandsAt(i, m + 1 + k)
    BY <2>2, ElementFacts
  <2> QED
    BY <1>2, <1>4, <2>2, <2>3
<1>5. n - (m + 1) \in 0 .. N /\ m + 1 + (n - (m + 1)) = n
  BY <1>1
<1> HIDE DEF T, N
<1>6. 0 .. N \subseteq T
  BY <1>1, <1>3, <1>4, IntervalInduction
<1> QED
  BY <1>5, <1>6 DEF T

LEMMA HalvesOfEven == \A N \in Nat : N % 2 = 0 => N \div 2 \in Nat /\ N = 2 * (N \div 2)
OBVIOUS

LEMMA Doubles == \A m \in Nat : (2 * m) % 2 = 0 /\ 2 * (m + 1) = 2 * m + 2 /\ (2 * m + 2) % 2 = 0
OBVIOUS

LEMMA ObjectIsEven ==
  ASSUME tape \in Tapes, NEW i \in Containers, TypeAt(i) = "object"
  PROVE  Len(Children(i)) \div 2 \in Nat /\ Len(Children(i)) = 2 * (Len(Children(i)) \div 2)
<1>1. i \in Starts /\ WellFormed(tape) /\ tape[i].kind = "object"
  BY CursorAssumption DEF Containers, TypeAt
<1>2. Tiled(tape, i)
  BY <1>1, ElementFacts DEF WellFormed
<1>3. Len(Children(i)) % 2 = 0
  BY <1>1, <1>2 DEF Tiled, Children
<1>4. Len(Children(i)) \in Nat
  BY ChildrenSeq
<1> QED
  BY <1>3, <1>4, HalvesOfEven

\* An iterator over an array takes one child at a time, one over an object two.
LEMMA ArrayIteratorStands ==
  ASSUME tape \in Tapes, NEW i \in Containers, TypeAt(i) = "array"
  PROVE  \A n \in 0 .. Len(Children(i)) : Iterator(i)[n] = StandsAt(i, n)
<1> DEFINE T == {n \in Nat : Iterator(i)[n] = StandsAt(i, n)}
           N == Len(Children(i))
<1>1. N \in Nat
  BY ChildrenSeq
<1>2. 0 \in T
  <2>1. StandsAt(i, 0) = i + 1
    BY <1>1, NextChild
  <2> QED
    BY <2>1, IteratorMoves DEF Bounds
<1>3. ASSUME NEW n \in 0 .. N, n < N, n \in T
      PROVE  n + 1 \in T
  <2>1. AfterIndex(StandsAt(i, n)) = StandsAt(i, n + 1)
    BY <1>3, NextChild
  <2>2. Iterator(i)[n + 1] = OneFurther(i, Iterator(i)[n])
    BY IteratorMoves
  <2> QED
    BY <1>3, <2>1, <2>2 DEF OneFurther
<1> HIDE DEF T
<1>4. 0 .. N \subseteq T
  BY <1>1, <1>2, <1>3, IntervalInduction
<1> QED
  BY <1>4 DEF T, N

LEMMA ObjectIteratorStands ==
  ASSUME tape \in Tapes, NEW i \in Containers, TypeAt(i) = "object"
  PROVE  \A n \in 0 .. Len(Children(i)) \div 2 : Iterator(i)[n] = StandsAt(i, 2 * n)
<1> DEFINE T == {n \in Nat : Iterator(i)[n] = StandsAt(i, 2 * n)}
           N == Len(Children(i)) \div 2
<1>1. N \in Nat /\ Len(Children(i)) = 2 * N
  BY ObjectIsEven
<1> HIDE DEF N
<1>2. 0 \in T
  <2>1. StandsAt(i, 0) = i + 1
    BY <1>1, NextChild
  <2> QED
    BY <2>1, IteratorMoves DEF Bounds
<1>3. ASSUME NEW n \in 0 .. N, n < N, n \in T
      PROVE  n + 1 \in T
  <2>1. 2 * n \in 0 .. Len(Children(i)) /\ 2 * n < Len(Children(i)) /\ (2 * n) % 2 = 0
        /\ 2 * n + 1 \in 0 .. Len(Children(i)) /\ (2 * n + 1) + 1 = 2 * (n + 1)
    BY <1>1, <1>3
  <2>2. 2 * n + 1 < Len(Children(i)) /\ StandsAt(i, 2 * n + 1) = StandsAt(i, 2 * n) + 1
    BY <2>1, Keys
  <2>3. AfterIndex(StandsAt(i, 2 * n + 1)) = StandsAt(i, 2 * (n + 1))
    BY <2>1, <2>2, NextChild
  <2>4. Iterator(i)[n + 1] = OneFurther(i, Iterator(i)[n])
    BY IteratorMoves
  <2> QED
    BY <1>3, <2>2, <2>3, <2>4 DEF OneFurther, AfterField
<1> HIDE DEF T
<1>4. 0 .. N \subseteq T
  BY <1>1, <1>2, <1>3, IntervalInduction
<1> QED
  BY <1>4 DEF T, N

\* A child is not the closing bracket, and is an element inside the container.
LEMMA ChildFacts ==
  ASSUME tape \in Tapes, NEW i \in Containers, NEW n \in 1 .. Len(Children(i))
  PROVE  /\ Children(i)[n] = StandsAt(i, n - 1)
         /\ Children(i)[n] \in Starts
         /\ Children(i)[n] \in i + 1 .. AfterIndex(i) - 2
         /\ AfterIndex(Children(i)[n]) = StandsAt(i, n)
         /\ AfterIndex(Children(i)[n]) \in i + 2 .. AfterIndex(i) - 1
<1>1. /\ n - 1 \in 0 .. Len(Children(i)) /\ n - 1 < Len(Children(i)) /\ (n - 1) + 1 = n
      /\ n \in 0 .. Len(Children(i)) /\ Len(Children(i)) \in Nat
  BY ChildrenSeq
<1>2. /\ Children(i)[n] = StandsAt(i, n - 1) /\ StandsAt(i, n - 1) \in Starts
      /\ StandsAt(i, n - 1) < AfterIndex(i) - 1 /\ AfterIndex(StandsAt(i, n - 1)) = StandsAt(i, n)
      /\ StandsAt(i, n - 1) \in i + 1 .. AfterIndex(i) - 1
  BY <1>1, NextChild
<1>3. StandsAt(i, n) \in i + 1 .. AfterIndex(i) - 1
  BY <1>1, NextChild
<1>4. i \in Starts
  BY DEF Containers
<1>5. i \in Nat /\ AfterIndex(i) \in Nat
  BY <1>4, ElementFacts
<1>6. AfterIndex(StandsAt(i, n - 1)) >= StandsAt(i, n - 1) + 1
  BY <1>2, ElementFacts
<1> QED
  BY <1>2, <1>3, <1>5, <1>6

-----------------------------------------------------------------------------
(* Reading by position and by key *)

LEMMA AtAnswers ==
  ASSUME tape \in Tapes, NEW i \in Containers, TypeAt(i) = "array", NEW k \in Nat
  PROVE  At(i, k) = IF k < Len(Children(i)) THEN Found(Children(i)[k + 1])
                    ELSE Refused("index_out_of_bounds")
<1> DEFINE N == Len(Children(i))  close == Bounds(i).state1
<1>1. N \in Nat /\ close = AfterIndex(i) - 1
  BY ChildrenSeq DEF Bounds
<1>2. \A n \in 0 .. N : Iterator(i)[n] = StandsAt(i, n)
  BY ArrayIteratorStands
<1>3. i \in Nat /\ AfterIndex(i) \in Nat
  <2>1. i \in Starts
    BY DEF Containers
  <2> QED
    BY <2>1, ElementFacts
<1>4. CASE k < N
  <2>1. ASSUME NEW n \in 0 .. k
        PROVE  Iterator(i)[n] # close
    <3>1. n \in 0 .. N /\ n < N
      BY <1>1, <1>4
    <3>2. StandsAt(i, n) < AfterIndex(i) - 1 /\ StandsAt(i, n) \in i + 1 .. AfterIndex(i) - 1
      BY <3>1, NextChild
    <3> QED
      BY <1>1, <1>2, <1>3, <3>1, <3>2
  <2>2. Iterator(i)[k] = Children(i)[k + 1]
    BY <1>1, <1>2, <1>4, NextChild
  <2> QED
    BY <1>4, <2>1, <2>2 DEF At
<1>5. CASE ~(k < N)
  <2>1. N \in 0 .. k /\ N \in 0 .. N
    BY <1>1, <1>5
  <2>2. Iterator(i)[N] = close
    <3>1. StandsAt(i, N) = AfterIndex(i) - 1
      BY <2>1, NextChild
    <3> QED
      BY <1>1, <1>2, <2>1, <3>1
  <2> QED
    BY <1>5, <2>1, <2>2 DEF At
<1> QED
  BY <1>4, <1>5

KeyAt(i, n) == Payload[tape][Children(i)[2 * n - 1]]

FirstWithKey(i, key, n) == KeyAt(i, n) = key /\ \A m \in 1 .. n - 1 : KeyAt(i, m) # key

\* The search ends at the first field with the key, or at the bracket if there is none.
LEMMA AtKeyAnswers ==
  ASSUME tape \in Tapes, NEW i \in Containers, TypeAt(i) = "object", NEW key
  PROVE  \/ /\ \A n \in 1 .. Len(Children(i)) \div 2 : KeyAt(i, n) # key
            /\ AtKey(i, key) = Refused("no_such_field")
         \/ \E n \in 1 .. Len(Children(i)) \div 2 :
              FirstWithKey(i, key, n) /\ AtKey(i, key) = Found(Children(i)[2 * n])
<1> DEFINE N == Len(Children(i)) \div 2
           close == Bounds(i).state1
           place == Iterator(i)
           Ends(n) == place[n] = close \/ Payload[tape][place[n]] = key
           First(n) == Ends(n) /\ \A m \in 0 .. n - 1 : ~Ends(m)
           e == CHOOSE n \in 0 .. Len(tape) : First(n)
<1>1. N \in Nat /\ Len(Children(i)) = 2 * N /\ close = AfterIndex(i) - 1
  BY ObjectIsEven DEF Bounds
<1>2. /\ i \in Starts /\ i \in 1 .. Len(tape) /\ AfterIndex(i) \in i + 1 .. Len(tape) + 1
      /\ Len(tape) \in Nat
  <2>1. i \in Starts
    BY DEF Containers
  <2> QED
    BY <2>1, ElementFacts
<1>3. \A n \in 0 .. N : place[n] = StandsAt(i, 2 * n)
  BY ObjectIteratorStands
<1> HIDE DEF N, place, close
<1>4. place[N] = close
  <2>1. 2 * N \in 0 .. Len(Children(i))
    BY <1>1
  <2>2. StandsAt(i, 2 * N) = AfterIndex(i) - 1
    BY <1>1, <2>1, NextChild
  <2> QED
    BY <1>1, <1>3, <2>2
<1>5. N <= Len(tape)
  <2>1. 2 * N \in 0 .. Len(Children(i))
    BY <1>1
  <2>2. StandsAt(i, 2 * N) >= i + 1 + 2 * N
    BY <2>1, ChildrenGrow
  <2>3. StandsAt(i, 2 * N) \in i + 1 .. AfterIndex(i) - 1
    BY <2>1, NextChild
  <2> QED
    BY <1>1, <1>2, <2>2, <2>3
<1>6. ASSUME NEW n \in 0 .. N, n < N
      PROVE  /\ n + 1 \in 1 .. N /\ place[n] = Children(i)[2 * (n + 1) - 1]
             /\ place[n] + 1 = Children(i)[2 * (n + 1)] /\ place[n] # close
             /\ Payload[tape][place[n]] = KeyAt(i, n + 1)
  <2>1. /\ 2 * n \in 0 .. Len(Children(i)) /\ 2 * n < Len(Children(i)) /\ (2 * n) % 2 = 0
        /\ 2 * n + 1 = 2 * (n + 1) - 1 /\ n + 1 \in 1 .. N
        /\ 2 * n + 1 \in 0 .. Len(Children(i)) /\ (2 * n + 1) + 1 = 2 * (n + 1)
    BY <1>1, <1>6
  <2>2. StandsAt(i, 2 * n) = Children(i)[2 * n + 1] /\ StandsAt(i, 2 * n) < AfterIndex(i) - 1
        /\ StandsAt(i, 2 * n) \in i + 1 .. AfterIndex(i) - 1
    BY <2>1, NextChild
  <2>3. 2 * n + 1 < Len(Children(i)) /\ StandsAt(i, 2 * n + 1) = StandsAt(i, 2 * n) + 1
    BY <2>1, Keys
  <2>4. StandsAt(i, 2 * n + 1) = Children(i)[2 * (n + 1)]
    BY <2>1, <2>3, NextChild
  <2>5. place[n] = StandsAt(i, 2 * n)
    BY <1>3
  <2>6. StandsAt(i, 2 * n) # close
    BY <1>1, <1>2, <2>2
  <2> QED
    BY <2>1, <2>2, <2>3, <2>4, <2>5, <2>6 DEF KeyAt
<1>7. First(e) /\ e \in 0 .. Len(tape)
  <2> DEFINE S == {n \in Nat : Ends(n)}
  <2>1. N \in S
    BY <1>1, <1>4
  <2>2. PICK n \in S : \A m \in S : n <= m
    <3> HIDE DEF S
    <3>1. S \subseteq Nat
      BY DEF S
    <3> QED
      BY <2>1, <3>1, LeastElement
  <2>3. n \in 0 .. Len(tape)
    BY <1>1, <1>2, <1>5, <2>1, <2>2
  <2>4. \A m \in 0 .. n - 1 : m \in Nat /\ ~(n <= m)
    BY <2>3
  <2>5. First(n)
    BY <2>2, <2>4
  <2> HIDE DEF First
  <2> QED
    BY <2>3, <2>5
<1>8. AtKey(i, key) = IF place[e] = close THEN Refused("no_such_field") ELSE Found(place[e] + 1)
  BY DEF AtKey, place, close
<1> HIDE DEF e
<1>9. e \in 0 .. N
  <2> SUFFICES ASSUME ~(e <= N) PROVE FALSE
    BY <1>1, <1>7
  <2>1. N \in 0 .. e - 1
    BY <1>1, <1>7
  <2>2. Ends(N)
    BY <1>4
  <2> HIDE DEF Ends
  <2> QED
    BY <1>7, <2>1, <2>2
<1>10. ASSUME NEW n \in 1 .. N, n - 1 < e
       PROVE  KeyAt(i, n) # key
  <2>1. n - 1 \in 0 .. N /\ n - 1 < N /\ (n - 1) + 1 = n /\ n - 1 \in 0 .. e - 1
    BY <1>1, <1>9, <1>10
  <2>2. Payload[tape][place[n - 1]] = KeyAt(i, n)
    BY <1>6, <2>1
  <2>3. ~Ends(n - 1)
    BY <1>7, <2>1
  <2> QED
    BY <2>2, <2>3
<1>11. CASE e = N
  <2>1. \A n \in 1 .. N : n - 1 < e
    BY <1>1, <1>11
  <2> QED
    BY <1>4, <1>8, <1>10, <1>11, <2>1 DEF N
<1>12. CASE e < N
  <2>1. /\ e + 1 \in 1 .. N /\ place[e] + 1 = Children(i)[2 * (e + 1)] /\ place[e] # close
        /\ Payload[tape][place[e]] = KeyAt(i, e + 1)
    BY <1>6, <1>9, <1>12
  <2>2. KeyAt(i, e + 1) = key
    BY <1>7, <2>1
  <2>3. \A m \in 1 .. (e + 1) - 1 : m \in 1 .. N /\ m - 1 < e
    BY <1>1, <1>9
  <2>4. FirstWithKey(i, key, e + 1)
    BY <1>10, <2>2, <2>3 DEF FirstWithKey
  <2>5. AtKey(i, key) = Found(Children(i)[2 * (e + 1)])
    BY <1>8, <2>1
  <2> QED
    BY <2>1, <2>4, <2>5 DEF N
<1> QED
  BY <1>1, <1>9, <1>11, <1>12

-----------------------------------------------------------------------------
(* One segment *)

Refusals == {"no_such_field", "index_out_of_bounds", "incorrect_type", "invalid_json_pointer"}

Answers == {Found(j) : j \in Starts} \cup {Refused(rc) : rc \in Refusals}

\* An element that lies within another, or is it.
Inside(x, i) == x \in Starts /\ i <= x /\ AfterIndex(x) <= AfterIndex(i)

LEMMA AnswersName ==
  /\ \A j \in Starts : Found(j) \in Answers /\ Names(Found(j), {j})
  /\ \A rc \in Refusals : Refused(rc) \in Answers /\ Names(Refused(rc), {})
  /\ \A a \in Answers : a.rc = "ok" => a.index \in Starts
<1>1. \A j \in Starts : Found(j) \in Answers /\ Names(Found(j), {j})
  BY DEF Answers, Found, Names
<1>2. \A rc \in Refusals : Refused(rc) \in Answers /\ Names(Refused(rc), {})
  BY DEF Answers, Refused, Refusals, Names
<1>3. \A a \in Answers : a.rc = "ok" => a.index \in Starts
  BY DEF Answers, Refusals, Found, Refused
<1> QED
  BY <1>1, <1>2, <1>3

LEMMA InsideTrans ==
  ASSUME tape \in Tapes, NEW i \in Starts, NEW j, NEW k, Inside(j, i), Inside(k, j)
  PROVE  Inside(k, i)
<1>1. i \in Nat /\ j \in Nat /\ k \in Nat
      /\ AfterIndex(i) \in Nat /\ AfterIndex(j) \in Nat /\ AfterIndex(k) \in Nat
  BY ElementFacts DEF Inside
<1> QED
  BY <1>1 DEF Inside

LEMMA ChildInside ==
  ASSUME tape \in Tapes, NEW i \in Containers, NEW n \in 1 .. Len(Children(i))
  PROVE  Inside(Children(i)[n], i)
<1>1. i \in Starts
  BY DEF Containers
<1>2. i \in Nat /\ AfterIndex(i) \in Nat
  BY <1>1, ElementFacts
<1>3. /\ Children(i)[n] \in Starts /\ Children(i)[n] \in i + 1 .. AfterIndex(i) - 2
      /\ AfterIndex(Children(i)[n]) \in i + 2 .. AfterIndex(i) - 1
  BY ChildFacts
<1> QED
  BY <1>2, <1>3 DEF Inside

\* The children that a segment leads to, by their numbers.
LEMMA BelowArray ==
  ASSUME tape \in Tapes, NEW i \in Containers, TypeAt(i) = "array", NEW segment
  PROVE  /\ segment = Wildcard => Below(i, segment) = {Children(i)[n] : n \in 1 .. Len(Children(i))}
         /\ segment # Wildcard => Below(i, segment) =
              {Children(i)[n] : n \in {m \in 1 .. Len(Children(i)) :
                                 segment \in DOMAIN Position /\ m = Position[segment] + 1}}
<1>1. DOMAIN Children(i) = 1 .. Len(Children(i))
  BY ChildrenSeq
<1>2. segment = Wildcard => Below(i, segment) = Elements(i)
  BY DEF Below
<1>3. segment # Wildcard => Below(i, segment) =
              {Children(i)[n] : n \in {m \in DOMAIN Children(i) :
                                 segment \in DOMAIN Position /\ m = Position[segment] + 1}}
  BY DEF Below
<1> QED
  BY <1>1, <1>2, <1>3 DEF Elements

LEMMA BelowObject ==
  ASSUME tape \in Tapes, NEW i \in Containers, TypeAt(i) = "object", NEW segment
  PROVE  /\ segment = Wildcard => Below(i, segment) = Values(i)
         /\ segment # Wildcard => Below(i, segment) =
              {Children(i)[2 * n] : n \in {m \in 1 .. Len(Children(i)) \div 2 :
                                             FirstWithKey(i, segment, m)}}
  BY DEF Below, FirstWithKey, KeyAt

LEMMA ValuesNumbered ==
  ASSUME tape \in Tapes, NEW i \in Containers, TypeAt(i) = "object"
  PROVE  Values(i) = {Children(i)[2 * n] : n \in 1 .. Len(Children(i)) \div 2}
<1> DEFINE N == Len(Children(i)) \div 2
<1>1. N \in Nat /\ Len(Children(i)) = 2 * N /\ DOMAIN Children(i) = 1 .. Len(Children(i))
  BY ObjectIsEven, ChildrenSeq
<1> HIDE DEF N
<1>2. \A n \in 1 .. N : 2 * n \in 1 .. Len(Children(i)) /\ (2 * n) % 2 = 0
  BY <1>1
<1>3. \A m \in 1 .. Len(Children(i)) : m % 2 = 0 => m \div 2 \in 1 .. N /\ m = 2 * (m \div 2)
  BY <1>1
<1>4. Values(i) \subseteq {Children(i)[2 * n] : n \in 1 .. N}
  BY <1>1, <1>3 DEF Values
<1>5. {Children(i)[2 * n] : n \in 1 .. N} \subseteq Values(i)
  BY <1>1, <1>2 DEF Values
<1> QED
  BY <1>4, <1>5 DEF N

LEMMA BelowLeaf ==
  ASSUME NEW i, TypeAt(i) \notin {"array", "object"}, NEW segment
  PROVE  Below(i, segment) = {}
BY DEF Below

\* Wherever a segment leads is a child of the element, and for an object a value.
LEMMA BelowIsBelow ==
  ASSUME tape \in Tapes, NEW i \in Starts, NEW segment, NEW x \in Below(i, segment)
  PROVE  /\ Inside(x, i)
         /\ TypeAt(i) = "array" => x \in Elements(i)
         /\ TypeAt(i) = "object" => x \in Values(i)
         /\ TypeAt(i) \in {"array", "object"}
<1>1. CASE TypeAt(i) = "array"
  <2>1. i \in Containers /\ DOMAIN Children(i) = 1 .. Len(Children(i))
    BY <1>1, ChildrenSeq DEF Containers
  <2>2. PICK n \in 1 .. Len(Children(i)) : x = Children(i)[n]
    BY <1>1, <2>1, BelowArray
  <2> QED
    BY <1>1, <2>1, <2>2, ChildInside DEF Elements
<1>2. CASE TypeAt(i) = "object"
  <2>1. i \in Containers
    BY <1>2 DEF Containers
  <2>2. x \in Values(i)
    BY <1>2, <2>1, BelowObject, ValuesNumbered
  <2>3. PICK n \in 1 .. Len(Children(i)) \div 2 : x = Children(i)[2 * n]
    BY <1>2, <2>1, <2>2, ValuesNumbered
  <2>4. 2 * n \in 1 .. Len(Children(i))
    BY <1>2, <2>1, ObjectIsEven
  <2> QED
    BY <1>2, <2>1, <2>2, <2>3, <2>4, ChildInside
<1>3. CASE TypeAt(i) \notin {"array", "object"}
  BY <1>3, BelowLeaf
<1> QED
  BY <1>1, <1>2, <1>3

\* A token leads where the tape's contents say.
LEMMA AtNames ==
  ASSUME tape \in Tapes, NEW i \in Containers, TypeAt(i) = "array", NEW token \in DOMAIN Position
  PROVE  /\ At(i, Position[token]) \in Answers
         /\ Names(At(i, Position[token]), Below(i, token))
<1> DEFINE k == Position[token]
<1>1. k \in Nat /\ token # Wildcard
  BY NavigationAssumption
<1>2. Below(i, token) = {Children(i)[n] : n \in {m \in 1 .. Len(Children(i)) : m = k + 1}}
  BY <1>1, BelowArray
<1>3. At(i, k) = IF k < Len(Children(i)) THEN Found(Children(i)[k + 1])
                 ELSE Refused("index_out_of_bounds")
  BY <1>1, AtAnswers
<1>4. Len(Children(i)) \in Nat
  BY ChildrenSeq
<1> HIDE DEF k
<1>5. CASE k < Len(Children(i))
  <2>1. k + 1 \in 1 .. Len(Children(i))
    BY <1>1, <1>4, <1>5
  <2>2. Below(i, token) = {Children(i)[k + 1]}
    BY <1>2, <2>1
  <2>3. Children(i)[k + 1] \in Starts
    BY <2>1, ChildFacts
  <2> QED
    BY <1>3, <1>5, <2>2, <2>3, AnswersName DEF k
<1>6. CASE ~(k < Len(Children(i)))
  <2>1. ~(k + 1 \in 1 .. Len(Children(i)))
    BY <1>1, <1>4, <1>6
  <2>2. Below(i, token) = {}
    BY <1>2, <2>1
  <2> QED
    BY <1>3, <1>6, <2>2, AnswersName DEF k, Refusals
<1> QED
  BY <1>5, <1>6

LEMMA AtKeyNames ==
  ASSUME tape \in Tapes, NEW i \in Containers, TypeAt(i) = "object", NEW key, key # Wildcard
  PROVE  AtKey(i, key) \in Answers /\ Names(AtKey(i, key), Below(i, key))
<1> DEFINE N == Len(Children(i)) \div 2
<1>1. N \in Nat /\ Len(Children(i)) = 2 * N
  BY ObjectIsEven
<1>2. Below(i, key) = {Children(i)[2 * n] : n \in {m \in 1 .. N : FirstWithKey(i, key, m)}}
  BY BelowObject
<1> HIDE DEF N
<1>3. CASE /\ \A n \in 1 .. N : KeyAt(i, n) # key
           /\ AtKey(i, key) = Refused("no_such_field")
  <2>1. Below(i, key) = {}
    BY <1>2, <1>3 DEF FirstWithKey
  <2> QED
    BY <1>3, <2>1, AnswersName DEF Refusals
<1>4. ASSUME NEW n \in 1 .. N, FirstWithKey(i, key, n), AtKey(i, key) = Found(Children(i)[2 * n])
      PROVE  AtKey(i, key) \in Answers /\ Names(AtKey(i, key), Below(i, key))
  <2>1. ASSUME NEW m \in 1 .. N, FirstWithKey(i, key, m)
        PROVE  m = n
    <3>1. ~(m \in 1 .. n - 1) /\ ~(n \in 1 .. m - 1)
      BY <1>4, <2>1 DEF FirstWithKey
    <3> QED
      BY <1>1, <3>1
  <2>2. {m \in 1 .. N : FirstWithKey(i, key, m)} = {n}
    BY <1>4, <2>1
  <2>3. Below(i, key) = {Children(i)[2 * n]}
    BY <1>2, <2>2
  <2>4. 2 * n \in 1 .. Len(Children(i))
    BY <1>1
  <2>5. Children(i)[2 * n] \in Starts
    BY <2>4, ChildFacts
  <2> QED
    BY <1>4, <2>3, <2>5, AnswersName
<1> QED
  BY <1>3, <1>4, AtKeyAnswers DEF N

LEMMA AtTokenNames ==
  ASSUME tape \in Tapes, NEW i \in Starts, NEW token, token # Wildcard
  PROVE  AtToken(i, token) \in Answers /\ Names(AtToken(i, token), Below(i, token))
<1>1. CASE TypeAt(i) = "object"
  <2>1. i \in Containers /\ AtToken(i, token) = AtKey(i, token)
    BY <1>1 DEF Containers, AtToken
  <2> QED
    BY <1>1, <2>1, AtKeyNames
<1>2. CASE TypeAt(i) = "array" /\ token \in DOMAIN Position
  <2>1. i \in Containers /\ AtToken(i, token) = At(i, Position[token])
    BY <1>2 DEF Containers, AtToken
  <2> QED
    BY <1>2, <2>1, AtNames
<1>3. CASE TypeAt(i) = "array" /\ token \notin DOMAIN Position
  <2>1. i \in Containers /\ AtToken(i, token) = Refused("incorrect_type")
    BY <1>3 DEF Containers, AtToken
  <2>2. Below(i, token) = {}
    BY <1>3, <2>1, BelowArray
  <2> QED
    BY <2>1, <2>2, AnswersName DEF Refusals
<1>4. CASE TypeAt(i) \notin {"array", "object"}
  <2>1. AtToken(i, token) = Refused("invalid_json_pointer")
    BY <1>4 DEF AtToken
  <2> QED
    BY <1>4, <2>1, BelowLeaf, AnswersName DEF Refusals
<1> QED
  BY <1>1, <1>2, <1>3, <1>4

-----------------------------------------------------------------------------
(* Paths *)

Segments == Tokens \cup {Wildcard}

\* All the elements that a segment leads to from a set of them.
NamedStep == [a \in (SUBSET Starts) \X Segments |-> UNION {Below(j, a[2]) : j \in a[1]}]

LEMMA NamedStepType ==
  ASSUME tape \in Tapes, NEW i \in Starts
  PROVE  Folds(SUBSET Starts, Segments, {i}, NamedStep)
<1>1. ASSUME NEW a \in (SUBSET Starts) \X Segments
      PROVE  UNION {Below(j, a[2]) : j \in a[1]} \in SUBSET Starts
  <2>1. \A j \in a[1] : Below(j, a[2]) \subseteq Starts
    BY BelowIsBelow DEF Inside
  <2> QED
    BY <2>1
<1> QED
  BY <1>1 DEF NamedStep, Folds

NamedBy(i, s, f) == Fold({i}, NamedStep, s, f) /\ Named(i, s) = f[Len(s)]

LEMMA NamedFolds ==
  ASSUME tape \in Tapes, NEW i \in Starts, NEW s \in Seq(Segments)
  PROVE  \E f \in [0 .. Len(s) -> SUBSET Starts] : NamedBy(i, s, f)
<1> DEFINE Unfolded(g) ==
             g = [n \in 0 .. Len(s) |->
                    IF n = 0 THEN {i} ELSE UNION {Below(j, s[n]) : j \in g[n - 1]}]
           h == CHOOSE g : Unfolded(g)
<1>1. {i} \in SUBSET Starts
  OBVIOUS
<1>2. PICK f \in [0 .. Len(s) -> SUBSET Starts] : Fold({i}, NamedStep, s, f)
  BY NamedStepType, FoldDefines
<1>3. \A n \in 1 .. Len(s) : \A set \in SUBSET Starts :
        NamedStep[<<set, s[n]>>] = UNION {Below(j, s[n]) : j \in set}
  BY ElementOfSeq DEF NamedStep
<1>4. Len(s) \in Nat /\ \A n \in 0 .. Len(s) : n # 0 => n \in 1 .. Len(s) /\ n - 1 \in 0 .. Len(s)
  OBVIOUS
<1>5. f = [n \in 0 .. Len(s) |-> IF n = 0 THEN {i} ELSE NamedStep[<<f[n - 1], s[n]>>]]
  BY <1>2 DEF Fold
<1>6. \A n \in 0 .. Len(s) :
        f[n] = IF n = 0 THEN {i} ELSE UNION {Below(j, s[n]) : j \in f[n - 1]}
  BY <1>2, <1>3, <1>4, <1>5
<1>7. Unfolded(f)
  BY <1>5, <1>6
<1>8. Unfolded(h)
  <2> HIDE DEF Unfolded
  <2> QED
    BY <1>7
<1>9. Named(i, s) = h[Len(s)]
  BY DEF Named
<1>10. h[0] = {i} /\ \A n \in 1 .. Len(s) : h[n] = UNION {Below(j, s[n]) : j \in h[n - 1]}
  <2> DEFINE Next1(set, e) == UNION {Below(j, e) : j \in set}
  <2>1. h = [n \in 0 .. Len(s) |-> IF n = 0 THEN {i} ELSE Next1(h[n - 1], s[n])]
    BY <1>8
  <2> HIDE DEF h, Next1
  <2>2. h[0] = {i} /\ \A n \in 1 .. Len(s) : h[n] = Next1(h[n - 1], s[n])
    BY <1>4, <2>1
  <2> QED
    BY <2>2 DEF Next1
<1> HIDE DEF Unfolded, h
<1>11. \A n \in 1 .. Len(s) : h[n - 1] \in SUBSET Starts => h[n] = NamedStep[<<h[n - 1], s[n]>>]
  BY <1>3, <1>10
<1>12. h[Len(s)] = f[Len(s)]
  <2>1. Follows(SUBSET Starts, {i}, NamedStep, s, h)
    BY <1>10, <1>11 DEF Follows
  <2> QED
    BY <1>1, <1>2, <2>1, NamedStepType, FoldFollows
<1> QED
  BY <1>2, <1>9, <1>12 DEF NamedBy

LEMMA NamedEmpty ==
  ASSUME tape \in Tapes, NEW i \in Starts
  PROVE  Named(i, <<>>) = {i}
<1>1. <<>> \in Seq(Segments) /\ Len(<<>>) = 0
  OBVIOUS
<1>2. PICK f \in [0 .. 0 -> SUBSET Starts] : NamedBy(i, <<>>, f)
  BY <1>1, NamedFolds
<1> QED
  BY <1>1, <1>2 DEF NamedBy, Fold

LEMMA NamedAppends ==
  ASSUME tape \in Tapes, NEW i \in Starts, NEW s \in Seq(Segments), NEW e \in Segments
  PROVE  /\ Named(i, s) \subseteq Starts
         /\ Named(i, Append(s, e)) = UNION {Below(j, e) : j \in Named(i, s)}
<1>1. Append(s, e) \in Seq(Segments)
  OBVIOUS
<1>2. PICK f \in [0 .. Len(s) -> SUBSET Starts] : NamedBy(i, s, f)
  BY NamedFolds
<1>3. PICK g \in [0 .. Len(Append(s, e)) -> SUBSET Starts] : NamedBy(i, Append(s, e), g)
  BY <1>1, NamedFolds
<1>4. /\ f[Len(s)] \in SUBSET Starts
      /\ g[Len(Append(s, e))] = NamedStep[<<f[Len(s)], e>>]
  <2>1. Fold({i}, NamedStep, s, f) /\ Fold({i}, NamedStep, Append(s, e), g)
    BY <1>2, <1>3 DEF NamedBy
  <2> DEFINE X == SUBSET Starts  base == {i}
  <2>2. /\ Folds(X, Segments, base, NamedStep)
        /\ Fold(base, NamedStep, s, f) /\ Fold(base, NamedStep, Append(s, e), g)
    BY <2>1, NamedStepType
  <2> HIDE DEF X, base
  <2>3. f[Len(s)] \in X /\ g[Len(Append(s, e))] = NamedStep[<<f[Len(s)], e>>]
    BY <2>2, FoldAppends
  <2> QED
    BY <2>3 DEF X
<1>5. NamedStep[<<f[Len(s)], e>>] = UNION {Below(j, e) : j \in f[Len(s)]}
  BY <1>4 DEF NamedStep
<1> QED
  BY <1>2, <1>3, <1>4, <1>5 DEF NamedBy

\* What a path names lies within the element it starts from, and is a value there.
LEMMA NamedWithin ==
  ASSUME tape \in Tapes, NEW i \in Starts
  PROVE  \A s \in Seq(Segments) : \A x \in Named(i, s) : Inside(x, i) /\ x \in Reachable(i)
<1> DEFINE T == {s \in Seq(Segments) : \A x \in Named(i, s) : Inside(x, i) /\ x \in Reachable(i)}
<1>1. <<>> \in T
  <2>1. Named(i, <<>>) = {i} /\ <<>> \in Seq(Segments)
    BY NamedEmpty
  <2>2. Inside(i, i) /\ i \in Reachable(i)
    BY ElementFacts DEF Inside, Reachable
  <2> QED
    BY <2>1, <2>2
<1>2. ASSUME NEW s \in Seq(Segments), NEW e \in Segments, s \in T
      PROVE  Append(s, e) \in T
  <2>1. Append(s, e) \in Seq(Segments)
    OBVIOUS
  <2>2. ASSUME NEW x \in Named(i, Append(s, e))
        PROVE  Inside(x, i) /\ x \in Reachable(i)
    <3>1. PICK j \in Named(i, s) : x \in Below(j, e)
      BY NamedAppends
    <3>2. Inside(j, i) /\ j \in Starts
      BY <1>2 DEF Inside
    <3>3. /\ Inside(x, j)
          /\ TypeAt(j) = "array" => x \in Elements(j)
          /\ TypeAt(j) = "object" => x \in Values(j)
          /\ TypeAt(j) \in {"array", "object"}
      BY <3>1, <3>2, BelowIsBelow
    <3>4. j \in i .. AfterIndex(i) - 1
      <4>1. i \in Nat /\ j \in Nat /\ AfterIndex(i) \in Nat /\ AfterIndex(j) \in Nat
            /\ AfterIndex(j) >= j + 1
        BY <3>2, ElementFacts
      <4> QED
        BY <3>2, <4>1 DEF Inside
    <3>5. x \in Reachable(i)
      <4> DEFINE containers == {k \in Starts : k \in i .. AfterIndex(i) - 1}
                 Contents(k) == IF TypeAt(k) = "array" THEN Elements(k)
                                ELSE IF TypeAt(k) = "object" THEN Values(k) ELSE {}
      <4>1. j \in containers
        BY <3>2, <3>4
      <4>2. x \in Contents(j)
        BY <3>3
      <4>3. Reachable(i) = {i} \cup UNION {Contents(k) : k \in containers}
        BY DEF Reachable
      <4> HIDE DEF containers, Contents
      <4> QED
        BY <4>1, <4>2, <4>3
    <3> QED
      BY <3>2, <3>3, <3>5, InsideTrans
  <2> QED
    BY <2>1, <2>2
<1> HIDE DEF T
<1>3. Seq(Segments) \subseteq T
  BY <1>1, <1>2, SequenceInduction
<1> QED
  BY <1>3 DEF T

\* One more token from an answer.
AnswerStep ==
  [a \in Answers \X Tokens |-> IF a[1].rc = "ok" THEN AtToken(a[1].index, a[2]) ELSE a[1]]

LEMMA AnswerStepType ==
  ASSUME tape \in Tapes, NEW i \in Starts
  PROVE  Folds(Answers, Tokens, Found(i), AnswerStep)
<1>1. ASSUME NEW a \in Answers \X Tokens
      PROVE  (IF a[1].rc = "ok" THEN AtToken(a[1].index, a[2]) ELSE a[1]) \in Answers
  <2>1. a[1] \in Answers /\ a[2] \in Tokens /\ a[2] # Wildcard
    BY NavigationAssumption
  <2>2. a[1].rc = "ok" => a[1].index \in Starts
    BY <2>1, AnswersName
  <2> QED
    BY <2>1, <2>2, AtTokenNames
<1> QED
  BY <1>1, AnswersName DEF AnswerStep, Folds

AnsweredBy(i, s, f) == Fold(Found(i), AnswerStep, s, f) /\ AtTokens(i, s) = f[Len(s)]

LEMMA AtTokensFolds ==
  ASSUME tape \in Tapes, NEW i \in Starts, NEW s \in Seq(Tokens)
  PROVE  \E f \in [0 .. Len(s) -> Answers] : AnsweredBy(i, s, f)
<1> DEFINE Go(answer, token) ==
             IF answer.rc = "ok" THEN AtToken(answer.index, token) ELSE answer
           Unfolded(g) ==
             g = [n \in 0 .. Len(s) |-> IF n = 0 THEN Found(i) ELSE Go(g[n - 1], s[n])]
           h == CHOOSE g : Unfolded(g)
<1>1. Found(i) \in Answers
  BY AnswersName
<1>2. PICK f \in [0 .. Len(s) -> Answers] : Fold(Found(i), AnswerStep, s, f)
  BY AnswerStepType, FoldDefines
<1>3. \A n \in 1 .. Len(s) : \A a \in Answers : AnswerStep[<<a, s[n]>>] = Go(a, s[n])
  BY ElementOfSeq DEF AnswerStep
<1>4. Len(s) \in Nat /\ \A n \in 0 .. Len(s) : n # 0 => n \in 1 .. Len(s) /\ n - 1 \in 0 .. Len(s)
  OBVIOUS
<1>5. f = [n \in 0 .. Len(s) |-> IF n = 0 THEN Found(i) ELSE AnswerStep[<<f[n - 1], s[n]>>]]
  BY <1>2 DEF Fold
<1>9. AtTokens(i, s) = h[Len(s)]
  BY DEF AtTokens
<1> HIDE DEF Go
<1>6. \A n \in 0 .. Len(s) : f[n] = IF n = 0 THEN Found(i) ELSE Go(f[n - 1], s[n])
  BY <1>2, <1>3, <1>4, <1>5
<1>7. Unfolded(f)
  BY <1>5, <1>6
<1>8. Unfolded(h)
  <2> HIDE DEF Unfolded
  <2> QED
    BY <1>7
<1>10. h[0] = Found(i) /\ \A n \in 1 .. Len(s) : h[n] = Go(h[n - 1], s[n])
  <2> HIDE DEF h
  <2> QED
    BY <1>4, <1>8
<1> HIDE DEF Unfolded, h
<1>11. \A n \in 1 .. Len(s) : h[n - 1] \in Answers => h[n] = AnswerStep[<<h[n - 1], s[n]>>]
  BY <1>3, <1>10
<1>12. h[Len(s)] = f[Len(s)]
  <2>1. Follows(Answers, Found(i), AnswerStep, s, h)
    BY <1>10, <1>11 DEF Follows
  <2> QED
    BY <1>1, <1>2, <2>1, AnswerStepType, FoldFollows
<1> QED
  BY <1>2, <1>9, <1>12 DEF AnsweredBy

LEMMA AtTokensEmpty ==
  ASSUME tape \in Tapes, NEW i \in Starts
  PROVE  AtTokens(i, <<>>) = Found(i)
<1>1. <<>> \in Seq(Tokens) /\ Len(<<>>) = 0
  OBVIOUS
<1>2. PICK f \in [0 .. 0 -> Answers] : AnsweredBy(i, <<>>, f)
  BY <1>1, AtTokensFolds
<1> QED
  BY <1>1, <1>2 DEF AnsweredBy, Fold

LEMMA AtTokensAppends ==
  ASSUME tape \in Tapes, NEW i \in Starts, NEW s \in Seq(Tokens), NEW t \in Tokens
  PROVE  /\ AtTokens(i, s) \in Answers
         /\ AtTokens(i, Append(s, t)) =
              IF AtTokens(i, s).rc = "ok" THEN AtToken(AtTokens(i, s).index, t) ELSE AtTokens(i, s)
<1>1. Append(s, t) \in Seq(Tokens)
  OBVIOUS
<1>2. PICK f \in [0 .. Len(s) -> Answers] : AnsweredBy(i, s, f)
  BY AtTokensFolds
<1>3. PICK g \in [0 .. Len(Append(s, t)) -> Answers] : AnsweredBy(i, Append(s, t), g)
  BY <1>1, AtTokensFolds
<1>4. /\ f[Len(s)] \in Answers
      /\ g[Len(Append(s, t))] = AnswerStep[<<f[Len(s)], t>>]
  <2>1. Fold(Found(i), AnswerStep, s, f) /\ Fold(Found(i), AnswerStep, Append(s, t), g)
    BY <1>2, <1>3 DEF AnsweredBy
  <2> DEFINE X == Answers  base == Found(i)
  <2>2. /\ Folds(X, Tokens, base, AnswerStep)
        /\ Fold(base, AnswerStep, s, f) /\ Fold(base, AnswerStep, Append(s, t), g)
    BY <2>1, AnswerStepType
  <2> HIDE DEF X, base
  <2>3. f[Len(s)] \in X /\ g[Len(Append(s, t))] = AnswerStep[<<f[Len(s)], t>>]
    BY <2>2, FoldAppends
  <2> QED
    BY <2>3 DEF X
<1>5. AnswerStep[<<f[Len(s)], t>>] =
        IF f[Len(s)].rc = "ok" THEN AtToken(f[Len(s)].index, t) ELSE f[Len(s)]
  BY <1>4 DEF AnswerStep
<1> QED
  BY <1>2, <1>3, <1>4, <1>5 DEF AnsweredBy

\* Tokens lead to the one element they name, or to none, however many there are.
LEMMA AtTokensNames ==
  ASSUME tape \in Tapes, NEW i \in Starts
  PROVE  \A s \in Seq(Tokens) :
           AtTokens(i, s) \in Answers /\ Names(AtTokens(i, s), Named(i, s))
<1> DEFINE T == {s \in Seq(Tokens) :
                   AtTokens(i, s) \in Answers /\ Names(AtTokens(i, s), Named(i, s))}
<1>1. <<>> \in T
  <2>1. <<>> \in Seq(Tokens)
    OBVIOUS
  <2> QED
    BY <2>1, NamedEmpty, AtTokensEmpty, AnswersName
<1>2. ASSUME NEW s \in Seq(Tokens), NEW t \in Tokens, s \in T
      PROVE  Append(s, t) \in T
  <2> DEFINE a == AtTokens(i, s)  b == AtTokens(i, Append(s, t))
             A == Named(i, s)  B == Named(i, Append(s, t))
  <2>1. Append(s, t) \in Seq(Tokens) /\ s \in Seq(Segments) /\ t \in Segments /\ t # Wildcard
    <3>1. Tokens \subseteq Segments
      BY DEF Segments
    <3> QED
      BY <3>1, NavigationAssumption
  <2>2. B = UNION {Below(j, t) : j \in A}
    BY <2>1, NamedAppends
  <2>3. b = IF a.rc = "ok" THEN AtToken(a.index, t) ELSE a
    BY AtTokensAppends
  <2>4. a \in Answers /\ Names(a, A)
    BY <1>2
  <2> HIDE DEF a, b, A, B
  <2>5. CASE a.rc = "ok"
    <3>1. a.index \in Starts /\ A = {a.index}
      BY <2>4, <2>5, AnswersName DEF Names
    <3>2. B = Below(a.index, t)
      BY <2>2, <3>1
    <3>3. b \in Answers /\ Names(b, B)
      BY <2>1, <2>3, <2>5, <3>1, <3>2, AtTokenNames
    <3> QED
      BY <2>1, <3>3 DEF b, B
  <2>6. CASE a.rc # "ok"
    <3>1. A = {} /\ B = {} /\ b = a
      BY <2>2, <2>3, <2>4, <2>6 DEF Names
    <3>2. b \in Answers /\ Names(b, B)
      BY <2>4, <3>1
    <3> QED
      BY <2>1, <3>2 DEF b, B
  <2> QED
    BY <2>5, <2>6
<1> HIDE DEF T
<1>3. Seq(Tokens) \subseteq T
  BY <1>1, <1>2, SequenceInduction
<1> QED
  BY <1>3 DEF T

-----------------------------------------------------------------------------
(* Elements in document order *)

Items(s) == {s[n] : n \in 1 .. Len(s)}

\* Each one ends before those that follow begin.
Spread(s) == \A m, n \in 1 .. Len(s) : m < n => AfterIndex(s[m]) <= s[n]

Joins(S) == [a \in Seq(S) \X Seq(S) |-> a[1] \o a[2]]

LEMMA JoinsType == \A S : Folds(Seq(S), Seq(S), <<>>, Joins(S))
BY DEF Folds, Joins

JoinedBy(S, parts, f) == Fold(<<>>, Joins(S), parts, f) /\ Concatenated(parts) = f[Len(parts)]

LEMMA ConcatenatedFolds ==
  ASSUME NEW S, NEW parts \in Seq(Seq(S))
  PROVE  \E f \in [0 .. Len(parts) -> Seq(S)] : JoinedBy(S, parts, f)
<1> DEFINE Unfolded(g) ==
             g = [n \in 0 .. Len(parts) |-> IF n = 0 THEN <<>> ELSE g[n - 1] \o parts[n]]
           h == CHOOSE g : Unfolded(g)
<1>1. PICK f \in [0 .. Len(parts) -> Seq(S)] : Fold(<<>>, Joins(S), parts, f)
  BY JoinsType, FoldDefines
<1>2. \A n \in 1 .. Len(parts) : \A s \in Seq(S) : Joins(S)[<<s, parts[n]>>] = s \o parts[n]
  BY ElementOfSeq DEF Joins
<1>3. /\ Len(parts) \in Nat
      /\ \A n \in 0 .. Len(parts) : n # 0 => n \in 1 .. Len(parts) /\ n - 1 \in 0 .. Len(parts)
  OBVIOUS
<1>4. f = [n \in 0 .. Len(parts) |-> IF n = 0 THEN <<>> ELSE Joins(S)[<<f[n - 1], parts[n]>>]]
  BY <1>1 DEF Fold
<1>5. \A n \in 0 .. Len(parts) : f[n] = IF n = 0 THEN <<>> ELSE f[n - 1] \o parts[n]
  BY <1>1, <1>2, <1>3, <1>4
<1>6. Unfolded(f)
  BY <1>4, <1>5
<1>7. Unfolded(h)
  <2> HIDE DEF Unfolded
  <2> QED
    BY <1>6
<1>8. Concatenated(parts) = h[Len(parts)]
  BY DEF Concatenated
<1>9. h[0] = <<>> /\ \A n \in 1 .. Len(parts) : h[n] = h[n - 1] \o parts[n]
  <2> HIDE DEF h
  <2> QED
    BY <1>3, <1>7
<1> HIDE DEF Unfolded, h
<1>10. \A n \in 1 .. Len(parts) : h[n - 1] \in Seq(S) => h[n] = Joins(S)[<<h[n - 1], parts[n]>>]
  BY <1>2, <1>9
<1>11. Follows(Seq(S), <<>>, Joins(S), parts, h)
  BY <1>9, <1>10 DEF Follows
<1>12. h[Len(parts)] = f[Len(parts)]
  BY <1>1, <1>11, JoinsType, FoldFollows
<1> QED
  BY <1>1, <1>8, <1>12 DEF JoinedBy

LEMMA ConcatenatedEmpty == Concatenated(<<>>) = <<>>
<1>1. <<>> \in Seq(Seq(Starts)) /\ Len(<<>>) = 0
  OBVIOUS
<1>2. PICK f \in [0 .. 0 -> Seq(Starts)] : JoinedBy(Starts, <<>>, f)
  BY <1>1, ConcatenatedFolds
<1> QED
  BY <1>1, <1>2 DEF JoinedBy, Fold

\* f folds s, g folds s with one more element, and the last value of g is one step on
\* from the last value of f.
FoldsOneMore(X, E, base, step, s, e, f, g) ==
  /\ Folds(X, E, base, step) /\ s \in Seq(E) /\ e \in E
  /\ Fold(base, step, s, f) /\ Fold(base, step, Append(s, e), g)
OneStepOn(X, step, s, e, f, g) ==
  f[Len(s)] \in X /\ g[Len(Append(s, e))] = step[<<f[Len(s)], e>>]

LEMMA FoldsOn ==
  ASSUME NEW X, NEW E, NEW base, NEW step, NEW s, NEW e, NEW f, NEW g,
         FoldsOneMore(X, E, base, step, s, e, f, g)
  PROVE  OneStepOn(X, step, s, e, f, g)
BY FoldAppends DEF FoldsOneMore, OneStepOn

LEMMA ConcatenatedAppends ==
  ASSUME NEW S, NEW parts \in Seq(Seq(S)), NEW part \in Seq(S)
  PROVE  /\ Concatenated(parts) \in Seq(S)
         /\ Concatenated(Append(parts, part)) = Concatenated(parts) \o part
<1>1. Append(parts, part) \in Seq(Seq(S))
  OBVIOUS
<1>2. PICK f \in [0 .. Len(parts) -> Seq(S)] : JoinedBy(S, parts, f)
  BY ConcatenatedFolds
<1>3. PICK g \in [0 .. Len(Append(parts, part)) -> Seq(S)] : JoinedBy(S, Append(parts, part), g)
  BY <1>1, ConcatenatedFolds
<1>4. /\ f[Len(parts)] \in Seq(S)
      /\ g[Len(Append(parts, part))] = Joins(S)[<<f[Len(parts)], part>>]
  <2>1. Fold(<<>>, Joins(S), parts, f) /\ Fold(<<>>, Joins(S), Append(parts, part), g)
    BY <1>2, <1>3 DEF JoinedBy
  <2> DEFINE X == Seq(S)  empty == <<>>  step == Joins(S)
  <2>2. Folds(X, X, empty, step)
    BY JoinsType
  <2>5. parts \in Seq(X) /\ part \in X
    OBVIOUS
  <2>3. Fold(empty, step, parts, f) /\ Fold(empty, step, Append(parts, part), g)
    BY <2>1
  <2> HIDE DEF X, empty, step
  <2>4. f[Len(parts)] \in X /\ g[Len(Append(parts, part))] = step[<<f[Len(parts)], part>>]
    <3>1. FoldsOneMore(X, X, empty, step, parts, part, f, g)
      BY <2>2, <2>3, <2>5 DEF FoldsOneMore
    <3>2. OneStepOn(X, step, parts, part, f, g)
      BY ONLY <3>1, FoldsOn
    <3> QED
      BY ONLY <3>2 DEF OneStepOn
  <2> QED
    BY <2>4 DEF X, step
<1>5. Joins(S)[<<f[Len(parts)], part>>] = f[Len(parts)] \o part
  BY <1>4 DEF Joins
<1> QED
  BY <1>2, <1>3, <1>4, <1>5 DEF JoinedBy

LEMMA ItemsOf ==
  /\ Items(<<>>) = {} /\ Spread(<<>>)
  /\ \A x : Items(<<x>>) = {x} /\ Spread(<<x>>)
<1>1. Items(<<>>) = {} /\ Spread(<<>>)
  BY DEF Items, Spread
<1>2. ASSUME NEW x
      PROVE  Items(<<x>>) = {x} /\ Spread(<<x>>)
  <2>1. 1 .. Len(<<x>>) = {1} /\ <<x>>[1] = x
    OBVIOUS
  <2> QED
    BY <2>1 DEF Items, Spread
<1> QED
  BY <1>1, <1>2

LEMMA ItemsJoin ==
  ASSUME NEW a \in Seq(Starts), NEW b \in Seq(Starts)
  PROVE  /\ Items(a \o b) = Items(a) \cup Items(b)
         /\ Spread(a) /\ Spread(b) /\ (\A x \in Items(a), y \in Items(b) : AfterIndex(x) <= y)
              => Spread(a \o b)
<1> DEFINE c == a \o b
<1>1. /\ c \in Seq(Starts) /\ Len(c) = Len(a) + Len(b) /\ Len(a) \in Nat /\ Len(b) \in Nat
      /\ \A n \in 1 .. Len(c) : c[n] = IF n <= Len(a) THEN a[n] ELSE b[n - Len(a)]
  BY ConcatProperties
<1> HIDE DEF c
<1>2. \A n \in 1 .. Len(c) : IF n <= Len(a) THEN n \in 1 .. Len(a) ELSE n - Len(a) \in 1 .. Len(b)
  BY <1>1
<1>3. \A n \in 1 .. Len(a) : n \in 1 .. Len(c) /\ c[n] = a[n]
  BY <1>1
<1>4. \A n \in 1 .. Len(b) : n + Len(a) \in 1 .. Len(c) /\ c[n + Len(a)] = b[n]
  <2>1. \A n \in 1 .. Len(b) : /\ n + Len(a) \in 1 .. Len(c) /\ ~(n + Len(a) <= Len(a))
                                /\ (n + Len(a)) - Len(a) = n
    BY <1>1
  <2> QED
    BY <1>1, <2>1
<1>5. Items(c) \subseteq Items(a) \cup Items(b)
  BY <1>1, <1>2 DEF Items
<1>6. Items(a) \cup Items(b) \subseteq Items(c)
  BY <1>3, <1>4 DEF Items
<1>7. ASSUME Spread(a), Spread(b), \A x \in Items(a), y \in Items(b) : AfterIndex(x) <= y,
             NEW m \in 1 .. Len(c), NEW n \in 1 .. Len(c), m < n
      PROVE  AfterIndex(c[m]) <= c[n]
  <2>1. CASE n <= Len(a)
    <3>1. m \in 1 .. Len(a) /\ n \in 1 .. Len(a) /\ c[m] = a[m] /\ c[n] = a[n]
      BY <1>1, <1>7, <2>1
    <3> QED
      BY <1>7, <3>1 DEF Spread
  <2>2. CASE ~(n <= Len(a)) /\ m <= Len(a)
    <3>1. m \in 1 .. Len(a) /\ n - Len(a) \in 1 .. Len(b) /\ c[m] = a[m] /\ c[n] = b[n - Len(a)]
      BY <1>1, <1>2, <2>2
    <3>2. a[m] \in Items(a) /\ b[n - Len(a)] \in Items(b)
      BY <3>1 DEF Items
    <3> QED
      BY <1>7, <3>1, <3>2
  <2>3. CASE ~(m <= Len(a))
    <3>1. /\ m - Len(a) \in 1 .. Len(b) /\ n - Len(a) \in 1 .. Len(b)
          /\ m - Len(a) < n - Len(a)
          /\ c[m] = b[m - Len(a)] /\ c[n] = b[n - Len(a)]
      BY <1>1, <1>2, <1>7, <2>3
    <3> QED
      BY <1>7, <3>1 DEF Spread
  <2> QED
    BY <1>1, <2>1, <2>2, <2>3
<1>8. Spread(a) /\ Spread(b) /\ (\A x \in Items(a), y \in Items(b) : AfterIndex(x) <= y)
        => Spread(c)
  BY <1>7 DEF Spread
<1> QED
  BY <1>5, <1>6, <1>8 DEF c

LEMMA ItemsAppend ==
  ASSUME NEW c \in Seq(Starts), NEW x \in Starts
  PROVE  /\ Items(Append(c, x)) = Items(c) \cup {x}
         /\ Spread(Append(c, x)) => Spread(c) /\ \A y \in Items(c) : AfterIndex(y) <= x
<1> DEFINE d == Append(c, x)
<1>1. /\ Len(c) \in Nat /\ Len(d) = Len(c) + 1 /\ d[Len(c) + 1] = x
      /\ \A n \in 1 .. Len(c) : d[n] = c[n]
  BY AppendProperties
<1> HIDE DEF d
<1>2. /\ \A n \in 1 .. Len(d) : n \in 1 .. Len(c) \/ n = Len(c) + 1
      /\ \A n \in 1 .. Len(c) : n \in 1 .. Len(d) /\ n < Len(c) + 1
      /\ Len(c) + 1 \in 1 .. Len(d)
  BY <1>1
<1>3. Items(d) = Items(c) \cup {x}
  BY <1>1, <1>2 DEF Items
<1>4. Spread(d) => Spread(c)
  BY <1>1, <1>2 DEF Spread
<1>5. Spread(d) => \A y \in Items(c) : AfterIndex(y) <= x
  BY <1>1, <1>2 DEF Spread, Items
<1> QED
  BY <1>3, <1>4, <1>5 DEF d

\* Each element replaced by elements within it, in order.
Refines(F) ==
  /\ F \in [Starts -> Seq(Starts)]
  /\ \A x \in Starts : Spread(F[x]) /\ \A y \in Items(F[x]) : Inside(y, x)

Replaced(c, F) == Concatenated([n \in DOMAIN c |-> F[c[n]]])

LEMMA ReplacedAppends ==
  ASSUME NEW F \in [Starts -> Seq(Starts)], NEW c \in Seq(Starts), NEW x \in Starts
  PROVE  /\ Replaced(c, F) \in Seq(Starts)
         /\ Replaced(Append(c, x), F) = Replaced(c, F) \o F[x]
<1> DEFINE d == Append(c, x)
           p == [n \in DOMAIN c |-> F[c[n]]]
           q == [n \in DOMAIN d |-> F[d[n]]]
           r == Append(p, F[x])
<1>1. /\ Len(c) \in Nat /\ d \in Seq(Starts) /\ Len(d) = Len(c) + 1 /\ d[Len(c) + 1] = x
      /\ \A n \in 1 .. Len(c) : d[n] = c[n]
      /\ DOMAIN c = 1 .. Len(c) /\ DOMAIN d = 1 .. Len(c) + 1
  BY AppendProperties, LenProperties
<1>2. \A n \in 1 .. Len(c) : F[c[n]] \in Seq(Starts)
  BY ElementOfSeq
<1>3. F[x] \in Seq(Starts)
  OBVIOUS
<1> HIDE DEF d
<1>4. p \in Seq(Seq(Starts)) /\ Len(p) = Len(c) /\ \A n \in 1 .. Len(c) : p[n] = F[c[n]]
  BY <1>1, <1>2
<1>5. q \in Seq(Seq(Starts)) /\ Len(q) = Len(c) + 1
      /\ \A n \in 1 .. Len(c) + 1 : q[n] = F[d[n]]
  <2>1. \A n \in 1 .. Len(c) + 1 : F[d[n]] \in Seq(Starts)
    BY <1>1, ElementOfSeq
  <2> QED
    BY <1>1, <2>1
<1> HIDE DEF p, q
<1>6. /\ r \in Seq(Seq(Starts)) /\ Len(r) = Len(c) + 1 /\ r[Len(c) + 1] = F[x]
      /\ \A n \in 1 .. Len(c) : r[n] = p[n]
  <2> DEFINE X == Seq(Starts)
  <2>1. p \in Seq(X) /\ F[x] \in X
    BY <1>3, <1>4
  <2> HIDE DEF X
  <2>2. /\ r \in Seq(X) /\ Len(r) = Len(p) + 1 /\ r[Len(p) + 1] = F[x]
        /\ \A n \in 1 .. Len(p) : r[n] = p[n]
    BY <2>1, AppendProperties
  <2> QED
    BY <1>4, <2>2 DEF X
<1> HIDE DEF r
<1>7. \A n \in 1 .. Len(c) + 1 : q[n] = r[n]
  <2> SUFFICES ASSUME NEW n \in 1 .. Len(c) + 1 PROVE q[n] = r[n]
    OBVIOUS
  <2>1. CASE n \in 1 .. Len(c)
    BY <1>1, <1>4, <1>5, <1>6, <2>1
  <2>2. CASE n = Len(c) + 1
    BY <1>1, <1>5, <1>6, <2>2
  <2> QED
    BY <1>1, <2>1, <2>2
<1>8. q = r
  BY <1>5, <1>6, <1>7, SeqEqual
<1>9. Concatenated(p) \in Seq(Starts) /\ Concatenated(r) = Concatenated(p) \o F[x]
  BY <1>3, <1>4, ConcatenatedAppends DEF r
<1> QED
  BY <1>8, <1>9 DEF Replaced, d, p, q

LEMMA ReplacedInOrder ==
  ASSUME tape \in Tapes, NEW F, Refines(F)
  PROVE  \A c \in Seq(Starts) :
           /\ Replaced(c, F) \in Seq(Starts)
           /\ Items(Replaced(c, F)) = UNION {Items(F[x]) : x \in Items(c)}
           /\ Spread(c) => Spread(Replaced(c, F))
<1> DEFINE Good(c) ==
             /\ Replaced(c, F) \in Seq(Starts)
             /\ Items(Replaced(c, F)) = UNION {Items(F[x]) : x \in Items(c)}
             /\ Spread(c) => Spread(Replaced(c, F))
           T == {c \in Seq(Starts) : Good(c)}
<1>1. <<>> \in T
  <2>1. Replaced(<<>>, F) = Concatenated(<<>>)
    <3>1. [n \in DOMAIN <<>> |-> F[<<>>[n]]] = <<>>
      OBVIOUS
    <3> QED
      BY <3>1 DEF Replaced
  <2>2. Items(Replaced(<<>>, F)) = {} /\ Spread(Replaced(<<>>, F)) /\ Items(<<>>) = {}
        /\ Replaced(<<>>, F) = <<>>
    BY <2>1, ConcatenatedEmpty, ItemsOf
  <2>3. UNION {Items(F[x]) : x \in Items(<<>>)} = {}
    BY <2>2
  <2>4. <<>> \in Seq(Starts)
    OBVIOUS
  <2>5. Good(<<>>)
    BY <2>2, <2>3, <2>4
  <2> HIDE DEF Good
  <2> QED
    BY <2>4, <2>5
<1>2. ASSUME NEW c \in Seq(Starts), NEW x \in Starts, c \in T
      PROVE  Append(c, x) \in T
  <2> DEFINE r == Replaced(c, F)
  <2>1. /\ F \in [Starts -> Seq(Starts)] /\ F[x] \in Seq(Starts) /\ Append(c, x) \in Seq(Starts)
        /\ Spread(F[x]) /\ \A y \in Items(F[x]) : Inside(y, x)
    BY DEF Refines
  <2>2. r \in Seq(Starts) /\ Replaced(Append(c, x), F) = r \o F[x]
    BY <2>1, ReplacedAppends
  <2>3. Items(r) = UNION {Items(F[y]) : y \in Items(c)} /\ (Spread(c) => Spread(r))
    BY <1>2
  <2>4. Items(Append(c, x)) = Items(c) \cup {x}
    BY ItemsAppend
  <2>5. Items(r \o F[x]) = Items(r) \cup Items(F[x])
    BY <2>1, <2>2, ItemsJoin
  <2>6. Items(c) \subseteq Starts
    BY ElementOfSeq DEF Items
  <2>7. ASSUME Spread(Append(c, x))
        PROVE  Spread(r \o F[x])
    <3>1. Spread(c) /\ \A y \in Items(c) : AfterIndex(y) <= x
      BY <2>7, ItemsAppend
    <3>2. ASSUME NEW y \in Items(r), NEW z \in Items(F[x])
          PROVE  AfterIndex(y) <= z
      <4>1. PICK w \in Items(c) : y \in Items(F[w])
        BY <2>3
      <4>2. w \in Starts /\ Inside(y, w) /\ AfterIndex(w) <= x /\ Inside(z, x)
        BY <2>1, <2>6, <3>1, <4>1 DEF Refines
      <4>3. y \in Starts /\ z \in Starts
        BY <4>2 DEF Inside
      <4>4. x \in Nat /\ z \in Nat /\ AfterIndex(w) \in Nat /\ AfterIndex(y) \in Nat
        <5>1. \A j \in Starts : j \in Nat /\ AfterIndex(j) \in Nat
          BY ONLY tape \in Tapes, ElementFacts
        <5> QED
          BY ONLY x \in Starts, <4>2, <4>3, <5>1
      <4> QED
        BY <4>2, <4>4 DEF Inside
    <3> HIDE DEF r
    <3> QED
      BY <2>1, <2>2, <2>3, <3>1, <3>2, ItemsJoin
  <2> HIDE DEF r
  <2>8. Items(r \o F[x]) = UNION {Items(F[y]) : y \in Items(Append(c, x))}
    BY <2>3, <2>4, <2>5
  <2>9. r \o F[x] \in Seq(Starts)
    BY <2>1, <2>2
  <2> QED
    BY <2>1, <2>2, <2>7, <2>8, <2>9
<1> HIDE DEF T, Good
<1>3. Seq(Starts) \subseteq T
  BY <1>1, <1>2, SequenceInduction
<1> QED
  BY <1>3 DEF T, Good

-----------------------------------------------------------------------------
(* Paths with wildcards *)

Leads(literal) ==
  [x \in Starts |-> IF AtTokens(x, literal).rc = "ok"
                    THEN <<AtTokens(x, literal).index>> ELSE <<>>]

Expands == [x \in Starts |-> Expand(x)]

TokensAreSegments == Seq(Tokens) \subseteq Seq(Segments)

LEMMA TokenPaths == TokensAreSegments
<1>1. Tokens \subseteq Segments
  BY DEF Segments
<1> QED
  BY <1>1 DEF TokensAreSegments

LEMMA LeadsRefines ==
  ASSUME tape \in Tapes, NEW literal \in Seq(Tokens)
  PROVE  /\ Refines(Leads(literal))
         /\ \A x \in Starts : Items(Leads(literal)[x]) = Named(x, literal)
<1>1. ASSUME NEW x \in Starts
      PROVE  /\ Leads(literal)[x] \in Seq(Starts)
             /\ Spread(Leads(literal)[x])
             /\ Items(Leads(literal)[x]) = Named(x, literal)
             /\ \A y \in Named(x, literal) : Inside(y, x)
  <2> DEFINE a == AtTokens(x, literal)
  <2>1. a \in Answers /\ Names(a, Named(x, literal))
    BY AtTokensNames
  <2>2. literal \in Seq(Segments)
    BY TokenPaths DEF TokensAreSegments
  <2>3. \A y \in Named(x, literal) : Inside(y, x)
    BY <2>2, NamedWithin
  <2>4. Leads(literal)[x] = IF a.rc = "ok" THEN <<a.index>> ELSE <<>>
    BY DEF Leads
  <2> HIDE DEF a
  <2>5. CASE a.rc = "ok"
    <3>1. a.index \in Starts /\ Named(x, literal) = {a.index}
      BY <2>1, <2>5, AnswersName DEF Names
    <3>2. Items(<<a.index>>) = {a.index} /\ Spread(<<a.index>>) /\ <<a.index>> \in Seq(Starts)
      BY <3>1, ItemsOf
    <3> QED
      BY <2>3, <2>4, <2>5, <3>1, <3>2
  <2>6. CASE a.rc # "ok"
    <3>1. Named(x, literal) = {}
      BY <2>1, <2>6 DEF Names
    <3>2. Items(<<>>) = {} /\ Spread(<<>>) /\ <<>> \in Seq(Starts)
      BY ItemsOf
    <3> QED
      BY <2>3, <2>4, <2>6, <3>1, <3>2
  <2> QED
    BY <2>5, <2>6
<1>2. Leads(literal) \in [Starts -> Seq(Starts)]
  BY <1>1 DEF Leads
<1> QED
  BY <1>1, <1>2 DEF Refines

LEMMA ExpandArray ==
  ASSUME tape \in Tapes, NEW x \in Containers, TypeAt(x) = "array"
  PROVE  /\ Expand(x) \in Seq(Starts) /\ Spread(Expand(x))
         /\ Items(Expand(x)) = Below(x, Wildcard)
<1> DEFINE c == Children(x)
<1>1. Expand(x) = c /\ c \in Seq(Nat) /\ Len(c) \in Nat
  BY ChildrenSeq DEF Expand
<1>2. \A n \in 1 .. Len(c) : c[n] \in Starts
  BY ChildFacts
<1>3. c \in Seq(Starts)
  <2> HIDE DEF c
  <2> QED
    BY <1>1, <1>2
<1>4. Items(c) = Below(x, Wildcard)
  BY BelowArray DEF Items
<1>5. ASSUME NEW m \in 1 .. Len(c), NEW n \in 1 .. Len(c), m < n
      PROVE  AfterIndex(c[m]) <= c[n]
  <2>1. c[m] = StandsAt(x, m - 1) /\ c[n] = StandsAt(x, n - 1)
    BY ChildFacts
  <2>2. m - 1 \in 0 .. Len(c) /\ n - 1 \in 0 .. Len(c) /\ m - 1 < n - 1
    BY <1>1, <1>5
  <2> QED
    BY <2>1, <2>2, ChildrenIncrease
<1>6. Spread(c)
  BY <1>5 DEF Spread
<1> QED
  BY <1>1, <1>3, <1>4, <1>6

LEMMA ExpandObject ==
  ASSUME tape \in Tapes, NEW x \in Containers, TypeAt(x) = "object"
  PROVE  /\ Expand(x) \in Seq(Starts) /\ Spread(Expand(x))
         /\ Items(Expand(x)) = Below(x, Wildcard)
<1> DEFINE c == Children(x)  N == Len(c) \div 2  v == Expand(x)
<1>1. N \in Nat /\ Len(c) = 2 * N
  BY ObjectIsEven
<1>2. v = [n \in 1 .. N |-> c[2 * n]]
  BY DEF Expand
<1> HIDE DEF v, N
<1>3. \A n \in 1 .. N : 2 * n \in 1 .. Len(c)
  BY <1>1
<1>4. \A n \in 1 .. N : c[2 * n] \in Starts
  BY <1>3, ChildFacts
<1>5. v \in Seq(Starts) /\ Len(v) = N /\ \A n \in 1 .. N : v[n] = c[2 * n]
  BY <1>1, <1>2, <1>4
<1>6. Items(v) = {c[2 * n] : n \in 1 .. N}
  BY <1>5 DEF Items
<1>7. Items(v) = Below(x, Wildcard)
  BY <1>6, BelowObject, ValuesNumbered DEF N
<1>8. ASSUME NEW m \in 1 .. N, NEW n \in 1 .. N, m < n
      PROVE  AfterIndex(v[m]) <= v[n]
  <2>1. 2 * m \in 1 .. Len(c) /\ 2 * n \in 1 .. Len(c)
    BY <1>3
  <2>2. c[2 * m] = StandsAt(x, 2 * m - 1) /\ c[2 * n] = StandsAt(x, 2 * n - 1)
    BY <2>1, ChildFacts
  <2>3. 2 * m - 1 \in 0 .. Len(c) /\ 2 * n - 1 \in 0 .. Len(c) /\ 2 * m - 1 < 2 * n - 1
    BY <1>1, <1>8
  <2>4. AfterIndex(StandsAt(x, 2 * m - 1)) <= StandsAt(x, 2 * n - 1)
    BY <2>3, ChildrenIncrease
  <2> QED
    BY <1>5, <2>2, <2>4
<1>9. Spread(v)
  BY <1>5, <1>8 DEF Spread
<1> QED
  BY <1>5, <1>7, <1>9 DEF v

LEMMA ExpandsRefines ==
  ASSUME tape \in Tapes
  PROVE  Refines(Expands) /\ \A x \in Starts : Items(Expands[x]) = Below(x, Wildcard)
<1>1. ASSUME NEW x \in Starts
      PROVE  /\ Expand(x) \in Seq(Starts) /\ Spread(Expand(x))
             /\ Items(Expand(x)) = Below(x, Wildcard)
  <2>1. CASE TypeAt(x) = "array"
    <3>1. x \in Containers
      BY <2>1 DEF Containers
    <3> QED
      BY <2>1, <3>1, ExpandArray
  <2>2. CASE TypeAt(x) = "object"
    <3>1. x \in Containers
      BY <2>2 DEF Containers
    <3> QED
      BY <2>2, <3>1, ExpandObject
  <2>3. CASE TypeAt(x) \notin {"array", "object"}
    <3>1. Expand(x) = <<>>
      BY <2>3 DEF Expand
    <3>2. <<>> \in Seq(Starts)
      OBVIOUS
    <3> QED
      BY <2>3, <3>1, <3>2, BelowLeaf, ItemsOf
  <2> QED
    BY <2>1, <2>2, <2>3
<1>2. \A x \in Starts : Expands[x] = Expand(x)
  BY DEF Expands
<1>3. Expands \in [Starts -> Seq(Starts)]
  BY <1>1 DEF Expands
<1>4. \A x \in Starts : \A y \in Below(x, Wildcard) : Inside(y, x)
  BY BelowIsBelow
<1> QED
  BY <1>1, <1>2, <1>3, <1>4 DEF Refines

\* What the loop over the segments carries along.
States == [current : Seq(Starts), literal : Seq(Tokens)]

\* The branches are in order, and what remains to be followed of them names what the
\* segments read so far name.
Reached(state, set) ==
  /\ state \in States
  /\ Spread(state.current)
  /\ UNION {Named(x, state.literal) : x \in Items(state.current)} = set

LEMMA ApplyLiteralReaches ==
  ASSUME tape \in Tapes, NEW state, NEW set, Reached(state, set)
  PROVE  /\ ApplyLiteral(state) \in States
         /\ ApplyLiteral(state).literal = <<>>
         /\ Spread(ApplyLiteral(state).current)
         /\ Items(ApplyLiteral(state).current) = set
<1> DEFINE c == state.current  F == Leads(state.literal)
<1>1. c \in Seq(Starts) /\ state.literal \in Seq(Tokens) /\ Spread(c)
  BY DEF Reached, States
<1>2. Refines(F) /\ \A x \in Starts : Items(F[x]) = Named(x, state.literal)
  BY <1>1, LeadsRefines
<1>3. ApplyLiteral(state) = [current |-> Replaced(c, F), literal |-> <<>>]
  <2>1. \A n \in DOMAIN c : c[n] \in Starts
    BY <1>1, ElementOfSeq
  <2>2. \A n \in DOMAIN c :
          F[c[n]] = IF AtTokens(c[n], state.literal).rc = "ok"
                    THEN <<AtTokens(c[n], state.literal).index>> ELSE <<>>
    BY <2>1 DEF Leads
  <2>3. [n \in DOMAIN c |-> F[c[n]]] =
          [n \in DOMAIN c |-> IF AtTokens(c[n], state.literal).rc = "ok"
                              THEN <<AtTokens(c[n], state.literal).index>> ELSE <<>>]
    <3> HIDE DEF c, F
    <3> QED
      BY <2>2
  <2>4. ApplyLiteral(state) =
          [current |-> Concatenated(
             [n \in DOMAIN c |-> IF AtTokens(c[n], state.literal).rc = "ok"
                                 THEN <<AtTokens(c[n], state.literal).index>> ELSE <<>>]),
           literal |-> <<>>]
    BY DEF ApplyLiteral
  <2> QED
    BY <2>3, <2>4 DEF Replaced
<1> HIDE DEF c, F
<1>4. /\ Replaced(c, F) \in Seq(Starts) /\ Spread(Replaced(c, F))
      /\ Items(Replaced(c, F)) = UNION {Items(F[x]) : x \in Items(c)}
  BY <1>1, <1>2, ReplacedInOrder
<1>5. Items(c) \subseteq Starts
  BY <1>1, ElementOfSeq DEF Items
<1>6. UNION {Items(F[x]) : x \in Items(c)} = UNION {Named(x, state.literal) : x \in Items(c)}
  BY <1>2, <1>5
<1>7. UNION {Named(x, state.literal) : x \in Items(c)} = set
  BY DEF Reached, c
<1>8. <<>> \in Seq(Tokens)
  OBVIOUS
<1>9. Items(Replaced(c, F)) = set
  BY <1>4, <1>6, <1>7
<1> QED
  <2> DEFINE r == Replaced(c, F)
  <2>1. r \in Seq(Starts) /\ Spread(r) /\ Items(r) = set
    BY <1>4, <1>9
  <2>2. ApplyLiteral(state) = [current |-> r, literal |-> <<>>]
    BY <1>3
  <2> HIDE DEF r
  <2> QED
    BY <1>8, <2>1, <2>2 DEF States

LEMMA ExpandAllReaches ==
  ASSUME tape \in Tapes, NEW c \in Seq(Starts), Spread(c)
  PROVE  /\ ExpandAll(c) \in Seq(Starts) /\ Spread(ExpandAll(c))
         /\ Items(ExpandAll(c)) = UNION {Below(x, Wildcard) : x \in Items(c)}
<1>1. \A n \in DOMAIN c : c[n] \in Starts
  BY ElementOfSeq
<1>2. [n \in DOMAIN c |-> Expands[c[n]]] = [n \in DOMAIN c |-> Expand(c[n])]
  BY <1>1 DEF Expands
<1>3. ExpandAll(c) = Replaced(c, Expands)
  BY <1>2 DEF ExpandAll, Replaced
<1>4. Refines(Expands) /\ \A x \in Starts : Items(Expands[x]) = Below(x, Wildcard)
  BY ExpandsRefines
<1>5. /\ Replaced(c, Expands) \in Seq(Starts) /\ Spread(Replaced(c, Expands))
      /\ Items(Replaced(c, Expands)) = UNION {Items(Expands[x]) : x \in Items(c)}
  BY <1>4, ReplacedInOrder
<1>6. Items(c) \subseteq Starts
  BY ElementOfSeq DEF Items
<1>7. UNION {Items(Expands[x]) : x \in Items(c)} = UNION {Below(x, Wildcard) : x \in Items(c)}
  BY <1>4, <1>6
<1> QED
  BY <1>3, <1>5, <1>7

\* One segment more.
LEMMA StepReaches ==
  ASSUME tape \in Tapes, NEW state, NEW set, Reached(state, set), NEW segment \in Segments
  PROVE  Reached(Step(state, segment), UNION {Below(x, segment) : x \in set})
<1> DEFINE after == UNION {Below(x, segment) : x \in set}
<1>1. /\ state \in States /\ state.current \in Seq(Starts) /\ state.literal \in Seq(Tokens)
      /\ Spread(state.current)
      /\ UNION {Named(x, state.literal) : x \in Items(state.current)} = set
  BY DEF Reached, States
<1>2. CASE segment # Wildcard
  <2> DEFINE longer == Append(state.literal, segment)
  <2>1. segment \in Tokens /\ longer \in Seq(Tokens) /\ state.literal \in Seq(Segments)
    BY <1>1, <1>2, TokenPaths DEF Segments, TokensAreSegments
  <2>2. Step(state, segment) = [state EXCEPT !.literal = longer]
    BY <1>2 DEF Step
  <2>3. Items(state.current) \subseteq Starts
    BY <1>1, ElementOfSeq DEF Items
  <2>4. \A x \in Items(state.current) :
          Named(x, longer) = UNION {Below(y, segment) : y \in Named(x, state.literal)}
    BY <2>1, <2>3, NamedAppends
  <2> HIDE DEF longer
  <2>5. UNION {Named(x, longer) : x \in Items(state.current)} = after
    BY <1>1, <2>4
  <2>6. /\ Step(state, segment).current = state.current
        /\ Step(state, segment).literal = longer
        /\ Step(state, segment) \in States
    BY <1>1, <2>1, <2>2 DEF States
  <2> QED
    BY <1>1, <2>5, <2>6 DEF Reached
<1>3. CASE segment = Wildcard
  <2> DEFINE applied == ApplyLiteral(state)  c == applied.current
  <2>1. /\ applied \in States /\ applied.literal = <<>> /\ Spread(c) /\ Items(c) = set
        /\ c \in Seq(Starts)
    BY ApplyLiteralReaches DEF States
  <2>2. Step(state, segment) = [applied EXCEPT !.current = ExpandAll(c)]
    BY <1>3 DEF Step
  <2> HIDE DEF applied
  <2>3. /\ ExpandAll(c) \in Seq(Starts) /\ Spread(ExpandAll(c))
        /\ Items(ExpandAll(c)) = UNION {Below(x, Wildcard) : x \in Items(c)}
    BY <2>1, ExpandAllReaches
  <2>4. /\ Step(state, segment).current = ExpandAll(c)
        /\ Step(state, segment).literal = <<>>
        /\ Step(state, segment) \in States
    BY <2>1, <2>2, <2>3 DEF States
  <2>5. Items(ExpandAll(c)) \subseteq Starts
    BY <2>3, ElementOfSeq DEF Items
  <2>6. \A x \in Items(ExpandAll(c)) : Named(x, <<>>) = {x}
    BY <2>5, NamedEmpty
  <2>7. UNION {Named(x, <<>>) : x \in Items(ExpandAll(c))} = Items(ExpandAll(c))
    BY <2>6
  <2>8. Items(ExpandAll(c)) = after
    BY <1>3, <2>1, <2>3
  <2> QED
    BY <2>3, <2>4, <2>7, <2>8 DEF Reached
<1> QED
  BY <1>2, <1>3

\* The loop over the segments, as a fold.
Begun(view) == [current |-> <<view>>, literal |-> <<>>]

InOrder == {state \in States : Spread(state.current)}

Walks == [a \in InOrder \X Segments |-> Step(a[1], a[2])]

LEMMA BegunReaches ==
  ASSUME tape \in Tapes, NEW view \in Starts
  PROVE  Reached(Begun(view), {view})
<1>1. Items(<<view>>) = {view} /\ Spread(<<view>>) /\ Named(view, <<>>) = {view}
  BY ItemsOf, NamedEmpty
<1>2. /\ Begun(view).current = <<view>> /\ Begun(view).literal = <<>>
      /\ Begun(view) \in States
  BY DEF Begun, States
<1>3. UNION {Named(x, <<>>) : x \in Items(<<view>>)} = {view}
  BY <1>1
<1> QED
  BY <1>1, <1>2, <1>3 DEF Reached

LEMMA WalksType ==
  ASSUME tape \in Tapes, NEW view \in Starts
  PROVE  Folds(InOrder, Segments, Begun(view), Walks)
<1>1. Begun(view) \in InOrder
  BY BegunReaches DEF InOrder, Reached
<1>2. ASSUME NEW state \in InOrder, NEW segment \in Segments
      PROVE  Step(state, segment) \in InOrder
  <2> DEFINE set == UNION {Named(x, state.literal) : x \in Items(state.current)}
  <2>1. Reached(state, set)
    BY DEF Reached, InOrder
  <2> HIDE DEF set
  <2>2. Reached(Step(state, segment), UNION {Below(x, segment) : x \in set})
    BY <2>1, StepReaches
  <2> QED
    BY <2>2 DEF Reached, InOrder
<1>3. \A a \in InOrder \X Segments : Step(a[1], a[2]) \in InOrder
  BY <1>2
<1> QED
  BY <1>1, <1>3 DEF Walks, Folds

LEMMA WalksReach ==
  ASSUME tape \in Tapes, NEW view \in Starts
  PROVE  \A s \in Seq(Segments) : \A f \in [0 .. Len(s) -> InOrder] :
           Fold(Begun(view), Walks, s, f) => Reached(f[Len(s)], Named(view, s))
<1> DEFINE T == {s \in Seq(Segments) : \A f \in [0 .. Len(s) -> InOrder] :
                   Fold(Begun(view), Walks, s, f) => Reached(f[Len(s)], Named(view, s))}
<1>1. <<>> \in T
  <2>1. <<>> \in Seq(Segments) /\ Len(<<>>) = 0
    OBVIOUS
  <2>2. ASSUME NEW f \in [0 .. 0 -> InOrder], Fold(Begun(view), Walks, <<>>, f)
        PROVE  Reached(f[0], Named(view, <<>>))
    <3>1. f[0] = Begun(view)
      BY <2>1, <2>2 DEF Fold
    <3> QED
      BY <3>1, BegunReaches, NamedEmpty
  <2> QED
    BY <2>1, <2>2
<1>2. ASSUME NEW s \in Seq(Segments), NEW e \in Segments, s \in T
      PROVE  Append(s, e) \in T
  <2> DEFINE r == Append(s, e)
  <2>1. r \in Seq(Segments)
    OBVIOUS
  <2>2. ASSUME NEW g \in [0 .. Len(r) -> InOrder], Fold(Begun(view), Walks, r, g)
        PROVE  Reached(g[Len(r)], Named(view, r))
    <3>1. PICK f \in [0 .. Len(s) -> InOrder] : Fold(Begun(view), Walks, s, f)
      BY WalksType, FoldDefines
    <3>2. Reached(f[Len(s)], Named(view, s))
      BY <1>2, <3>1
    <3>3. f[Len(s)] \in InOrder /\ g[Len(r)] = Walks[<<f[Len(s)], e>>]
      BY <2>2, <3>1, WalksType, FoldAppends
    <3>4. Walks[<<f[Len(s)], e>>] = Step(f[Len(s)], e)
      BY <3>3 DEF Walks
    <3>5. Named(view, r) = UNION {Below(x, e) : x \in Named(view, s)}
      BY NamedAppends
    <3> QED
      BY <3>2, <3>3, <3>4, <3>5, StepReaches
  <2> QED
    BY <2>1, <2>2
<1> HIDE DEF T
<1>3. Seq(Segments) \subseteq T
  BY <1>1, <1>2, SequenceInduction
<1> QED
  BY <1>3 DEF T

LEMMA WildcardAnswers ==
  ASSUME tape \in Tapes, NEW view \in Starts, NEW s \in Seq(Segments),
         WildcardAnswer(view, s).rc = "ok"
  PROVE  /\ WildcardAnswer(view, s).indices \in Seq(Starts)
         /\ Spread(WildcardAnswer(view, s).indices)
         /\ Items(WildcardAnswer(view, s).indices) = Named(view, s)
<1> DEFINE Unfolded(g) ==
             g = [n \in 0 .. Len(s) |-> IF n = 0 THEN Begun(view) ELSE Step(g[n - 1], s[n])]
           h == CHOOSE g : Unfolded(g)
<1>1. PICK f \in [0 .. Len(s) -> InOrder] : Fold(Begun(view), Walks, s, f)
  BY WalksType, FoldDefines
<1>2. \A n \in 1 .. Len(s) : \A state \in InOrder : Walks[<<state, s[n]>>] = Step(state, s[n])
  BY ElementOfSeq DEF Walks
<1>3. Len(s) \in Nat /\ \A n \in 0 .. Len(s) : n # 0 => n \in 1 .. Len(s) /\ n - 1 \in 0 .. Len(s)
  OBVIOUS
<1>4. f = [n \in 0 .. Len(s) |-> IF n = 0 THEN Begun(view) ELSE Walks[<<f[n - 1], s[n]>>]]
  BY <1>1 DEF Fold
<1>5. \A n \in 0 .. Len(s) : f[n] = IF n = 0 THEN Begun(view) ELSE Step(f[n - 1], s[n])
  BY <1>1, <1>2, <1>3, <1>4
<1>6. Unfolded(f)
  BY <1>4, <1>5
<1>7. Unfolded(h)
  <2> HIDE DEF Unfolded
  <2> QED
    BY <1>6
<1>8. WildcardAnswer(view, s).indices = ApplyLiteral(h[Len(s)]).current
  <2>1. WildcardAnswer(view, s) =
          IF Wildcard \notin {s[n] : n \in DOMAIN s}
          THEN [rc |-> "invalid_path", indices |-> <<>>]
          ELSE [rc |-> "ok", indices |-> ApplyLiteral(h[Len(s)]).current]
    BY DEF WildcardAnswer, Begun
  <2> HIDE DEF h
  <2> QED
    BY <2>1
<1>9. h[0] = Begun(view) /\ \A n \in 1 .. Len(s) : h[n] = Step(h[n - 1], s[n])
  <2> HIDE DEF h
  <2> QED
    BY <1>3, <1>7
<1> HIDE DEF Unfolded, h
<1>10. \A n \in 1 .. Len(s) : h[n - 1] \in InOrder => h[n] = Walks[<<h[n - 1], s[n]>>]
  BY <1>2, <1>9
<1>11. Follows(InOrder, Begun(view), Walks, s, h)
  BY <1>9, <1>10 DEF Follows
<1>12. h[Len(s)] = f[Len(s)]
  BY <1>1, <1>11, WalksType, FoldFollows
<1>13. Reached(h[Len(s)], Named(view, s))
  BY <1>1, <1>12, WalksReach
<1> DEFINE state == ApplyLiteral(h[Len(s)])
<1>14. state \in States /\ Spread(state.current) /\ Items(state.current) = Named(view, s)
  BY <1>13, ApplyLiteralReaches
<1> HIDE DEF state
<1>15. state.current \in Seq(Starts)
  BY <1>14 DEF States
<1> QED
  BY <1>8, <1>14, <1>15 DEF state

-----------------------------------------------------------------------------
(* The two properties *)

LEMMA PathsAreSequences ==
  ASSUME NEW path \in Paths
  PROVE  /\ path \in Seq(Segments)
         /\ Wildcard \notin {path[n] : n \in DOMAIN path} => path \in Seq(Tokens)
<1>1. PICK n \in 1 .. 3 : path \in [1 .. n -> Segments]
  BY DEF Paths, Segments
<1>2. path \in Seq(Segments) /\ DOMAIN path = 1 .. n
  BY <1>1
<1>3. ASSUME Wildcard \notin {path[m] : m \in DOMAIN path}
      PROVE  path \in Seq(Tokens)
  <2>1. \A m \in 1 .. n : path[m] \in Tokens
    BY <1>1, <1>2, <1>3 DEF Segments
  <2>2. path \in [1 .. n -> Tokens]
    BY <1>1, <2>1
  <2> QED
    BY <2>2
<1> QED
  BY <1>2, <1>3

\* A valid answer passes the wrappers' checks as it is.
LEMMA CheckedAnswers ==
  ASSUME tape \in Tapes, NEW a \in Answers
  PROVE  Checked(a) = a
<1>1. a.rc = "ok" => a.index \in Starts
  BY AnswersName
<1>2. a.rc = "ok" => a.index # 0
  BY <1>1, ElementFacts
<1> QED
  BY <1>2 DEF Checked

\* The children of an array, and the values of an object, are as many as are counted.
LEMMA ItemsCounted ==
  ASSUME tape \in Tapes, NEW s \in Seq(Starts), Spread(s)
  PROVE  Cardinality(Items(s)) = Len(s)
<1> DEFINE N == Len(s)
           f == [n \in 1 .. N |-> s[n]]
<1>1. N \in Nat /\ \A n \in 1 .. N : s[n] \in Starts
  BY ElementOfSeq
<1>2. \A x \in Starts : x \in Nat /\ AfterIndex(x) \in Nat /\ AfterIndex(x) >= x + 1
  BY ElementFacts
<1>3. ASSUME NEW m \in 1 .. N, NEW n \in 1 .. N, m < n
      PROVE  s[m] # s[n]
  <2>1. AfterIndex(s[m]) <= s[n]
    BY <1>3 DEF Spread
  <2>2. s[m] \in Nat /\ s[n] \in Nat /\ AfterIndex(s[m]) \in Nat /\ AfterIndex(s[m]) >= s[m] + 1
    BY <1>1, <1>2
  <2> QED
    BY <2>1, <2>2
<1>4. \A m, n \in 1 .. N : s[m] = s[n] => m = n
  <2>1. \A m, n \in 1 .. N : m = n \/ m < n \/ n < m
    BY <1>1
  <2> HIDE DEF N
  <2> QED
    BY <1>3, <2>1
<1>5. f \in [1 .. N -> Items(s)] /\ \A n \in 1 .. N : f[n] = s[n]
  BY DEF Items
<1> HIDE DEF f
<1>6. f \in Injection(1 .. N, Items(s))
  BY <1>4, <1>5 DEF Injection, IsInjective
<1>7. f \in Surjection(1 .. N, Items(s))
  BY <1>5 DEF Surjection, Items
<1>8. ExistsBijection(1 .. N, Items(s))
  BY <1>6, <1>7 DEF ExistsBijection, Bijection
<1> QED
  BY <1>1, <1>8, FS_CountingElements

\* Every sequence of tokens, however long, leads to the one element it names.
THEOREM PathsNameOneElement ==
  ASSUME tape \in Tapes, NEW view \in Starts, NEW tokens \in Seq(Tokens)
  PROVE  Names(PathAnswer(view, tokens), Named(view, tokens))
<1>1. AtTokens(view, tokens) \in Answers /\ Names(AtTokens(view, tokens), Named(view, tokens))
  BY AtTokensNames
<1> QED
  BY <1>1, CheckedAnswers DEF PathAnswer

LEMMA FieldsAgree ==
  ASSUME tape \in Tapes, NEW view \in Starts, NEW key \in Tokens
  PROVE  Names(FieldAnswer(view, key),
               IF TypeAt(view) = "object" THEN Below(view, key) ELSE {})
<1>1. CASE TypeAt(view) = "object"
  <2>1. key # Wildcard
    BY NavigationAssumption
  <2>2. AtToken(view, key) \in Answers /\ Names(AtToken(view, key), Below(view, key))
    BY <2>1, AtTokenNames
  <2>3. FieldAnswer(view, key) = AtToken(view, key)
    BY <1>1, <2>2, CheckedAnswers DEF FieldAnswer
  <2> QED
    BY <1>1, <2>2, <2>3
<1>2. CASE TypeAt(view) # "object"
  BY <1>2 DEF FieldAnswer, Refused, Names
<1> QED
  BY <1>1, <1>2

LEMMA PositionsAgree ==
  ASSUME tape \in Tapes, NEW view \in Starts, NEW token \in DOMAIN Position
  PROVE  Names(PositionAnswer(view, Position[token]),
               IF TypeAt(view) = "array" THEN Below(view, token) ELSE {})
<1>1. CASE TypeAt(view) = "array"
  <2>1. view \in Containers
    BY <1>1 DEF Containers
  <2> DEFINE a == At(view, Position[token])
  <2>2. a \in Answers /\ Names(a, Below(view, token))
    BY <1>1, <2>1, AtNames
  <2>3. PositionAnswer(view, Position[token]) = Checked(a)
    BY <1>1 DEF PositionAnswer
  <2> HIDE DEF a
  <2>4. Checked(a) = a
    BY <2>2, CheckedAnswers
  <2> QED
    BY <1>1, <2>2, <2>3, <2>4
<1>2. CASE TypeAt(view) # "array"
  BY <1>2 DEF PositionAnswer, Refused, Names
<1> QED
  BY <1>1, <1>2

LEMMA WordsAgree ==
  ASSUME tape \in Tapes, NEW view \in Starts
  PROVE  AfterChecked(view) /\ (view \in Containers => BoundsOrdered(view))
<1>1. view \in Nat /\ view >= 1 /\ AfterIndex(view) \in Nat /\ AfterIndex(view) >= view + 1
  BY ElementFacts
<1>2. AfterChecked(view)
  BY <1>1 DEF AfterChecked
<1>3. ASSUME view \in Containers
      PROVE  BoundsOrdered(view)
  <2>1. 0 \in 0 .. Len(Children(view))
    BY <1>3, ChildrenSeq
  <2>2. StandsAt(view, 0) \in view + 1 .. AfterIndex(view) - 1
    BY <1>3, <2>1, NextChild
  <2> QED
    BY <1>1, <2>2 DEF BoundsOrdered, Bounds
<1> QED
  BY <1>2, <1>3

LEMMA CountsAgree ==
  ASSUME tape \in Tapes, NEW view \in Containers
  PROVE  /\ TypeAt(view) = "array" =>
              LET n == CountAnswer(view, "array").index IN
              n < MaxCount => n = Cardinality(Elements(view))
         /\ TypeAt(view) = "object" =>
              LET n == CountAnswer(view, "object").index IN
              n < MaxCount => n = Cardinality(Values(view))
<1> DEFINE N == Len(Children(view))
<1>1. N \in Nat /\ MaxCount \in Nat
  BY ChildrenSeq, NavigationAssumption
<1>2. \A n \in Nat : Saturated(n) < MaxCount => Saturated(n) = n
  BY <1>1 DEF Saturated
<1>3. ASSUME TypeAt(view) = "array"
      PROVE  LET n == CountAnswer(view, "array").index IN
             n < MaxCount => n = Cardinality(Elements(view))
  <2>1. CountAnswer(view, "array").index = Saturated(N)
    BY <1>3 DEF CountAnswer, Found
  <2>2. /\ Expand(view) \in Seq(Starts) /\ Spread(Expand(view))
        /\ Items(Expand(view)) = Below(view, Wildcard)
    BY <1>3, ExpandArray
  <2>3. Expand(view) = Children(view) /\ Below(view, Wildcard) = Elements(view)
    BY <1>3 DEF Expand, Below
  <2>4. Cardinality(Elements(view)) = N
    BY <2>2, <2>3, ItemsCounted
  <2> QED
    BY <1>1, <1>2, <2>1, <2>4
<1>4. ASSUME TypeAt(view) = "object"
      PROVE  LET n == CountAnswer(view, "object").index IN
             n < MaxCount => n = Cardinality(Values(view))
  <2> DEFINE H == N \div 2
  <2>0. H \in Nat
    BY <1>4, ObjectIsEven
  <2>1. CountAnswer(view, "object").index = Saturated(H)
    BY <1>4 DEF CountAnswer, Found
  <2>2. /\ Expand(view) \in Seq(Starts) /\ Spread(Expand(view))
        /\ Items(Expand(view)) = Below(view, Wildcard)
    BY <1>4, ExpandObject
  <2>3. Len(Expand(view)) = H
    <3>1. Expand(view) = [n \in 1 .. H |-> Children(view)[2 * n]]
      BY <1>4 DEF Expand
    <3> HIDE DEF H
    <3> QED
      BY <2>0, <2>2, <3>1
  <2>4. Below(view, Wildcard) = Values(view)
    BY <1>4 DEF Below
  <2>5. Cardinality(Values(view)) = H
    BY <2>2, <2>3, <2>4, ItemsCounted
  <2> HIDE DEF H
  <2> QED
    BY <1>2, <2>0, <2>1, <2>5
<1> QED
  BY <1>3, <1>4

\* Reading by key, by position, by pointer or path and by count agrees with what iterating
\* yields, for every well-formed document, keys and numbers.
THEOREM LookupsAgreeCorrect == Spec => []LookupsAgree
<1>1. TypeOK => LookupsAgree
  <2> SUFFICES ASSUME tape \in Tapes
               PROVE  LookupsAgree
    BY DEF TypeOK
  <2>1. ASSUME NEW view \in Starts, NEW path \in Paths,
               Wildcard \notin {path[n] : n \in DOMAIN path}
        PROVE  Names(PathAnswer(view, path), Named(view, path))
    BY <2>1, PathsAreSequences, PathsNameOneElement
  <2>2. ASSUME NEW view \in Starts, TypeAt(view) = "array"
        PROVE  LET n == CountAnswer(view, "array").index IN
               BoundsOrdered(view) /\ (n < MaxCount => n = Cardinality(Elements(view)))
    <3>1. view \in Containers
      BY <2>2 DEF Containers
    <3> QED
      BY <2>2, <3>1, WordsAgree, CountsAgree
  <2>3. ASSUME NEW view \in Starts, TypeAt(view) = "object"
        PROVE  LET n == CountAnswer(view, "object").index IN
               BoundsOrdered(view) /\ (n < MaxCount => n = Cardinality(Values(view)))
    <3>1. view \in Containers
      BY <2>3 DEF Containers
    <3> QED
      BY <2>3, <3>1, WordsAgree, CountsAgree
  <2> QED
    BY <2>1, <2>2, <2>3, FieldsAgree, PositionsAgree, WordsAgree DEF LookupsAgree
<1> QED
  BY <1>1, CursorTypeCorrect, PTL

\* Every path with wildcards, however long, is answered with the elements it names, each once
\* and in document order.
THEOREM WildcardsNameInOrder ==
  ASSUME tape \in Tapes, NEW view \in Starts, NEW segments \in Seq(Segments),
         WildcardAnswer(view, segments).rc = "ok"
  PROVE  LET answer == WildcardAnswer(view, segments) IN
         /\ {answer.indices[n] : n \in DOMAIN answer.indices} = Named(view, segments)
         /\ \A n \in 1 .. Len(answer.indices) - 1 : answer.indices[n] < answer.indices[n + 1]
         /\ Named(view, segments) \subseteq Reachable(view)
<1> DEFINE r == WildcardAnswer(view, segments).indices
<1>1. r \in Seq(Starts) /\ Spread(r) /\ Items(r) = Named(view, segments)
  BY WildcardAnswers
<1>2. Named(view, segments) \subseteq Reachable(view)
  BY NamedWithin
<1> HIDE DEF r
<1>3. DOMAIN r = 1 .. Len(r) /\ Len(r) \in Nat /\ \A n \in 1 .. Len(r) : r[n] \in Starts
  BY <1>1, ElementOfSeq, LenProperties
<1>4. ASSUME NEW n \in 1 .. Len(r) - 1
      PROVE  r[n] < r[n + 1]
  <2>1. n \in 1 .. Len(r) /\ n + 1 \in 1 .. Len(r) /\ n < n + 1
    BY <1>3
  <2>2. AfterIndex(r[n]) <= r[n + 1]
    BY <1>1, <2>1 DEF Spread
  <2>3. \A x \in Starts : x \in Nat /\ AfterIndex(x) \in Nat /\ AfterIndex(x) >= x + 1
    BY ElementFacts
  <2>4. r[n] \in Nat /\ r[n + 1] \in Nat /\ AfterIndex(r[n]) \in Nat /\ AfterIndex(r[n]) >= r[n] + 1
    BY <1>3, <2>1, <2>3
  <2> QED
    BY <2>2, <2>4
<1> QED
  BY <1>1, <1>2, <1>3, <1>4 DEF r, Items

\* A wildcard path's answer is what it names, in document order and below the view.
THEOREM WildcardInOrderCorrect == Spec => []WildcardInOrder
<1>1. TypeOK => WildcardInOrder
  <2> SUFFICES ASSUME tape \in Tapes
               PROVE  WildcardInOrder
    BY DEF TypeOK
  <2>1. ASSUME NEW view \in Starts, NEW path \in Paths, WildcardAnswer(view, path).rc = "ok"
        PROVE  LET answer == WildcardAnswer(view, path) IN
               /\ {answer.indices[n] : n \in DOMAIN answer.indices} = Named(view, path)
               /\ \A n \in 1 .. Len(answer.indices) - 1 : answer.indices[n] < answer.indices[n + 1]
               /\ Named(view, path) \subseteq Reachable(view)
    BY <2>1, PathsAreSequences, WildcardsNameInOrder
  <2> QED
    BY <2>1 DEF WildcardInOrder
<1> QED
  BY <1>1, CursorTypeCorrect, PTL

-----------------------------------------------------------------------------
(* Loops over a container *)

\* A loop ends at the first place of the iterator that is the closing bracket.
LEMMA LoopEnds ==
  ASSUME tape \in Tapes, NEW i \in Containers, NEW N \in 0 .. Len(tape),
         Iterator(i)[N] = Bounds(i).state1,
         \A n \in 0 .. N - 1 : Iterator(i)[n] # Bounds(i).state1
  PROVE  Turns(i) = [n \in 1 .. N |-> Iterator(i)[n - 1]]
<1> DEFINE place == Iterator(i)
           Ends(n) == place[n] = Bounds(i).state1
           First(n) == Ends(n) /\ \A m \in 0 .. n - 1 : ~Ends(m)
           count == CHOOSE n \in 0 .. Len(tape) : First(n)
<1>1. IsContainer(i)
  BY DEF Containers, IsContainer
<1>2. Turns(i) = [n \in 1 .. count |-> place[n - 1]]
  BY <1>1 DEF Turns
<1>3. i \in Starts
  BY DEF Containers
<1>4. Len(tape) \in Nat
  BY <1>3, ElementFacts
<1>5. First(N)
  OBVIOUS
<1> HIDE DEF place, Ends
<1>6. First(count) /\ count \in 0 .. Len(tape)
  <2> HIDE DEF First
  <2> QED
    BY <1>5
<1> HIDE DEF count
<1>7. count = N
  <2>1. CASE count < N
    BY <1>4, <1>5, <1>6, <2>1
  <2>2. CASE N < count
    BY <1>4, <1>5, <1>6, <2>2
  <2> QED
    BY <1>4, <1>6, <2>1, <2>2
<1> QED
  BY <1>2, <1>7 DEF place

LEMMA ChildrenFit ==
  ASSUME tape \in Tapes, NEW i \in Containers
  PROVE  Len(Children(i)) \in 0 .. Len(tape)
<1> DEFINE N == Len(Children(i))
<1>1. i \in Starts
  BY DEF Containers
<1>2. i \in 1 .. Len(tape) /\ AfterIndex(i) \in i + 1 .. Len(tape) + 1 /\ Len(tape) \in Nat
  BY <1>1, ElementFacts
<1>3. N \in Nat /\ N \in 0 .. N
  BY ChildrenSeq
<1>4. StandsAt(i, N) >= i + 1 + N /\ StandsAt(i, N) = AfterIndex(i) - 1
  BY <1>3, ChildrenGrow, NextChild
<1> QED
  BY <1>2, <1>3, <1>4

LEMMA ArrayTurns ==
  ASSUME tape \in Tapes, NEW i \in Containers, TypeAt(i) = "array"
  PROVE  Turns(i) = Children(i)
<1> DEFINE N == Len(Children(i))
<1>1. N \in Nat /\ N \in 0 .. Len(tape) /\ Children(i) \in Seq(Nat)
  BY ChildrenFit, ChildrenSeq
<1>2. \A n \in 0 .. N : Iterator(i)[n] = StandsAt(i, n)
  BY ArrayIteratorStands
<1>3. StandsAt(i, N) = Bounds(i).state1
  <2>1. N \in 0 .. N
    BY <1>1
  <2> QED
    BY <2>1, NextChild DEF Bounds
<1>4. \A n \in 0 .. N - 1 : n \in 0 .. N /\ StandsAt(i, n) # Bounds(i).state1
  <2> SUFFICES ASSUME NEW n \in 0 .. N - 1 PROVE n \in 0 .. N /\ StandsAt(i, n) # Bounds(i).state1
    OBVIOUS
  <2>1. n \in 0 .. N /\ n < N
    BY <1>1
  <2>2. StandsAt(i, n) \in i + 1 .. AfterIndex(i) - 1 /\ StandsAt(i, n) < AfterIndex(i) - 1
    BY <2>1, NextChild
  <2>3. StandsAt(i, n) # AfterIndex(i) - 1
    <3>1. i \in Starts
      BY DEF Containers
    <3>2. i \in Nat /\ AfterIndex(i) \in Nat
      BY <3>1, ElementFacts
    <3> QED
      BY <2>2, <3>2
  <2> QED
    BY <2>1, <2>3 DEF Bounds
<1>5. Turns(i) = [n \in 1 .. N |-> Iterator(i)[n - 1]]
  <2> HIDE DEF N
  <2>1. Iterator(i)[N] = Bounds(i).state1
        /\ \A n \in 0 .. N - 1 : Iterator(i)[n] # Bounds(i).state1
    BY <1>1, <1>2, <1>3, <1>4
  <2> QED
    BY <1>1, <2>1, LoopEnds
<1>6. \A n \in 1 .. N : Iterator(i)[n - 1] = Children(i)[n]
  <2> SUFFICES ASSUME NEW n \in 1 .. N PROVE Iterator(i)[n - 1] = Children(i)[n]
    OBVIOUS
  <2>1. n - 1 \in 0 .. N
    BY <1>1
  <2> QED
    BY <1>2, <2>1, ChildFacts
<1> QED
  BY <1>1, <1>5, <1>6

\* The keys of an object, each one word before its value.
LEMMA ObjectTurns ==
  ASSUME tape \in Tapes, NEW i \in Containers, TypeAt(i) = "object"
  PROVE  /\ Turns(i) = [n \in 1 .. Len(Children(i)) \div 2 |-> Children(i)[2 * n - 1]]
         /\ \A n \in 1 .. Len(Children(i)) \div 2 :
              /\ 2 * n - 1 \in 1 .. Len(Children(i)) /\ 2 * n \in 1 .. Len(Children(i))
              /\ Children(i)[2 * n] = Children(i)[2 * n - 1] + 1
<1> DEFINE N == Len(Children(i)) \div 2
<1>1. N \in Nat /\ Len(Children(i)) = 2 * N
  BY ObjectIsEven
<1>2. i \in Starts
  BY DEF Containers
<1>3. i \in Nat /\ AfterIndex(i) \in Nat /\ Len(tape) \in Nat
  BY <1>2, ElementFacts
<1>4. \A n \in 0 .. N : Iterator(i)[n] = StandsAt(i, 2 * n)
  BY ObjectIteratorStands
<1>5. N \in 0 .. Len(tape)
  <2>1. Len(Children(i)) \in 0 .. Len(tape)
    BY ChildrenFit
  <2> HIDE DEF N
  <2> QED
    BY <1>1, <1>3, <2>1
<1> HIDE DEF N
<1>6. ASSUME NEW n \in 1 .. N
      PROVE  /\ 2 * n - 1 \in 1 .. Len(Children(i)) /\ 2 * n \in 1 .. Len(Children(i))
             /\ Children(i)[2 * n] = Children(i)[2 * n - 1] + 1
             /\ Iterator(i)[n - 1] = Children(i)[2 * n - 1]
             /\ Iterator(i)[n - 1] # Bounds(i).state1
  <2>1. /\ 2 * n - 1 \in 1 .. Len(Children(i)) /\ 2 * n \in 1 .. Len(Children(i))
        /\ 2 * (n - 1) = 2 * n - 2 /\ (2 * n - 1) - 1 = 2 * n - 2
        /\ 2 * n - 2 \in 0 .. Len(Children(i)) /\ 2 * n - 2 < Len(Children(i))
        /\ (2 * n - 2) % 2 = 0 /\ n - 1 \in 0 .. N /\ (2 * n - 2) + 1 = (2 * n) - 1
    BY <1>1
  <2>2. StandsAt(i, 2 * n - 2) = Children(i)[2 * n - 1] /\ StandsAt(i, (2 * n) - 1) = Children(i)[2 * n]
    BY <2>1, ChildFacts
  <2>3. StandsAt(i, (2 * n) - 1) = StandsAt(i, 2 * n - 2) + 1
    BY <2>1, Keys
  <2>4. StandsAt(i, 2 * n - 2) \in i + 1 .. AfterIndex(i) - 1
        /\ StandsAt(i, 2 * n - 2) < AfterIndex(i) - 1
    BY <2>1, NextChild
  <2>5. StandsAt(i, 2 * n - 2) # AfterIndex(i) - 1
    BY <1>3, <2>4
  <2> QED
    BY <1>4, <2>1, <2>2, <2>3, <2>5 DEF Bounds
<1>7. Turns(i) = [n \in 1 .. N |-> Iterator(i)[n - 1]]
  <2>1. StandsAt(i, 2 * N) = AfterIndex(i) - 1
    <3>1. 2 * N \in 0 .. Len(Children(i))
      BY <1>1
    <3> QED
      BY <1>1, <3>1, NextChild
  <2>2. Iterator(i)[N] = Bounds(i).state1
    <3>1. N \in 0 .. N
      BY <1>1
    <3> QED
      BY <1>4, <2>1, <3>1 DEF Bounds
  <2>3. ASSUME NEW n \in 0 .. N - 1
        PROVE  Iterator(i)[n] # Bounds(i).state1
    <3>1. n + 1 \in 1 .. N /\ (n + 1) - 1 = n
      BY <1>1
    <3> QED
      BY <1>6, <3>1
  <2> QED
    BY <1>5, <2>2, <2>3, LoopEnds
<1>8. Turns(i) = [n \in 1 .. N |-> Children(i)[2 * n - 1]]
  BY <1>6, <1>7
<1> QED
  BY <1>6, <1>8 DEF N

\* A loop finds elements inside the container, under keys that a frame can have.
LEMMA TurnFacts ==
  ASSUME tape \in Tapes, NEW i \in Starts
  PROVE  /\ Len(Turns(i)) \in Nat /\ DOMAIN Turns(i) = 1 .. Len(Turns(i))
         /\ \A n \in DOMAIN Turns(i) :
              /\ ValueFor(i, Turns(i)[n]) \in Starts
              /\ i < ValueFor(i, Turns(i)[n])
              /\ AfterIndex(ValueFor(i, Turns(i)[n])) < AfterIndex(i)
              /\ KeyFor(i, Turns(i)[n]) \in FrameKeys
<1>1. CASE ~IsContainer(i)
  <2>1. Turns(i) = <<>>
    BY <1>1 DEF Turns
  <2> QED
    BY <2>1
<1>2. ASSUME i \in Containers, NEW n \in 1 .. Len(Children(i))
      PROVE  /\ Children(i)[n] \in Starts /\ i < Children(i)[n]
             /\ AfterIndex(Children(i)[n]) < AfterIndex(i)
  <2>1. /\ Children(i)[n] \in Starts
        /\ Children(i)[n] \in i + 1 .. AfterIndex(i) - 2
        /\ AfterIndex(Children(i)[n]) \in i + 2 .. AfterIndex(i) - 1
    BY <1>2, ChildFacts
  <2>2. i \in Nat /\ AfterIndex(i) \in Nat
    BY ElementFacts
  <2> QED
    BY <2>1, <2>2
<1>3. CASE TypeAt(i) = "array"
  <2>1. i \in Containers
    BY <1>3 DEF Containers
  <2>2. Turns(i) = Children(i) /\ Children(i) \in Seq(Nat)
    BY <1>3, <2>1, ArrayTurns, ChildrenSeq
  <2>3. Len(Turns(i)) \in Nat /\ DOMAIN Turns(i) = 1 .. Len(Turns(i))
    BY <2>2
  <2>4. \A n \in DOMAIN Turns(i) :
          ValueFor(i, Turns(i)[n]) = Children(i)[n] /\ KeyFor(i, Turns(i)[n]) = NoKey
    BY <1>3, <2>2 DEF ValueFor, KeyFor
  <2> QED
    BY <1>2, <2>1, <2>2, <2>3, <2>4 DEF FrameKeys
<1>4. CASE TypeAt(i) = "object"
  <2> DEFINE N == Len(Children(i)) \div 2
  <2>1. i \in Containers
    BY <1>4 DEF Containers
  <2>2. N \in Nat
    BY <1>4, <2>1, ObjectIsEven
  <2>3. /\ Turns(i) = [n \in 1 .. N |-> Children(i)[2 * n - 1]]
        /\ \A n \in 1 .. N :
             /\ 2 * n - 1 \in 1 .. Len(Children(i)) /\ 2 * n \in 1 .. Len(Children(i))
             /\ Children(i)[2 * n] = Children(i)[2 * n - 1] + 1
    BY <1>4, <2>1, ObjectTurns
  <2> HIDE DEF N
  <2>4. Len(Turns(i)) = N /\ DOMAIN Turns(i) = 1 .. N
    BY <2>2, <2>3
  <2>5. \A n \in 1 .. N :
          /\ ValueFor(i, Turns(i)[n]) = Children(i)[2 * n]
          /\ KeyFor(i, Turns(i)[n]) = Payload[tape][Children(i)[2 * n - 1]]
    BY <1>4, <2>3 DEF ValueFor, KeyFor
  <2>6. \A n \in 1 .. N :
          /\ Children(i)[2 * n] \in Starts /\ Children(i)[2 * n - 1] \in Starts
          /\ i < Children(i)[2 * n]
          /\ AfterIndex(Children(i)[2 * n]) < AfterIndex(i)
    BY <1>2, <2>1, <2>3
  <2> QED
    BY <2>2, <2>4, <2>5, <2>6 DEF FrameKeys
<1> QED
  BY <1>1, <1>3, <1>4 DEF IsContainer

-----------------------------------------------------------------------------
(* An element to a value, by iterators and by contents *)

Entry(f, i, p) == [key |-> KeyFor(i, p), value |-> f[ValueFor(i, p)]]
EntriesOf(f, i) == [n \in DOMAIN Turns(i) |-> Entry(f, i, Turns(i)[n])]
ValueByTurns(f, i) == GoValue(TypeAt(i), Content(i), EntriesOf(f, i))

LEMMA ValueByTurnsLooksInside ==
  ASSUME tape \in Tapes, NEW i \in Starts, NEW f, NEW g,
         \A j \in Starts : i < j => f[j] = g[j]
  PROVE  ValueByTurns(f, i) = ValueByTurns(g, i)
<1>1. \A n \in DOMAIN Turns(i) : Entry(f, i, Turns(i)[n]) = Entry(g, i, Turns(i)[n])
  BY TurnFacts DEF Entry
<1>2. EntriesOf(f, i) = EntriesOf(g, i)
  BY <1>1 DEF EntriesOf
<1> QED
  BY <1>2 DEF ValueByTurns

LEMMA ViaAccessorsValues ==
  ASSUME tape \in Tapes
  PROVE  \A i \in Starts : ViaAccessors[i] = ValueByTurns(ViaAccessors, i)
<1> DEFINE Unfolded(f) == f = [i \in Starts |-> ValueByTurns(f, i)]
           Solved(f, n) == \A i \in Starts : Len(tape) < i + n => f[i] = ValueByTurns(f, i)
           T == {n \in Nat : \E f : Solved(f, n)}
<1>1. Len(tape) \in Nat /\ \A i \in Starts : i \in 1 .. Len(tape)
  <2>1. RootIndex \in Starts
    BY CursorAssumption DEF WellFormed, Starts, RootIndex
  <2> QED
    BY <2>1, ElementFacts
<1>2. 0 \in T
  BY <1>1
<1>3. ASSUME NEW n \in Nat, n \in T
      PROVE  n + 1 \in T
  <2>1. PICK f : Solved(f, n)
    BY <1>3
  <2> DEFINE h == [i \in Starts |-> ValueByTurns(f, i)]
  <2>2. ASSUME NEW i \in Starts, Len(tape) < i + (n + 1)
        PROVE  h[i] = ValueByTurns(h, i)
    <3>1. \A j \in Starts : i < j => h[j] = f[j]
      <4>1. \A j \in Starts : i < j => Len(tape) < j + n
        BY <1>1, <2>2
      <4> QED
        BY <2>1, <4>1
    <3> HIDE DEF h
    <3>2. ValueByTurns(h, i) = ValueByTurns(f, i)
      BY <3>1, ValueByTurnsLooksInside
    <3> QED
      BY <3>2 DEF h
  <2>3. Solved(h, n + 1)
    BY <2>2
  <2> HIDE DEF h, Solved
  <2> QED
    BY <2>3
<1> HIDE DEF T
<1>4. Nat \subseteq T
  BY <1>2, <1>3, NatInductionOnSets
<1>5. PICK f : Solved(f, Len(tape))
  BY <1>1, <1>4 DEF T
<1>6. \E g : Unfolded(g)
  <2> DEFINE g == [i \in Starts |-> ValueByTurns(f, i)]
  <2>1. \A i \in Starts : f[i] = ValueByTurns(f, i)
    BY <1>1, <1>5
  <2>2. \A i \in Starts : ValueByTurns(g, i) = ValueByTurns(f, i)
    <3>1. \A j \in Starts : g[j] = f[j]
      BY <2>1
    <3> HIDE DEF g
    <3> QED
      BY <3>1, ValueByTurnsLooksInside
  <2>3. Unfolded(g)
    BY <2>2
  <2> QED
    BY <2>3
<1>7. ViaAccessors = CHOOSE g : Unfolded(g)
  BY DEF ViaAccessors, ValueByTurns, EntriesOf, Entry
<1>8. Unfolded(ViaAccessors)
  <2> HIDE DEF Unfolded
  <2> QED
    BY <1>6, <1>7
<1> QED
  BY <1>8

\* Of the fields with one key, the one that counts.
IsLast(i, n, k) ==
  /\ KeyAt(i, n) = k
  /\ \A m \in 1 .. Len(Children(i)) \div 2 : m > n => KeyAt(i, m) # k
LastField(i, k) == CHOOSE n \in 1 .. Len(Children(i)) \div 2 : IsLast(i, n, k)

LEMMA LastFieldFacts ==
  ASSUME tape \in Tapes, NEW i \in Containers, TypeAt(i) = "object",
         NEW k \in {KeyAt(i, n) : n \in 1 .. Len(Children(i)) \div 2}
  PROVE  /\ LastField(i, k) \in 1 .. Len(Children(i)) \div 2
         /\ IsLast(i, LastField(i, k), k)
<1> DEFINE N == Len(Children(i)) \div 2
           S == {N - n : n \in {m \in 1 .. N : KeyAt(i, m) = k}}
<1>1. N \in Nat
  BY ObjectIsEven
<1> HIDE DEF N
<1>2. S \subseteq Nat /\ S # {}
  <2>1. k \in {KeyAt(i, n) : n \in 1 .. N}
    BY DEF N
  <2> QED
    BY <1>1, <2>1
<1>3. PICK x \in S : \A y \in S : x <= y
  BY <1>2, LeastElement
<1>4. PICK n \in 1 .. N : KeyAt(i, n) = k /\ x = N - n
  BY <1>3
<1>5. ASSUME NEW m \in 1 .. N, m > n
      PROVE  KeyAt(i, m) # k
  <2> SUFFICES ASSUME KeyAt(i, m) = k PROVE FALSE
    OBVIOUS
  <2>1. N - m \in S
    OBVIOUS
  <2>2. N - n <= N - m
    BY <1>3, <1>4, <2>1
  <2> QED
    BY <1>1, <1>5, <2>2
<1>6. IsLast(i, n, k)
  BY <1>4, <1>5 DEF IsLast, N
<1> QED
  BY <1>6 DEF LastField, N

\* JsonValue's right-hand side.
ValueByContents(f, i) ==
  CASE TypeAt(i) = "array" -> <<"array", [n \in DOMAIN Children(i) |-> f[Children(i)[n]]]>>
    [] TypeAt(i) = "object" ->
         <<"object", [k \in {KeyAt(i, n) : n \in 1 .. Len(Children(i)) \div 2} |->
                        f[Children(i)[2 * LastField(i, k)]]]>>
    [] OTHER -> <<TypeAt(i), Payload[tape][i]>>

\* Iterating over a container finds what it contains, and assigning its fields one after
\* the other leaves the last of those with equal keys.
LEMMA TurnsFindContents ==
  ASSUME tape \in Tapes, NEW i \in Starts, NEW f
  PROVE  ValueByTurns(f, i) = ValueByContents(f, i)
<1> DEFINE e == EntriesOf(f, i)
<1>1. CASE ~IsContainer(i)
  BY <1>1 DEF ValueByTurns, ValueByContents, GoValue, Content, IsContainer
<1>2. CASE TypeAt(i) = "array"
  <2>1. i \in Containers
    BY <1>2 DEF Containers
  <2>2. Turns(i) = Children(i)
    BY <1>2, <2>1, ArrayTurns
  <2>3. DOMAIN e = DOMAIN Children(i) /\ \A n \in DOMAIN e : e[n].value = f[Children(i)[n]]
    BY <1>2, <2>2 DEF EntriesOf, Entry, ValueFor
  <2> HIDE DEF e
  <2>4. [n \in DOMAIN e |-> e[n].value] = [n \in DOMAIN Children(i) |-> f[Children(i)[n]]]
    BY <2>3
  <2>5. ValueByTurns(f, i) = <<"array", [n \in DOMAIN e |-> e[n].value]>>
    BY <1>2 DEF ValueByTurns, GoValue, e
  <2> QED
    BY <1>2, <2>4, <2>5 DEF ValueByContents
<1>3. CASE TypeAt(i) = "object"
  <2> DEFINE N == Len(Children(i)) \div 2
  <2>1. i \in Containers
    BY <1>3 DEF Containers
  <2>2. N \in Nat
    BY <1>3, <2>1, ObjectIsEven
  <2>3. /\ Turns(i) = [n \in 1 .. N |-> Children(i)[2 * n - 1]]
        /\ \A n \in 1 .. N : Children(i)[2 * n] = Children(i)[2 * n - 1] + 1
    BY <1>3, <2>1, ObjectTurns
  <2> HIDE DEF N
  <2>4. /\ DOMAIN e = 1 .. N
        /\ \A n \in 1 .. N : e[n].key = KeyAt(i, n) /\ e[n].value = f[Children(i)[2 * n]]
    BY <1>3, <2>3 DEF EntriesOf, Entry, ValueFor, KeyFor, KeyAt
  <2> DEFINE ks == {KeyAt(i, n) : n \in 1 .. N}
             named(k) == {n \in DOMAIN e : e[n].key = k}
             last(k) == CHOOSE n \in named(k) : \A m \in named(k) : m <= n
  <2> HIDE DEF e
  <2>5. {e[n].key : n \in DOMAIN e} = ks
    BY <2>4
  <2>6. ASSUME NEW k \in ks
        PROVE  last(k) = LastField(i, k) /\ LastField(i, k) \in 1 .. N
    <3> DEFINE l == LastField(i, k)
    <3>1. l \in 1 .. N /\ IsLast(i, l, k)
      BY <1>3, <2>1, <2>6, LastFieldFacts DEF N
    <3> HIDE DEF l
    <3>2. /\ KeyAt(i, l) = k
          /\ \A m \in 1 .. N : m > l => KeyAt(i, m) # k
      BY <3>1 DEF IsLast, N
    <3>3. l \in named(k) /\ named(k) \subseteq 1 .. N /\ \A m \in named(k) : m <= l
      BY <2>2, <2>4, <3>1, <3>2
    <3> HIDE DEF named
    <3>4. last(k) \in named(k) /\ \A m \in named(k) : m <= last(k)
      BY <3>3
    <3> HIDE DEF last
    <3>5. last(k) = l
      BY <2>2, <3>1, <3>3, <3>4
    <3> QED
      BY <3>1, <3>5 DEF l
  <2>7. \A k \in ks : e[last(k)].value = f[Children(i)[2 * LastField(i, k)]]
    <3> HIDE DEF ks, last
    <3> QED
      BY <2>4, <2>6
  <2>8. Assign(e) = [k \in {e[n].key : n \in DOMAIN e} |-> e[last(k)].value]
    BY DEF Assign
  <2>9. Assign(e) = [k \in ks |-> f[Children(i)[2 * LastField(i, k)]]]
    <3> HIDE DEF ks, last
    <3> QED
      BY <2>5, <2>7, <2>8
  <2>10. ValueByTurns(f, i) = <<"object", Assign(e)>>
    BY <1>3 DEF ValueByTurns, GoValue, e
  <2>11. ValueByContents(f, i) = <<"object", [k \in ks |-> f[Children(i)[2 * LastField(i, k)]]]>>
    BY <1>3 DEF ValueByContents, N
  <2> QED
    BY <2>9, <2>10, <2>11
<1> QED
  BY <1>1, <1>2, <1>3 DEF IsContainer

LEMMA JsonValues ==
  ASSUME tape \in Tapes
  PROVE  \A i \in Starts : JsonValue[i] = ValueByTurns(JsonValue, i)
<1> DEFINE Unfolded(f) == f = [i \in Starts |-> ValueByContents(f, i)]
           g == [i \in Starts |-> ViaAccessors[i]]
<1>1. \A i \in Starts : ViaAccessors[i] = ValueByTurns(g, i)
  <2>1. \A j \in Starts : g[j] = ViaAccessors[j]
    OBVIOUS
  <2> HIDE DEF g
  <2>2. \A i \in Starts : ValueByTurns(g, i) = ValueByTurns(ViaAccessors, i)
    BY <2>1, ValueByTurnsLooksInside
  <2> QED
    BY <2>2, ViaAccessorsValues
<1>2. Unfolded(g)
  <2> HIDE DEF g
  <2>1. \A i \in Starts : ViaAccessors[i] = ValueByContents(g, i)
    BY <1>1, TurnsFindContents
  <2> QED
    BY <2>1 DEF g
<1>3. JsonValue = CHOOSE f : Unfolded(f)
  BY DEF JsonValue, ValueByContents, LastField, IsLast, KeyAt
<1>4. Unfolded(JsonValue)
  <2> HIDE DEF Unfolded, g
  <2> QED
    BY <1>2, <1>3
<1>5. \A i \in Starts : JsonValue[i] = ValueByContents(JsonValue, i)
  BY <1>4
<1> QED
  BY <1>5, TurnsFindContents

\* The accessors give the value that the tape contains.
LEMMA AccessorsAgree ==
  ASSUME tape \in Tapes
  PROVE  \A i \in Starts : ViaAccessors[i] = JsonValue[i]
<1> DEFINE T == {i \in Starts : ViaAccessors[i] = JsonValue[i]}
           left == [i \in Starts |-> Len(tape) - i]
<1>1. Len(tape) \in Nat /\ \A i \in Starts : i \in 1 .. Len(tape)
  <2>1. RootIndex \in Starts
    BY CursorAssumption DEF WellFormed, Starts, RootIndex
  <2> QED
    BY <2>1, ElementFacts
<1>2. left \in [Starts -> Nat]
  BY <1>1
<1>3. ASSUME NEW i \in Starts, \A j \in Starts : left[j] < left[i] => j \in T
      PROVE  i \in T
  <2>1. \A j \in Starts : i < j => ViaAccessors[j] = JsonValue[j]
    BY <1>1, <1>3
  <2>2. ValueByTurns(ViaAccessors, i) = ValueByTurns(JsonValue, i)
    BY <2>1, ValueByTurnsLooksInside
  <2> QED
    BY <2>2, ViaAccessorsValues, JsonValues
<1> HIDE DEF T, left
<1>4. Starts \subseteq T
  BY <1>2, <1>3, MeasureInduction
<1> QED
  BY <1>4 DEF T

-----------------------------------------------------------------------------
(* Parts of a sequence *)

\* Where each of the parts lies in their concatenation.
Placed(parts, all, start) ==
  /\ start[0] = 0 /\ Len(all) = start[Len(parts)]
  /\ \A n \in 1 .. Len(parts) :
       /\ start[n] = start[n - 1] + Len(parts[n])
       /\ start[n] <= Len(all)
       /\ \A m \in 1 .. Len(parts[n]) : all[start[n - 1] + m] = parts[n][m]

LEMMA ConcatenatedPlaces ==
  ASSUME NEW S, NEW parts \in Seq(Seq(S))
  PROVE  /\ Concatenated(parts) \in Seq(S)
         /\ \E start \in [0 .. Len(parts) -> Nat] : Placed(parts, Concatenated(parts), start)
<1> DEFINE T == {p \in Seq(Seq(S)) :
                   /\ Concatenated(p) \in Seq(S)
                   /\ \E start \in [0 .. Len(p) -> Nat] : Placed(p, Concatenated(p), start)}
<1>1. <<>> \in T
  <2> DEFINE start == [n \in 0 .. 0 |-> 0]
  <2>1. Placed(<<>>, <<>>, start)
    BY DEF Placed
  <2>2. Concatenated(<<>>) = <<>> /\ Len(<<>>) = 0 /\ <<>> \in Seq(Seq(S)) /\ <<>> \in Seq(S)
    BY ConcatenatedEmpty
  <2>3. start \in [0 .. Len(<<>>) -> Nat]
    OBVIOUS
  <2> QED
    BY <2>1, <2>2, <2>3
<1>2. ASSUME NEW p \in Seq(Seq(S)), NEW e \in Seq(S), p \in T
      PROVE  Append(p, e) \in T
  <2> DEFINE r == Append(p, e)  all == Concatenated(p)  whole == Concatenated(r)
             N == Len(p)
  <2>1. PICK start \in [0 .. N -> Nat] : Placed(p, all, start)
    BY <1>2
  <2>2. all \in Seq(S) /\ whole = all \o e
    BY ConcatenatedAppends
  <2>3. /\ r \in Seq(Seq(S)) /\ Len(r) = N + 1 /\ N \in Nat /\ r[N + 1] = e
        /\ \A n \in 1 .. N : r[n] = p[n] /\ p[n] \in Seq(S)
    BY AppendProperties, ElementOfSeq
  <2> HIDE DEF r, all, whole, N
  <2>4. /\ whole \in Seq(S) /\ Len(whole) = Len(all) + Len(e)
        /\ Len(all) \in Nat /\ Len(e) \in Nat
        /\ \A m \in 1 .. Len(all) : whole[m] = all[m]
        /\ \A m \in 1 .. Len(e) : whole[Len(all) + m] = e[m]
    BY <2>2
  <2> DEFINE further == [n \in 0 .. N + 1 |-> IF n = N + 1 THEN Len(whole) ELSE start[n]]
  <2>5. /\ start[0] = 0 /\ Len(all) = start[N]
        /\ \A n \in 1 .. N :
             /\ start[n] = start[n - 1] + Len(p[n])
             /\ start[n] <= Len(all)
             /\ \A m \in 1 .. Len(p[n]) : all[start[n - 1] + m] = p[n][m]
    BY <2>1 DEF Placed, N
  <2>6. further \in [0 .. N + 1 -> Nat] /\ further[0] = 0 /\ further[N + 1] = Len(whole)
        /\ \A n \in 0 .. N : further[n] = start[n]
    BY <2>1, <2>3, <2>4, <2>5
  <2> HIDE DEF further
  <2>7. ASSUME NEW n \in 1 .. N
        PROVE  /\ further[n] = further[n - 1] + Len(r[n])
               /\ further[n] <= Len(whole)
               /\ \A m \in 1 .. Len(r[n]) : whole[further[n - 1] + m] = r[n][m]
    <3>1. n - 1 \in 0 .. N /\ n \in 0 .. N /\ r[n] = p[n] /\ Len(p[n]) \in Nat
      BY <2>3
    <3>2. further[n] = further[n - 1] + Len(r[n]) /\ further[n] <= Len(all)
          /\ further[n - 1] \in Nat
      BY <2>1, <2>5, <2>6, <3>1
    <3>3. ASSUME NEW m \in 1 .. Len(r[n])
          PROVE  whole[further[n - 1] + m] = r[n][m]
      <4>1. Len(r[n]) \in Nat /\ m \in 1 .. Len(p[n])
        BY <3>1
      <4>2. further[n - 1] + m \in 1 .. Len(all)
        <5> DEFINE a == further[n - 1]  b == further[n]  l == Len(r[n])  w == Len(all)
        <5>1. a \in Nat /\ l \in Nat /\ w \in Nat /\ b = a + l /\ b <= w
          BY <2>4, <3>2, <4>1
        <5> HIDE DEF a, b, l, w
        <5>2. a + m \in 1 .. w
          BY <5>1 DEF l
        <5> QED
          BY <5>2 DEF a, w
      <4>3. whole[further[n - 1] + m] = all[further[n - 1] + m]
        BY <2>4, <4>2
      <4>4. all[start[n - 1] + m] = p[n][m]
        BY <2>5, <4>1
      <4> QED
        BY <2>6, <3>1, <4>3, <4>4
    <3>4. further[n] <= Len(whole)
      <4> DEFINE a == further[n]
      <4>1. a \in Nat
        BY <2>6, <3>1
      <4> HIDE DEF a
      <4> QED
        BY <2>4, <3>2, <4>1 DEF a
    <3> QED
      BY <3>2, <3>3, <3>4
  <2>8. /\ further[N + 1] = further[(N + 1) - 1] + Len(r[N + 1])
        /\ further[N + 1] <= Len(whole)
        /\ \A m \in 1 .. Len(r[N + 1]) : whole[further[(N + 1) - 1] + m] = r[N + 1][m]
    <3>1. (N + 1) - 1 = N /\ N \in 0 .. N /\ r[N + 1] = e
      BY <2>3
    <3>2. further[N] = Len(all)
      BY <2>5, <2>6, <3>1
    <3>3. further[(N + 1) - 1] = Len(all)
      BY <3>1, <3>2
    <3>4. \A m \in 1 .. Len(r[N + 1]) : whole[further[(N + 1) - 1] + m] = r[N + 1][m]
      BY <2>4, <3>1, <3>3
    <3>5. further[N + 1] = further[(N + 1) - 1] + Len(r[N + 1]) /\ further[N + 1] <= Len(whole)
      BY <2>4, <2>6, <3>1, <3>3
    <3> QED
      BY <3>4, <3>5
  <2>9. \A n \in 1 .. N + 1 :
          /\ further[n] = further[n - 1] + Len(r[n])
          /\ further[n] <= Len(whole)
          /\ \A m \in 1 .. Len(r[n]) : whole[further[n - 1] + m] = r[n][m]
    <3>1. \A n \in 1 .. N + 1 : n \in 1 .. N \/ n = N + 1
      BY <2>3
    <3> QED
      BY <2>7, <2>8, <3>1
  <2>10. Placed(r, whole, further)
    BY <2>3, <2>6, <2>9 DEF Placed
  <2> QED
    BY <2>3, <2>4, <2>6, <2>10 DEF r, whole
<1> HIDE DEF T
<1>3. Seq(Seq(S)) \subseteq T
  BY <1>1, <1>2, SequenceInduction
<1> QED
  BY <1>3 DEF T

-----------------------------------------------------------------------------
(* An element to frames *)

FrameOf(i, key) ==
  [kind |-> TypeAt(i), key |-> key, childCount |-> Len(Turns(i)), payload |-> Content(i)]

ChildSpans(f, i, depth) ==
  [n \in DOMAIN Turns(i) |-> f[ValueFor(i, Turns(i)[n])][KeyFor(i, Turns(i)[n])][depth + 1]]

SpanOf(f, i, key, depth) ==
  LET child == ChildSpans(f, i, depth)
  IN  IF TooDeep(depth) THEN [ok |-> FALSE, frames |-> <<>>]
      ELSE [ok |-> \A n \in DOMAIN child : child[n].ok,
            frames |-> <<FrameOf(i, key)>>
                         \o Concatenated([n \in DOMAIN child |-> child[n].frames])]

SpansOf(f, i) == [key \in FrameKeys |-> [depth \in Nat |-> SpanOf(f, i, key, depth)]]

LEMMA SpansLookInside ==
  ASSUME tape \in Tapes, NEW i \in Starts, NEW f, NEW g,
         \A j \in Starts : i < j => f[j] = g[j]
  PROVE  SpansOf(f, i) = SpansOf(g, i)
<1>1. \A n \in DOMAIN Turns(i) : f[ValueFor(i, Turns(i)[n])] = g[ValueFor(i, Turns(i)[n])]
  BY TurnFacts
<1>2. \A depth : ChildSpans(f, i, depth) = ChildSpans(g, i, depth)
  BY <1>1 DEF ChildSpans
<1>3. ASSUME NEW key, NEW depth
      PROVE  SpanOf(f, i, key, depth) = SpanOf(g, i, key, depth)
  <2> DEFINE Made(child) ==
               IF TooDeep(depth) THEN [ok |-> FALSE, frames |-> <<>>]
               ELSE [ok |-> \A n \in DOMAIN child : child[n].ok,
                     frames |-> <<FrameOf(i, key)>>
                                  \o Concatenated([n \in DOMAIN child |-> child[n].frames])]
  <2>1. /\ SpanOf(f, i, key, depth) = Made(ChildSpans(f, i, depth))
        /\ SpanOf(g, i, key, depth) = Made(ChildSpans(g, i, depth))
    BY DEF SpanOf
  <2> HIDE DEF Made
  <2> QED
    BY <1>2, <2>1
<1> QED
  BY <1>3 DEF SpansOf

LEMMA AppendFrameSpans ==
  ASSUME tape \in Tapes
  PROVE  \A i \in Starts : AppendFrame[i] = SpansOf(AppendFrame, i)
<1> DEFINE Unfolded(f) == f = [i \in Starts |-> SpansOf(f, i)]
           Solved(f, n) == \A i \in Starts : Len(tape) < i + n => f[i] = SpansOf(f, i)
           T == {n \in Nat : \E f : Solved(f, n)}
<1>1. Len(tape) \in Nat /\ \A i \in Starts : i \in 1 .. Len(tape)
  <2>1. RootIndex \in Starts
    BY CursorAssumption DEF WellFormed, Starts, RootIndex
  <2> QED
    BY <2>1, ElementFacts
<1>2. 0 \in T
  BY <1>1
<1>3. ASSUME NEW n \in Nat, n \in T
      PROVE  n + 1 \in T
  <2>1. PICK f : Solved(f, n)
    BY <1>3
  <2> DEFINE h == [i \in Starts |-> SpansOf(f, i)]
  <2>2. ASSUME NEW i \in Starts, Len(tape) < i + (n + 1)
        PROVE  h[i] = SpansOf(h, i)
    <3>1. \A j \in Starts : i < j => h[j] = f[j]
      <4>1. \A j \in Starts : i < j => Len(tape) < j + n
        BY <1>1, <2>2
      <4> QED
        BY <2>1, <4>1
    <3> HIDE DEF h
    <3>2. SpansOf(h, i) = SpansOf(f, i)
      BY <3>1, SpansLookInside
    <3> QED
      BY <3>2 DEF h
  <2>3. Solved(h, n + 1)
    BY <2>2
  <2> HIDE DEF h, Solved
  <2> QED
    BY <2>3
<1> HIDE DEF T
<1>4. Nat \subseteq T
  BY <1>2, <1>3, NatInductionOnSets
<1>5. PICK f : Solved(f, Len(tape))
  BY <1>1, <1>4 DEF T
<1>6. \E g : Unfolded(g)
  <2> DEFINE g == [i \in Starts |-> SpansOf(f, i)]
  <2>1. \A i \in Starts : f[i] = SpansOf(f, i)
    BY <1>1, <1>5
  <2>2. \A i \in Starts : SpansOf(g, i) = SpansOf(f, i)
    <3>1. \A j \in Starts : g[j] = f[j]
      BY <2>1
    <3> HIDE DEF g
    <3> QED
      BY <3>1, SpansLookInside
  <2>3. Unfolded(g)
    BY <2>2
  <2> QED
    BY <2>3
<1>7. AppendFrame = CHOOSE g : Unfolded(g)
  BY DEF AppendFrame, SpansOf, SpanOf, ChildSpans, FrameOf
<1>8. Unfolded(AppendFrame)
  <2> HIDE DEF Unfolded
  <2> QED
    BY <1>6, <1>7
<1> QED
  BY <1>8

Nesting(i) == Cardinality(Around(tape, i))

LEMMA NestingBounded ==
  ASSUME tape \in Tapes, NEW i \in Starts
  PROVE  /\ Around(tape, i) = {j \in Starts : j < i /\ AfterIndex(i) < AfterIndex(j)}
         /\ IsFiniteSet(Around(tape, i))
         /\ Nesting(i) \in Nat /\ Nesting(i) < MaxSupportedDepth
<1>1. DOMAIN tape = 1 .. Len(tape) /\ Len(tape) \in Nat /\ i \in DOMAIN tape /\ tape[i].start
  BY ElementFacts
<1>2. Around(tape, i) \subseteq 1 .. Len(tape)
      /\ Around(tape, i) = {j \in Starts : j < i /\ AfterIndex(i) < AfterIndex(j)}
  BY <1>1 DEF Around, Starts, AfterIndex
<1>3. IsFiniteSet(Around(tape, i)) /\ Nesting(i) \in Nat
  <2>1. IsFiniteSet(1 .. Len(tape))
    BY <1>1, FS_Interval
  <2> QED
    BY <1>2, <2>1, FS_Subset, FS_CardinalityType DEF Nesting
<1>4. Nesting(i) < MaxSupportedDepth
  BY <1>1, MaterializerAssumption DEF Nesting
<1> QED
  BY <1>2, <1>3, <1>4

\* What lies in a container is nested more deeply.
LEMMA NestingGrows ==
  ASSUME tape \in Tapes, NEW i \in Starts, NEW v \in Starts, i < v, AfterIndex(v) < AfterIndex(i)
  PROVE  Nesting(i) \in Nat /\ Nesting(v) \in Nat /\ Nesting(i) + 1 <= Nesting(v)
<1>1. \A j \in Starts : j \in Nat /\ AfterIndex(j) \in Nat
  BY ElementFacts
<1>2. i \notin Around(tape, i) /\ Around(tape, i) \cup {i} \subseteq Around(tape, v)
  BY <1>1, NestingBounded
<1>3. Cardinality(Around(tape, i) \cup {i}) = Nesting(i) + 1
  BY <1>2, NestingBounded, FS_AddElement DEF Nesting
<1>4. Cardinality(Around(tape, i) \cup {i}) <= Nesting(v)
  BY <1>2, NestingBounded, FS_Subset DEF Nesting
<1> QED
  BY <1>3, <1>4, NestingBounded

-----------------------------------------------------------------------------
(* Frames to a value *)

FrameSet ==
  [kind : Kinds, key : FrameKeys, childCount : Nat, payload : {Content(i) : i \in Starts}]

\* BuildAny's right-hand side.
Built(g, frames, index, count) ==
  IF count = 0 THEN [ok |-> TRUE, next |-> index, entries |-> <<>>]
  ELSE IF index \notin DOMAIN frames THEN [ok |-> FALSE, next |-> index, entries |-> <<>>]
  ELSE LET f == frames[index]
           inside == g[index + 1][f.childCount]
           rest == g[inside.next][count - 1]
       IN  [ok |-> inside.ok /\ rest.ok, next |-> rest.next,
            entries |-> <<[key |-> f.key, value |-> GoValue(f.kind, f.payload, inside.entries)]>>
                        \o rest.entries]
Builds(frames, g) ==
  \A index, count \in Nat : g[index][count] = Built(g, frames, index, count)

\* The same, but going on behind the frame whatever the values below it came to.
Onward(g, frames, index) ==
  [c \in Nat |-> LET next == g[index + 1][c].next
                 IN  IF next \in Nat /\ next > index THEN next ELSE index + 1]
BuiltOnward(g, frames, index, count) ==
  IF count = 0 THEN [ok |-> TRUE, next |-> index, entries |-> <<>>]
  ELSE IF index \notin DOMAIN frames THEN [ok |-> FALSE, next |-> index, entries |-> <<>>]
  ELSE LET f == frames[index]
           inside == g[index + 1][f.childCount]
           rest == g[Onward(g, frames, index)[f.childCount]][count - 1]
       IN  [ok |-> inside.ok /\ rest.ok, next |-> rest.next,
            entries |-> <<[key |-> f.key, value |-> GoValue(f.kind, f.payload, inside.entries)]>>
                        \o rest.entries]
RowOnward(g, frames, index) == [count \in Nat |-> BuiltOnward(g, frames, index, count)]

LEMMA OnwardLooksBehind ==
  ASSUME NEW frames \in Seq(FrameSet), NEW index \in Nat, NEW g, NEW h,
         \/ index \notin DOMAIN frames
         \/ \A x \in Nat : index < x => g[x] = h[x]
  PROVE  RowOnward(g, frames, index) = RowOnward(h, frames, index)
<1>1. ASSUME NEW count \in Nat
      PROVE  BuiltOnward(g, frames, index, count) = BuiltOnward(h, frames, index, count)
  <2>1. CASE count = 0 \/ index \notin DOMAIN frames
    BY <2>1 DEF BuiltOnward
  <2>2. CASE count # 0 /\ index \in DOMAIN frames
    <3> DEFINE c == frames[index].childCount
    <3>1. frames[index] \in FrameSet
      BY <2>2, ElementOfSeq
    <3>2. c \in Nat
      BY <3>1 DEF FrameSet
    <3> HIDE DEF c
    <3>3. g[index + 1] = h[index + 1]
      <4>1. index + 1 \in Nat /\ index < index + 1
        OBVIOUS
      <4> QED
        BY <2>2, <4>1
    <3>4. Onward(g, frames, index)[c] = Onward(h, frames, index)[c]
          /\ Onward(g, frames, index)[c] \in Nat /\ index < Onward(g, frames, index)[c]
      BY <3>2, <3>3 DEF Onward
    <3>5. g[Onward(g, frames, index)[c]] = h[Onward(h, frames, index)[c]]
      BY <2>2, <3>4
    <3> QED
      BY <2>2, <3>3, <3>5 DEF BuiltOnward, c
  <2> QED
    BY <2>1, <2>2
<1> QED
  BY <1>1 DEF RowOnward

LEMMA OnwardDefines ==
  ASSUME NEW frames \in Seq(FrameSet)
  PROVE  \E g : \A index \in Nat : g[index] = RowOnward(g, frames, index)
<1> DEFINE Solved(g, n) ==
             \A index \in Nat : Len(frames) < index + n => g[index] = RowOnward(g, frames, index)
           Next1(g) == [index \in Nat |-> RowOnward(g, frames, index)]
           T == {n \in Nat : \E g : Solved(g, n)}
<1>1. Len(frames) \in Nat /\ DOMAIN frames = 1 .. Len(frames)
  OBVIOUS
<1>2. 0 \in T
  <2> DEFINE h == Next1(0)
  <2>1. ASSUME NEW index \in Nat, Len(frames) < index + 0
        PROVE  h[index] = RowOnward(h, frames, index)
    <3>1. index \notin DOMAIN frames
      BY <1>1, <2>1
    <3>2. h[index] = RowOnward(0, frames, index)
      OBVIOUS
    <3> HIDE DEF h
    <3> QED
      BY <3>1, <3>2, OnwardLooksBehind
  <2>2. Solved(h, 0)
    BY <2>1
  <2> HIDE DEF h, Solved
  <2> QED
    BY <2>2
<1>3. ASSUME NEW n \in Nat, n \in T
      PROVE  n + 1 \in T
  <2>1. PICK g : Solved(g, n)
    BY <1>3
  <2> DEFINE h == Next1(g)
  <2>2. ASSUME NEW index \in Nat, Len(frames) < index + (n + 1)
        PROVE  h[index] = RowOnward(h, frames, index)
    <3>1. \A x \in Nat : index < x => Len(frames) < x + n
      BY <1>1, <2>2
    <3>2. \A x \in Nat : index < x => h[x] = g[x]
      BY <2>1, <3>1
    <3>3. h[index] = RowOnward(g, frames, index)
      OBVIOUS
    <3> HIDE DEF h
    <3> QED
      BY <3>2, <3>3, OnwardLooksBehind
  <2>3. Solved(h, n + 1)
    BY <2>2
  <2> HIDE DEF h, Solved
  <2> QED
    BY <2>3
<1> HIDE DEF T
<1>4. Nat \subseteq T
  BY <1>2, <1>3, NatInductionOnSets
<1>5. PICK g : Solved(g, Len(frames) + 1)
  <2>1. Len(frames) + 1 \in T
    BY <1>1, <1>4
  <2> HIDE DEF Solved
  <2> QED
    BY <2>1 DEF T
<1>6. \A index \in Nat : Len(frames) < index + (Len(frames) + 1)
  BY <1>1
<1> QED
  BY <1>5, <1>6

\* Rebuilding never goes back.
LEMMA OnwardAdvances ==
  ASSUME NEW frames \in Seq(FrameSet), NEW g,
         \A index \in Nat : g[index] = RowOnward(g, frames, index)
  PROVE  \A index, count \in Nat : g[index][count].next \in Nat /\ index <= g[index][count].next
<1> DEFINE T == {index \in Nat : \A count \in Nat :
                   g[index][count].next \in Nat /\ index <= g[index][count].next}
           left == [index \in Nat |->
                      IF index \in DOMAIN frames THEN Len(frames) + 1 - index ELSE 0]
<1>1. Len(frames) \in Nat /\ DOMAIN frames = 1 .. Len(frames)
  OBVIOUS
<1>2. left \in [Nat -> Nat]
  BY <1>1
<1>3. ASSUME NEW index \in Nat, \A x \in Nat : left[x] < left[index] => x \in T
      PROVE  index \in T
  <2>1. ASSUME NEW count \in Nat
        PROVE  g[index][count].next \in Nat /\ index <= g[index][count].next
    <3>1. g[index][count] = BuiltOnward(g, frames, index, count)
      BY DEF RowOnward
    <3>2. CASE count = 0 \/ index \notin DOMAIN frames
      <4>1. \E r \in BOOLEAN : g[index][count] = [ok |-> r, next |-> index, entries |-> <<>>]
        BY <3>1, <3>2 DEF BuiltOnward
      <4> QED
        BY <4>1
    <3>3. CASE count # 0 /\ index \in DOMAIN frames
      <4> DEFINE c == frames[index].childCount
                 x == Onward(g, frames, index)[c]
      <4>1. frames[index] \in FrameSet
        BY <3>3, ElementOfSeq
      <4>2. c \in Nat
        BY <4>1 DEF FrameSet
      <4> HIDE DEF c
      <4>3. x \in Nat /\ index < x
        BY <4>2 DEF Onward
      <4> HIDE DEF x
      <4>4. left[x] < left[index]
        BY <1>1, <3>3, <4>3
      <4>5. count - 1 \in Nat
        BY <3>3
      <4>6. g[x][count - 1].next \in Nat /\ x <= g[x][count - 1].next
        BY <1>3, <4>3, <4>4, <4>5
      <4>7. g[index][count].next = g[x][count - 1].next
        <5> DEFINE rest == g[x][count - 1]  inside == g[index + 1][c]
                   entry == [key |-> frames[index].key,
                             value |-> GoValue(frames[index].kind, frames[index].payload,
                                               inside.entries)]
        <5>1. BuiltOnward(g, frames, index, count) =
                [ok |-> inside.ok /\ rest.ok, next |-> rest.next,
                 entries |-> <<entry>> \o rest.entries]
          BY <3>3 DEF BuiltOnward, c, x
        <5> HIDE DEF rest, inside, entry
        <5>2. BuiltOnward(g, frames, index, count).next = rest.next
          BY <5>1
        <5> QED
          BY <3>1, <5>2 DEF rest
      <4> QED
        BY <4>3, <4>6, <4>7
    <3> QED
      BY <3>2, <3>3
  <2> QED
    BY <2>1
<1> HIDE DEF T, left
<1>4. Nat \subseteq T
  BY <1>2, <1>3, MeasureInduction
<1> QED
  BY <1>4 DEF T

LEMMA BuildAnyBuilds ==
  ASSUME NEW frames \in Seq(FrameSet)
  PROVE  \E g : Builds(frames, g) /\ BuildAny(frames) = g[1][1]
<1> DEFINE Unfolded(f) == f = [index \in Nat |-> [count \in Nat |-> Built(f, frames, index, count)]]
           h == CHOOSE f : Unfolded(f)
<1>1. PICK g : \A index \in Nat : g[index] = RowOnward(g, frames, index)
  BY OnwardDefines
<1>2. \A index, count \in Nat : g[index][count].next \in Nat /\ index <= g[index][count].next
  BY <1>1, OnwardAdvances
<1>3. ASSUME NEW index \in Nat, NEW count \in Nat
      PROVE  g[index][count] = Built(g, frames, index, count)
  <2>1. g[index][count] = BuiltOnward(g, frames, index, count)
    BY <1>1 DEF RowOnward
  <2>2. CASE count = 0 \/ index \notin DOMAIN frames
    BY <2>1, <2>2 DEF BuiltOnward, Built
  <2>3. CASE count # 0 /\ index \in DOMAIN frames
    <3> DEFINE c == frames[index].childCount
    <3>1. frames[index] \in FrameSet
      BY <2>3, ElementOfSeq
    <3>2. c \in Nat
      BY <3>1 DEF FrameSet
    <3> HIDE DEF c
    <3>3. g[index + 1][c].next \in Nat /\ g[index + 1][c].next > index
      <4>1. index + 1 \in Nat
        OBVIOUS
      <4>2. g[index + 1][c].next \in Nat /\ index + 1 <= g[index + 1][c].next
        BY <1>2, <3>2, <4>1
      <4> QED
        BY <4>2
    <3>4. Onward(g, frames, index)[c] = g[index + 1][c].next
      BY <3>2, <3>3 DEF Onward
    <3> QED
      BY <2>1, <2>3, <3>4 DEF BuiltOnward, Built, c
  <2> QED
    BY <2>2, <2>3
<1>4. Unfolded([index \in Nat |-> [count \in Nat |-> Built(g, frames, index, count)]])
  <2> DEFINE f == [index \in Nat |-> [count \in Nat |-> Built(g, frames, index, count)]]
  <2>1. \A index, count \in Nat : f[index][count] = g[index][count]
    BY <1>3
  <2> HIDE DEF f
  <2>2. ASSUME NEW index \in Nat, NEW count \in Nat
        PROVE  Built(f, frames, index, count) = Built(g, frames, index, count)
    <3>1. CASE count = 0 \/ index \notin DOMAIN frames
      BY <3>1 DEF Built
    <3>2. CASE count # 0 /\ index \in DOMAIN frames
      <4> DEFINE c == frames[index].childCount
      <4>1. frames[index] \in FrameSet
        BY <3>2, ElementOfSeq
      <4>2. c \in Nat /\ index + 1 \in Nat /\ count - 1 \in Nat
        BY <3>2, <4>1 DEF FrameSet
      <4> HIDE DEF c
      <4>3. f[index + 1][c] = g[index + 1][c] /\ g[index + 1][c].next \in Nat
        BY <1>2, <2>1, <4>2
      <4>4. f[g[index + 1][c].next][count - 1] = g[g[index + 1][c].next][count - 1]
        BY <2>1, <4>2, <4>3
      <4> QED
        BY <3>2, <4>3, <4>4 DEF Built, c
    <3> QED
      BY <3>1, <3>2
  <2>3. f = [index \in Nat |-> [count \in Nat |-> Built(f, frames, index, count)]]
    BY <2>2 DEF f
  <2> QED
    BY <2>3 DEF f
<1>5. Unfolded(h)
  <2> HIDE DEF Unfolded
  <2> QED
    BY <1>4
<1>6. BuildAny(frames) = h[1][1]
  BY DEF BuildAny, Built
<1> HIDE DEF h
<1>7. Builds(frames, h)
  <2>1. \A index \in Nat : h[index] = [count \in Nat |-> Built(h, frames, index, count)]
    BY <1>5
  <2>2. ASSUME NEW index \in Nat, NEW count \in Nat
        PROVE  h[index][count] = Built(h, frames, index, count)
    BY <2>1
  <2> QED
    BY <2>2 DEF Builds
<1> QED
  BY <1>6, <1>7

\* A part of a span stands behind the first offset frames.
LiesAt(part, frames, offset) ==
  /\ offset + Len(part) <= Len(frames)
  /\ \A m \in 1 .. Len(part) : frames[offset + m] = part[m]

Success(next, entries) == [ok |-> TRUE, next |-> next, entries |-> entries]

\* Wherever the part stands, one value is built of it and the building goes on behind it.
Rebuilds(part, entry) ==
  \A frames \in Seq(FrameSet) : \A offset, count \in Nat : \A g, next, entries :
    /\ Builds(frames, g)
    /\ LiesAt(part, frames, offset)
    /\ g[offset + Len(part) + 1][count] = Success(next, entries)
    => g[offset + 1][count + 1] = Success(next, <<entry>> \o entries)

LEMMA EntriesPrepend ==
  ASSUME NEW K \in Nat, NEW e, NEW q \in 1 .. K
  PROVE  <<e[q]>> \o [m \in 1 .. K - q |-> e[q + m]] = [m \in 1 .. K - (q - 1) |-> e[q - 1 + m]]
<1> DEFINE E == {e[n] : n \in 1 .. K}
           s == <<e[q]>>  t == [m \in 1 .. K - q |-> e[q + m]]
           u == [m \in 1 .. K - (q - 1) |-> e[q - 1 + m]]
<1>1. K - q \in Nat /\ K - (q - 1) = K - q + 1 /\ K - q + 1 \in Nat
  OBVIOUS
<1>2. \A m \in 1 .. K - q : q + m \in 1 .. K
  OBVIOUS
<1>3. \A m \in 1 .. K - q + 1 : q - 1 + m \in 1 .. K
  OBVIOUS
<1>4. s \in Seq(E) /\ Len(s) = 1 /\ s[1] = e[q]
  OBVIOUS
<1>5. t \in Seq(E) /\ Len(t) = K - q /\ \A m \in 1 .. K - q : t[m] = e[q + m]
  BY <1>1, <1>2
<1>6. u \in Seq(E) /\ Len(u) = K - q + 1 /\ \A m \in 1 .. K - q + 1 : u[m] = e[q - 1 + m]
  BY <1>1, <1>3
<1> HIDE DEF E, s, t, u
<1>7. /\ s \o t \in Seq(E) /\ Len(s \o t) = K - q + 1
      /\ \A m \in 1 .. K - q + 1 : (s \o t)[m] = IF m <= 1 THEN s[m] ELSE t[m - 1]
  <2>1. s \o t \in Seq(E) /\ Len(s \o t) = Len(s) + Len(t)
        /\ \A m \in 1 .. Len(s) + Len(t) :
             (s \o t)[m] = IF m <= Len(s) THEN s[m] ELSE t[m - Len(s)]
    BY <1>4, <1>5, ConcatProperties
  <2>2. Len(s) + Len(t) = K - q + 1
    BY <1>1, <1>4, <1>5
  <2> QED
    BY <1>4, <2>1, <2>2
<1>8. ASSUME NEW m \in 1 .. K - q + 1
      PROVE  (s \o t)[m] = u[m]
  <2>1. CASE m = 1
    <3>1. q - 1 + 1 = q
      OBVIOUS
    <3> QED
      BY <1>1, <1>4, <1>6, <1>7, <2>1, <3>1
  <2>2. CASE m # 1
    <3>1. m - 1 \in 1 .. K - q /\ q + (m - 1) = q - 1 + m /\ ~(m <= 1)
      BY <1>1, <2>2
    <3> QED
      BY <1>5, <1>6, <1>7, <3>1
  <2> QED
    BY <2>1, <2>2
<1>9. s \o t = u
  BY <1>1, <1>6, <1>7, <1>8, SeqEqual
<1> QED
  BY <1>9 DEF s, t, u

RebuildsEach(parts, e) == \A n \in 1 .. Len(parts) : Rebuilds(parts[n], e[n])

\* Of parts that lie one behind the other, as many values are built.
LEMMA SiblingsRebuilt ==
  ASSUME NEW parts \in Seq(Seq(FrameSet)), NEW e,
         RebuildsEach(parts, e),
         NEW frames \in Seq(FrameSet), NEW offset \in Nat, NEW g, Builds(frames, g),
         LiesAt(Concatenated(parts), frames, offset)
  PROVE  g[offset + 1][Len(parts)] =
           Success(offset + Len(Concatenated(parts)) + 1, [n \in 1 .. Len(parts) |-> e[n]])
<1> DEFINE K == Len(parts)  all == Concatenated(parts)
<1>1. PICK start \in [0 .. K -> Nat] : Placed(parts, all, start)
  BY ConcatenatedPlaces
<1>2. all \in Seq(FrameSet) /\ Len(all) \in Nat /\ K \in Nat
  BY ConcatenatedPlaces
<1> HIDE DEF all
<1>3. /\ start[0] = 0 /\ Len(all) = start[K]
      /\ \A n \in 1 .. K :
           /\ start[n] = start[n - 1] + Len(parts[n])
           /\ start[n] <= Len(all)
           /\ \A m \in 1 .. Len(parts[n]) : all[start[n - 1] + m] = parts[n][m]
  BY <1>1 DEF Placed
<1>4. offset + Len(all) <= Len(frames) /\ \A m \in 1 .. Len(all) : frames[offset + m] = all[m]
  BY DEF LiesAt, all
<1> DEFINE Rest(n) == Success(offset + Len(all) + 1, [m \in 1 .. K - n |-> e[n + m]])
           T == {k \in Nat : g[offset + start[K - k] + 1][k] = Rest(K - k)}
<1>5. 0 \in T
  <2>1. K - 0 = K /\ offset + start[K] + 1 \in Nat /\ K \in 0 .. K
    BY <1>2, <1>3
  <2>2. g[offset + start[K] + 1][0] = Success(offset + start[K] + 1, <<>>)
    BY <2>1 DEF Builds, Built, Success
  <2>3. [m \in 1 .. K - K |-> e[K + m]] = <<>>
    <3>1. K - K = 0
      BY <1>2
    <3> QED
      BY <3>1
  <2> QED
    BY <1>3, <2>1, <2>2, <2>3
<1>6. ASSUME NEW k \in 0 .. K, k < K, k \in T
      PROVE  k + 1 \in T
  <2> DEFINE q == K - k
  <2>1. /\ q \in 1 .. K /\ q - 1 \in 0 .. K /\ q \in 0 .. K /\ K - (k + 1) = q - 1 /\ K - q = k
        /\ k + 1 \in Nat /\ k \in Nat
    BY <1>2, <1>6
  <2> DEFINE off == offset + start[q - 1]
  <2> HIDE DEF q
  <2>2. off \in Nat /\ parts[q] \in Seq(FrameSet) /\ Len(parts[q]) \in Nat
        /\ off + Len(parts[q]) = offset + start[q]
    <3>1. parts[q] \in Seq(FrameSet) /\ Len(parts[q]) \in Nat
      BY <2>1, ElementOfSeq
    <3>2. start[q - 1] \in Nat /\ start[q] \in Nat
      BY <1>1, <2>1
    <3>3. start[q] = start[q - 1] + Len(parts[q])
      BY <1>3, <2>1
    <3> DEFINE a == start[q - 1]  b == start[q]  l == Len(parts[q])
    <3>4. off = offset + a
      OBVIOUS
    <3> HIDE DEF a, b, l, off
    <3>5. a \in Nat /\ b \in Nat /\ l \in Nat /\ b = a + l
      BY <3>1, <3>2, <3>3 DEF a, b, l
    <3>6. off \in Nat /\ off + l = offset + b
      BY <3>4, <3>5
    <3> QED
      BY <3>1, <3>6 DEF l, b
  <2>3. LiesAt(parts[q], frames, off)
    <3>1. off + Len(parts[q]) <= Len(frames)
      <4>1. start[q] <= Len(all)
        BY <1>3, <2>1
      <4>2. start[q] \in Nat
        BY <1>1, <2>1
      <4>3. Len(frames) \in Nat
        OBVIOUS
      <4> QED
        BY <1>2, <1>4, <2>2, <4>1, <4>2, <4>3
    <3>2. ASSUME NEW m \in 1 .. Len(parts[q])
          PROVE  frames[off + m] = parts[q][m]
      <4>3. start[q - 1] \in Nat /\ start[q] \in Nat
        BY <1>1, <2>1
      <4>4. start[q] = start[q - 1] + Len(parts[q]) /\ start[q] <= Len(all)
        BY <1>3, <2>1
      <4>1. start[q - 1] + m \in 1 .. Len(all) /\ off + m = offset + (start[q - 1] + m)
        <5> DEFINE a == start[q - 1]  b == start[q]  l == Len(parts[q])  n == Len(all)
        <5>1. off = offset + a /\ m \in 1 .. l
          OBVIOUS
        <5> HIDE DEF a, b, l, n, off
        <5>2. a \in Nat /\ b \in Nat /\ l \in Nat /\ n \in Nat /\ b = a + l /\ b <= n
          BY <1>2, <2>2, <4>3, <4>4 DEF a, b, l, n
        <5>3. a + m \in 1 .. n /\ off + m = offset + (a + m)
          BY <5>1, <5>2
        <5> QED
          BY <5>3 DEF a, n
      <4>2. all[start[q - 1] + m] = parts[q][m]
        BY <1>3, <2>1
      <4> QED
        BY <1>4, <4>1, <4>2
    <3> QED
      BY <3>1, <3>2 DEF LiesAt
  <2>4. g[off + Len(parts[q]) + 1][k] = Rest(q)
    <3>1. K - k = q
      BY DEF q
    <3>2. g[offset + start[K - k] + 1][k] = Rest(K - k)
      BY <1>6
    <3> HIDE DEF Rest
    <3> QED
      BY <2>2, <3>1, <3>2
  <2>5. Rebuilds(parts[q], e[q])
    BY <2>1 DEF RebuildsEach
  <2>6. g[off + 1][k + 1] =
          Success(offset + Len(all) + 1, <<e[q]>> \o [m \in 1 .. K - q |-> e[q + m]])
    <3> DEFINE p == parts[q]  x == e[q]  next == offset + Len(all) + 1
               entries == [m \in 1 .. K - q |-> e[q + m]]
    <3>1. off \in Nat /\ k \in Nat /\ frames \in Seq(FrameSet)
      BY <2>1, <2>2
    <3> HIDE DEF off
    <3>2. Rebuilds(p, x) /\ LiesAt(p, frames, off) /\ Builds(frames, g)
          /\ g[off + Len(p) + 1][k] = Success(next, entries)
      BY <2>3, <2>4, <2>5
    <3> HIDE DEF p, x, next, entries
    <3>3. \A o, c \in Nat : \A h, nx, es :
            /\ Builds(frames, h)
            /\ LiesAt(p, frames, o)
            /\ h[o + Len(p) + 1][c] = Success(nx, es)
            => h[o + 1][c + 1] = Success(nx, <<x>> \o es)
      BY ONLY <3>1, <3>2, ZenonT(60) DEF Rebuilds
    <3>4. \A h, nx, es :
            /\ Builds(frames, h)
            /\ LiesAt(p, frames, off)
            /\ h[off + Len(p) + 1][k] = Success(nx, es)
            => h[off + 1][k + 1] = Success(nx, <<x>> \o es)
      BY ONLY <3>1, <3>3, ZenonT(60)
    <3>5. g[off + 1][k + 1] = Success(next, <<x>> \o entries)
      BY ONLY <3>2, <3>4, ZenonT(60)
    <3> QED
      BY <3>5 DEF p, x, next, entries
  <2>7. <<e[q]>> \o [m \in 1 .. K - q |-> e[q + m]] = [m \in 1 .. K - (q - 1) |-> e[q - 1 + m]]
    BY <1>2, <2>1, EntriesPrepend
  <2>8. g[off + 1][k + 1] = Rest(q - 1)
    BY <2>6, <2>7
  <2> HIDE DEF Rest
  <2> QED
    BY <2>1, <2>8
<1> HIDE DEF T, K
<1>7. 0 .. K \subseteq T
  BY <1>2, <1>5, <1>6, IntervalInduction
<1>8. K \in T /\ K - K = 0
  BY <1>2, <1>7
<1>9. g[offset + start[0] + 1][K] = Rest(0)
  <2> HIDE DEF Rest
  <2> QED
    BY <1>8 DEF T
<1>10. offset + start[0] + 1 = offset + 1
  BY <1>3
<1>11. [m \in 1 .. K - 0 |-> e[0 + m]] = [n \in 1 .. K |-> e[n]]
  <2>1. K - 0 = K /\ \A m \in 1 .. K : 0 + m = m
    BY <1>2
  <2> QED
    BY <2>1
<1> QED
  BY <1>9, <1>10, <1>11 DEF all, K

-----------------------------------------------------------------------------
(* The fast materializer *)

\* A frame with what its children became behind it is rebuilt to the element's value.
LEMMA FrameRebuilt ==
  ASSUME tape \in Tapes, NEW i \in Starts, NEW key \in FrameKeys,
         NEW parts \in Seq(Seq(FrameSet)), Len(parts) = Len(Turns(i)),
         RebuildsEach(parts, EntriesOf(JsonValue, i))
  PROVE  /\ <<FrameOf(i, key)>> \o Concatenated(parts) \in Seq(FrameSet)
         /\ Rebuilds(<<FrameOf(i, key)>> \o Concatenated(parts),
                     [key |-> key, value |-> JsonValue[i]])
<1> DEFINE f == FrameOf(i, key)  all == Concatenated(parts)  span == <<f>> \o all
           e == EntriesOf(JsonValue, i)  whole == [key |-> key, value |-> JsonValue[i]]
<1>1. /\ f \in FrameSet /\ f.childCount = Len(parts) /\ f.key = key
      /\ f.kind = TypeAt(i) /\ f.payload = Content(i)
  BY TurnFacts, ElementFacts DEF FrameOf, FrameSet
<1>2. all \in Seq(FrameSet) /\ Len(all) \in Nat /\ Len(parts) \in Nat
  BY ConcatenatedPlaces
<1>3. e = [n \in 1 .. Len(parts) |-> e[n]]
  BY TurnFacts DEF EntriesOf
<1>4. GoValue(TypeAt(i), Content(i), e) = JsonValue[i]
  BY JsonValues DEF ValueByTurns
<1> HIDE DEF f, all, e
<1>5. /\ span \in Seq(FrameSet) /\ Len(span) = Len(all) + 1 /\ span[1] = f
      /\ \A m \in 1 .. Len(all) : span[1 + m] = all[m]
  BY <1>1, <1>2
<1> HIDE DEF span, whole
<1>6. \A frames \in Seq(FrameSet) : \A offset, count \in Nat : \A g, next, entries :
        /\ Builds(frames, g)
        /\ LiesAt(span, frames, offset)
        /\ g[offset + Len(span) + 1][count] = Success(next, entries)
        => g[offset + 1][count + 1] = Success(next, <<whole>> \o entries)
  <2> TAKE frames \in Seq(FrameSet)
  <2> TAKE offset, count \in Nat
  <2> TAKE g, next, entries
  <2>0. HAVE /\ Builds(frames, g)
             /\ LiesAt(span, frames, offset)
             /\ g[offset + Len(span) + 1][count] = Success(next, entries)
  <2>1. /\ offset + 1 + Len(all) <= Len(frames) /\ Len(frames) \in Nat
        /\ DOMAIN frames = 1 .. Len(frames)
        /\ frames[offset + 1] = f
        /\ \A m \in 1 .. Len(all) : frames[offset + 1 + m] = all[m]
    <3>1. /\ offset + Len(span) <= Len(frames)
          /\ \A m \in 1 .. Len(span) : frames[offset + m] = span[m]
      BY <2>0 DEF LiesAt
    <3>2. frames[offset + 1] = f
      <4>1. 1 \in 1 .. Len(span)
        BY <1>2, <1>5
      <4> QED
        BY <1>5, <3>1, <4>1
    <3>3. ASSUME NEW m \in 1 .. Len(all)
          PROVE  frames[offset + 1 + m] = all[m]
      <4>1. 1 + m \in 1 .. Len(span) /\ offset + (1 + m) = offset + 1 + m
        BY <1>2, <1>5
      <4> QED
        BY <1>5, <3>1, <4>1
    <3>4. Len(frames) \in Nat /\ DOMAIN frames = 1 .. Len(frames)
      OBVIOUS
    <3>5. offset + 1 + Len(all) <= Len(frames)
      BY <1>2, <1>5, <3>1, <3>4
    <3> QED
      BY <3>2, <3>3, <3>4, <3>5
  <2>2. LiesAt(all, frames, offset + 1)
    BY <2>1 DEF LiesAt
  <2>3. g[(offset + 1) + 1][Len(parts)] = Success((offset + 1) + Len(all) + 1, e)
    <3>1. offset + 1 \in Nat
      OBVIOUS
    <3>2. g[(offset + 1) + 1][Len(parts)] =
            Success((offset + 1) + Len(all) + 1, [n \in 1 .. Len(parts) |-> e[n]])
      <4> DEFINE off == offset + 1
      <4>1. off \in Nat /\ LiesAt(all, frames, off) /\ Builds(frames, g)
        BY <2>0, <2>2, <3>1
      <4>2. RebuildsEach(parts, e)
        BY DEF e
      <4> HIDE DEF off
      <4>3. g[off + 1][Len(parts)] = Success(off + Len(all) + 1, [n \in 1 .. Len(parts) |-> e[n]])
        BY <4>1, <4>2, SiblingsRebuilt DEF all
      <4> QED
        BY <4>3 DEF off
    <3> QED
      BY <1>3, <3>2
  <2>4. (offset + 1) + Len(all) + 1 = offset + Len(span) + 1
    BY <1>2, <1>5
  <2>5. g[offset + 1][count + 1] = Built(g, frames, offset + 1, count + 1)
    <3>1. offset + 1 \in Nat /\ count + 1 \in Nat
      OBVIOUS
    <3> QED
      BY <2>0, <3>1 DEF Builds
  <2>6. offset + 1 \in DOMAIN frames /\ count + 1 # 0 /\ (count + 1) - 1 = count
    BY <1>2, <2>1
  <2> DEFINE inside == g[(offset + 1) + 1][Len(parts)]
             rest == g[inside.next][count]
  <2>7. Built(g, frames, offset + 1, count + 1) =
          [ok |-> inside.ok /\ rest.ok, next |-> rest.next,
           entries |-> <<[key |-> key, value |-> GoValue(TypeAt(i), Content(i), inside.entries)]>>
                       \o rest.entries]
    BY <1>1, <2>1, <2>6 DEF Built
  <2>8. inside.ok = TRUE /\ inside.next = offset + Len(span) + 1 /\ inside.entries = e
    BY <2>3, <2>4 DEF Success
  <2>9. rest.ok = TRUE /\ rest.next = next /\ rest.entries = entries
    BY <2>0, <2>8 DEF Success
  <2> HIDE DEF inside, rest
  <2>10. Built(g, frames, offset + 1, count + 1) =
           [ok |-> TRUE, next |-> next, entries |-> <<whole>> \o entries]
    BY <1>4, <2>7, <2>8, <2>9 DEF whole
  <2> QED
    BY <2>5, <2>10 DEF Success
<1>7. Rebuilds(span, whole)
  BY ONLY <1>6 DEF Rebuilds
<1> QED
  BY <1>5, <1>7 DEF span, whole, f, all

Flattens(i) ==
  \A key \in FrameKeys : \A depth \in Nat : depth <= Nesting(i) =>
    /\ AppendFrame[i][key][depth].ok = TRUE
    /\ AppendFrame[i][key][depth].frames \in Seq(FrameSet)
    /\ Rebuilds(AppendFrame[i][key][depth].frames, [key |-> key, value |-> JsonValue[i]])

\* At a depth that is at most the element's nesting, its span is complete and is
\* rebuilt to its value.
LEMMA SpansRebuilt ==
  ASSUME tape \in Tapes
  PROVE  \A i \in Starts : Flattens(i)
<1> DEFINE T == {i \in Starts : Flattens(i)}
           left == [i \in Starts |-> Len(tape) - i]
<1>1. Len(tape) \in Nat /\ \A i \in Starts : i \in 1 .. Len(tape)
  <2>1. RootIndex \in Starts
    BY CursorAssumption DEF WellFormed, Starts, RootIndex
  <2> QED
    BY <2>1, ElementFacts
<1>2. left \in [Starts -> Nat]
  BY <1>1
<1>3. ASSUME NEW i \in Starts, \A j \in Starts : left[j] < left[i] => j \in T
      PROVE  i \in T
  <2>1. \A j \in Starts : i < j => Flattens(j)
    BY <1>1, <1>3
  <2>2. ASSUME NEW key \in FrameKeys, NEW depth \in Nat, depth <= Nesting(i)
        PROVE  /\ AppendFrame[i][key][depth].ok = TRUE
               /\ AppendFrame[i][key][depth].frames \in Seq(FrameSet)
               /\ Rebuilds(AppendFrame[i][key][depth].frames, [key |-> key, value |-> JsonValue[i]])
    <3> DEFINE K == Len(Turns(i))  child == ChildSpans(AppendFrame, i, depth)
               parts == [n \in DOMAIN child |-> child[n].frames]
               span == <<FrameOf(i, key)>> \o Concatenated(parts)
    <3>1. K \in Nat /\ DOMAIN Turns(i) = 1 .. K
      BY TurnFacts
    <3>2. DOMAIN child = 1 .. K
      BY <3>1 DEF ChildSpans
    <3>3. ASSUME NEW n \in 1 .. K
          PROVE  /\ child[n].ok = TRUE /\ child[n].frames \in Seq(FrameSet)
                 /\ Rebuilds(child[n].frames, EntriesOf(JsonValue, i)[n])
      <4> DEFINE v == ValueFor(i, Turns(i)[n])  k == KeyFor(i, Turns(i)[n])
      <4>1. v \in Starts /\ i < v /\ AfterIndex(v) < AfterIndex(i) /\ k \in FrameKeys
        BY <3>1, TurnFacts
      <4>2. child[n] = AppendFrame[v][k][depth + 1]
        BY <3>1 DEF ChildSpans
      <4>3. EntriesOf(JsonValue, i)[n] = [key |-> k, value |-> JsonValue[v]]
        BY <3>1 DEF EntriesOf, Entry
      <4> HIDE DEF v, k
      <4>4. depth + 1 \in Nat /\ depth + 1 <= Nesting(v)
        BY <2>2, <4>1, NestingGrows
      <4>5. Flattens(v)
        BY <2>1, <4>1
      <4> QED
        BY <4>1, <4>2, <4>3, <4>4, <4>5 DEF Flattens
    <3>4. parts \in Seq(Seq(FrameSet)) /\ Len(parts) = K
          /\ \A n \in 1 .. K : parts[n] = child[n].frames
      <4>1. \A n \in 1 .. K : child[n].frames \in Seq(FrameSet)
        BY <3>3
      <4> HIDE DEF child, K
      <4>2. parts = [n \in 1 .. K |-> child[n].frames]
        BY <3>2
      <4> HIDE DEF parts
      <4>3. parts \in [1 .. K -> Seq(FrameSet)]
        BY <4>1, <4>2
      <4>4. parts \in Seq(Seq(FrameSet)) /\ Len(parts) = K
        BY <3>1, <4>3
      <4> QED
        BY <4>2, <4>4
    <3>5. ~TooDeep(depth)
      <4>1. Nesting(i) \in Nat /\ Nesting(i) < MaxSupportedDepth
        BY NestingBounded
      <4>2. MaxSupportedDepth \in Nat
        BY MaterializerAssumption
      <4> QED
        BY <2>2, <4>1, <4>2 DEF TooDeep
    <3>6. AppendFrame[i][key][depth] = SpanOf(AppendFrame, i, key, depth)
      <4>1. AppendFrame[i] = SpansOf(AppendFrame, i)
        BY AppendFrameSpans
      <4>2. \A f : SpansOf(f, i)[key][depth] = SpanOf(f, i, key, depth)
        BY DEF SpansOf
      <4> QED
        BY <4>1, <4>2
    <3>7. SpanOf(AppendFrame, i, key, depth) =
            [ok |-> \A n \in DOMAIN child : child[n].ok, frames |-> span]
      BY <3>5 DEF SpanOf
    <3>8. RebuildsEach(parts, EntriesOf(JsonValue, i))
      BY <3>3, <3>4 DEF RebuildsEach
    <3> HIDE DEF child, parts
    <3>9. (\A n \in DOMAIN child : child[n].ok) = TRUE
      BY <3>2, <3>3
    <3>10. span \in Seq(FrameSet) /\ Rebuilds(span, [key |-> key, value |-> JsonValue[i]])
      BY <3>4, <3>8, FrameRebuilt
    <3> HIDE DEF span
    <3> QED
      BY <3>6, <3>7, <3>9, <3>10
  <2> QED
    BY <2>2 DEF Flattens
<1> HIDE DEF T, left
<1>4. Starts \subseteq T
  BY <1>2, <1>3, MeasureInduction
<1> QED
  BY <1>4 DEF T

\* Flattening into frames and rebuilding from them loses nothing.
LEMMA FastAgrees ==
  ASSUME tape \in Tapes, NEW i \in Starts
  PROVE  FastMaterialize(i) = JsonValue[i]
<1> DEFINE span == AppendFrame[i][NoKey][0]  frames == span.frames
           whole == [key |-> NoKey, value |-> JsonValue[i]]
<1>1. span.ok = TRUE /\ frames \in Seq(FrameSet) /\ Rebuilds(frames, whole)
  <2>1. NoKey \in FrameKeys /\ 0 <= Nesting(i)
    BY NestingBounded DEF FrameKeys
  <2>2. Flattens(i)
    BY SpansRebuilt
  <2> QED
    BY <2>1, <2>2 DEF Flattens
<1> HIDE DEF frames
<1>2. PICK g : Builds(frames, g) /\ BuildAny(frames) = g[1][1]
  BY <1>1, BuildAnyBuilds
<1>3. Len(frames) \in Nat
  BY <1>1
<1>4. LiesAt(frames, frames, 0)
  BY <1>3 DEF LiesAt
<1>5. g[0 + Len(frames) + 1][0] = Success(Len(frames) + 1, <<>>)
  <2>1. 0 + Len(frames) + 1 = Len(frames) + 1 /\ Len(frames) + 1 \in Nat
    BY <1>3
  <2> QED
    BY <1>2, <2>1 DEF Builds, Built, Success
<1> HIDE DEF whole
<1>6. g[0 + 1][0 + 1] = Success(Len(frames) + 1, <<whole>> \o <<>>)
  <2>1. 0 \in Nat
    OBVIOUS
  <2>2. \A offset, count \in Nat : \A h, next, entries :
          /\ Builds(frames, h)
          /\ LiesAt(frames, frames, offset)
          /\ h[offset + Len(frames) + 1][count] = Success(next, entries)
          => h[offset + 1][count + 1] = Success(next, <<whole>> \o entries)
    BY ONLY <1>1, ZenonT(60) DEF Rebuilds
  <2>3. \A h, next, entries :
          /\ Builds(frames, h)
          /\ LiesAt(frames, frames, 0)
          /\ h[0 + Len(frames) + 1][0] = Success(next, entries)
          => h[0 + 1][0 + 1] = Success(next, <<whole>> \o entries)
    BY ONLY <2>1, <2>2, ZenonT(60)
  <2> QED
    BY ONLY <1>2, <1>4, <1>5, <2>3, ZenonT(60)
<1>7. BuildAny(frames) = Success(Len(frames) + 1, <<whole>>)
  <2>1. 0 + 1 = 1 /\ <<whole>> \o <<>> = <<whole>>
    OBVIOUS
  <2> QED
    BY <1>2, <1>6, <2>1
<1>8. BuildAnyFromFrames(frames) = JsonValue[i]
  <2> DEFINE built == BuildAny(frames)
  <2>1. built.ok = TRUE /\ built.next = Len(frames) + 1 /\ built.entries = <<whole>>
    BY <1>7 DEF Success
  <2> HIDE DEF built
  <2>2. BuildAnyFromFrames(frames) = whole.value
    BY <2>1 DEF BuildAnyFromFrames, built
  <2> QED
    BY <2>2 DEF whole
<1> QED
  BY <1>1, <1>8 DEF FastMaterialize, MaterializeBuild, frames

\* Both materializers give every element that a caller can name the value the tape
\* contains, for documents of any size and nesting below the limit, with any keys,
\* equal ones included: what append_materialize_frame flattens, buildAnyFromFrame
\* rebuilds, and it uses up the span.
THEOREM MaterializersAgreeCorrect == Spec => []MaterializersAgree
<1>1. IInv => MaterializersAgree
  <2> SUFFICES ASSUME IInv, NEW i \in DOMAIN tape, Resolves(i)
               PROVE  FastMaterialize(i) = JsonValue[i] /\ ViaAccessors[i] = JsonValue[i]
    BY DEF MaterializersAgree
  <2>1. tape \in Tapes /\ i \in Starts
    BY ResolvesStart DEF IInv, TypeOK
  <2> QED
    BY <2>1, FastAgrees, AccessorsAgree
<1> QED
  BY <1>1, Invariance, PTL

-----------------------------------------------------------------------------
(* Exact float64 values *)

LEMMA Powers ==
  /\ Pow2[0] = 1
  /\ \A n \in Nat : Pow2[n] \in Nat \ {0} /\ Pow2[n + 1] = 2 * Pow2[n]
<1> DEFINE body == [a \in Nat \X [Nat -> Nat] |->
                      IF a[1] = 0 THEN 1 ELSE 2 * a[2][a[1] - 1]]
           id == [n \in Nat |-> n]
           Unfolded(f) == f = [n \in Nat |-> IF n = 0 THEN 1 ELSE 2 * f[n - 1]]
<1>1. Descends(Nat, Nat, id, body)
  <2>1. body \in [Nat \X [Nat -> Nat] -> Nat]
    OBVIOUS
  <2>2. ASSUME NEW n \in Nat, NEW f \in [Nat -> Nat], NEW g \in [Nat -> Nat],
               \A m \in Nat : id[m] < id[n] => f[m] = g[m]
        PROVE  body[<<n, f>>] = body[<<n, g>>]
    <3>1. n # 0 => f[n - 1] = g[n - 1]
      BY <2>2
    <3> QED
      BY <3>1
  <2> HIDE DEF body
  <2> QED
    BY <2>1, <2>2 DEF Descends
<1>2. PICK f \in [Nat -> Nat] : Solves(Nat, body, f)
  <2> HIDE DEF body, id
  <2>1. Nat # {}
    OBVIOUS
  <2> QED
    BY <1>1, <2>1, RecursionDefines
<1>3. Unfolded(f)
  BY <1>2 DEF Solves
<1> HIDE DEF Unfolded
<1>4. Unfolded(Pow2)
  <2>1. Pow2 = CHOOSE g : Unfolded(g)
    BY DEF Pow2, Unfolded
  <2> QED
    BY <1>3, <2>1
<1>5. Pow2[0] = 1 /\ \A n \in Nat : Pow2[n + 1] = 2 * Pow2[n]
  BY <1>4 DEF Unfolded
<1>6. \A n \in Nat : Pow2[n] \in Nat \ {0}
  <2> DEFINE T == {n \in Nat : Pow2[n] \in Nat \ {0}}
  <2>1. 0 \in T /\ \A n \in Nat : n \in T => n + 1 \in T
    BY <1>5
  <2> HIDE DEF T
  <2>2. Nat \subseteq T
    BY <2>1, NatInductionOnSets
  <2> QED
    BY <2>2 DEF T
<1> QED
  BY <1>5, <1>6

LEMMA BitLengths ==
  /\ BitLength[0] = 0
  /\ \A v \in Nat : BitLength[v] \in Nat /\ (v # 0 => BitLength[v] = 1 + BitLength[v \div 2])
<1> DEFINE body == [a \in Nat \X [Nat -> Nat] |->
                      IF a[1] = 0 THEN 0 ELSE 1 + a[2][a[1] \div 2]]
           id == [n \in Nat |-> n]
           Unfolded(f) == f = [v \in Nat |-> IF v = 0 THEN 0 ELSE 1 + f[v \div 2]]
<1>1. Descends(Nat, Nat, id, body)
  <2>1. body \in [Nat \X [Nat -> Nat] -> Nat]
    OBVIOUS
  <2>2. ASSUME NEW n \in Nat, NEW f \in [Nat -> Nat], NEW g \in [Nat -> Nat],
               \A m \in Nat : id[m] < id[n] => f[m] = g[m]
        PROVE  body[<<n, f>>] = body[<<n, g>>]
    <3>1. n # 0 => n \div 2 \in Nat /\ n \div 2 < n
      OBVIOUS
    <3>2. n # 0 => f[n \div 2] = g[n \div 2]
      BY <2>2, <3>1
    <3> QED
      BY <3>2
  <2> HIDE DEF body
  <2> QED
    BY <2>1, <2>2 DEF Descends
<1>2. PICK f \in [Nat -> Nat] : Solves(Nat, body, f)
  <2> HIDE DEF body, id
  <2>1. Nat # {}
    OBVIOUS
  <2> QED
    BY <1>1, <2>1, RecursionDefines
<1>3. Unfolded(f)
  BY <1>2 DEF Solves
<1> HIDE DEF Unfolded
<1>4. Unfolded(BitLength)
  <2>1. BitLength = CHOOSE g : Unfolded(g)
    BY DEF BitLength, Unfolded
  <2> QED
    BY <1>3, <2>1
<1>5. BitLength[0] = 0 /\ \A v \in Nat : v # 0 => BitLength[v] = 1 + BitLength[v \div 2]
  BY <1>4 DEF Unfolded
<1>6. Nat \subseteq {v \in Nat : BitLength[v] \in Nat}
  <2> DEFINE T == {v \in Nat : BitLength[v] \in Nat}
  <2>1. ASSUME NEW v \in Nat, \A u \in Nat : id[u] < id[v] => u \in T
        PROVE  v \in T
    <3>1. v # 0 => v \div 2 \in Nat /\ v \div 2 < v
      OBVIOUS
    <3> QED
      BY <1>5, <2>1, <3>1
  <2>2. id \in [Nat -> Nat]
    OBVIOUS
  <2> HIDE DEF T, id
  <2>3. Nat \subseteq T
    BY <2>1, <2>2, MeasureInduction
  <2> QED
    BY <2>3 DEF T
<1> QED
  BY <1>5, <1>6

LEMMA TrailingZeroCounts ==
  \A v \in Nat \ {0} :
    TrailingZeros[v] = IF v % 2 = 1 THEN 0 ELSE 1 + TrailingZeros[v \div 2]
<1> DEFINE D == Nat \ {0}
           body == [a \in D \X [D -> Nat] |->
                      IF a[1] % 2 = 1 THEN 0 ELSE 1 + a[2][a[1] \div 2]]
           id == [n \in D |-> n]
           Unfolded(f) == f = [v \in D |-> IF v % 2 = 1 THEN 0 ELSE 1 + f[v \div 2]]
<1>1. \A v \in D : v % 2 # 1 => v \div 2 \in D /\ v \div 2 < v
  OBVIOUS
<1>2. Descends(D, Nat, id, body)
  <2>1. body \in [D \X [D -> Nat] -> Nat]
    BY <1>1
  <2>2. ASSUME NEW n \in D, NEW f \in [D -> Nat], NEW g \in [D -> Nat],
               \A m \in D : id[m] < id[n] => f[m] = g[m]
        PROVE  body[<<n, f>>] = body[<<n, g>>]
    <3>1. n % 2 # 1 => f[n \div 2] = g[n \div 2]
      BY <1>1, <2>2
    <3> QED
      BY <3>1
  <2>3. id \in [D -> Nat]
    OBVIOUS
  <2> HIDE DEF body, D
  <2> QED
    BY <2>1, <2>2, <2>3 DEF Descends
<1>3. PICK f \in [D -> Nat] : Solves(D, body, f)
  <2> HIDE DEF body, id, D
  <2>1. Nat # {}
    OBVIOUS
  <2> QED
    BY <1>2, <2>1, RecursionDefines
<1>4. Unfolded(f)
  BY <1>3 DEF Solves
<1> HIDE DEF Unfolded
<1>5. Unfolded(TrailingZeros)
  <2>1. TrailingZeros = CHOOSE g : Unfolded(g)
    BY DEF TrailingZeros, Unfolded
  <2> QED
    BY <1>4, <2>1
<1> QED
  BY <1>5 DEF Unfolded

\* A number has as many bits as the least power of 2 above it says.
LEMMA FitsInBits ==
  \A v \in Nat : \A k \in Nat : BitLength[v] <= k <=> v < Pow2[k]
<1> DEFINE T == {k \in Nat : \A v \in Nat : BitLength[v] <= k <=> v < Pow2[k]}
<1>1. 0 \in T
  <2>1. ASSUME NEW v \in Nat
        PROVE  BitLength[v] <= 0 <=> v < 1
    <3>1. v # 0 => BitLength[v] = 1 + BitLength[v \div 2] /\ v \div 2 \in Nat
      BY BitLengths
    <3>2. v # 0 => BitLength[v] >= 1
      BY <3>1, BitLengths
    <3> QED
      BY <3>2, BitLengths
  <2> QED
    BY <2>1, Powers
<1>2. ASSUME NEW k \in Nat, k \in T
      PROVE  k + 1 \in T
  <2>1. ASSUME NEW v \in Nat
        PROVE  BitLength[v] <= k + 1 <=> v < Pow2[k + 1]
    <3>1. CASE v = 0
      BY <3>1, BitLengths, Powers
    <3>2. CASE v # 0
      <4> DEFINE h == v \div 2
                 p == Pow2[k]
      <4>1. h \in Nat /\ BitLength[v] = 1 + BitLength[h] /\ BitLength[h] \in Nat
        BY <3>2, BitLengths
      <4>2. BitLength[h] <= k <=> h < p
        BY <1>2, <4>1
      <4>3. p \in Nat /\ Pow2[k + 1] = 2 * p
        BY Powers
      <4>4. ASSUME NEW q \in Nat
            PROVE  v \div 2 < q <=> v < 2 * q
        OBVIOUS
      <4>5. h < p <=> v < 2 * p
        BY <4>3, <4>4
      <4> HIDE DEF h, p
      <4> QED
        BY <4>1, <4>2, <4>3, <4>5
    <3> QED
      BY <3>1, <3>2
  <2> QED
    BY <2>1
<1> HIDE DEF T
<1>3. Nat \subseteq T
  BY <1>1, <1>2, NatInductionOnSets
<1> QED
  BY <1>3 DEF T

\* Doubling a number keeps its bits and adds a zero behind them.
LEMMA Doubled ==
  ASSUME NEW v \in Nat \ {0}
  PROVE  /\ TrailingZeros[v] \in Nat /\ Pow2[TrailingZeros[v]] \in Nat \ {0}
         /\ v \div Pow2[TrailingZeros[v]] \in Nat
         /\ 2 * v \in Nat \ {0}
         /\ TrailingZeros[2 * v] = 1 + TrailingZeros[v]
         /\ (2 * v) \div Pow2[TrailingZeros[2 * v]] = v \div Pow2[TrailingZeros[v]]
<1> DEFINE T == {u \in Nat : u # 0 => TrailingZeros[u] \in Nat}
           id == [n \in Nat |-> n]
<1>1. T = Nat
  <2>1. ASSUME NEW u \in Nat, \A w \in Nat : id[w] < id[u] => w \in T
        PROVE  u \in T
    <3> SUFFICES ASSUME u # 0 PROVE TrailingZeros[u] \in Nat
      OBVIOUS
    <3>1. TrailingZeros[u] = IF u % 2 = 1 THEN 0 ELSE 1 + TrailingZeros[u \div 2]
      BY TrailingZeroCounts
    <3>2. u % 2 # 1 => u \div 2 \in Nat \ {0} /\ u \div 2 < u
      OBVIOUS
    <3>3. u % 2 # 1 => TrailingZeros[u \div 2] \in Nat
      BY <2>1, <3>2
    <3> QED
      BY <3>1, <3>3
  <2>2. id \in [Nat -> Nat]
    OBVIOUS
  <2> HIDE DEF T, id
  <2>3. Nat \subseteq T
    BY <2>1, <2>2, MeasureInduction
  <2> QED
    BY <2>3 DEF T
<1>2. TrailingZeros[v] \in Nat
  BY <1>1
<1>3. 2 * v \in Nat \ {0} /\ (2 * v) % 2 # 1 /\ (2 * v) \div 2 = v
  OBVIOUS
<1>4. TrailingZeros[2 * v] = 1 + TrailingZeros[v]
  BY <1>3, TrailingZeroCounts
<1> DEFINE p == Pow2[TrailingZeros[v]]
<1>5. p \in Nat \ {0} /\ Pow2[TrailingZeros[2 * v]] = 2 * p
  BY <1>2, <1>4, Powers
<1> HIDE DEF p
<1>6. v \div p \in Nat /\ (2 * v) \div (2 * p) = v \div p
  <2> DEFINE q == v \div p
             r == v % p
  <2>1. q \in Nat /\ r \in 0 .. p - 1 /\ v = q * p + r
    BY <1>5
  <2> HIDE DEF q, r
  <2>2. 2 * v = q * (2 * p) + 2 * r /\ 2 * r \in Nat /\ 2 * r < 2 * p /\ 2 * p \in Nat \ {0}
    BY <1>5, <2>1
  <2>3. \A a, b, c \in Nat : b # 0 /\ c < b => (a * b + c) \div b = a
    OBVIOUS
  <2>4. (2 * v) \div (2 * p) = q
    BY <2>1, <2>2, <2>3
  <2> QED
    BY <2>1, <2>4 DEF q
<1> QED
  BY <1>2, <1>3, <1>4, <1>5, <1>6 DEF p

\* An integer as long as the mantissa, with zeros behind it.
Scaled(v) == \E m \in 0 .. Pow2[MantissaBits] - 1 : \E s \in Nat : v = m * Pow2[s]

LEMMA ExactIsScaled == \A v \in Nat \ {0} : Uint64IsExact(v) <=> Scaled(v)
<1> DEFINE T == {v \in Nat : v # 0 => (Uint64IsExact(v) <=> Scaled(v))}
           id == [n \in Nat |-> n]
           M == Pow2[MantissaBits]
<1>1. M \in Nat \ {0} /\ MantissaBits \in Nat
  BY Powers, ArithmeticAssumption
<1>2. \A m \in 0 .. M - 1 : \A s \in Nat : m * Pow2[s] \in Nat
                                          /\ m * Pow2[s + 1] = 2 * (m * Pow2[s])
  <2>1. ASSUME NEW m \in 0 .. M - 1, NEW s \in Nat
        PROVE  m * Pow2[s] \in Nat /\ m * Pow2[s + 1] = 2 * (m * Pow2[s])
    <3>1. Pow2[s] \in Nat /\ Pow2[s + 1] = 2 * Pow2[s] /\ m \in Nat
      BY Powers, <1>1
    <3>2. \A a, b \in Nat : a * b \in Nat /\ a * (2 * b) = 2 * (a * b)
      OBVIOUS
    <3> QED
      BY <3>1, <3>2
  <2> QED
    BY <2>1
<1>3. \A m \in 0 .. M - 1 : m * Pow2[0] = m
  BY <1>1, Powers
<1> HIDE DEF M
<1>4. ASSUME NEW v \in Nat, \A u \in Nat : id[u] < id[v] => u \in T
      PROVE  v \in T
  <2> SUFFICES ASSUME v # 0 PROVE Uint64IsExact(v) <=> Scaled(v)
    OBVIOUS
  <2>1. CASE v % 2 = 1
    <3>1. TrailingZeros[v] = 0 /\ Pow2[0] = 1 /\ v \div 1 = v
      BY <2>1, TrailingZeroCounts, Powers
    <3>2. Uint64IsExact(v) <=> v < M
      BY <1>1, <3>1, FitsInBits DEF Uint64IsExact, M
    <3>3. v < M => Scaled(v)
      <4>1. v < M => v \in 0 .. M - 1 /\ v = v * Pow2[0] /\ 0 \in Nat
        BY <1>1, <1>3
      <4> QED
        BY <4>1 DEF Scaled, M
    <3>4. ASSUME NEW m \in 0 .. M - 1, NEW s \in Nat, v = m * Pow2[s]
          PROVE  v < M
      <4>1. CASE s = 0
        BY <1>1, <1>3, <3>4, <4>1
      <4>2. CASE s # 0
        <5> DEFINE w == m * Pow2[s - 1]
        <5>1. s - 1 \in Nat /\ (s - 1) + 1 = s
          BY <4>2
        <5>2. w \in Nat /\ v = 2 * w
          BY <1>2, <3>4, <5>1
        <5> HIDE DEF w
        <5> QED
          BY <2>1, <5>2
      <4> QED
        BY <4>1, <4>2
    <3> QED
      BY <3>2, <3>3, <3>4 DEF Scaled, M
  <2>2. CASE v % 2 # 1
    <3> DEFINE w == v \div 2
    <3>1. w \in Nat \ {0} /\ v = 2 * w /\ w < v
      BY <2>2
    <3> HIDE DEF w
    <3>2. Uint64IsExact(w) <=> Scaled(w)
      BY <1>4, <3>1
    <3>3. Uint64IsExact(v) <=> Uint64IsExact(w)
      BY <3>1, Doubled DEF Uint64IsExact
    <3>4. ASSUME NEW m \in 0 .. M - 1, NEW s \in Nat, w = m * Pow2[s]
          PROVE  Scaled(v)
      <4>1. v = m * Pow2[s + 1] /\ s + 1 \in Nat
        BY <1>2, <3>1, <3>4
      <4> QED
        BY <4>1 DEF Scaled, M
    <3>5. ASSUME NEW m \in 0 .. M - 1, NEW s \in Nat, v = m * Pow2[s]
          PROVE  Scaled(w)
      <4>1. CASE s = 0
        <5>1. v = m
          BY <1>3, <3>5, <4>1
        <5>2. w \in 0 .. M - 1
          BY <1>1, <3>1, <5>1
        <5>3. w = w * Pow2[0] /\ 0 \in Nat
          BY <1>3, <5>2
        <5> QED
          BY <5>2, <5>3 DEF Scaled, M
      <4>2. CASE s # 0
        <5> DEFINE x == m * Pow2[s - 1]
        <5>1. s - 1 \in Nat /\ (s - 1) + 1 = s
          BY <4>2
        <5>2. x \in Nat /\ v = 2 * x
          BY <1>2, <3>5, <5>1
        <5>3. w = x
          <6> HIDE DEF x
          <6> QED
            BY <3>1, <5>2
        <5> QED
          BY <5>1, <5>3 DEF Scaled, M
      <4> QED
        BY <4>1, <4>2
    <3> QED
      BY <3>2, <3>3, <3>4, <3>5 DEF Scaled, M
  <2> QED
    BY <2>1, <2>2
<1>5. id \in [Nat -> Nat]
  OBVIOUS
<1> HIDE DEF T, id
<1>6. Nat \subseteq T
  BY <1>4, <1>5, MeasureInduction
<1> QED
  BY <1>6 DEF T

LEMMA WordSizes ==
  \E half \in Nat \ {0} :
    Modulus = 2 * half /\ MinInt64 = -half /\ MaxInt64 = half - 1
<1>1. WordBits - 1 \in Nat /\ (WordBits - 1) + 1 = WordBits
  BY ArithmeticAssumption
<1>2. Pow2[WordBits - 1] \in Nat \ {0} /\ Pow2[WordBits] = 2 * Pow2[WordBits - 1]
  BY <1>1, Powers
<1> QED
  BY <1>2 DEF Modulus, MinInt64, MaxInt64

\* For any integer of at most as many bits as a word, whatever its sign.
LEMMA ExactIsFloat64 ==
  ASSUME NEW v \in Int, NEW a \in Nat, v = a \/ v = -a, a < Modulus
  PROVE  Uint64IsExact(a) <=> IsFloat64(v)
<1> DEFINE M == Pow2[MantissaBits]
<1>1. M \in Nat \ {0} /\ WordBits \in Nat /\ \A s \in Nat : Pow2[s] \in Nat \ {0}
  BY Powers, ArithmeticAssumption
<1>2. \A m \in 0 .. M - 1 : \A s \in Nat : m * Pow2[s] \in Nat
  <2>1. \A x, y \in Nat : x * y \in Nat
    OBVIOUS
  <2> QED
    BY <1>1, <2>1
<1>3. ASSUME IsFloat64(v)
      PROVE  a = 0 \/ Scaled(a)
  <2>1. PICK m \in 0 .. M - 1, s \in 0 .. WordBits :
          v = m * Pow2[s] \/ v = -(m * Pow2[s])
    BY <1>3 DEF IsFloat64
  <2>2. s \in Nat /\ m * Pow2[s] \in Nat
    BY <1>1, <1>2
  <2> DEFINE x == m * Pow2[s]
  <2>3. a = x
    <3>1. x \in Nat /\ (v = x \/ v = -x)
      BY <2>1, <2>2
    <3> HIDE DEF x
    <3> QED
      BY <3>1
  <2> QED
    BY <2>2, <2>3 DEF Scaled
<1>4. ASSUME Scaled(a), a # 0
      PROVE  IsFloat64(v)
  <2>1. PICK m \in 0 .. M - 1, s \in Nat : a = m * Pow2[s]
    BY <1>4 DEF Scaled
  <2>2. Pow2[s] <= a
    <3>1. m \in Nat /\ m # 0 /\ Pow2[s] \in Nat
      <4>1. m \in Nat /\ Pow2[s] \in Nat /\ 0 * Pow2[s] = 0
        BY <1>1
      <4> QED
        BY <1>4, <2>1, <4>1
    <3>2. \A x, y \in Nat : x # 0 => y <= x * y
      OBVIOUS
    <3> QED
      BY <2>1, <3>1, <3>2
  <2>3. s \in 0 .. WordBits
    <3> SUFFICES ASSUME WordBits < s PROVE FALSE
      BY <1>1
    <3>1. BitLength[a] <= WordBits /\ BitLength[a] \in Nat
      BY <1>1, FitsInBits, BitLengths DEF Modulus
    <3>2. BitLength[a] <= s
      BY <1>1, <3>1
    <3>3. a < Pow2[s]
      BY <3>2, FitsInBits
    <3> QED
      BY <1>1, <2>2, <3>3
  <2>4. v = m * Pow2[s] \/ v = -(m * Pow2[s])
    BY <2>1
  <2> QED
    BY <2>3, <2>4 DEF IsFloat64
<1>5. CASE a = 0
  <2>1. 0 \in 0 .. M - 1 /\ 0 \in 0 .. WordBits /\ 0 = 0 * Pow2[0]
    BY <1>1
  <2>2. v = 0
    BY <1>5
  <2> QED
    BY <1>5, <2>1, <2>2 DEF IsFloat64, Uint64IsExact
<1>6. CASE a # 0
  BY <1>3, <1>4, <1>6, ExactIsScaled
<1> QED
  BY <1>5, <1>6

LEMMA Magnitudes ==
  ASSUME NEW v \in MinInt64 .. MaxInt64
  PROVE  LET a == IF v < 0 THEN -v ELSE v
         IN  a \in Nat /\ a < Modulus /\ MagnitudeRust(v) = a /\ MagnitudeGo(v) = a
<1>1. PICK half \in Nat \ {0} : Modulus = 2 * half /\ MinInt64 = -half /\ MaxInt64 = half - 1
  BY WordSizes
<1>2. v \in Int /\ -half <= v /\ v <= half - 1
  BY <1>1
<1>3. \A x \in 0 .. 2 * half - 1 : x % (2 * half) = x
  BY <1>1
<1>4. CASE v >= 0
  <2>1. v % (2 * half) = v
    BY <1>1, <1>2, <1>3, <1>4
  <2> QED
    BY <1>1, <1>2, <1>4, <2>1 DEF MagnitudeRust, MagnitudeGo
<1>5. CASE v < 0
  <2>1. -v \in 1 .. half /\ -v \in 0 .. 2 * half - 1 /\ -v - 1 \in 0 .. 2 * half - 1
    BY <1>2, <1>5
  <2>2. (-v) % (2 * half) = -v /\ (-v - 1) % (2 * half) = -v - 1 /\ (-v - 1) + 1 = -v
    BY <1>2, <1>3, <2>1
  <2>3. MagnitudeGo(v) = -v
    BY <1>1, <1>5, <2>2 DEF MagnitudeGo
  <2>4. (-half) % (2 * half) = half
    BY <1>1
  <2>5. MagnitudeRust(v) = -v
    BY <1>1, <1>2, <1>5, <2>2, <2>4 DEF MagnitudeRust
  <2> QED
    BY <1>1, <1>2, <1>5, <2>1, <2>3, <2>5
<1> QED
  BY <1>2, <1>4, <1>5

\* GetFloat64 returns the integers a float64 holds, and those only, in Go as in Rust, for
\* any width of words and mantissas.
THEOREM FloatsExactEverywhere == FloatsExact
<1> SUFFICES ASSUME NEW e \in IntegerElements \cup OtherElements, NEW hint \in {e.kind, "invalid"}
             PROVE  LET answer == GetFloat64Go(hint, e) IN
                    /\ answer = GetFloat64Rust(e)
                    /\ e \in IntegerElements =>
                         answer = IF IsFloat64(e.value) THEN Value(e.value)
                                  ELSE Error("precision_loss")
                    /\ e.kind = "bigint" => answer.rc = "wrong_type"
  BY DEF FloatsExact
<1>1. PICK half \in Nat \ {0} : Modulus = 2 * half /\ MinInt64 = -half /\ MaxInt64 = half - 1
  BY WordSizes
<1>2. CASE e.kind = "int64"
  <2>1. e.value \in MinInt64 .. MaxInt64
    BY <1>2 DEF IntegerElements, OtherElements
  <2> DEFINE a == IF e.value < 0 THEN -e.value ELSE e.value
  <2>2. /\ a \in Nat /\ a < Modulus
        /\ MagnitudeRust(e.value) = a /\ MagnitudeGo(e.value) = a
    BY <2>1, Magnitudes
  <2>3. e.value \in Int /\ (e.value = a \/ e.value = -a)
    BY <1>1, <2>1
  <2> HIDE DEF a
  <2>4. Uint64IsExact(a) <=> IsFloat64(e.value)
    BY <2>2, <2>3, ExactIsFloat64
  <2> QED
    BY <1>2, <2>2, <2>4 DEF GetFloat64Go, GetFloat64Rust, IfExact, GetInt64, Value, Error
<1>3. CASE e.kind = "uint64"
  <2>1. e.value \in MaxInt64 + 1 .. Modulus - 1
    BY <1>3 DEF IntegerElements, OtherElements
  <2>2. e.value \in Nat /\ e.value < Modulus
    BY <1>1, <2>1
  <2>3. Uint64IsExact(e.value) <=> IsFloat64(e.value)
    BY <2>2, ExactIsFloat64
  <2> QED
    BY <1>3, <2>3 DEF GetFloat64Go, GetFloat64Rust, IfExact, GetUint64, Value, Error
<1>4. CASE e.kind \notin {"int64", "uint64"}
  <2>1. e \notin IntegerElements
    BY <1>4 DEF IntegerElements
  <2> QED
    BY <1>4, <2>1 DEF GetFloat64Go, GetFloat64Rust, GetDouble, Value, Error
<1> QED
  BY <1>2, <1>3, <1>4

-----------------------------------------------------------------------------
(* Buffers and limits *)

\* Overlapping buffers are never minified, and the Go API and the bridge refuse the same ones,
\* whatever the width of an address: no sum or difference they compute wraps around.
THEOREM OverlapsRefusedEverywhere == OverlapsRefused
<1> SUFFICES ASSUME NEW src \in Addresses, NEW dst \in Addresses,
                    NEW srcLen \in Addresses, NEW dstCap \in Addresses
             PROVE  LET apart == srcLen = 0 \/ src = dst
                                   \/ Span(src, srcLen) \cap Span(dst, dstCap) = {}
                        native == MinifyChecks(src, srcLen, dst, dstCap)
                    IN  /\ native = "ok" => apart
                        /\ Exists(src, srcLen) /\ Exists(dst, dstCap) =>
                             /\ MinifyIntoChecks(src, srcLen, dst, dstCap) = native
                             /\ dstCap >= srcLen /\ apart => native = "ok"
  BY DEF OverlapsRefused
<1> DEFINE native == MinifyChecks(src, srcLen, dst, dstCap)
           shared == Span(src, srcLen) \cap Span(dst, dstCap)
<1>1. /\ src \in Nat /\ dst \in Nat /\ srcLen \in Nat /\ dstCap \in Nat /\ AddressMax \in Nat
      /\ src <= AddressMax /\ dst <= AddressMax
  BY ArithmeticAssumption DEF Addresses
<1>2. shared # {} => src < dst + dstCap /\ dst < src + srcLen
  BY <1>1 DEF Span, Addresses
<1>3. ASSUME Exists(src, srcLen), Exists(dst, dstCap), srcLen # 0, dstCap >= srcLen,
             src < dst + dstCap, dst < src + srcLen
      PROVE  shared # {}
  <2>1. CASE src < dst
    BY <1>1, <1>3, <2>1 DEF Span, Addresses, Exists
  <2>2. CASE dst <= src
    BY <1>1, <1>3, <2>2 DEF Span, Addresses, Exists
  <2> QED
    BY <1>1, <2>1, <2>2
<1>4. native = "ok" => srcLen = 0 \/ src = dst \/ shared = {}
  BY <1>1, <1>2 DEF MinifyChecks
<1>5. ASSUME Exists(src, srcLen), Exists(dst, dstCap)
      PROVE  MinifyIntoChecks(src, srcLen, dst, dstCap) = native
  BY <1>1, <1>5 DEF MinifyIntoChecks, MinifyChecks, SlicesPartiallyOverlap, Exists
<1>6. ASSUME Exists(src, srcLen), Exists(dst, dstCap), dstCap >= srcLen,
             srcLen = 0 \/ src = dst \/ shared = {}
      PROVE  native = "ok"
  BY <1>1, <1>3, <1>6 DEF MinifyChecks, Exists
<1> QED
  BY <1>4, <1>5, <1>6

InRange(config) ==
  config.capacity \in MinCapacity .. MaxCapacity /\ config.depth \in 1 .. MaxDepth

\* The limits that options can ask for are accepted by every layer, and every layer keeps
\* them as they are: Go's defaults are never replaced by another layer's.
THEOREM LimitsAgree ==
  /\ InRange(DefaultConfig)
  /\ \A config \in [capacity : Nat, depth : Nat],
        option \in [kind : {"capacity", "depth"}, value : Nat] :
       /\ InRange(config) /\ OptionAccepted(option) => InRange(ApplyOption(config, option))
       /\ InRange(config) =>
            /\ RustAccepts(config.capacity) /\ BridgeAccepts(config.capacity, config.depth)
            /\ RustConfig(config.capacity, config.depth) = config
            /\ BridgeConfig(config.capacity, config.depth) = config
<1>1. InRange(DefaultConfig)
  BY ArithmeticAssumption DEF InRange, DefaultConfig
<1>2. ASSUME NEW config \in [capacity : Nat, depth : Nat],
             NEW option \in [kind : {"capacity", "depth"}, value : Nat],
             InRange(config), OptionAccepted(option)
      PROVE  InRange(ApplyOption(config, option))
  <2>1. CASE option.kind = "capacity"
    BY <1>2, <2>1, ArithmeticAssumption DEF InRange, OptionAccepted, ApplyOption
  <2>2. CASE option.kind = "depth"
    BY <1>2, <2>2, ArithmeticAssumption DEF InRange, OptionAccepted, ApplyOption
  <2> QED
    BY <2>1, <2>2
<1>3. ASSUME NEW config \in [capacity : Nat, depth : Nat], InRange(config)
      PROVE  /\ RustAccepts(config.capacity) /\ BridgeAccepts(config.capacity, config.depth)
             /\ RustConfig(config.capacity, config.depth) = config
             /\ BridgeConfig(config.capacity, config.depth) = config
  <2>1. config.capacity # 0 /\ config.depth # 0
    BY <1>3, ArithmeticAssumption DEF InRange
  <2> QED
    BY <1>3, <2>1, ArithmeticAssumption
       DEF InRange, RustAccepts, BridgeAccepts, RustConfig, BridgeConfig
<1> QED
  BY <1>1, <1>2, <1>3

\* Reading numbers and minifying never round or overwrite anything: the two conversions of
\* an integer to a float64 and the two overlap checks are exact at every width.
THEOREM NothingRoundedOrOverwrittenCorrect == Spec => []NothingRoundedOrOverwritten
<1>1. NothingRoundedOrOverwritten
  BY FloatsExactEverywhere, OverlapsRefusedEverywhere DEF NothingRoundedOrOverwritten
<1> QED
  BY <1>1, PTL

=============================================================================
