-------------------------------- MODULE Cursors --------------------------------
(***************************************************************************)
(* Views and iterators over one parsed document, in                        *)
(* src/src/runtime/registry.rs.  The cursors a caller holds are plain      *)
(* structs in its own memory: it may keep old copies, mix up kinds, or     *)
(* pass one call's result to another.  The registry therefore validates    *)
(* each struct on every call against what the document's entry records:    *)
(* the tape indices it has given out and the lease of each iterator.       *)
(*                                                                         *)
(* Here a call may be given any struct at all, so what the checks let      *)
(* through is all they can be trusted for.  Each call holds the registry   *)
(* mutex from the checks to the end and is one action; a call that is      *)
(* refused or only reads leaves the entry alone and is not written down.   *)
(* That the handle of a freed document resolves to nothing is the business *)
(* of Registry.tla: the document here lives on.                            *)
(***************************************************************************)
EXTENDS Naturals, Sequences

CONSTANTS
  Tapes,      \* parsed documents: sequences of tape words
  LeaseMod    \* 2^32: a lease is a u32

(***************************************************************************)
(* simdjson's tape, from its first element on.  A word has a kind and the  *)
(* index after the element starting there.  It also has two things the     *)
(* code cannot see: whether an element starts there at all (the second     *)
(* word of a number is raw bits that may look like any kind), and, for a   *)
(* container, its elements, or its keys and values alternately, in order.  *)
(***************************************************************************)
Kinds == {"array", "object", "string", "scalar"}

\* The children of the container at i lie one behind the other between its brackets.
Tiled(t, i) ==
  LET c == t[i].children  close == t[i].after - 1 IN
  /\ c \in Seq(i + 1 .. close - 1)
  /\ c = <<>> => close = i + 1
  /\ c # <<>> => c[1] = i + 1 /\ t[c[Len(c)]].after = close
  /\ \A n \in 1 .. Len(c) : t[c[n]].start
  /\ \A n \in 1 .. Len(c) - 1 : c[n + 1] = t[c[n]].after
  /\ t[i].kind = "object" =>
       /\ Len(c) % 2 = 0
       /\ \A n \in 1 .. Len(c) :
            n % 2 = 1 => t[c[n]].kind = "string" /\ t[c[n]].after = c[n] + 1

WellFormed(t) ==
  /\ t \in Seq([kind : STRING, after : Nat, start : BOOLEAN, children : Seq(Nat)])
  /\ t # <<>> /\ t[1].start /\ t[1].after = Len(t) + 1
  /\ \A i \in 1 .. Len(t) : t[i].start =>
       /\ t[i].kind \in Kinds
       /\ t[i].after \in i + 1 .. Len(t) + 1
       /\ t[i].kind \in {"array", "object"} => Tiled(t, i)

ASSUME CursorAssumption ==
  /\ LeaseMod \in Nat \ {0, 1}
  /\ \A t \in Tapes : WellFormed(t)

VARIABLES
  tape,              \* of the document; never changes
  descendantIndices, \* DocEntry.descendant_indices
  iterLeases,        \* DocEntry.iter_leases: lease -> recorded cursor
  nextIterLease,     \* DocEntry.next_iter_lease
  origin,            \* history: the container each lease was made for
  yields             \* history: the indices each lease has yielded, in order

leases == <<iterLeases, nextIterLease, origin, yields>>
vars == <<tape, descendantIndices, leases>>

NoLeases == [lease \in {} |-> 0]

Init ==
  /\ tape \in Tapes
  /\ descendantIndices = {}
  /\ iterLeases = NoLeases /\ nextIterLease = 1
  /\ origin = NoLeases /\ yields = NoLeases

-----------------------------------------------------------------------------
(* What the bridge reads off the tape *)

RootIndex == 1
RootAfterIndex == tape[RootIndex].after

\* psimdjson_element_type_at, psimdjson_element_after_index
TypeAt(i) == tape[i].kind
AfterIndex(i) == tape[i].after

\* psimdjson_array_iter_bounds, psimdjson_object_iter_bounds: from the word
\* after the opening bracket to the closing one.
Bounds(i) == [state0 |-> i + 1, state1 |-> AfterIndex(i) - 1]

InDocument(i) == i # 0 /\ i < RootAfterIndex

Starts == {i \in DOMAIN tape : tape[i].start}

Children(i) == tape[i].children

Elements(i) == {Children(i)[n] : n \in DOMAIN Children(i)}
Values(i) == {Children(i)[n] : n \in {m \in DOMAIN Children(i) : m % 2 = 0}}

\* Where a path from i may lead: to i itself or a value below it.
Reachable(i) ==
  LET containers == {j \in Starts : j \in i .. AfterIndex(i) - 1}
  IN  {i} \cup UNION {IF TypeAt(j) = "array" THEN Elements(j)
                      ELSE IF TypeAt(j) = "object" THEN Values(j) ELSE {} : j \in containers}

-----------------------------------------------------------------------------
(* Views *)

\* Mutated form: any index inside the document will do.
ValidateDescendantBounds(i) == InDocument(i)
\* validate_descendant
ValidateDescendant(i) == InDocument(i) /\ i \in descendantIndices

\* with_resolved_view: the root view, or a descendant that has been given out.
Resolves(i) == i = RootIndex \/ ValidateDescendant(i)

\* encode_descendant_view_locked, for each of the indices.
Encode(indices) ==
  /\ \A i \in indices : InDocument(i) /\ TypeAt(i) \in Kinds
  /\ descendantIndices' = descendantIndices \cup indices

\* The value of a key the object has.
ObjectGetField(view) ==
  /\ Resolves(view)
  /\ TypeAt(view) = "object"
  /\ \E i \in Values(view) : Encode({i})
  /\ UNCHANGED <<tape, leases>>

\* The element at a position the array has.
ArrayAt(view) ==
  /\ Resolves(view)
  /\ TypeAt(view) = "array"
  /\ \E i \in Elements(view) : Encode({i})
  /\ UNCHANGED <<tape, leases>>

\* element_at_pointer, element_at_path (one match), element_at_path_wildcard.
ElementAtPath(view) ==
  /\ Resolves(view)
  /\ \E matches \in SUBSET Reachable(view) : Encode(matches)
  /\ UNCHANGED <<tape, leases>>

-----------------------------------------------------------------------------
(* Iterators *)

LeaseIds == 1 .. LeaseMod - 1

NextLease(lease) == IF (lease + 1) % LeaseMod = 0 THEN 1 ELSE lease + 1

\* Mutated form: the next lease is used whether or not it is taken.
FreeLeaseUnchecked(lease) == lease = nextIterLease
\* alloc_iter_lease: the first lease not taken, from next_iter_lease on, cyclically.
FreeLease(lease) ==
  LET Distance(l) == (l + LeaseMod - 1 - nextIterLease) % (LeaseMod - 1) IN
  /\ lease \notin DOMAIN iterLeases
  /\ \A l \in LeaseIds : Distance(l) < Distance(lease) => l \in DOMAIN iterLeases

With(f, x, y) == [z \in DOMAIN f \cup {x} |-> IF z = x THEN y ELSE f[z]]

\* array_iter_new and object_iter_new; tag says which.  Leases are never given back.
IterNew(view, tag) ==
  LET bounds == Bounds(view) IN
  /\ Resolves(view)
  /\ TypeAt(view) = tag
  /\ \E lease \in LeaseIds :
       /\ FreeLease(lease)
       /\ iterLeases' = With(iterLeases, lease,
            [state0 |-> bounds.state0, state1 |-> bounds.state1, tag |-> tag])
       /\ nextIterLease' = NextLease(lease)
       /\ origin' = With(origin, lease, view)
       /\ yields' = With(yields, lease, <<>>)
  /\ UNCHANGED <<tape, descendantIndices>>

\* The position and end an iterator struct may carry.
Cursors == [state0 : DOMAIN tape, state1 : DOMAIN tape, tag : {"array", "object"}]

\* Mutated form: the position is not compared with the recorded one.
LeaseMatchesAnywhere(lease, cursor) ==
  /\ lease \in DOMAIN iterLeases
  /\ iterLeases[lease].state1 = cursor.state1 /\ iterLeases[lease].tag = cursor.tag
\* validate_iter_lease
LeaseMatches(lease, cursor) ==
  lease \in DOMAIN iterLeases /\ iterLeases[lease] = cursor

\* with_iter_doc, for the next function of kind tag
ResolvesIter(lease, cursor, tag) ==
  /\ cursor.tag = tag /\ cursor.state0 <= cursor.state1
  /\ LeaseMatches(lease, cursor)
  /\ InDocument(cursor.state0) /\ InDocument(cursor.state1)

\* The done answer of the next functions: nothing is yielded.
AtEnd(cursor) == cursor.state0 = cursor.state1

\* Yield the indices, and leave the lease (and the caller's struct) at next.
Advance(lease, cursor, indices, next) ==
  /\ Encode({indices[n] : n \in DOMAIN indices})
  /\ iterLeases' = [iterLeases EXCEPT ![lease] = [cursor EXCEPT !.state0 = next]]
  /\ yields' = [yields EXCEPT ![lease] = @ \o indices]
  /\ UNCHANGED <<tape, nextIterLease, origin>>

ArrayIterNext(lease, cursor) ==
  LET i == cursor.state0 IN
  /\ ResolvesIter(lease, cursor, "array")
  /\ ~AtEnd(cursor)
  /\ AfterIndex(i) \in i + 1 .. cursor.state1
  /\ Advance(lease, cursor, <<i>>, AfterIndex(i))

\* Mutated form: the iterator stops behind the key and not behind the value.
AfterFieldKeyOnly(key) == AfterIndex(key)
AfterField(key) == AfterIndex(key + 1)

ObjectIterNext(lease, cursor) ==
  LET key == cursor.state0  value == key + 1 IN
  /\ ResolvesIter(lease, cursor, "object")
  /\ ~AtEnd(cursor)
  /\ value < cursor.state1 /\ InDocument(value)
  /\ TypeAt(key) = "string"
  /\ AfterField(key) \in value + 1 .. cursor.state1
  /\ Advance(lease, cursor, <<key, value>>, AfterField(key))

-----------------------------------------------------------------------------

Next ==
  \/ \E view \in DOMAIN tape :
       \/ ObjectGetField(view)
       \/ ArrayAt(view)
       \/ ElementAtPath(view)
       \/ \E tag \in {"array", "object"} : IterNew(view, tag)
  \/ \E lease \in LeaseIds, cursor \in Cursors :
       \/ ArrayIterNext(lease, cursor)
       \/ ObjectIterNext(lease, cursor)

Spec == Init /\ [][Next]_vars

-----------------------------------------------------------------------------
(* Properties *)

\* The entry and the history are well-formed.
TypeOK ==
  /\ tape \in Tapes
  /\ descendantIndices \subseteq DOMAIN tape
  /\ iterLeases \in [DOMAIN iterLeases -> Cursors]
  /\ DOMAIN iterLeases \subseteq LeaseIds
  /\ DOMAIN origin = DOMAIN iterLeases /\ DOMAIN yields = DOMAIN iterLeases
  /\ nextIterLease \in LeaseIds

\* Every index given out is the start of an element: no call, whatever struct it is
\* given, makes the bridge read the payload of a number or a bracket as a value.
IndicesNameElements == descendantIndices \subseteq Starts

\* What an iterator has yielded is the beginning of its container's contents, in order
\* and without repetition, however many stale copies of its struct are passed
\* in; and it reports done exactly when it has yielded everything.
YieldsInOrder ==
  \A lease \in DOMAIN iterLeases :
    LET all == Children(origin[lease])  cursor == iterLeases[lease] IN
    /\ Len(yields[lease]) <= Len(all)
    /\ yields[lease] = SubSeq(all, 1, Len(yields[lease]))
    /\ AtEnd(cursor) <=> yields[lease] = all

\* No iterator is stuck halfway: the checks that the next functions make against a
\* corrupt position never refuse one that their own earlier answers led to.
NeverStuck ==
  \A lease \in DOMAIN iterLeases :
    LET cursor == iterLeases[lease]  i == cursor.state0 IN
    /\ ResolvesIter(lease, cursor, cursor.tag)
    /\ AtEnd(cursor) \/
         IF cursor.tag = "array"
         THEN TypeAt(i) \in Kinds /\ AfterIndex(i) \in i + 1 .. cursor.state1
         ELSE /\ i + 1 < cursor.state1 /\ TypeAt(i) = "string" /\ TypeAt(i + 1) \in Kinds
              /\ AfterField(i) \in i + 2 .. cursor.state1

\* A lease belongs to one iterator for the life of the document, and that
\* iterator only moves forward: the wrap of next_iter_lease never hands a lease out twice.
LeasesOnlyAdvance ==
  [][\A lease \in DOMAIN iterLeases :
       /\ lease \in DOMAIN iterLeases'
       /\ origin'[lease] = origin[lease]
       /\ iterLeases'[lease].state0 >= iterLeases[lease].state0
       /\ iterLeases'[lease].state1 = iterLeases[lease].state1]_vars
=============================================================================
