------------------------------ MODULE Materializer ------------------------------
(***************************************************************************)
(* The two ways in which materializer_fastpath.go turns an element into a  *)
(* Go value.  The fast one has the bridge flatten the element into a span  *)
(* of frames in preorder, each with its key and its number of children,    *)
(* and rebuilds the tree from the span.  The other one, used when the      *)
(* library lacks the frame builder, goes through accessors and iterators.  *)
(* Both are functions of the document; Cursors has the calls that change   *)
(* its entry.                                                              *)
(*                                                                         *)
(* Numbers, booleans and null are one kind: their content is carried along *)
(* unread.  A Go value is a pair of a type and its data, for a map a       *)
(* function from keys.                                                     *)
(***************************************************************************)
EXTENDS Cursors, FiniteSets

CONSTANTS
  Payload,           \* Payload[t][i]: what the string or scalar at i of tape t contains
  MaxSupportedDepth  \* MAX_SUPPORTED_DEPTH, 1024: the parser accepts one level less

\* The containers around the element at i.
Around(t, i) == {j \in DOMAIN t : t[j].start /\ j < i /\ t[i].after < t[j].after}

ASSUME MaterializerAssumption ==
  /\ MaxSupportedDepth \in Nat \ {0}
  /\ \A t \in Tapes : \A i \in DOMAIN t :
       t[i].start => Cardinality(Around(t, i)) < MaxSupportedDepth

IsContainer(i) == TypeAt(i) \in {"array", "object"}

\* Elements of an array have no key, which a frame cannot tell from an empty one.
NoKey == ""
FrameKeys == {NoKey} \cup {Payload[tape][p] : p \in Starts}

-----------------------------------------------------------------------------
(* Loops over a container *)

\* Where an iterator stands after n increments: dom::array::iterator and
\* dom::object::iterator, and those of registry.rs.
Iterator(i) ==
  LET Place[n \in Nat] ==
        IF n = 0 THEN Bounds(i).state0
        ELSE IF TypeAt(i) = "object" THEN AfterField(Place[n - 1]) ELSE AfterIndex(Place[n - 1])
  IN  Place

\* The places a loop over the container at i passes, until it is at the end.
Turns(i) ==
  LET place == Iterator(i)
      Ends(n) == place[n] = Bounds(i).state1
      count == CHOOSE n \in 0 .. Len(tape) : Ends(n) /\ \A m \in 0 .. n - 1 : ~Ends(m)
  IN  IF IsContainer(i) THEN [n \in 1 .. count |-> place[n - 1]] ELSE <<>>

\* What it finds at one of them.
ValueFor(i, p) == IF TypeAt(i) = "object" THEN p + 1 ELSE p
KeyFor(i, p) == IF TypeAt(i) = "object" THEN Payload[tape][p] ELSE NoKey

\* What the parts append to an empty vector, one after the other.
Concatenated(parts) ==
  LET Upto[n \in 0 .. Len(parts)] == IF n = 0 THEN <<>> ELSE Upto[n - 1] \o parts[n]
  IN  Upto[Len(parts)]

\* The content that a frame or a Go value has of itself.
Content(i) == IF IsContainer(i) THEN "" ELSE Payload[tape][i]

-----------------------------------------------------------------------------
(* The bridge: an element to frames *)

\* Mutated form: one level less than the parser accepts.
TooDeepEarly(depth) == depth >= MaxSupportedDepth - 1
TooDeep(depth) == depth >= MaxSupportedDepth

\* append_materialize_frame, of the element at i, a key and a depth.  An error anywhere
\* ends it all.
AppendFrame[i \in Starts] ==
  [key \in FrameKeys |-> [depth \in Nat |->
     LET turns == Turns(i)
         child == [n \in DOMAIN turns |->
                     AppendFrame[ValueFor(i, turns[n])][KeyFor(i, turns[n])][depth + 1]]
         frame == [kind |-> TypeAt(i), key |-> key, childCount |-> Len(turns),
                   payload |-> Content(i)]
     IN  IF TooDeep(depth) THEN [ok |-> FALSE, frames |-> <<>>]
         ELSE [ok |-> \A n \in DOMAIN child : child[n].ok,
               frames |-> <<frame>> \o Concatenated([n \in DOMAIN child |-> child[n].frames])]]]

\* psimdjson_materialize_build, into an empty span.
MaterializeBuild(i) == AppendFrame[i][NoKey][0]

-----------------------------------------------------------------------------
(* Go: frames to a value *)

\* values[key] = value, one after the other.
Assign(fields) ==
  [k \in {fields[n].key : n \in DOMAIN fields} |->
     LET named == {n \in DOMAIN fields : fields[n].key = k}
     IN  fields[CHOOSE n \in named : \A m \in named : m <= n].value]

GoValue(kind, payload, entries) ==
  CASE kind = "array" -> <<"array", [n \in DOMAIN entries |-> entries[n].value]>>
    [] kind = "object" -> <<"object", Assign(entries)>>
    [] OTHER -> <<kind, payload>>

\* buildAnyFromFrame, for the values of count frames and those below them, from index on.
BuildAny(frames) ==
  LET Build[index \in Nat] ==
        [count \in Nat |->
           IF count = 0 THEN [ok |-> TRUE, next |-> index, entries |-> <<>>]
           ELSE IF index \notin DOMAIN frames
           THEN [ok |-> FALSE, next |-> index, entries |-> <<>>]
           ELSE LET f == frames[index]
                    inside == Build[index + 1][f.childCount]
                    rest == Build[inside.next][count - 1]
                IN  [ok |-> inside.ok /\ rest.ok, next |-> rest.next,
                     entries |-> <<[key |-> f.key,
                                    value |-> GoValue(f.kind, f.payload, inside.entries)]>>
                                 \o rest.entries]]
  IN  Build[1][1]

Failed == <<"error", "">>

\* buildAnyFromFrames: the span must be used up.
BuildAnyFromFrames(frames) ==
  LET built == BuildAny(frames)
  IN  IF built.ok /\ built.next = Len(frames) + 1 THEN built.entries[1].value ELSE Failed

FastMaterialize(i) ==
  LET span == MaterializeBuild(i)
  IN  IF span.ok THEN BuildAnyFromFrames(span.frames) ELSE Failed

-----------------------------------------------------------------------------
(* Go: an element to a value by its accessors *)

\* materializeElementViaAccessors
ViaAccessors[i \in Starts] ==
  LET turns == Turns(i)
  IN  GoValue(TypeAt(i), Content(i),
              [n \in DOMAIN turns |-> [key |-> KeyFor(i, turns[n]),
                                       value |-> ViaAccessors[ValueFor(i, turns[n])]]])

-----------------------------------------------------------------------------
(* Properties *)

\* The value of the element at i, from what the tape's words contain and not from how
\* it is laid out: fields with equal keys are one, and the last of them counts.
JsonValue[i \in Starts] ==
  LET c == Children(i)
      Key(n) == Payload[tape][c[2 * n - 1]]
      fields == 1 .. Len(c) \div 2
  IN  CASE TypeAt(i) = "array" -> <<"array", [n \in DOMAIN c |-> JsonValue[c[n]]]>>
        [] TypeAt(i) = "object" ->
             <<"object",
               [k \in {Key(n) : n \in fields} |->
                  LET last == CHOOSE n \in fields :
                                /\ Key(n) = k
                                /\ \A m \in fields : m > n => Key(m) # k
                  IN  JsonValue[c[2 * last]]]>>
        [] OTHER -> <<TypeAt(i), Payload[tape][i]>>

\* Both materializers give every element that a caller can name its value, whichever one
\* the loaded library allows: counts and keys survive the flattening, the span is used up
\* exactly, equal keys collapse alike, and nothing the parser accepted is too deep.
MaterializersAgree ==
  \A i \in DOMAIN tape : Resolves(i) =>
    /\ FastMaterialize(i) = JsonValue[i]
    /\ ViaAccessors[i] = JsonValue[i]

=============================================================================
