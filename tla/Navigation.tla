------------------------------- MODULE Navigation -------------------------------
(***************************************************************************)
(* Reading by key, position, pointer and path.  simdjson scans the tape;   *)
(* the bridge splits a wildcard path into literal spans and wildcards; the *)
(* wrappers of src/src/runtime/mod.rs distrust every index they are given; *)
(* registry.rs tests the kind first.  All of it is a function of the       *)
(* document; what a call adds to the document's entry is in Cursors, where *)
(* a path may lead anywhere below its view.                                *)
(*                                                                         *)
(* A path is a sequence of segments, each the wildcard or a token.  How    *)
(* the text is cut into segments is left out; a path the bridge's scan     *)
(* finds malformed is refused before anything else happens.                *)
(***************************************************************************)
EXTENDS Materializer

CONSTANTS
  Tokens,     \* keys, and numbers written out; a key that reads like the wildcard is another
  Position,   \* Position[token]: what a number written out means, for those that are
  MaxCount    \* 2^24 - 1: what a tape word can say of the number of children

Wildcard == "*"

ASSUME NavigationAssumption ==
  /\ Wildcard \notin Tokens
  /\ DOMAIN Position \subseteq Tokens
  /\ Position \in [DOMAIN Position -> Nat]
  /\ MaxCount \in Nat

-----------------------------------------------------------------------------
(* simdjson's scans *)

Found(i) == [rc |-> "ok", index |-> i]
Refused(rc) == [rc |-> rc, index |-> 0]

\* dom::object::at_key: the loop ends behind the last field or at the first with the key.
AtKey(i, key) ==
  LET place == Iterator(i)
      Ends(n) == place[n] = Bounds(i).state1 \/ Payload[tape][place[n]] = key
      end == place[CHOOSE n \in 0 .. Len(tape) : Ends(n) /\ \A m \in 0 .. n - 1 : ~Ends(m)]
  IN  IF end = Bounds(i).state1 THEN Refused("no_such_field") ELSE Found(end + 1)

\* dom::array::at
At(i, k) ==
  LET place == Iterator(i)
  IN  IF \E n \in 0 .. k : place[n] = Bounds(i).state1
      THEN Refused("index_out_of_bounds") ELSE Found(place[k])

\* dom::element::at_pointer, for one token.
AtToken(i, token) ==
  CASE TypeAt(i) = "object" -> AtKey(i, token)
    [] TypeAt(i) = "array" ->
         IF token \in DOMAIN Position THEN At(i, Position[token]) ELSE Refused("incorrect_type")
    [] OTHER -> Refused("invalid_json_pointer")

AtTokens(i, tokens) ==
  LET Walk[n \in 0 .. Len(tokens)] ==
        IF n = 0 THEN Found(i)
        ELSE IF Walk[n - 1].rc = "ok" THEN AtToken(Walk[n - 1].index, tokens[n]) ELSE Walk[n - 1]
  IN  Walk[Len(tokens)]

Saturated(count) == IF count < MaxCount THEN count ELSE MaxCount

-----------------------------------------------------------------------------
(* The wrappers of mod.rs *)

\* native_object_get_field_index, native_array_at_index, native_element_at_pointer_index,
\* native_element_at_path_index
Checked(answer) == IF answer.rc = "ok" /\ answer.index = 0 THEN Refused("internal") ELSE answer

\* Mutated form: an empty container is taken for a corrupt one.
BoundsOrderedStrictly(i) ==
  LET b == Bounds(i) IN b.state0 # 0 /\ b.state1 # 0 /\ b.state0 < b.state1
\* native_array_iter_bounds, native_object_iter_bounds: what they let through.
BoundsOrdered(i) == LET b == Bounds(i) IN b.state0 # 0 /\ b.state1 # 0 /\ b.state0 <= b.state1

\* native_element_after_index
AfterChecked(i) == AfterIndex(i) # 0

-----------------------------------------------------------------------------
(* The registry's calls *)

FieldAnswer(view, key) ==
  IF TypeAt(view) # "object" THEN Refused("wrong_type") ELSE Checked(AtToken(view, key))

PositionAnswer(view, n) ==
  IF TypeAt(view) # "array" THEN Refused("wrong_type")
  ELSE Checked(At(view, n))

\* element_at_pointer, element_at_path
PathAnswer(view, tokens) == Checked(AtTokens(view, tokens))

\* array_len, object_size
CountAnswer(view, kind) ==
  IF TypeAt(view) # kind THEN Refused("wrong_type")
  ELSE Found(Saturated(IF kind = "array" THEN Len(Children(view)) ELSE Len(Children(view)) \div 2))

-----------------------------------------------------------------------------
(* traverse_wildcard_path *)

\* dom::element::at_path_with_wildcard, for a wildcard alone.
Expand(i) ==
  LET c == Children(i)
  IN  CASE TypeAt(i) = "array" -> c
        [] TypeAt(i) = "object" -> [n \in 1 .. Len(c) \div 2 |-> c[2 * n]]
        [] OTHER -> <<>>

\* The lambda apply_literal: a branch where the literal span leads nowhere is dropped.
ApplyLiteral(state) ==
  LET Led(i) == LET answer == AtTokens(i, state.literal)
                IN  IF answer.rc = "ok" THEN <<answer.index>> ELSE <<>>
  IN  [current |-> Concatenated([n \in DOMAIN state.current |-> Led(state.current[n])]),
       literal |-> <<>>]

ExpandAll(elements) == Concatenated([n \in DOMAIN elements |-> Expand(elements[n])])

\* Mutated form: the literal span waits until the end of the path.
StepLate(state, segment) ==
  IF segment # Wildcard THEN [state EXCEPT !.literal = Append(@, segment)]
  ELSE [state EXCEPT !.current = ExpandAll(@)]
\* The body of the loop over the segments: literals are collected until a wildcard comes.
Step(state, segment) ==
  IF segment # Wildcard THEN [state EXCEPT !.literal = Append(@, segment)]
  ELSE LET applied == ApplyLiteral(state)
       IN  [applied EXCEPT !.current = ExpandAll(@)]

\* classify_wildcard_path refuses a path without a wildcard.
WildcardAnswer(view, segments) ==
  LET Upto[n \in 0 .. Len(segments)] ==
        IF n = 0 THEN [current |-> <<view>>, literal |-> <<>>]
        ELSE Step(Upto[n - 1], segments[n])
  IN  IF Wildcard \notin {segments[n] : n \in DOMAIN segments}
      THEN [rc |-> "invalid_path", indices |-> <<>>]
      ELSE [rc |-> "ok", indices |-> ApplyLiteral(Upto[Len(segments)]).current]

-----------------------------------------------------------------------------
(* Properties *)

\* Where one segment leads, by the tape's contents: a wildcard to every child, a token to
\* the child at that position or to the value of the first field with that key.
Below(i, segment) ==
  LET c == Children(i)
      Key(n) == Payload[tape][c[2 * n - 1]]
  IN  CASE TypeAt(i) = "array" /\ segment = Wildcard -> Elements(i)
        [] TypeAt(i) = "object" /\ segment = Wildcard -> Values(i)
        [] TypeAt(i) = "array" /\ segment # Wildcard ->
             {c[n] : n \in {m \in DOMAIN c :
                              segment \in DOMAIN Position /\ m = Position[segment] + 1}}
        [] TypeAt(i) = "object" /\ segment # Wildcard ->
             {c[2 * n] : n \in {m \in 1 .. Len(c) \div 2 :
                                  Key(m) = segment /\ \A k \in 1 .. m - 1 : Key(k) # segment}}
        [] OTHER -> {}

Paths == UNION {[1 .. n -> Tokens \cup {Wildcard}] : n \in 1 .. 3}

\* The elements a path names: those at the end of a chain of steps.
Named(i, segments) ==
  LET After[n \in 0 .. Len(segments)] ==
        IF n = 0 THEN {i} ELSE UNION {Below(j, segments[n]) : j \in After[n - 1]}
  IN  After[Len(segments)]

\* An answer names the one element of the set, or none if there is none, and it is never
\* one of the wrappers' internal errors.
Names(answer, set) ==
  /\ answer.rc = "ok" <=> set # {}
  /\ answer.rc = "ok" => set = {answer.index}
  /\ answer.rc # "internal"

\* Both properties below depend on the document alone, and so are looked at once for each.
Untouched == descendantIndices = {} /\ iterLeases = NoLeases

\* Reading by key, position, pointer and path agrees with what iterating yields (Children,
\* by YieldsInOrder): the first field of equal ones, the n-th element, whatever the elements
\* passed over contain; counts are exact until they saturate, and the wrappers take no
\* element, and no empty container, for a corrupt answer.
LookupsAgree ==
  Untouched => \A view \in Starts :
    /\ \A key \in Tokens :
         Names(FieldAnswer(view, key), IF TypeAt(view) = "object" THEN Below(view, key) ELSE {})
    /\ \A token \in DOMAIN Position :
         Names(PositionAnswer(view, Position[token]),
               IF TypeAt(view) = "array" THEN Below(view, token) ELSE {})
    /\ \A path \in Paths :
         Wildcard \notin {path[n] : n \in DOMAIN path} =>
           Names(PathAnswer(view, path), Named(view, path))
    /\ AfterChecked(view)
    /\ TypeAt(view) = "array" =>
         LET n == CountAnswer(view, "array").index IN
         BoundsOrdered(view) /\ (n < MaxCount => n = Cardinality(Elements(view)))
    /\ TypeAt(view) = "object" =>
         LET n == CountAnswer(view, "object").index IN
         BoundsOrdered(view) /\ (n < MaxCount => n = Cardinality(Values(view)))

\* A path with wildcards answers with exactly the elements it names, each once and in
\* document order, wherever its literal spans stand and however many branches they leave;
\* and they are below the view, as Cursors assumes of them.
WildcardInOrder ==
  Untouched => \A view \in Starts : \A path \in Paths :
    LET answer == WildcardAnswer(view, path) IN
    answer.rc = "ok" =>
      /\ {answer.indices[n] : n \in DOMAIN answer.indices} = Named(view, path)
      /\ \A n \in 1 .. Len(answer.indices) - 1 : answer.indices[n] < answer.indices[n + 1]
      /\ Named(view, path) \subseteq Reachable(view)
=============================================================================
