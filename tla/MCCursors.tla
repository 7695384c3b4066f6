------------------------------- MODULE MCCursors -------------------------------
(***************************************************************************)
(* Reads for TLC: a few small documents, with nesting, empty containers,   *)
(* equal and empty keys.  The raw word of a number looks like an array.    *)
(***************************************************************************)
EXTENDS Reads

Leaf(kind, after) == [kind |-> kind, after |-> after, start |-> TRUE, children |-> <<>>]
Node(kind, after, children) ==
  [kind |-> kind, after |-> after, start |-> TRUE, children |-> children]
Raw(after) == [kind |-> "array", after |-> after, start |-> FALSE, children |-> <<>>]
Close == [kind |-> "none", after |-> 0, start |-> FALSE, children |-> <<>>]

\* {"s": "v", "k": [5]}
Fields ==
  <<Node("object", 10, <<2, 3, 4, 5>>), Leaf("string", 3), Leaf("string", 4),
    Leaf("string", 5), Node("array", 9, <<6>>), Leaf("scalar", 8), Raw(9), Close, Close>>
FieldsPayload == <<"", "s", "v", "k", "", "5", "", "", "">>

\* [[5, "s"], {}, ["k"]]
Nested ==
  <<Node("array", 13, <<2, 7, 9>>), Node("array", 7, <<3, 5>>), Leaf("scalar", 5), Raw(6),
    Leaf("string", 6), Close, Node("object", 9, <<>>), Close,
    Node("array", 12, <<10>>), Leaf("string", 11), Close, Close>>
NestedPayload == <<"", "", "5", "", "s", "", "", "", "", "k", "", "">>

\* {"k": [], "": true, "k": {"s": null}}, where the two literals are single words
Equal ==
  <<Node("object", 13, <<2, 3, 5, 6, 7, 8>>), Leaf("string", 3), Node("array", 5, <<>>),
    Close, Leaf("string", 6), Leaf("scalar", 7), Leaf("string", 8),
    Node("object", 12, <<9, 10>>), Leaf("string", 10), Leaf("scalar", 11), Close, Close>>
EqualPayload == <<"", "k", "", "", "", "true", "k", "", "s", "null", "", "">>

MCTapes == {Fields, Nested, Equal}
MCPayload ==
  [t \in MCTapes |->
     IF t = Fields THEN FieldsPayload ELSE IF t = Nested THEN NestedPayload ELSE EqualPayload]

MCTokens == {"s", "k", "v", "", "0", "1", "2"}
MCPosition ==
  [token \in {"0", "1", "2"} |-> CASE token = "0" -> 0 [] token = "1" -> 1 [] OTHER -> 2]
================================================================================
