-------------------------------- MODULE Exports --------------------------------
(***************************************************************************)
(* The exported functions of src/src/lib.rs as C programs see them: what   *)
(* the library holds for a program is reached only through what a call has *)
(* written to the program's out variables.  Each function contains panics, *)
(* checks its outputs, calls the registry and writes the outputs; most     *)
(* check before they call, the iterators' constructors only when they      *)
(* write, and the wildcard clears its outputs first.                       *)
(*                                                                         *)
(* A program has one out variable of each kind.  It passes it, or a null   *)
(* pointer by mistake, and reuses it when it has released what it holds.   *)
(* Handles and addresses are given out again after their release, to any   *)
(* program.  What the registry does inside a call is in Registry, Cursors  *)
(* and OwnedBytes.                                                         *)
(***************************************************************************)
EXTENDS Naturals

CONSTANTS
  Programs,
  Objects,        \* handles and addresses
  IterationEnd,   \* the number of elements an iterator yields
  MaxStrays       \* bound: leases of a document that no struct names

VARIABLES
  memory,      \* memory[p][slot]: the object that the out variable names, or Nothing
  owner,       \* owner[o]: who got o of which kind from the library, or Unissued
  iterator,    \* iterator[p]: the struct in the memory of p
  lease,       \* lease[p]: the position that the library has recorded for that struct
  strays,      \* strays[p]: leases in the document of p that none of its structs names
  owes,        \* programs whose last wildcard call has returned and was not yet freed
  forced,      \* PURE_SIMDJSON_TEST_FORCE_IMPLEMENTATION, as it was first read
  allowed      \* PURE_SIMDJSON_ALLOW_FALLBACK_FOR_TESTS is 1

environment == <<forced, allowed>>
iterators == <<iterator, lease, strays>>
exportVars == <<memory, owner, iterators, owes, environment>>

\* A parser, a document, a copy of a string or a big integer, an array of matches.
Slots == {"parser", "doc", "bytes", "views"}

Nothing == "nothing"

ASSUME ExportsAssumption ==
  IterationEnd \in Nat /\ MaxStrays \in Nat /\ Nothing \notin Objects

Unissued == [program |-> Nothing, slot |-> Nothing]
NoIterator == IterationEnd + 1

ExportsInit ==
  /\ memory = [p \in Programs |-> [slot \in Slots |-> Nothing]]
  /\ owner = [o \in Objects |-> Unissued]
  /\ iterator = [p \in Programs |-> NoIterator]
  /\ lease = [p \in Programs |-> NoIterator]
  /\ strays = [p \in Programs |-> 0]
  /\ owes = {}
  /\ forced \in {"unset", "fallback", "typo"}
  /\ allowed \in BOOLEAN

Holds(p, slot) == \E o \in Objects : owner[o] = [program |-> p, slot |-> slot]

Issue(p, slot, o) == owner' = [owner EXCEPT ![o] = [program |-> p, slot |-> slot]]

-----------------------------------------------------------------------------
(* Getting something *)

\* Mutated form: the output is checked when the result is written.
CheckedLate(given) == TRUE
\* if out.is_null() { return err_invalid_argument(); }, before the registry is called
CheckedFirst(given) == given

\* forced_implementation_name_for_parser_new panics at a name it does not know, and
\* ffi_wrap makes an error code of that; reject_fallback_implementation.
Gate ==
  CASE forced = "typo" -> "panic"
    [] forced = "fallback" /\ ~allowed -> "cpu_unsupported"
    [] OTHER -> "ok"

\* The registry makes o, and the call writes it.  A call that is refused, by its own checks
\* or by the registry, writes nothing.
Get(p, slot, o, given) ==
  /\ ~Holds(p, slot)
  /\ owner[o] = Unissued
  /\ CheckedFirst(given)
  /\ Issue(p, slot, o)
  /\ memory' = IF given THEN [memory EXCEPT ![p][slot] = o] ELSE memory
  /\ UNCHANGED <<iterators, owes, environment>>

\* pure_simdjson_parser_new, pure_simdjson_parser_new_configured
ParserNew(p, o, given) == Gate = "ok" /\ Get(p, "parser", o, given)

\* The error of the gate, and nothing else.
ParserRefused == Gate # "ok" /\ UNCHANGED exportVars

\* pure_simdjson_parser_parse
ParserParse(p, o, given) == Holds(p, "parser") /\ Get(p, "doc", o, given)

\* pure_simdjson_element_get_string, pure_simdjson_element_get_bigint
GetBytes(p, o, given) == Holds(p, "doc") /\ Get(p, "bytes", o, given)

\* Mutated form: a failure leaves the outputs as they were.
NotCleared(old) == old
\* What the wildcard's outputs hold before its registry call, and after a failed one.
Cleared(old) == Nothing

\* pure_simdjson_element_at_path_wildcard with both outputs given; an empty result, which
\* owns nothing, looks like a failure.
Wildcard(p) ==
  /\ Holds(p, "doc")
  /\ p \notin owes
  /\ \/ memory' = [memory EXCEPT ![p]["views"] = Cleared(@)] /\ UNCHANGED owner
     \/ \E o \in Objects :
          /\ owner[o] = Unissued
          /\ Issue(p, "views", o)
          /\ memory' = [memory EXCEPT ![p]["views"] = o]
  /\ owes' = owes \cup {p}
  /\ UNCHANGED <<iterators, environment>>

-----------------------------------------------------------------------------
(* Giving it back *)

\* The variable keeps its value.  The registry accepts what is issued under that kind,
\* whoever asks.
Give(p, slot) ==
  /\ Holds(p, slot)
  /\ owner' = [owner EXCEPT ![memory[p][slot]] = IF @.slot = slot THEN Unissued ELSE @]
  /\ UNCHANGED <<memory, owes, environment>>

ParserFree(p) == ~Holds(p, "doc") /\ Give(p, "parser") /\ UNCHANGED iterators

\* The leases of a document go with it, those that no struct names too.
DocFree(p) ==
  /\ Give(p, "doc")
  /\ iterator' = [iterator EXCEPT ![p] = NoIterator]
  /\ lease' = [lease EXCEPT ![p] = NoIterator]
  /\ strays' = [strays EXCEPT ![p] = 0]

BytesFree(p) == Give(p, "bytes") /\ UNCHANGED iterators

\* pure_simdjson_value_views_free, after every call of the wildcard, whatever it returned;
\* the empty result may be freed too.
GiveViews(p) ==
  LET o == memory[p]["views"] IN
  /\ p \in owes
  /\ owner' = IF o = Nothing THEN owner
              ELSE [owner EXCEPT ![o] = IF @.slot = "views" THEN Unissued ELSE @]
  /\ owes' = owes \ {p}
  /\ UNCHANGED <<memory, iterators, environment>>

-----------------------------------------------------------------------------
(* Iterators *)

\* pure_simdjson_array_iter_new, object_iter_new make a lease before write_out looks at the
\* output.  With a null output nothing names it; with another one the lease of the struct
\* that is overwritten loses its name.
IterNew(p, given) ==
  /\ Holds(p, "doc")
  /\ strays[p] < MaxStrays
  /\ iterator' = IF given THEN [iterator EXCEPT ![p] = 0] ELSE iterator
  /\ lease' = IF given THEN [lease EXCEPT ![p] = 0] ELSE lease
  /\ strays' = IF given /\ iterator[p] = NoIterator THEN strays
               ELSE [strays EXCEPT ![p] = @ + 1]
  /\ UNCHANGED <<memory, owner, owes, environment>>

\* pure_simdjson_array_iter_next, object_iter_next.
IterNext(p, given) ==
  /\ Holds(p, "doc")
  /\ iterator[p] = lease[p] /\ lease[p] < IterationEnd
  /\ CheckedFirst(given)
  /\ lease' = [lease EXCEPT ![p] = @ + 1]
  /\ iterator' = IF given THEN [iterator EXCEPT ![p] = @ + 1] ELSE iterator
  /\ UNCHANGED <<memory, owner, strays, owes, environment>>

ExportsNext ==
  \/ ParserRefused
  \/ \E p \in Programs, given \in BOOLEAN :
       \/ \E o \in Objects :
            ParserNew(p, o, given) \/ ParserParse(p, o, given) \/ GetBytes(p, o, given)
       \/ IterNew(p, given) \/ IterNext(p, given)
  \/ \E p \in Programs :
       \/ Wildcard(p)
       \/ ParserFree(p) \/ DocFree(p) \/ BytesFree(p) \/ GiveViews(p)

ExportsSpec == ExportsInit /\ [][ExportsNext]_exportVars

-----------------------------------------------------------------------------
(* Properties *)

ExportsTypeOK ==
  /\ memory \in [Programs -> [Slots -> Objects \cup {Nothing}]]
  /\ owner \in [Objects -> [program : Programs, slot : Slots] \cup {Unissued}]
  /\ iterator \in [Programs -> 0 .. NoIterator] /\ lease \in [Programs -> 0 .. NoIterator]
  /\ strays \in [Programs -> 0 .. MaxStrays]
  /\ owes \subseteq Programs
  /\ forced \in {"unset", "fallback", "typo"} /\ allowed \in BOOLEAN

\* Leases that no struct names are held only inside a document that its owner holds.
StraysInDocs == \A p \in Programs : strays[p] > 0 => Holds(p, "doc")

\* Whatever the library holds for a program, the program can name: no call that failed, for a
\* null output or otherwise, has made an object that only the library knows of, and none has
\* moved an iterator on behind the back of the struct, so that a refused next can be repeated.
\* The one exception are leases of iterators: those that no struct names are held only inside
\* a document that its owner can name, and go with it.
ResultsReachCaller ==
  /\ \A o \in Objects : owner[o] # Unissued =>
       memory[owner[o].program][owner[o].slot] = o
  /\ iterator = lease
  /\ StraysInDocs

\* After any call of the wildcard its outputs can be freed without looking at what it
\* returned: they hold its own array or nothing, never one that has been freed before and
\* may by now be somebody else's.
OutputsFreeable ==
  \A p \in owes :
    \/ memory[p]["views"] = Nothing /\ ~Holds(p, "views")
    \/ /\ memory[p]["views"] \in Objects
       /\ owner[memory[p]["views"]] = [program |-> p, slot |-> "views"]
=============================================================================
