--------------------------- MODULE DocumentLifecycle ---------------------------
(***************************************************************************)
(* What the native registry promises its callers, with no slots, no        *)
(* generations, no buffers and no C++ objects: parsers and documents have  *)
(* identities that are used once.  A parser owns at most one document at a *)
(* time, a document dies before its parser does, and nothing that was      *)
(* released ever comes back.                                               *)
(*                                                                         *)
(* Registry.tla implements this module (src/src/runtime/registry.rs).      *)
(***************************************************************************)

CONSTANTS
  ParserIds,      \* identities of parsers, each used for one parser only
  DocIds          \* identities of documents, each used for one document only

VARIABLES
  liveParsers,    \* parsers created and not freed
  held,           \* pairs <<p, d>>: live document d belongs to parser p
  spentParsers,   \* parser identities that were ever used
  spentDocs       \* document identities that were ever used

lifecycleVars == <<liveParsers, held, spentParsers, spentDocs>>

Init ==
  /\ liveParsers = {}
  /\ held = {}
  /\ spentParsers = {}
  /\ spentDocs = {}

Free(p) == \A pair \in held : pair[1] # p

NewParser(p) ==
  /\ p \notin spentParsers
  /\ liveParsers' = liveParsers \cup {p}
  /\ spentParsers' = spentParsers \cup {p}
  /\ UNCHANGED <<held, spentDocs>>

Parse(p, d) ==
  /\ p \in liveParsers
  /\ Free(p)
  /\ d \notin spentDocs
  /\ held' = held \cup {<<p, d>>}
  /\ spentDocs' = spentDocs \cup {d}
  /\ UNCHANGED <<liveParsers, spentParsers>>

FreeDoc(p, d) ==
  /\ <<p, d>> \in held
  /\ held' = held \ {<<p, d>>}
  /\ UNCHANGED <<liveParsers, spentParsers, spentDocs>>

FreeParser(p) ==
  /\ p \in liveParsers
  /\ Free(p)
  /\ liveParsers' = liveParsers \ {p}
  /\ UNCHANGED <<held, spentParsers, spentDocs>>

Next ==
  \/ \E p \in ParserIds : NewParser(p) \/ FreeParser(p)
  \/ \E p \in ParserIds, d \in DocIds : Parse(p, d) \/ FreeDoc(p, d)

Spec == Init /\ [][Next]_lifecycleVars

=============================================================================
