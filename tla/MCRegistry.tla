------------------------------- MODULE MCRegistry -------------------------------
(***************************************************************************)
(* Registry for TLC: two slots per table, so that one object can be in the *)
(* way of another; addresses few enough to be reused and, when a cleanup   *)
(* fails, to run out; generations of 6, so that a document slot wraps      *)
(* within its three uses.                                                  *)
(***************************************************************************)
EXTENDS Registry, TLC

CONSTANTS np1, np2, np3, nd1, nd2, t1, t2

MCThreads == {t1, t2}
MCNativeParsers == {np1, np2, np3}
MCNativeDocs == {nd1, nd2}

\* Threads and addresses are only ever compared.
Symmetry ==
  Permutations(MCThreads) \cup Permutations(MCNativeParsers)
    \cup Permutations(MCNativeDocs)

=============================================================================
