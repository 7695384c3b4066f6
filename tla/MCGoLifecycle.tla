----------------------------- MODULE MCGoLifecycle -----------------------------
(***************************************************************************)
(* GoLifecycle for TLC: two goroutines, two parsers, two documents (both   *)
(* parsers may be busy at once, or one may parse again after a Close), and *)
(* two failures, enough for a Close and then its finalizer.  No symmetry:  *)
(* liveness is checked.                                                    *)
(***************************************************************************)
EXTENDS GoLifecycle

CONSTANTS g1, g2, p1, p2, d1, d2, pooled, other

MCGoroutines == {g1, g2}
MCParsers == {p1, p2}
MCDocs == {d1, d2}
MCConfigs == {pooled, other}

=============================================================================
