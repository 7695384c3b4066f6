------------------------------ MODULE MCBootstrap ------------------------------
(***************************************************************************)
(* Bootstrap for TLC: two goroutines of one process and one of another.    *)
(* The two use the mirror alone, the one falls back to GitHub; all share   *)
(* one cache directory.                                                    *)
(***************************************************************************)
EXTENDS Bootstrap

CONSTANTS px, py, c1, c2, c3, r2, mirror, cache

MCProcs == {px, py}
MCCallers == {c1, c2, c3}
MCProcOf == [c \in MCCallers |-> IF c = c3 THEN py ELSE px]
Fetcher == [mirrorURL |-> r2, disableGH |-> FALSE, dir |-> cache]
Hermetic == [mirrorURL |-> mirror, disableGH |-> TRUE, dir |-> cache]
MCEnvConfig == [p \in MCProcs |-> IF p = px THEN Hermetic ELSE Fetcher]
MCConfigsOf == [p \in MCProcs |-> IF p = px THEN {} ELSE {Fetcher}]

=============================================================================
