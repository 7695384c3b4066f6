--------------------------------- MODULE Reads ---------------------------------
(***************************************************************************)
(* All that a caller can do with a parsed document: views and iterators    *)
(* (Cursors), materializing (Materializer), reading by key, position and   *)
(* path (Navigation), and the conversions and checks on numbers and        *)
(* buffers that depend on no state (Arithmetic).                           *)
(***************************************************************************)
EXTENDS Navigation, Arithmetic

\* The two theorems of Arithmetic, that no float is rounded and no overlap overlooked.  They
\* are about constants and an invariant is about a state, so the initial ones ask for them.
NothingRoundedOrOverwritten == Untouched => FloatsExact /\ OverlapsRefused
================================================================================
