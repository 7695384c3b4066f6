-------------------------------- MODULE MCKernel --------------------------------
(***************************************************************************)
(* Kernel for TLC: three goroutines, so that two utilities overlap while a *)
(* SetKernel waits, and a CPU with and one without SIMD.                   *)
(***************************************************************************)
EXTENDS Kernel, TLC

CONSTANTS g1, g2, g3, haswell, fallback, auto, unknown

MCGoroutines == {g1, g2, g3}
MCCpus == {haswell, fallback}
MCRequests == {auto, fallback, unknown}

\* Goroutines are only ever compared.
Symmetry == Permutations(MCGoroutines)

=============================================================================
