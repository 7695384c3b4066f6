---------------------------- MODULE MCAllocTelemetry ---------------------------
(***************************************************************************)
(* AllocTelemetry alone for TLC, with the bounds of MCExports: two threads *)
(* and three addresses, so that both may be inside operator new while a    *)
(* third allocation is live; two resets.                                   *)
(***************************************************************************)
EXTENDS AllocTelemetry, TLC

CONSTANTS t1, t2, a1, a2, a3

MCThreads == {t1, t2}
MCAddresses == {a1, a2, a3}

\* Threads and addresses are only ever compared.
Symmetry == Permutations(MCThreads) \cup Permutations(MCAddresses)

=============================================================================
