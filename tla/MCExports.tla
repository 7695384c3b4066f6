------------------------------- MODULE MCExports -------------------------------
(***************************************************************************)
(* What the library keeps on behalf of its callers, for TLC: OwnedBytes,   *)
(* Exports, Diagnostics and AllocTelemetry in one run.  They share no      *)
(* variable, and no property here is about more than one of them; so it is *)
(* enough to let each of them run while the others stay as they began, and *)
(* the states add up instead of multiplying.  All but Exports run under    *)
(* one of its environments only.                                           *)
(***************************************************************************)
EXTENDS OwnedBytes, Exports, Diagnostics, AllocTelemetry, TLC

bytesVars == vars
bytesStarted ==
  \/ calls # [c \in Callers |-> Idle]
  \/ tables # [k \in Kinds |-> [a \in Address |-> 0]]
exportsStarted ==
  \/ \E p \in Programs, slot \in Slots : memory[p][slot] # Nothing
  \/ \E o \in Objects : owner[o] # Unissued
  \/ forced # "unset" \/ allowed
diagStarted == parses # [g \in Parsing |-> NotParsing]
telemetryStarted == requested # [a \in Addresses |-> 0] \/ current_epoch # 1

Bytes == ~exportsStarted /\ ~diagStarted /\ ~telemetryStarted
Interface == ~bytesStarted /\ ~diagStarted /\ ~telemetryStarted
Details == ~bytesStarted /\ ~exportsStarted /\ ~telemetryStarted
Telemetry == ~bytesStarted /\ ~exportsStarted /\ ~diagStarted

MCInit == Init /\ ExportsInit /\ DiagInit /\ TelemetryInit

MCNext ==
  \/ Bytes /\ Next /\ UNCHANGED <<exportVars, diagVars, telemetryVars>>
  \/ Interface /\ ExportsNext /\ UNCHANGED <<bytesVars, diagVars, telemetryVars>>
  \/ Details /\ DiagNext /\ UNCHANGED <<bytesVars, exportVars, telemetryVars>>
  \/ Telemetry /\ TelemetryNext /\ UNCHANGED <<bytesVars, exportVars, diagVars>>

MCSpec == MCInit /\ [][MCNext]_<<bytesVars, exportVars, diagVars, telemetryVars>>

\* Inputs: where the first replay stops, or that it does not, and where the second does.
Stops(i) == [outcome |-> "invalid_json", location |-> i]
GivesUp == [outcome |-> "stopped", location |-> 0]
Valid == [outcome |-> "valid", location |-> 0]
Input(length, primary, raw, recursive) ==
  [length |-> length, primary |-> primary, raw |-> raw, recursive |-> recursive]

MCFinds ==
  [input \in {"good", "inside", "at_end", "before", "deep", "unlocated", "long"} |->
     CASE input = "good" -> Input(2, "ok", Valid, Valid)
       [] input = "inside" -> Input(2, "invalid_json", Stops(1), Valid)
       [] input = "at_end" -> Input(2, "invalid_json", Valid, Stops(2))
       [] input = "before" -> Input(2, "invalid_json", Stops(-1), Valid)
       [] input = "deep" -> Input(2, "depth_limit", Stops(1), Stops(1))
       [] input = "unlocated" -> Input(0, "invalid_json", GivesUp, Valid)
       [] input = "long" -> Input(3, "invalid_json", Valid, Stops(0))]
MCInputs == DOMAIN MCFinds

\* The parts use the same model values, so that one permutation serves whichever runs.
MCSymmetry == Permutations(Programs) \cup Permutations(Objects)
=============================================================================
