------------------------------ MODULE KernelProofs ------------------------------
(***************************************************************************)
(* Proofs about Kernel, for every number of goroutines and every CPU.      *)
(*                                                                         *)
(* The heart of the invariant is SetKernelAlone: a SetKernel that has got  *)
(* past its wait loop finds no utility under way and nothing locked, and   *)
(* that stays so while it holds kernelMu, which utilities need in order to *)
(* begin and everyone else in order to lock the selection.  It says why    *)
(* the implementation never changes under anybody.                         *)
(*                                                                         *)
(* Every step moves one goroutine and wakes others at most, so one lemma,  *)
(* OneMoves, says what it has to respect, and each action is measured      *)
(* against that.                                                           *)
(***************************************************************************)
EXTENDS Kernel, FiniteSetTheorems, TLAPS

\* The stages each call can be at.
Stages(call) ==
  CASE call = "none" -> {"idle"}
    [] call = "NewParser" -> {"want", "active", "load", "loadCopy", "install", "native"}
    [] call = "SetKernel" -> {"want", "waiting", "woken", "relock", "active", "load",
                              "loadCopy", "install", "native", "setCopy"}
    [] call = "Kernel" -> {"kernelCopy"}
    [] call = "utility" -> {"active", "load", "loadCopy", "install", "native", "scan",
                            "finish", "cancel"}

\* Of a goroutine that is at step s: it holds kernelMu for writing; it is a SetKernel that does;
\* it is a utility that will record in Go that the selection is locked.
Writes(s) == s.call \in {"NewParser", "SetKernel"} /\ s.at \notin Outside
Sets(s) == s.call = "SetKernel" /\ s.at \notin Outside
Records(s) == s.call = "utility" /\ (s.at = "scan" \/ (s.at = "finish" /\ PassedGate(s.rc)))
\* The stages that rely on an implementation seen before.
Using == {"loadCopy", "install", "setCopy", "kernelCopy", "scan"}

OtherTypes ==
  /\ kernelSelectionLocked \in BOOLEAN
  /\ utilityKernelReservations \in Nat
  /\ cachedLibrary \in Implementations \cup {None}
  /\ cpu \in Cpus /\ active \in {cpu, Fallback}
  /\ explicit_selection \in BOOLEAN /\ locked \in BOOLEAN
  /\ refused \in BOOLEAN /\ unpublished \in BOOLEAN

StagesFit == pc \in [Goroutines -> Step] /\ \A g \in Goroutines : pc[g].at \in Stages(pc[g].call)

Exclusion ==
  \A g, h \in Goroutines : Writes(pc[g]) /\ (Writes(pc[h]) \/ pc[h].call = "Kernel") => g = h

SetKernelAlone ==
  \A g \in Goroutines :
    Sets(pc[g]) => ~kernelSelectionLocked /\ \A h \in Goroutines : pc[h].call # "utility"

\* GateMirrored, with the utility that is about to record the lock pinned down.
GateRecorded ==
  locked => kernelSelectionLocked \/ refused \/ \E g \in Goroutines : Records(pc[g])

IInv ==
  /\ OtherTypes /\ StagesFit /\ Exclusion /\ ReservationsCounted /\ SetKernelAlone
  /\ KernelStableInUse /\ GateRecorded /\ CachedNameFresh

LEMMA Initially == Init => IInv
<1> SUFFICES ASSUME Init
             PROVE  IInv
  OBVIOUS
<1>1. pc = [g \in Goroutines |-> Idle] /\ Idle \in Step
  BY DEF Init, Idle, Step
<1>2. \A g \in Goroutines : pc[g].call = "none" /\ pc[g].at = "idle"
  BY <1>1 DEF Idle
<1>3. OtherTypes
  BY DEF Init, OtherTypes, Implementations
<1>4. StagesFit
  BY <1>1, <1>2 DEF StagesFit, Stages
<1>5. ReservationsCounted
  <2>1. InUtility = {}
    BY <1>2 DEF InUtility
  <2> QED
    BY <2>1, FS_EmptySet DEF Init, ReservationsCounted
<1>6. Exclusion /\ SetKernelAlone /\ KernelStableInUse
  BY <1>2 DEF Exclusion, SetKernelAlone, KernelStableInUse, Writes, Sets
<1>7. GateRecorded /\ CachedNameFresh
  BY DEF Init, GateRecorded, CachedNameFresh
<1> QED
  BY <1>3, <1>4, <1>5, <1>6, <1>7 DEF IInv

-----------------------------------------------------------------------------
(* What a step has to respect *)

Undisturbed(h) ==
  pc'[h] = pc[h] \/ (pc[h].at = "waiting" /\ pc'[h] = [pc[h] EXCEPT !.at = "woken"])

LEMMA Others ==
  ASSUME StagesFit, StagesFit', NEW h \in Goroutines, Undisturbed(h)
  PROVE  /\ pc'[h].call = pc[h].call /\ pc'[h].seen = pc[h].seen /\ pc'[h].rc = pc[h].rc
         /\ pc'[h].at = pc[h].at \/ (pc[h].at = "waiting" /\ pc'[h].at = "woken")
         /\ Writes(pc'[h]) <=> Writes(pc[h])
         /\ Sets(pc'[h]) <=> Sets(pc[h])
         /\ Records(pc'[h]) <=> Records(pc[h])
<1>1. /\ pc'[h].call = pc[h].call /\ pc'[h].seen = pc[h].seen /\ pc'[h].rc = pc[h].rc
      /\ pc'[h].at = pc[h].at \/ (pc[h].at = "waiting" /\ pc'[h].at = "woken")
  BY DEF Undisturbed, StagesFit, Step
<1> QED
  BY <1>1 DEF Writes, Sets, Records, Outside

LEMMA Counted ==
  ASSUME StagesFit, StagesFit', ReservationsCounted, NEW g \in Goroutines,
         \A h \in Goroutines \ {g} : Undisturbed(h), utilityKernelReservations \in Nat,
         \/ /\ pc'[g].call = "utility" <=> pc[g].call = "utility"
            /\ utilityKernelReservations' = utilityKernelReservations
         \/ /\ pc'[g].call = "utility" /\ pc[g].call # "utility"
            /\ utilityKernelReservations' = utilityKernelReservations + 1
         \/ /\ pc'[g].call # "utility" /\ pc[g].call = "utility"
            /\ utilityKernelReservations' = utilityKernelReservations - 1
  PROVE  ReservationsCounted' /\ utilityKernelReservations' \in Nat
<1>1. \A h \in Goroutines \ {g} : pc'[h].call = pc[h].call
  BY Others
<1>2. IsFiniteSet(InUtility) /\ InUtility \subseteq Goroutines
  BY KernelAssumption, FS_Subset DEF InUtility
<1>3. CASE pc'[g].call = "utility" <=> pc[g].call = "utility"
  <2>1. InUtility' = InUtility
    BY <1>1, <1>3 DEF InUtility
  <2> QED
    BY <1>3, <2>1 DEF ReservationsCounted
<1>4. CASE pc'[g].call = "utility" /\ pc[g].call # "utility"
  <2>1. InUtility' = InUtility \cup {g} /\ g \notin InUtility
    BY <1>1, <1>4 DEF InUtility
  <2>2. Cardinality(InUtility \cup {g}) = Cardinality(InUtility) + 1
    BY <1>2, <2>1, FS_AddElement
  <2> QED
    BY <1>4, <2>1, <2>2 DEF ReservationsCounted
<1>5. CASE pc'[g].call # "utility" /\ pc[g].call = "utility"
  <2>1. InUtility' = InUtility \ {g} /\ g \in InUtility
    BY <1>1, <1>5 DEF InUtility
  <2>2. Cardinality(InUtility \ {g}) = Cardinality(InUtility) - 1
    BY <1>2, <2>1, FS_RemoveElement
  <2>3. IsFiniteSet(InUtility \ {g})
    BY <1>2, FS_Subset
  <2>4. Cardinality(InUtility \ {g}) \in Nat
    BY <2>3, FS_CardinalityType
  <2> QED
    BY <1>5, <2>1, <2>2, <2>4 DEF ReservationsCounted
<1> QED
  BY <1>3, <1>4, <1>5

\* A goroutine g moves and others wake up at most.  It takes kernelMu, or starts as a utility,
\* or locks the selection, only when nobody is in its way.
LEMMA OneMoves ==
  ASSUME IInv, OtherTypes', StagesFit', ReservationsCounted', NEW g \in Goroutines,
         \A h \in Goroutines \ {g} : Undisturbed(h),
         Writes(pc'[g]) => Writes(pc[g]) \/ MuFree,
         pc'[g].call = "Kernel" => pc[g].call = "Kernel" \/ \A h \in Goroutines : ~Writes(pc[h]),
         Sets(pc'[g]) => \/ Sets(pc[g])
                         \/ ~kernelSelectionLocked /\ \A h \in Goroutines : pc[h].call # "utility",
         pc'[g].call = "utility" => pc[g].call = "utility" \/ MuFree,
         kernelSelectionLocked' =>
           kernelSelectionLocked \/ ((MuFree \/ Writes(pc[g])) /\ ~Sets(pc'[g])),
         active' = active \/ Sets(pc[g]),
         pc'[g].at \in Using => pc'[g].seen = active',
         locked' => \/ locked /\ (kernelSelectionLocked => kernelSelectionLocked')
                         /\ (refused => refused') /\ (Records(pc[g]) => Records(pc'[g]))
                    \/ kernelSelectionLocked' \/ refused' \/ Records(pc'[g]),
         \/ cachedLibrary' \in {None, active'} \/ pc'[g].at = "setCopy" \/ unpublished'
         \/ /\ cachedLibrary' = cachedLibrary /\ active' = active /\ unpublished' = unpublished
            /\ pc[g].at # "setCopy"
  PROVE  IInv'
<1>1. \A h \in Goroutines \ {g} :
        /\ pc'[h].call = pc[h].call /\ pc'[h].seen = pc[h].seen
        /\ pc'[h].at = pc[h].at \/ (pc[h].at = "waiting" /\ pc'[h].at = "woken")
        /\ Writes(pc'[h]) <=> Writes(pc[h])
        /\ Sets(pc'[h]) <=> Sets(pc[h])
        /\ Records(pc'[h]) <=> Records(pc[h])
  BY Others DEF IInv
<1>2. \A h \in Goroutines : Sets(pc[h]) => Writes(pc[h])
  BY DEF Sets, Writes
<1>3. MuFree => \A h \in Goroutines : ~Writes(pc[h]) /\ pc[h].call # "Kernel"
  BY DEF MuFree, Writer, Reader, Writes
<1>4. Exclusion'
  BY <1>1, <1>3 DEF IInv, Exclusion, Writes
<1>5. SetKernelAlone'
  <2> SUFFICES ASSUME NEW h \in Goroutines, Sets(pc'[h])
               PROVE  ~kernelSelectionLocked' /\ \A q \in Goroutines : pc'[q].call # "utility"
    BY DEF SetKernelAlone, Sets
  <2>1. CASE h = g
    <3>1. ~kernelSelectionLocked /\ \A q \in Goroutines : pc[q].call # "utility"
      BY <2>1 DEF IInv, SetKernelAlone
    <3>2. pc'[g].call # "utility"
      BY <2>1 DEF Sets
    <3> QED
      BY <1>1, <2>1, <3>1, <3>2
  <2>2. CASE h # g
    <3>1. Sets(pc[h]) /\ Writes(pc[h])
      BY <1>1, <1>2, <2>2
    <3>2. ~kernelSelectionLocked /\ \A q \in Goroutines : pc[q].call # "utility"
      BY <3>1 DEF IInv, SetKernelAlone
    <3>3. ~MuFree /\ ~Writes(pc[g])
      BY <1>3, <2>2, <3>1 DEF IInv, Exclusion
    <3> QED
      BY <1>1, <3>2, <3>3
  <2> QED
    BY <2>1, <2>2
<1>6. KernelStableInUse'
  <2> SUFFICES ASSUME NEW h \in Goroutines, pc'[h].at \in Using
               PROVE  pc'[h].seen = active'
    BY DEF KernelStableInUse, Using
  <2>1. CASE h = g
    BY <2>1
  <2>2. CASE h # g
    <3>1. pc[h].at \in Using /\ pc'[h].seen = pc[h].seen
      BY <1>1, <2>2 DEF Using
    <3>2. pc[h].seen = active
      BY <3>1 DEF IInv, KernelStableInUse, Using
    <3>3. CASE Sets(pc[g])
      <4>1. ~Writes(pc[h]) /\ pc[h].call # "Kernel"
        BY <1>2, <2>2, <3>3 DEF IInv, Exclusion
      <4>2. pc[h].call # "utility"
        BY <3>3 DEF IInv, SetKernelAlone
      <4>3. pc[h].at \in Stages(pc[h].call) /\ pc[h] \in Step
        BY DEF IInv, StagesFit
      <4> QED
        BY <3>1, <4>1, <4>2, <4>3 DEF Stages, Step, Using, Writes, Outside
    <3> QED
      BY <3>1, <3>2, <3>3
  <2> QED
    BY <2>1, <2>2
<1>7. GateRecorded'
  <2>1. CASE kernelSelectionLocked' \/ refused' \/ Records(pc'[g])
    BY <2>1 DEF GateRecorded, Records, PassedGate
  <2>2. CASE /\ locked /\ (kernelSelectionLocked => kernelSelectionLocked')
             /\ (refused => refused') /\ (Records(pc[g]) => Records(pc'[g]))
    <3>1. kernelSelectionLocked \/ refused \/ \E h \in Goroutines : Records(pc[h])
      BY <2>2 DEF IInv, GateRecorded
    <3>2. kernelSelectionLocked' \/ refused' \/ \E h \in Goroutines : Records(pc'[h])
      BY <1>1, <2>2, <3>1
    <3> QED
      BY <3>2 DEF GateRecorded, Records, PassedGate
  <2>3. CASE ~locked'
    BY <2>3 DEF GateRecorded
  <2> QED
    BY <2>1, <2>2, <2>3
<1>8. CachedNameFresh'
  <2>1. CASE cachedLibrary' \in {None, active'} \/ pc'[g].at = "setCopy" \/ unpublished'
    BY <2>1 DEF CachedNameFresh
  <2>2. CASE /\ cachedLibrary' = cachedLibrary /\ active' = active /\ unpublished' = unpublished
             /\ pc[g].at # "setCopy"
    BY <1>1, <2>2 DEF IInv, CachedNameFresh
  <2> QED
    BY <2>1, <2>2
<1> QED
  BY <1>4, <1>5, <1>6, <1>7, <1>8 DEF IInv

LEMMA Goes ==
  ASSUME StagesFit, NEW g \in Goroutines, NEW s \in Step, s.at \in Stages(s.call),
         pc' = [pc EXCEPT ![g] = s]
  PROVE  StagesFit' /\ pc'[g] = s /\ \A h \in Goroutines \ {g} : Undisturbed(h)
<1>1. \A h \in Goroutines : pc'[h] = IF h = g THEN s ELSE pc[h]
  BY DEF StagesFit
<1>2. pc' \in [Goroutines -> Step]
  BY DEF StagesFit
<1>3. ASSUME NEW h \in Goroutines
      PROVE  pc'[h].at \in Stages(pc'[h].call)
  BY <1>1 DEF StagesFit
<1>4. StagesFit'
  BY <1>2, <1>3 DEF StagesFit
<1>5. ASSUME NEW h \in Goroutines \ {g}
      PROVE  Undisturbed(h)
  <2>1. pc'[h] = pc[h]
    BY <1>1
  <2> QED
    BY <2>1 DEF Undisturbed
<1> QED
  BY <1>1, <1>4, <1>5

\* A step that changes nothing but where g is.
LEMMA QuietMoves ==
  ASSUME IInv, NEW g \in Goroutines, NEW s \in Step, s.at \in Stages(s.call),
         pc' = [pc EXCEPT ![g] = s],
         UNCHANGED <<kernelSelectionLocked, utilityKernelReservations, cachedLibrary, cpu,
                     native, refused, unpublished>>,
         s.call = "utility" <=> pc[g].call = "utility",
         Writes(s) => Writes(pc[g]) \/ MuFree,
         s.call = "Kernel" => pc[g].call = "Kernel" \/ \A h \in Goroutines : ~Writes(pc[h]),
         Sets(s) => \/ Sets(pc[g])
                    \/ ~kernelSelectionLocked /\ \A h \in Goroutines : pc[h].call # "utility",
         s.at \in Using => s.seen = active,
         Records(pc[g]) => Records(s), pc[g].at # "setCopy"
  PROVE  IInv'
<1>1. StagesFit' /\ pc'[g] = s /\ \A h \in Goroutines \ {g} : Undisturbed(h)
  BY Goes DEF IInv
<1>2. OtherTypes'
  BY DEF IInv, OtherTypes, native
<1>3. ReservationsCounted'
  BY <1>1, Counted DEF IInv, OtherTypes
<1>4. active' = active /\ locked' = locked /\ kernelSelectionLocked' = kernelSelectionLocked
      /\ refused' = refused /\ cachedLibrary' = cachedLibrary /\ unpublished' = unpublished
  BY DEF native
<1>5. locked' => /\ locked /\ (kernelSelectionLocked => kernelSelectionLocked')
                 /\ (refused => refused') /\ (Records(pc[g]) => Records(pc'[g]))
  BY <1>1, <1>4
<1>6. /\ Writes(pc'[g]) => Writes(pc[g]) \/ MuFree
      /\ pc'[g].call = "Kernel" => pc[g].call = "Kernel" \/ \A h \in Goroutines : ~Writes(pc[h])
      /\ Sets(pc'[g]) => \/ Sets(pc[g])
                         \/ ~kernelSelectionLocked /\ \A h \in Goroutines : pc[h].call # "utility"
      /\ pc'[g].call = "utility" => pc[g].call = "utility"
      /\ pc'[g].at \in Using => pc'[g].seen = active'
  BY <1>1, <1>4
<1>7. /\ cachedLibrary' = cachedLibrary /\ active' = active /\ unpublished' = unpublished
      /\ pc[g].at # "setCopy"
  BY <1>4
<1> QED
  BY <1>1, <1>2, <1>3, <1>4, <1>5, <1>6, <1>7, OneMoves

\* The same call goes on, without taking or releasing kernelMu.
LEMMA CallGoesOn ==
  ASSUME IInv, NEW g \in Goroutines, NEW s \in Step, s.at \in Stages(s.call),
         pc' = [pc EXCEPT ![g] = s],
         UNCHANGED <<kernelSelectionLocked, utilityKernelReservations, cachedLibrary, cpu,
                     native, refused, unpublished>>,
         s.call = pc[g].call, s.at \in Outside <=> pc[g].at \in Outside,
         s.at \in Using => s.seen = active,
         Records(pc[g]) => Records(s), pc[g].at # "setCopy"
  PROVE  IInv'
<1>1. (Writes(s) <=> Writes(pc[g])) /\ (Sets(s) <=> Sets(pc[g]))
  BY DEF Writes, Sets
<1> QED
  BY <1>1, QuietMoves

\* g returns from its call.
LEMMA CallReturns ==
  ASSUME IInv, NEW g \in Goroutines, pc' = [pc EXCEPT ![g] = Idle],
         UNCHANGED <<kernelSelectionLocked, utilityKernelReservations, cachedLibrary, cpu,
                     native, refused, unpublished>>,
         pc[g].call # "utility", pc[g].at # "setCopy"
  PROVE  IInv'
<1>1. Idle \in Step /\ Idle.call = "none" /\ Idle.at = "idle"
  BY DEF Idle, Step
<1>2. ~Writes(Idle) /\ ~Sets(Idle) /\ ~Records(pc[g]) /\ Idle.at \notin Using
      /\ Idle.at \in Stages(Idle.call)
  BY <1>1 DEF Writes, Sets, Records, Using, Stages
<1> QED
  BY <1>1, <1>2, QuietMoves

\* What is known of a goroutine inside a call.
LEMMA AtStage ==
  ASSUME IInv, NEW g \in Goroutines
  PROVE  /\ pc[g] \in Step /\ pc[g].at \in Stages(pc[g].call)
         /\ pc[g].at \in Using => pc[g].seen = active
         /\ active \in Implementations \cup {None}
         /\ pc \in [Goroutines -> Step]
BY DEF IInv, StagesFit, KernelStableInUse, Using, OtherTypes, Implementations

LEMMA LibrarySteps ==
  ASSUME IInv, NEW g \in Goroutines, ActiveLibrary(g) \/ Load(g) \/ LoadCopy(g) \/ LoadFails(g)
  PROVE  IInv'
<1>1. CASE ActiveLibrary(g)
  <2> DEFINE s == [pc[g] EXCEPT !.at = IF cachedLibrary = None THEN "load" ELSE "native"]
  <2>1. pc' = [pc EXCEPT ![g] = s] /\ pc[g].at = "active"
    BY <1>1, AtStage DEF ActiveLibrary, Goto
  <2>2. s \in Step /\ s.call = pc[g].call /\ s.at \in {"load", "native"}
    BY AtStage DEF Step
  <2>3. s.at \in Stages(s.call)
    BY <2>1, <2>2, AtStage DEF Stages, Step
  <2> HIDE DEF s
  <2> QED
    BY <1>1, <2>1, <2>2, <2>3, CallGoesOn DEF ActiveLibrary, Outside, Using, Records
<1>2. CASE Load(g) \/ LoadCopy(g)
  <2> DEFINE s == [pc[g] EXCEPT !.at = IF pc[g].at = "load" THEN "loadCopy" ELSE "install",
                                !.seen = active]
  <2>1. pc' = [pc EXCEPT ![g] = s] /\ pc[g].at \in {"load", "loadCopy"}
    BY <1>2, AtStage DEF Load, LoadCopy
  <2>2. s \in Step /\ s.call = pc[g].call /\ s.at \in {"loadCopy", "install"} /\ s.seen = active
    BY AtStage DEF Step
  <2>3. s.at \in Stages(s.call)
    BY <2>1, <2>2, AtStage DEF Stages, Step
  <2> HIDE DEF s
  <2> QED
    BY <1>2, <2>1, <2>2, <2>3, CallGoesOn DEF Load, LoadCopy, Outside, Using, Records
<1>3. CASE LoadFails(g) /\ pc[g].call = "utility"
  <2> DEFINE s == [pc[g] EXCEPT !.at = "cancel"]
  <2>1. pc' = [pc EXCEPT ![g] = s] /\ pc[g].at \in {"load", "loadCopy"}
    BY <1>3, AtStage DEF LoadFails, Goto
  <2>2. s \in Step /\ s.call = pc[g].call /\ s.at = "cancel"
    BY AtStage DEF Step
  <2>3. s.at \in Stages(s.call)
    BY <1>3, <2>2 DEF Stages
  <2> HIDE DEF s
  <2> QED
    BY <1>3, <2>1, <2>2, <2>3, CallGoesOn DEF LoadFails, Outside, Using, Records
<1>4. CASE LoadFails(g) /\ pc[g].call # "utility"
  BY <1>4, CallReturns DEF LoadFails, Return
<1> QED
  BY <1>1, <1>2, <1>3, <1>4

LEMMA NoUtilityLeft ==
  ASSUME IInv, utilityKernelReservations = 0
  PROVE  \A h \in Goroutines : pc[h].call # "utility"
<1>1. IsFiniteSet(InUtility) /\ Cardinality(InUtility) = 0
  BY KernelAssumption, FS_Subset DEF IInv, ReservationsCounted, InUtility
<1>2. InUtility = {}
  BY <1>1, FS_EmptySet
<1> QED
  BY <1>2 DEF InUtility

LEMMA CallsBegin ==
  ASSUME IInv, NEW g \in Goroutines,
         CallNewParser(g) \/ (\E name \in Requests : CallSetKernel(g, name)) \/ CallKernel(g)
  PROVE  IInv'
<1>0. pc[g] = Idle
  BY DEF CallNewParser, CallSetKernel, CallKernel
<1>1. pc[g].call = "none" /\ pc[g].at = "idle" /\ ~Records(pc[g])
  BY <1>0 DEF Idle, Records
<1>2. CASE CallNewParser(g)
  <2> DEFINE s == [Idle EXCEPT !.call = "NewParser", !.at = "want"]
  <2>1. s \in Step /\ s.call = "NewParser" /\ s.at = "want"
    BY DEF Idle, Step, Outside
  <2>2. s.at \in Stages(s.call) /\ ~Writes(s) /\ ~Sets(s) /\ s.at \notin Using
    BY <2>1 DEF Stages, Writes, Sets, Using, Outside
  <2>3. pc' = [pc EXCEPT ![g] = s]
    BY <1>2 DEF CallNewParser
  <2> HIDE DEF s
  <2> QED
    BY <1>1, <1>2, <2>1, <2>2, <2>3, QuietMoves DEF CallNewParser
<1>3. ASSUME NEW name \in Requests, CallSetKernel(g, name)
      PROVE  IInv'
  <2> DEFINE s == [Idle EXCEPT !.call = "SetKernel", !.at = "want", !.name = name]
  <2>1. s \in Step /\ s.call = "SetKernel" /\ s.at = "want"
    BY DEF Idle, Step, Outside
  <2>2. s.at \in Stages(s.call) /\ ~Writes(s) /\ ~Sets(s) /\ s.at \notin Using
    BY <2>1 DEF Stages, Writes, Sets, Using, Outside
  <2>3. pc' = [pc EXCEPT ![g] = s]
    BY <1>3 DEF CallSetKernel
  <2> HIDE DEF s
  <2> QED
    BY <1>1, <1>3, <2>1, <2>2, <2>3, QuietMoves DEF CallSetKernel
<1>4. CASE CallKernel(g)
  <2> DEFINE s == [Idle EXCEPT !.call = "Kernel", !.at = "kernelCopy", !.seen = active]
  <2>1. s \in Step /\ s.call = "Kernel" /\ s.at = "kernelCopy" /\ s.seen = active
    BY AtStage DEF Idle, Step, Outside
  <2>2. s.at \in Stages(s.call) /\ ~Writes(s) /\ ~Sets(s)
    BY <2>1 DEF Stages, Writes, Sets
  <2>3. pc' = [pc EXCEPT ![g] = s]
    BY <1>4 DEF CallKernel
  <2>4. \A h \in Goroutines : ~Writes(pc[h])
    BY <1>4 DEF CallKernel, ReadersEnter, Writer, Writes
  <2> HIDE DEF s
  <2> QED
    BY <1>1, <1>4, <2>1, <2>2, <2>3, <2>4, QuietMoves DEF CallKernel
<1> QED
  BY <1>2, <1>3, <1>4

LEMMA Entering ==
  ASSUME IInv, NEW g \in Goroutines, EnterNewParser(g) \/ EnterSetKernel(g) \/ Recheck(g)
  PROVE  IInv'
<1>1. CASE EnterNewParser(g)
  <2> DEFINE s == [pc[g] EXCEPT !.at = "active"]
  <2>1. s \in Step /\ s.call = "NewParser" /\ s.at = "active"
    BY <1>1, AtStage DEF EnterNewParser, Step
  <2>2. s.at \in Stages(s.call) /\ ~Sets(s) /\ s.at \notin Using /\ ~Records(pc[g])
    BY <1>1, <2>1 DEF Stages, Sets, Using, Records, EnterNewParser
  <2>3. pc' = [pc EXCEPT ![g] = s]
    BY <1>1, AtStage DEF EnterNewParser, Goto
  <2> HIDE DEF s
  <2> QED
    BY <1>1, <2>1, <2>2, <2>3, QuietMoves DEF EnterNewParser
<1>2. CASE EnterSetKernel(g) \/ Recheck(g)
  <2>1. /\ pc[g].call = "SetKernel" /\ pc[g].at \in {"want", "relock"} /\ MuFree
        /\ UNCHANGED <<kernelSelectionLocked, utilityKernelReservations, cachedLibrary, cpu,
                       native, refused, unpublished>>
    BY <1>2, AtStage DEF EnterSetKernel, Recheck, Stages, Step
  <2>2. CASE Return(g)
    BY <2>1, <2>2, CallReturns DEF Return
  <2>3. CASE Goto(g, "waiting") \/ (Goto(g, "active") /\ AfterWait = "active")
    <3> DEFINE s == [pc[g] EXCEPT !.at = IF Goto(g, "waiting") THEN "waiting" ELSE "active"]
    <3>1. /\ s \in Step /\ s.call = "SetKernel" /\ s.at \in {"waiting", "active"}
          /\ s.at = "waiting" \/ AfterWait = "active"
      BY <2>1, <2>3, AtStage DEF Step, Outside
    <3>2. pc' = [pc EXCEPT ![g] = s]
      BY <2>3, AtStage DEF Goto
    <3>3. s.at \in Stages(s.call) /\ s.at \notin Using /\ ~Records(pc[g])
      BY <2>1, <3>1 DEF Stages, Using, Records
    <3> HIDE DEF s
    <3>4. Sets(s) => ~kernelSelectionLocked /\ utilityKernelReservations = 0
      BY <3>1 DEF Sets, Outside, AfterWait
    <3> QED
      BY <2>1, <3>1, <3>2, <3>3, <3>4, NoUtilityLeft, QuietMoves
  <2> QED
    BY <1>2, <2>2, <2>3 DEF EnterSetKernel, Recheck, Proceed, AfterWait
<1> QED
  BY <1>1, <1>2

LEMMA QuietSteps ==
  ASSUME IInv, NEW g \in Goroutines,
         \/ Relock(g) \/ KernelReturns(g) \/ NativeSetKernelFails(g)
         \/ \E rc \in {"ERR_CPU_UNSUPPORTED", "ERR_INVALID_ARG"} : GateRejects(g, rc)
         \/ \E rc \in {"OK", "ERR_INVALID_JSON"} : Scan(g, rc)
  PROVE  IInv'
<1>1. CASE Relock(g)
  <2> DEFINE s == [pc[g] EXCEPT !.at = "relock"]
  <2>1. pc[g].call = "SetKernel" /\ pc[g].at = "woken"
    BY <1>1, AtStage DEF Relock, Stages, Step
  <2>2. s \in Step /\ s.call = "SetKernel" /\ s.at = "relock"
    BY <2>1, AtStage DEF Step, Outside
  <2>3. s.at \in Stages(s.call) /\ s.at \notin Using /\ ~Records(pc[g])
    BY <2>1, <2>2 DEF Stages, Using, Records
  <2>4. pc' = [pc EXCEPT ![g] = s]
    BY <1>1, AtStage DEF Relock, Goto
  <2> HIDE DEF s
  <2> QED
    BY <1>1, <2>1, <2>2, <2>3, <2>4, CallGoesOn DEF Relock, Outside
<1>2. CASE KernelReturns(g)
  <2>1. pc[g].call = "Kernel" /\ pc[g].at = "kernelCopy"
    BY <1>2, AtStage DEF KernelReturns, Stages, Step
  <2> QED
    BY <1>2, <2>1, CallReturns DEF KernelReturns, Return
<1>3. CASE NativeSetKernelFails(g)
  BY <1>3, CallReturns DEF NativeSetKernelFails, Return
<1>4. ASSUME NEW rc \in {"ERR_CPU_UNSUPPORTED", "ERR_INVALID_ARG"}, GateRejects(g, rc)
      PROVE  IInv'
  <2> DEFINE s == [pc[g] EXCEPT !.at = "finish", !.rc = rc]
  <2>1. pc[g].call = "utility" /\ pc[g].at = "native"
    BY <1>4 DEF GateRejects
  <2>2. s \in Step /\ s.call = "utility" /\ s.at = "finish"
    BY <2>1, AtStage DEF Step
  <2>3. s.at \in Stages(s.call) /\ s.at \notin Using /\ ~Records(pc[g])
    BY <2>1, <2>2 DEF Stages, Using, Records
  <2>4. pc' = [pc EXCEPT ![g] = s]
    BY <1>4, AtStage DEF GateRejects
  <2> HIDE DEF s
  <2>5. UNCHANGED <<kernelSelectionLocked, utilityKernelReservations, cachedLibrary, cpu,
                    native, refused, unpublished>>
    BY <1>4 DEF GateRejects
  <2>6. s.call = pc[g].call /\ s.at \notin Outside /\ pc[g].at \notin Outside
        /\ pc[g].at # "setCopy"
    BY <2>1, <2>2 DEF Outside
  <2> QED
    BY <2>2, <2>3, <2>4, <2>5, <2>6, CallGoesOn
<1>5. ASSUME NEW rc \in {"OK", "ERR_INVALID_JSON"}, Scan(g, rc)
      PROVE  IInv'
  <2> DEFINE s == [pc[g] EXCEPT !.at = "finish", !.rc = rc, !.seen = None]
  <2>1. pc[g].call = "utility" /\ pc[g].at = "scan"
    BY <1>5, AtStage DEF Scan, Stages, Step
  <2>2. s \in Step /\ s.call = "utility" /\ s.at = "finish" /\ s.rc = rc
    BY <2>1, AtStage DEF Step
  <2>3. s.at \in Stages(s.call) /\ s.at \notin Using /\ Records(s)
    BY <2>1, <2>2 DEF Stages, Using, Records, PassedGate
  <2>4. pc' = [pc EXCEPT ![g] = s]
    BY <1>5, AtStage DEF Scan
  <2> HIDE DEF s
  <2>5. UNCHANGED <<kernelSelectionLocked, utilityKernelReservations, cachedLibrary, cpu,
                    native, refused, unpublished>>
    BY <1>5 DEF Scan
  <2>6. s.call = pc[g].call /\ s.at \notin Outside /\ pc[g].at \notin Outside
        /\ pc[g].at # "setCopy"
    BY <2>1, <2>2 DEF Outside
  <2> QED
    BY <2>2, <2>3, <2>4, <2>5, <2>6, CallGoesOn
<1> QED
  BY <1>1, <1>2, <1>3, <1>4, <1>5

LEMMA InstallKeeps ==
  ASSUME IInv, NEW g \in Goroutines, Install(g)
  PROVE  IInv'
<1> DEFINE s == [pc[g] EXCEPT !.at = "native", !.seen = None]
<1>1. pc[g].at = "install" /\ pc[g].seen = active
  BY DEF Install, IInv, KernelStableInUse
<1>2. s \in Step /\ s.call = pc[g].call /\ s.at = "native"
  BY AtStage DEF Step
<1>3. s.at \in Stages(s.call) /\ s.at \notin Using /\ ~Records(pc[g])
  BY <1>1, <1>2, AtStage DEF Stages, Using, Records, Step
<1>4. (Writes(s) <=> Writes(pc[g])) /\ (Sets(s) <=> Sets(pc[g]))
  BY <1>1, <1>2 DEF Writes, Sets, Outside
<1>5. pc' = [pc EXCEPT ![g] = s]
  BY AtStage DEF Install
<1> HIDE DEF s
<1>6. StagesFit' /\ pc'[g] = s /\ \A h \in Goroutines \ {g} : Undisturbed(h)
  BY <1>2, <1>3, <1>5, Goes DEF IInv
<1>7. /\ kernelSelectionLocked' = kernelSelectionLocked /\ locked' = locked /\ active' = active
      /\ refused' = refused /\ unpublished' = unpublished
      /\ utilityKernelReservations' = utilityKernelReservations
  BY DEF Install, native
<1>8. OtherTypes'
  BY <1>1, AtStage DEF IInv, OtherTypes, Install, native
<1>9. ReservationsCounted'
  BY <1>2, <1>6, <1>7, Counted DEF IInv, OtherTypes
<1>10. \/ cachedLibrary' = active'
       \/ cachedLibrary' = cachedLibrary /\ pc[g].at # "setCopy"
  BY <1>1, <1>7 DEF Install
<1> QED
  BY <1>2, <1>3, <1>4, <1>6, <1>7, <1>8, <1>9, <1>10, OneMoves

LEMMA ParsersKeep ==
  ASSUME IInv, NEW g \in Goroutines,
         NewParserPool(g) \/ \E made \in BOOLEAN : NativeNewParser(g, made)
  PROVE  IInv'
<1>1. /\ Idle \in Step /\ Idle.call = "none" /\ Idle.at \in Stages(Idle.call)
      /\ Idle.at \notin Using /\ ~Writes(Idle) /\ ~Sets(Idle) /\ ~Records(Idle)
  BY DEF Idle, Step, Stages, Using, Writes, Sets, Records
<1>2. CASE NewParserPool(g)
  <2>1. pc[g] = Idle /\ pc' = pc /\ MuFree
    BY <1>2 DEF NewParserPool
  <2>2. StagesFit' /\ pc'[g] = Idle /\ \A h \in Goroutines \ {g} : Undisturbed(h)
    BY <2>1 DEF IInv, StagesFit, Undisturbed
  <2>3. /\ active' = active /\ locked' = locked /\ kernelSelectionLocked'
        /\ refused' = refused /\ unpublished' = unpublished /\ cachedLibrary' = cachedLibrary
        /\ utilityKernelReservations' = utilityKernelReservations
    BY <1>2 DEF NewParserPool, native
  <2>4. OtherTypes'
    BY <1>2 DEF IInv, OtherTypes, NewParserPool, native
  <2>5. ReservationsCounted'
    BY <2>1, <2>2, <2>3, Counted DEF IInv, OtherTypes
  <2>6. pc[g].at # "setCopy"
    BY <2>1 DEF Idle
  <2> QED
    BY <1>1, <2>1, <2>2, <2>3, <2>4, <2>5, <2>6, OneMoves
<1>3. ASSUME NEW made \in BOOLEAN, NativeNewParser(g, made)
      PROVE  IInv'
  <2>1. /\ pc[g].call = "NewParser" /\ pc[g].at = "native" /\ pc' = [pc EXCEPT ![g] = Idle]
        /\ kernelSelectionLocked' = (kernelSelectionLocked \/ made)
        /\ refused' = (refused \/ ~made) /\ locked' = TRUE
        /\ active' = active /\ unpublished' = unpublished /\ cachedLibrary' = cachedLibrary
        /\ utilityKernelReservations' = utilityKernelReservations
    BY <1>3 DEF NativeNewParser, Return
  <2>2. StagesFit' /\ pc'[g] = Idle /\ \A h \in Goroutines \ {g} : Undisturbed(h)
    BY <1>1, <2>1, Goes DEF IInv
  <2>3. OtherTypes'
    BY <1>3 DEF IInv, OtherTypes, NativeNewParser
  <2>4. ReservationsCounted'
    BY <1>1, <2>1, <2>2, Counted DEF IInv, OtherTypes
  <2>5. Writes(pc[g]) /\ (kernelSelectionLocked' \/ refused')
    BY <2>1 DEF Writes, Outside
  <2> QED
    BY <1>1, <2>1, <2>2, <2>3, <2>4, <2>5, OneMoves
<1> QED
  BY <1>2, <1>3

LEMMA SetKernelKeeps ==
  ASSUME IInv, NEW g \in Goroutines,
         NativeSetKernel(g) \/ \E copied \in BOOLEAN : SetKernelReturns(g, copied)
  PROVE  IInv'
<1>1. CASE NativeSetKernel(g)
  <2> DEFINE chosen == IF pc[g].name = Automatic THEN cpu ELSE pc[g].name
             s == [pc[g] EXCEPT !.at = "setCopy", !.seen = chosen]
  <2>1. /\ pc[g].call = "SetKernel" /\ pc[g].at = "native" /\ active' = chosen
        /\ kernelSelectionLocked' = kernelSelectionLocked /\ ~locked' /\ cpu' = cpu
        /\ utilityKernelReservations' = utilityKernelReservations
    BY <1>1 DEF NativeSetKernel
  <2>2. chosen \in {cpu, Fallback} /\ cpu \in Cpus
    BY <1>1 DEF NativeSetKernel, Selectable, IInv, OtherTypes
  <2>3. pc' = [pc EXCEPT ![g] = s]
    BY <1>1, AtStage DEF NativeSetKernel
  <2> HIDE DEF chosen
  <2>4. s \in Step /\ s.call = "SetKernel" /\ s.at = "setCopy" /\ s.seen = chosen
    BY <2>1, <2>2, AtStage DEF Step, Implementations
  <2>5. s.at \in Stages(s.call) /\ Sets(pc[g]) /\ Writes(pc[g])
    BY <2>1, <2>4 DEF Stages, Sets, Writes, Outside
  <2> HIDE DEF s
  <2>6. StagesFit' /\ pc'[g] = s /\ \A h \in Goroutines \ {g} : Undisturbed(h)
    BY <2>3, <2>4, <2>5, Goes DEF IInv
  <2>7. OtherTypes'
    BY <1>1, <2>1, <2>2 DEF IInv, OtherTypes, NativeSetKernel
  <2>8. ReservationsCounted'
    BY <2>1, <2>4, <2>6, Counted DEF IInv, OtherTypes
  <2> QED
    BY <2>1, <2>4, <2>5, <2>6, <2>7, <2>8, OneMoves
<1>2. ASSUME NEW copied \in BOOLEAN, SetKernelReturns(g, copied)
      PROVE  IInv'
  <2>1. /\ pc[g].at = "setCopy" /\ pc' = [pc EXCEPT ![g] = Idle]
        /\ cachedLibrary' = IF copied THEN active ELSE cachedLibrary
        /\ unpublished' = ~copied
        /\ kernelSelectionLocked' = kernelSelectionLocked /\ locked' = locked
        /\ active' = active /\ refused' = refused
        /\ utilityKernelReservations' = utilityKernelReservations
    BY <1>2 DEF SetKernelReturns, Published, Return, native
  <2>2. pc[g].call = "SetKernel" /\ ~Records(pc[g])
    BY <2>1, AtStage DEF Stages, Step, Records
  <2>3. /\ Idle \in Step /\ Idle.call = "none" /\ Idle.at \in Stages(Idle.call)
        /\ Idle.at \notin Using /\ ~Writes(Idle) /\ ~Sets(Idle)
    BY DEF Idle, Step, Stages, Using, Writes, Sets
  <2>4. StagesFit' /\ pc'[g] = Idle /\ \A h \in Goroutines \ {g} : Undisturbed(h)
    BY <2>1, <2>3, Goes DEF IInv
  <2>5. OtherTypes'
    BY <1>2, AtStage DEF IInv, OtherTypes, SetKernelReturns, Published, native
  <2>6. ReservationsCounted'
    BY <2>1, <2>2, <2>3, <2>4, Counted DEF IInv, OtherTypes
  <2>7. cachedLibrary' = active' \/ unpublished'
    BY <2>1
  <2> QED
    BY <2>1, <2>2, <2>3, <2>4, <2>5, <2>6, <2>7, OneMoves
<1> QED
  BY <1>1, <1>2

LEMMA UtilityBegins ==
  ASSUME IInv, NEW g \in Goroutines, BeginUtility(g) \/ Gate(g)
  PROVE  IInv'
<1>1. CASE BeginUtility(g)
  <2> DEFINE s == [Idle EXCEPT !.call = "utility", !.at = "active"]
  <2>1. pc[g] = Idle /\ pc' = [pc EXCEPT ![g] = s] /\ MuFree
    BY <1>1 DEF BeginUtility
  <2>2. pc[g].call = "none" /\ pc[g].at = "idle"
    BY <2>1 DEF Idle
  <2>3. s \in Step /\ s.call = "utility" /\ s.at = "active"
    BY DEF Idle, Step
  <2>4. /\ s.at \in Stages(s.call) /\ s.at \notin Using /\ ~Writes(s) /\ ~Sets(s)
        /\ ~Records(pc[g])
    BY <2>2, <2>3 DEF Stages, Using, Writes, Sets, Records
  <2> HIDE DEF s
  <2>5. StagesFit' /\ pc'[g] = s /\ \A h \in Goroutines \ {g} : Undisturbed(h)
    BY <2>1, <2>3, <2>4, Goes DEF IInv
  <2>6. /\ kernelSelectionLocked' = kernelSelectionLocked /\ locked' = locked
        /\ active' = active /\ refused' = refused
        /\ unpublished' = unpublished /\ cachedLibrary' = cachedLibrary
        /\ utilityKernelReservations' = utilityKernelReservations + 1
    BY <1>1 DEF BeginUtility, native
  <2>7. ReservationsCounted'
    BY <2>2, <2>3, <2>5, <2>6, Counted DEF IInv, OtherTypes
  <2>8. OtherTypes'
    BY <1>1 DEF IInv, OtherTypes, BeginUtility, native
  <2> QED
    BY <2>1, <2>2, <2>3, <2>4, <2>5, <2>6, <2>7, <2>8, OneMoves
<1>2. CASE Gate(g)
  <2> DEFINE s == [pc[g] EXCEPT !.at = "scan", !.seen = active]
  <2>1. /\ pc[g].call = "utility" /\ pc[g].at = "native"
        /\ kernelSelectionLocked' = kernelSelectionLocked /\ locked' = TRUE
        /\ active' = active /\ refused' = refused
        /\ unpublished' = unpublished /\ cachedLibrary' = cachedLibrary
        /\ utilityKernelReservations' = utilityKernelReservations
    BY <1>2 DEF Gate
  <2>2. pc' = [pc EXCEPT ![g] = s]
    BY <1>2, AtStage DEF Gate
  <2>3. s \in Step /\ s.call = "utility" /\ s.at = "scan" /\ s.seen = active
    BY <2>1, AtStage DEF Step
  <2>4. s.at \in Stages(s.call) /\ ~Writes(s) /\ ~Sets(s) /\ Records(s)
    BY <2>3 DEF Stages, Writes, Sets, Records
  <2> HIDE DEF s
  <2>5. StagesFit' /\ pc'[g] = s /\ \A h \in Goroutines \ {g} : Undisturbed(h)
    BY <2>2, <2>3, <2>4, Goes DEF IInv
  <2>6. ReservationsCounted'
    BY <2>1, <2>3, <2>5, Counted DEF IInv, OtherTypes
  <2>7. OtherTypes'
    BY <1>2 DEF IInv, OtherTypes, Gate
  <2> QED
    BY <2>1, <2>3, <2>4, <2>5, <2>6, <2>7, OneMoves
<1> QED
  BY <1>1, <1>2

LEMMA UtilityEnds ==
  ASSUME IInv, NEW g \in Goroutines, Finish(g) \/ Cancel(g)
  PROVE  IInv'
<1>1. /\ MuFree /\ pc[g].at \in {"finish", "cancel"} /\ pc' = Broadcast(g)
      /\ kernelSelectionLocked'
           = (kernelSelectionLocked \/ (pc[g].at = "finish" /\ PassedGate(pc[g].rc)))
      /\ locked' = locked /\ active' = active /\ refused' = refused
      /\ unpublished' = unpublished /\ cachedLibrary' = cachedLibrary
      /\ utilityKernelReservations' = utilityKernelReservations - 1
  <2>1. CASE Finish(g)
    BY <2>1 DEF Finish, native
  <2>2. CASE Cancel(g)
    BY <2>2 DEF Cancel, Cancelled, native, IInv, OtherTypes
  <2> QED
    BY <2>1, <2>2
<1>2. pc[g].call = "utility"
  BY <1>1, AtStage DEF Stages, Step
<1>3. /\ Idle \in Step /\ Idle.call = "none" /\ Idle.at \in Stages(Idle.call)
      /\ Idle.at \notin Using /\ ~Writes(Idle) /\ ~Sets(Idle)
  BY DEF Idle, Step, Stages, Using, Writes, Sets
<1>4. \A h \in Goroutines :
        pc'[h] = IF h = g THEN Idle
                 ELSE IF pc[h].at = "waiting" THEN [pc[h] EXCEPT !.at = "woken"] ELSE pc[h]
  BY <1>1 DEF Broadcast
<1>5. \A h \in Goroutines \ {g} : Undisturbed(h)
  BY <1>4 DEF Undisturbed
<1>6. StagesFit'
  <2>1. ASSUME NEW h \in Goroutines
        PROVE  pc'[h] \in Step /\ pc'[h].at \in Stages(pc'[h].call)
    <3>1. CASE h # g /\ pc[h].at = "waiting"
      <4>1. pc'[h] = [pc[h] EXCEPT !.at = "woken"]
        BY <1>4, <3>1
      <4>2. pc'[h] \in Step /\ pc'[h].call = pc[h].call /\ pc'[h].at = "woken"
        BY <4>1, AtStage DEF Step, Outside
      <4>3. pc[h].call = "SetKernel"
        BY <3>1, AtStage DEF Stages, Step
      <4> QED
        BY <4>2, <4>3 DEF Stages
    <3>2. CASE h = g \/ pc[h].at # "waiting"
      BY <1>3, <1>4, <3>2, AtStage
    <3> QED
      BY <3>1, <3>2
  <2>2. pc' \in [Goroutines -> Step]
    <3>1. pc' = [h \in Goroutines |-> pc'[h]]
      BY <1>1 DEF Broadcast
    <3> QED
      BY <2>1, <3>1
  <2> QED
    BY <2>1, <2>2 DEF StagesFit
<1>7. pc'[g] = Idle
  BY <1>4
<1>8. ReservationsCounted' /\ utilityKernelReservations' \in Nat
  BY <1>1, <1>2, <1>3, <1>5, <1>6, <1>7, Counted DEF IInv, OtherTypes
<1>9. OtherTypes'
  BY <1>1, <1>8 DEF IInv, OtherTypes, Finish, Cancel, native
<1>10. Records(pc[g]) => kernelSelectionLocked'
  <2>1. pc[g].at # "scan"
    BY <1>1
  <2> QED
    BY <1>1, <2>1 DEF Records
<1>11. pc[g].at # "setCopy"
  BY <1>1
<1>12. kernelSelectionLocked => kernelSelectionLocked'
  BY <1>1
<1> QED
  BY <1>1, <1>2, <1>3, <1>5, <1>6, <1>7, <1>8, <1>9, <1>10, <1>11, <1>12, OneMoves

LEMMA Stepwise == IInv /\ [Next]_vars => IInv'
<1> SUFFICES ASSUME IInv, [Next]_vars
             PROVE  IInv'
  OBVIOUS
<1>1. CASE UNCHANGED vars
  BY <1>1 DEF vars, native, IInv, OtherTypes, StagesFit, Exclusion, ReservationsCounted, InUtility,
    SetKernelAlone, KernelStableInUse, GateRecorded, CachedNameFresh, Writes, Sets, Records
<1>2. ASSUME NEW g \in Goroutines, Begin(g) \/ Run(g) \/ Enter(g)
      PROVE  IInv'
  <2>1. CASE Begin(g)
    BY <2>1, CallsBegin, ParsersKeep, UtilityBegins DEF Begin
  <2>2. CASE Run(g)
    BY <2>2, LibrarySteps, InstallKeeps, ParsersKeep, SetKernelKeeps, QuietSteps, UtilityBegins
       DEF Run
  <2>3. CASE Enter(g)
    BY <2>3, Entering, UtilityEnds DEF Enter
  <2> QED
    BY <1>2, <2>1, <2>2, <2>3
<1> QED
  BY <1>1, <1>2 DEF Next

LEMMA Invariant == Spec => []IInv
BY Initially, Stepwise, PTL DEF Spec

-----------------------------------------------------------------------------
(* What follows *)

\* Every variable has its type, and kernelMu excludes writers and readers, for any number of
\* goroutines.
THEOREM KernelTypeCorrect == Spec => []TypeOK
<1>1. IInv => TypeOK
  BY DEF IInv, OtherTypes, StagesFit, Exclusion, Writes, Writer, Reader, TypeOK
<1> QED
  BY <1>1, Invariant, PTL

\* Every reservation belongs to one utility that is under way: none is lost on any path.
THEOREM ReservationsCountedCorrect == Spec => []ReservationsCounted
BY Invariant, PTL DEF IInv

\* A scan, a parser that is being made or a name that is being read never has its implementation
\* replaced.
THEOREM KernelStableInUseCorrect == Spec => []KernelStableInUse
BY Invariant, PTL DEF IInv

\* The Go side has recorded the bridge's lock, is about to, or could not make a parser.
THEOREM GateMirroredCorrect == Spec => []GateMirrored
<1>1. IInv => GateMirrored
  BY DEF IInv, GateRecorded, GateMirrored, InUtility, Records
<1> QED
  BY <1>1, Invariant, PTL

\* The name kept with the library is the active implementation's.
THEOREM CachedNameFreshCorrect == Spec => []CachedNameFresh
BY Invariant, PTL DEF IInv

\* The selection never changes once it has been locked.
THEOREM SelectionFrozenCorrect == Spec => SelectionFrozen
<1>1. ASSUME IInv, [Next]_vars, kernelSelectionLocked
      PROVE  active' = active /\ explicit_selection' = explicit_selection
  <2>1. ASSUME NEW g \in Goroutines
        PROVE  ~NativeSetKernel(g)
    <3>1. ~Sets(pc[g])
      BY <1>1 DEF IInv, SetKernelAlone
    <3> QED
      BY <3>1 DEF NativeSetKernel, Sets, Outside
  <2>2. CASE UNCHANGED vars
    BY <2>2 DEF vars, native
  <2>3. ASSUME NEW g \in Goroutines, Begin(g) \/ Enter(g)
        PROVE  UNCHANGED <<active, explicit_selection>>
    BY <2>3 DEF Begin, Enter, CallNewParser, NewParserPool, CallKernel, BeginUtility, CallSetKernel,
      EnterNewParser, EnterSetKernel, Recheck, Finish, Cancel, native
  <2>4. ASSUME NEW g \in Goroutines, Run(g)
        PROVE  UNCHANGED <<active, explicit_selection>>
    BY <2>1, <2>4 DEF Run, ActiveLibrary, Load, LoadCopy, LoadFails, Install, NativeNewParser,
      NativeSetKernelFails, SetKernelReturns, Relock, KernelReturns, Gate, GateRejects, Scan, native
  <2> QED
    BY <1>1, <2>2, <2>3, <2>4 DEF Next
<1>2. IInv /\ [Next]_vars
        => [kernelSelectionLocked =>
              active' = active /\ explicit_selection' = explicit_selection]_vars
  BY <1>1
<1> QED
  BY <1>2, Invariant, PTL DEF Spec, SelectionFrozen
===============================================================================
