--------------------------------- MODULE Kernel ---------------------------------
(***************************************************************************)
(* The process-wide selection of simdjson's implementation (kernel.go) and *)
(* the loading of the native library (library_loading.go), which every     *)
(* entry point of the package may trigger.                                 *)
(*                                                                         *)
(* kernelMu is held over the whole of NewParser and SetKernel, the loading *)
(* of the library included.  Minify and ValidateUTF8, the utilities, load  *)
(* and run without it: each leaves a reservation, and SetKernel waits on   *)
(* kernelCond until there is none.  The bridge has a selection lock of its *)
(* own, set when a utility passes its CPU gate and by every construction   *)
(* of a parser.                                                            *)
(*                                                                         *)
(* A call is a sequence of steps of a goroutine.  Between them kernelMu is *)
(* held or not depending on the call and on how far it is, so the mutex is *)
(* not a variable.  Reading the implementation's name is two native calls, *)
(* one for its length and one that copies it.                              *)
(***************************************************************************)
EXTENDS Naturals, FiniteSets

CONSTANTS
  Goroutines,
  Cpus,        \* the best implementation on each CPU that is considered
  Fallback,    \* the implementation of a CPU without SIMD
  Automatic,   \* the empty name: automatic selection
  Requests,    \* names passed to SetKernel
  None         \* no library, no name

ASSUME KernelAssumption ==
  /\ IsFiniteSet(Goroutines)
  /\ None \notin Cpus \cup {Fallback}
  /\ Automatic \notin Cpus \cup {Fallback, None}

VARIABLES
  pc,                        \* where each goroutine is
  kernelSelectionLocked, utilityKernelReservations,
  cachedLibrary,             \* its implementationName, or None
  cpu,                       \* best implementation here; never changes
  active,                    \* simdjson::get_active_implementation()
  explicit_selection, locked,  \* the bridge's implementation_selection_state
  refused,                   \* history: a construction of a parser failed
  unpublished                \* history: the last SetKernel failed to read the name

native == <<active, explicit_selection, locked>>
vars == <<pc, kernelSelectionLocked, utilityKernelReservations, cachedLibrary, cpu,
          native, refused, unpublished>>

\* A step of a call; name is what SetKernel was asked for, seen the implementation
\* the goroutine has last looked at and relies on, rc a utility's native status.
Idle == [call |-> "none", at |-> "idle", name |-> None, seen |-> None, rc |-> "none"]

Init ==
  /\ pc = [g \in Goroutines |-> Idle]
  /\ kernelSelectionLocked = FALSE
  /\ utilityKernelReservations = 0
  /\ cachedLibrary = None
  /\ cpu \in Cpus
  /\ active = cpu
  /\ explicit_selection = FALSE /\ locked = FALSE
  /\ refused = FALSE /\ unpublished = FALSE

-----------------------------------------------------------------------------
(* kernelMu and kernelCond *)

Outside == {"want", "waiting", "woken", "relock"}

\* Blocked in kernelMu.Lock.
Pending == {"want", "relock", "finish", "cancel"}

Writer(g) == pc[g].call \in {"NewParser", "SetKernel"} /\ pc[g].at \notin Outside
Reader(g) == pc[g].call = "Kernel"

\* RWMutex lets no reader in when a writer waits.
ReadersEnter == \A g \in Goroutines : ~Writer(g) /\ pc[g].at \notin Pending
MuFree == \A g \in Goroutines : ~Writer(g) /\ ~Reader(g)

Goto(g, at) == pc' = [pc EXCEPT ![g].at = at]
Return(g) == pc' = [pc EXCEPT ![g] = Idle]

\* Mutated form: nobody is woken.
BroadcastNone(g) == [pc EXCEPT ![g] = Idle]
\* g returns and everyone waiting on kernelCond wakes up.
Broadcast(g) ==
  [h \in Goroutines |->
     IF h = g THEN Idle
     ELSE IF pc[h].at = "waiting" THEN [pc[h] EXCEPT !.at = "woken"] ELSE pc[h]]

-----------------------------------------------------------------------------
(* activeLibrary, whoever calls it *)

ActiveLibrary(g) ==
  /\ pc[g].at = "active"
  /\ Goto(g, IF cachedLibrary = None THEN "load" ELSE "native")
  /\ UNCHANGED <<kernelSelectionLocked, utilityKernelReservations, cachedLibrary, cpu,
                 native, refused, unpublished>>

\* Resolved, opened, probed and bound; the length of the name is read.
Load(g) ==
  /\ pc[g].at = "load"
  /\ pc' = [pc EXCEPT ![g].at = "loadCopy", ![g].seen = active]
  /\ UNCHANGED <<kernelSelectionLocked, utilityKernelReservations, cachedLibrary, cpu,
                 native, refused, unpublished>>

LoadCopy(g) ==
  /\ pc[g].at = "loadCopy"
  /\ pc' = [pc EXCEPT ![g].at = "install", ![g].seen = active]
  /\ UNCHANGED <<kernelSelectionLocked, utilityKernelReservations, cachedLibrary, cpu,
                 native, refused, unpublished>>

\* Loading or reading the name failed.  A utility still has a reservation to cancel.
LoadFails(g) ==
  /\ pc[g].at \in {"load", "loadCopy"}
  /\ IF pc[g].call = "utility" THEN Goto(g, "cancel") ELSE Return(g)
  /\ UNCHANGED <<kernelSelectionLocked, utilityKernelReservations, cachedLibrary, cpu,
                 native, refused, unpublished>>

\* The first one to get here installs its library.
Install(g) ==
  /\ pc[g].at = "install"
  /\ cachedLibrary' = IF cachedLibrary = None THEN pc[g].seen ELSE cachedLibrary
  /\ pc' = [pc EXCEPT ![g].at = "native", ![g].seen = None]
  /\ UNCHANGED <<kernelSelectionLocked, utilityKernelReservations, cpu, native, refused,
                 unpublished>>

-----------------------------------------------------------------------------
(* Parsers and pools *)

CallNewParser(g) ==
  /\ pc[g] = Idle
  /\ pc' = [pc EXCEPT ![g] = [Idle EXCEPT !.call = "NewParser", !.at = "want"]]
  /\ UNCHANGED <<kernelSelectionLocked, utilityKernelReservations, cachedLibrary, cpu,
                 native, refused, unpublished>>

EnterNewParser(g) ==
  /\ pc[g].call = "NewParser" /\ pc[g].at = "want"
  /\ MuFree
  /\ Goto(g, "active")
  /\ UNCHANGED <<kernelSelectionLocked, utilityKernelReservations, cachedLibrary, cpu,
                 native, refused, unpublished>>

CpuUnsupported == ~explicit_selection /\ active = Fallback

\* The bridge locks first and looks at the CPU afterwards; the construction may also
\* fail for want of memory or of a slot in the registry.
NativeNewParser(g, made) ==
  /\ pc[g].call = "NewParser" /\ pc[g].at = "native"
  /\ made => ~CpuUnsupported
  /\ locked' = TRUE
  /\ kernelSelectionLocked' = (kernelSelectionLocked \/ made)
  /\ refused' = (refused \/ ~made)
  /\ Return(g)
  /\ UNCHANGED <<utilityKernelReservations, cachedLibrary, cpu, active,
                 explicit_selection, unpublished>>

\* NewParserPool, as far as this module goes: lockKernelSelection.
NewParserPool(g) ==
  /\ pc[g] = Idle
  /\ MuFree
  /\ kernelSelectionLocked' = TRUE
  /\ UNCHANGED <<pc, utilityKernelReservations, cachedLibrary, cpu, native, refused,
                 unpublished>>

-----------------------------------------------------------------------------
(* SetKernel and Kernel *)

CallSetKernel(g, name) ==
  /\ pc[g] = Idle
  /\ pc' = [pc EXCEPT ![g] =
              [Idle EXCEPT !.call = "SetKernel", !.at = "want", !.name = name]]
  /\ UNCHANGED <<kernelSelectionLocked, utilityKernelReservations, cachedLibrary, cpu,
                 native, refused, unpublished>>

\* Mutated forms: the lock is not looked at again; utilities are not waited for.
AfterWaitNoRecheck == IF utilityKernelReservations # 0 THEN "waiting" ELSE "active"
AfterWaitNoWait == IF kernelSelectionLocked THEN "idle" ELSE "active"
\* The loop of SetKernel and the check behind it.
AfterWait ==
  IF utilityKernelReservations # 0 THEN "waiting"
  ELSE IF kernelSelectionLocked THEN "idle" ELSE "active"

Proceed(g) == IF AfterWait = "idle" THEN Return(g) ELSE Goto(g, AfterWait)

EnterSetKernel(g) ==
  /\ pc[g].call = "SetKernel" /\ pc[g].at = "want"
  /\ MuFree
  /\ IF kernelSelectionLocked THEN Return(g) ELSE Proceed(g)
  /\ UNCHANGED <<kernelSelectionLocked, utilityKernelReservations, cachedLibrary, cpu,
                 native, refused, unpublished>>

\* kernelCond.Wait returns only when it has kernelMu again.
Relock(g) ==
  /\ pc[g].at = "woken"
  /\ Goto(g, "relock")
  /\ UNCHANGED <<kernelSelectionLocked, utilityKernelReservations, cachedLibrary, cpu,
                 native, refused, unpublished>>

Recheck(g) ==
  /\ pc[g].at = "relock"
  /\ MuFree
  /\ Proceed(g)
  /\ UNCHANGED <<kernelSelectionLocked, utilityKernelReservations, cachedLibrary, cpu,
                 native, refused, unpublished>>

\* A name can be selected when it is compiled in and this CPU supports it.
Selectable(name) == name \in {Automatic, Fallback, cpu}

NativeSetKernel(g) ==
  LET name == pc[g].name  chosen == IF name = Automatic THEN cpu ELSE name IN
  /\ pc[g].call = "SetKernel" /\ pc[g].at = "native"
  /\ ~locked /\ Selectable(name)
  /\ active' = chosen
  /\ explicit_selection' = (name # Automatic)
  /\ pc' = [pc EXCEPT ![g].at = "setCopy", ![g].seen = chosen]
  /\ UNCHANGED <<kernelSelectionLocked, utilityKernelReservations, cachedLibrary, cpu,
                 locked, refused, unpublished>>

NativeSetKernelFails(g) ==
  /\ pc[g].call = "SetKernel" /\ pc[g].at = "native"
  /\ locked \/ ~Selectable(pc[g].name)
  /\ Return(g)
  /\ UNCHANGED <<kernelSelectionLocked, utilityKernelReservations, cachedLibrary, cpu,
                 native, refused, unpublished>>

\* Mutated form: the cached name is left as it was.
PublishedNot == cachedLibrary
Published == active

SetKernelReturns(g, copied) ==
  /\ pc[g].at = "setCopy"
  /\ cachedLibrary' = IF copied THEN Published ELSE cachedLibrary
  /\ unpublished' = ~copied
  /\ Return(g)
  /\ UNCHANGED <<kernelSelectionLocked, utilityKernelReservations, cpu, native, refused>>

CallKernel(g) ==
  /\ pc[g] = Idle
  /\ ReadersEnter
  /\ cachedLibrary # None
  /\ pc' = [pc EXCEPT ![g] =
              [Idle EXCEPT !.call = "Kernel", !.at = "kernelCopy", !.seen = active]]
  /\ UNCHANGED <<kernelSelectionLocked, utilityKernelReservations, cachedLibrary, cpu,
                 native, refused, unpublished>>

KernelReturns(g) ==
  /\ pc[g].at = "kernelCopy"
  /\ Return(g)
  /\ UNCHANGED <<kernelSelectionLocked, utilityKernelReservations, cachedLibrary, cpu,
                 native, refused, unpublished>>

-----------------------------------------------------------------------------
(* Minify and ValidateUTF8 *)

BeginUtility(g) ==
  /\ pc[g] = Idle
  /\ MuFree
  /\ utilityKernelReservations' = utilityKernelReservations + 1
  /\ pc' = [pc EXCEPT ![g] = [Idle EXCEPT !.call = "utility", !.at = "active"]]
  /\ UNCHANGED <<kernelSelectionLocked, cachedLibrary, cpu, native, refused, unpublished>>

\* The bridge's gate is passed: the selection is locked before the scan.
Gate(g) ==
  /\ pc[g].call = "utility" /\ pc[g].at = "native"
  /\ ~CpuUnsupported
  /\ locked' = TRUE
  /\ pc' = [pc EXCEPT ![g].at = "scan", ![g].seen = active]
  /\ UNCHANGED <<kernelSelectionLocked, utilityKernelReservations, cachedLibrary, cpu,
                 active, explicit_selection, refused, unpublished>>

\* An argument or the CPU is rejected before that.
GateRejects(g, rc) ==
  /\ pc[g].call = "utility" /\ pc[g].at = "native"
  /\ rc = "ERR_CPU_UNSUPPORTED" => CpuUnsupported
  /\ pc' = [pc EXCEPT ![g].at = "finish", ![g].rc = rc]
  /\ UNCHANGED <<kernelSelectionLocked, utilityKernelReservations, cachedLibrary, cpu,
                 native, refused, unpublished>>

Scan(g, rc) ==
  /\ pc[g].at = "scan"
  /\ pc' = [pc EXCEPT ![g].at = "finish", ![g].rc = rc, ![g].seen = None]
  /\ UNCHANGED <<kernelSelectionLocked, utilityKernelReservations, cachedLibrary, cpu,
                 native, refused, unpublished>>

\* Mutated form: only a call that succeeded locks the selection.
PassedGateOK(rc) == rc = "OK"
\* markKernelSelectionAfterUtility
PassedGate(rc) == rc \notin {"ERR_CPU_UNSUPPORTED", "ERR_BUFFER_TOO_SMALL", "ERR_INVALID_ARG"}

Finish(g) ==
  /\ pc[g].at = "finish"
  /\ MuFree
  /\ kernelSelectionLocked' = (kernelSelectionLocked \/ PassedGate(pc[g].rc))
  /\ utilityKernelReservations' = utilityKernelReservations - 1
  /\ pc' = Broadcast(g)
  /\ UNCHANGED <<cachedLibrary, cpu, native, refused, unpublished>>

\* Mutated form: the reservation is leaked.
CancelledNot == utilityKernelReservations
Cancelled == utilityKernelReservations - 1

Cancel(g) ==
  /\ pc[g].at = "cancel"
  /\ MuFree
  /\ utilityKernelReservations' = Cancelled
  /\ pc' = Broadcast(g)
  /\ UNCHANGED <<kernelSelectionLocked, cachedLibrary, cpu, native, refused, unpublished>>

-----------------------------------------------------------------------------

\* The steps of a call under way that need no lock, and those that take kernelMu.
Run(g) ==
  \/ ActiveLibrary(g) \/ Load(g) \/ LoadCopy(g) \/ LoadFails(g) \/ Install(g)
  \/ \E made \in BOOLEAN : NativeNewParser(g, made)
  \/ NativeSetKernel(g) \/ NativeSetKernelFails(g)
  \/ \E copied \in BOOLEAN : SetKernelReturns(g, copied)
  \/ Relock(g) \/ KernelReturns(g)
  \/ Gate(g)
  \/ \E rc \in {"ERR_CPU_UNSUPPORTED", "ERR_INVALID_ARG"} : GateRejects(g, rc)
  \/ \E rc \in {"OK", "ERR_INVALID_JSON"} : Scan(g, rc)

Enter(g) ==
  EnterNewParser(g) \/ EnterSetKernel(g) \/ Recheck(g) \/ Finish(g) \/ Cancel(g)

Begin(g) ==
  \/ CallNewParser(g) \/ NewParserPool(g) \/ CallKernel(g) \/ BeginUtility(g)
  \/ \E name \in Requests : CallSetKernel(g, name)

Next == \E g \in Goroutines : Begin(g) \/ Run(g) \/ Enter(g)

Spec == Init /\ [][Next]_vars

\* A goroutine inside a call keeps running (native calls return, and loading gives up
\* after bootstrapResolveTimeout), and Go's mutexes let every waiter in eventually.
\* Nothing makes a program call anything.
FairSpec ==
  Spec /\ \A g \in Goroutines : WF_vars(Run(g)) /\ SF_vars(Enter(g))

-----------------------------------------------------------------------------
(* Properties *)

Implementations == Cpus \cup {Fallback}

Step ==
  [call : {"none", "NewParser", "SetKernel", "Kernel", "utility"},
   at : Outside \cup {"idle", "active", "load", "loadCopy", "install", "native", "setCopy",
                      "kernelCopy", "scan", "finish", "cancel"},
   name : Requests \cup {None},
   seen : Implementations \cup {None},
   rc : {"none", "OK", "ERR_INVALID_JSON", "ERR_CPU_UNSUPPORTED", "ERR_INVALID_ARG"}]

\* Every variable has its type.  At most one goroutine writes under kernelMu, and none
\* while another reads.
TypeOK ==
  /\ pc \in [Goroutines -> Step]
  /\ kernelSelectionLocked \in BOOLEAN
  /\ utilityKernelReservations \in Nat
  /\ cachedLibrary \in Implementations \cup {None}
  /\ cpu \in Cpus /\ active \in {cpu, Fallback}
  /\ explicit_selection \in BOOLEAN /\ locked \in BOOLEAN
  /\ refused \in BOOLEAN /\ unpublished \in BOOLEAN
  /\ \A g, h \in Goroutines : Writer(g) /\ (Writer(h) \/ Reader(h)) => g = h

InUtility == {g \in Goroutines : pc[g].call = "utility"}

\* There is one reservation for each utility call that has not returned: none is lost
\* when loading fails, and finish and cancel never take the counter below zero.
ReservationsCounted == utilityKernelReservations = Cardinality(InUtility)

\* Nobody works with an implementation that changes under it: not the scan of a
\* utility, and not the two calls that read a name, even those of a utility that loads
\* the library without kernelMu.
KernelStableInUse ==
  \A g \in Goroutines :
    pc[g].at \in {"loadCopy", "install", "setCopy", "kernelCopy", "scan"}
      => pc[g].seen = active

\* What the Go side knows of the bridge's lock: it has recorded it, or a utility is
\* about to, or a parser could not be constructed.  So the Go status gate mirrors the
\* native one, and only a failed NewParser leaves a selection that looks free and is
\* not.
GateMirrored ==
  locked => \/ kernelSelectionLocked
            \/ \E g \in InUtility : pc[g].at \in {"scan", "finish"}
            \/ refused

\* The name kept with the library is the active implementation's: whoever installed the
\* library, and whatever else was loading, unless a SetKernel is about to write it or
\* could not read it.
CachedNameFresh ==
  cachedLibrary # None =>
    \/ cachedLibrary = active
    \/ \E g \in Goroutines : pc[g].at = "setCopy"
    \/ unpublished

\* Once a parser or a pool exists or a utility has passed its gate the selection never
\* changes, not even by a SetKernel that was already waiting when it was locked.
SelectionFrozen ==
  [][kernelSelectionLocked =>
       active' = active /\ explicit_selection' = explicit_selection]_vars

NoNewUtility == <>[][~ \E g \in Goroutines : BeginUtility(g)]_vars

\* SetKernel returns, provided that utilities stop coming: the last reservation wakes it
\* up and neither a failed load nor a rejected argument leaves one behind.
SetKernelReturnsEventually ==
  NoNewUtility =>
    \A g \in Goroutines : pc[g].call = "SetKernel" ~> pc[g].call # "SetKernel"

=============================================================================
