---------------------------- MODULE AllocTelemetry -----------------------------
(***************************************************************************)
(* The allocator telemetry of src/src/native/native_alloc_telemetry.cpp:   *)
(* the operator new and operator delete of the shared library, with the    *)
(* table of live allocations and the counters they keep, and the reset     *)
(* that starts a new epoch.                                                *)
(*                                                                         *)
(* One mutex guards the table and the counters, but neither the malloc and *)
(* free around it nor the read of current_epoch, which operator new does   *)
(* before it locks.  So operator new is three steps of a thread and        *)
(* operator delete two; reset is one.  snapshot only reads, under the      *)
(* mutex: what it returns are the variables of a state of this module.     *)
(***************************************************************************)
EXTENDS Naturals, FiniteSetsExt

CONSTANTS
  Threads,
  Addresses,    \* what malloc may return
  NoAddress,
  Sizes,        \* requested sizes, 0 included
  WordMod,      \* 2^64
  MaxEpoch,     \* bound: resets
  MaxAllocs     \* bound: allocations counted in one epoch

ASSUME TelemetryAssumption ==
  /\ NoAddress \notin Addresses
  /\ IsFiniteSet(Addresses)
  /\ Sizes \subseteq Nat
  /\ WordMod \in Nat \ {0, 1}
  /\ MaxEpoch \in Nat /\ MaxEpoch < WordMod
  /\ MaxAllocs \in Nat

VARIABLES
  malloced,              \* addresses malloc returned and free has not taken back
  owned,                 \* addresses operator new returned and delete has not taken
  requested,             \* history: normalized size of each address when allocated
  pc,                    \* threads inside operator new or operator delete
  live_allocations,
  current_epoch,
  live_bytes,
  total_alloc_bytes,
  alloc_count,
  free_count,
  untracked_free_count,
  straddled              \* history: allocations of this epoch stamped with an older one

program == <<malloced, owned, requested, pc>>
counters == <<live_bytes, total_alloc_bytes, alloc_count, free_count,
              untracked_free_count>>
telemetryVars == <<program, live_allocations, current_epoch, counters, straddled>>

NoCall == [at |-> "idle", ptr |-> NoAddress, epoch |-> 0]
None == [n |-> 0, bytes |-> 0]

normalize_size(size) == IF size = 0 THEN 1 ELSE size

Plus(a, b) == (a + b) % WordMod
Minus(a, b) == (a + WordMod - b) % WordMod

TelemetryInit ==
  /\ malloced = {} /\ owned = {}
  /\ requested = [a \in Addresses |-> 0]
  /\ pc = [t \in Threads |-> NoCall]
  /\ live_allocations = [a \in {} |-> 0]
  /\ current_epoch = 1
  /\ live_bytes = 0 /\ total_alloc_bytes = 0
  /\ alloc_count = 0 /\ free_count = 0 /\ untracked_free_count = 0
  /\ straddled = None

-----------------------------------------------------------------------------
(* operator new *)

\* raw_allocate
Malloc(t, a, size) ==
  /\ pc[t] = NoCall
  /\ a \notin malloced
  /\ alloc_count < MaxAllocs
  /\ malloced' = malloced \cup {a}
  /\ requested' = [requested EXCEPT ![a] = normalize_size(size)]
  /\ pc' = [pc EXCEPT ![t] = [at |-> "allocated", ptr |-> a, epoch |-> 0]]
  /\ UNCHANGED <<owned, live_allocations, current_epoch, counters, straddled>>

\* record_allocation reads current_epoch into its record, without the mutex.
StampEpoch(t) ==
  /\ pc[t].at = "allocated"
  /\ pc' = [pc EXCEPT ![t].at = "stamped", ![t].epoch = current_epoch]
  /\ UNCHANGED <<malloced, owned, requested, live_allocations, current_epoch, counters,
                 straddled>>

\* Mutated form: the table is not told.
WithRecordDropped(ptr, record) == live_allocations
\* unordered_map::emplace leaves an existing entry alone.
WithRecord(ptr, record) ==
  [a \in DOMAIN live_allocations \cup {ptr} |->
     IF a \in DOMAIN live_allocations THEN live_allocations[a] ELSE record]

Record(t) ==
  LET ptr == pc[t].ptr  size == requested[pc[t].ptr] IN
  /\ pc[t].at = "stamped"
  /\ live_allocations' = WithRecord(ptr, [size |-> size, epoch |-> pc[t].epoch])
  /\ live_bytes' = Plus(live_bytes, size)
  /\ total_alloc_bytes' = Plus(total_alloc_bytes, size)
  /\ alloc_count' = Plus(alloc_count, 1)
  /\ owned' = owned \cup {ptr}
  /\ pc' = [pc EXCEPT ![t] = NoCall]
  /\ straddled' = IF pc[t].epoch = current_epoch
                  THEN straddled
                  ELSE [n |-> straddled.n + 1, bytes |-> straddled.bytes + size]
  /\ UNCHANGED <<malloced, requested, current_epoch, free_count, untracked_free_count>>

\* The table cannot grow: the memory is given back and operator new fails.
RecordThrows(t) ==
  /\ pc[t].at = "stamped"
  /\ malloced' = malloced \ {pc[t].ptr}
  /\ pc' = [pc EXCEPT ![t] = NoCall]
  /\ UNCHANGED <<owned, requested, live_allocations, current_epoch, counters, straddled>>

-----------------------------------------------------------------------------
(* operator delete *)

\* Mutated form: an allocation of an earlier epoch is counted too.
CountsAnyEpoch(record) == TRUE
Counts(record) == record.epoch = current_epoch

\* Mutated form: the record stays.
WithoutRecordKept(ptr) == live_allocations
WithoutRecord(ptr) == [a \in DOMAIN live_allocations \ {ptr} |-> live_allocations[a]]

Erase(t, a) ==
  /\ pc[t] = NoCall
  /\ a \in owned
  /\ owned' = owned \ {a}
  /\ pc' = [pc EXCEPT ![t] = [at |-> "erased", ptr |-> a, epoch |-> 0]]
  /\ IF a \in DOMAIN live_allocations
     THEN /\ IF Counts(live_allocations[a])
             THEN /\ live_bytes' = Minus(live_bytes, live_allocations[a].size)
                  /\ free_count' = Plus(free_count, 1)
             ELSE UNCHANGED <<live_bytes, free_count>>
          /\ live_allocations' = WithoutRecord(a)
          /\ UNCHANGED untracked_free_count
     ELSE /\ untracked_free_count' = Plus(untracked_free_count, 1)
          /\ UNCHANGED <<live_allocations, live_bytes, free_count>>
  /\ UNCHANGED <<malloced, requested, current_epoch, total_alloc_bytes, alloc_count,
                 straddled>>

\* raw_deallocate
Dealloc(t) ==
  /\ pc[t].at = "erased"
  /\ malloced' = malloced \ {pc[t].ptr}
  /\ pc' = [pc EXCEPT ![t] = NoCall]
  /\ UNCHANGED <<owned, requested, live_allocations, current_epoch, counters, straddled>>

-----------------------------------------------------------------------------

\* Mutated form: reset also forgets what is live.
RetainedNothing == [a \in {} |-> 0]
\* What reset keeps of the table: all of it.
Retained == live_allocations

ResetTelemetry ==
  /\ current_epoch < MaxEpoch
  /\ current_epoch' = IF Plus(current_epoch, 1) = 0 THEN 1 ELSE Plus(current_epoch, 1)
  /\ live_allocations' = Retained
  /\ live_bytes' = 0 /\ total_alloc_bytes' = 0
  /\ alloc_count' = 0 /\ free_count' = 0 /\ untracked_free_count' = 0
  /\ straddled' = None
  /\ UNCHANGED program

TelemetryNext ==
  \/ \E t \in Threads, a \in Addresses, size \in Sizes : Malloc(t, a, size)
  \/ \E t \in Threads : StampEpoch(t) \/ Record(t) \/ RecordThrows(t) \/ Dealloc(t)
  \/ \E t \in Threads, a \in Addresses : Erase(t, a)
  \/ ResetTelemetry

TelemetrySpec == TelemetryInit /\ [][TelemetryNext]_telemetryVars

-----------------------------------------------------------------------------
(* Properties *)

Word == 0 .. WordMod - 1
AllocationRecord == [size : Nat \ {0}, epoch : Nat \ {0}]

\* Every variable has its type; no record has size 0 or epoch 0, and epoch 0 is
\* never current.
TelemetryTypeOK ==
  /\ malloced \subseteq Addresses /\ owned \subseteq Addresses
  /\ requested \in [Addresses -> Nat]
  /\ pc \in [Threads -> [at : {"idle", "allocated", "stamped", "erased"},
                         ptr : Addresses \cup {NoAddress}, epoch : Nat]]
  /\ DOMAIN live_allocations \subseteq Addresses
  /\ live_allocations \in [DOMAIN live_allocations -> AllocationRecord]
  /\ current_epoch \in Nat \ {0}
  /\ live_bytes \in Word /\ total_alloc_bytes \in Word
  /\ alloc_count \in Word /\ free_count \in Word /\ untracked_free_count \in Word
  /\ straddled \in [n : Nat, bytes : Nat]

\* The table holds exactly the memory the program owns, at its size, although
\* malloc and free happen outside the mutex: an address that another thread is
\* being given or is giving back is in the heap and not in the table, so an insert
\* never meets a stale record of the same address.
TableMirrorsHeap ==
  /\ DOMAIN live_allocations = owned
  /\ \A a \in owned : live_allocations[a].size = requested[a]
  /\ owned \subseteq malloced
  /\ \A t \in Threads : pc[t].ptr # NoAddress =>
       /\ pc[t].ptr \in malloced \ owned
       /\ \A u \in Threads : pc[u].ptr = pc[t].ptr => u = t

\* Every delete of memory this library allocated finds its record, whatever resets
\* lie between: untracked frees are never the library's own.
NoUntrackedFree == untracked_free_count = 0

ThisEpoch == {a \in DOMAIN live_allocations : live_allocations[a].epoch = current_epoch}
SizeOf(a) == live_allocations[a].size

\* The counters of an epoch describe its allocations, and what they are off by is
\* exactly the allocations that were stamped before a reset and recorded after it.
\* In particular live_bytes never wraps below 0.
CountersAccounted ==
  /\ live_bytes = MapThenSumSet(SizeOf, ThisEpoch) + straddled.bytes
  /\ alloc_count = free_count + Cardinality(ThisEpoch) + straddled.n
  /\ live_bytes <= total_alloc_bytes

\* What the contract says of a snapshot: live_bytes is the memory allocated in the
\* current epoch and not freed; what was live when reset was called is excluded.
LiveBytesExact == live_bytes = MapThenSumSet(SizeOf, ThisEpoch)

=============================================================================
