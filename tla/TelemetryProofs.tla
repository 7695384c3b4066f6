---------------------------- MODULE TelemetryProofs ----------------------------
(***************************************************************************)
(* Proofs about AllocTelemetry for any number of threads and addresses.    *)
(* The table mirrors the heap because an address a thread holds inside     *)
(* operator new or operator delete is in the heap, so malloc gives it to   *)
(* nobody else, and is not owned, so nobody deletes it: InFlight says what *)
(* each stage of a call has settled.                                       *)
(*                                                                         *)
(* The counters are sums over the table, and a sum over a set is defined   *)
(* by a recursion on the set.  What is needed of it is proved from the     *)
(* least element principle, with sets of numbers and sets of subsets in    *)
(* the place of induction hypotheses: that the recursion has a solution,   *)
(* and that removing any element takes its term away.                      *)
(***************************************************************************)
EXTENDS AllocTelemetry, SetInduction

InFlight ==
  /\ \A t \in Threads :
       IF pc[t].at = "idle" THEN pc[t] = NoCall
       ELSE pc[t].ptr \in Addresses /\ (pc[t].at = "stamped" => pc[t].epoch # 0)
  /\ \A a \in malloced : requested[a] # 0

IInv == TelemetryTypeOK /\ TableMirrorsHeap /\ NoUntrackedFree /\ InFlight

\* 64-bit arithmetic stays in 64 bits.
LEMMA WordArithmetic ==
  ASSUME NEW a \in Nat, NEW b \in Nat
  PROVE  Plus(a, b) \in Word /\ (b < WordMod => Minus(a, b) \in Word)
<1>1. WordMod \in Nat /\ WordMod > 0
  BY TelemetryAssumption
<1>2. (a + b) % WordMod \in Word
  BY <1>1 DEF Word
<1>3. ASSUME b < WordMod
      PROVE  (a + WordMod - b) % WordMod \in Word
  <2>1. a + WordMod - b \in Nat
    BY <1>1, <1>3
  <2> QED
    BY <1>1, <2>1 DEF Word
<1> QED
  BY <1>2, <1>3 DEF Plus, Minus

LEMMA InitInv == TelemetryInit => IInv
<1> SUFFICES ASSUME TelemetryInit PROVE IInv
  OBVIOUS
<1>1. 0 \in Word
  BY TelemetryAssumption DEF Word
<1>2. TelemetryTypeOK
  BY <1>1 DEF TelemetryInit, TelemetryTypeOK, NoCall, None
<1>3. TableMirrorsHeap /\ NoUntrackedFree /\ InFlight
  BY DEF TelemetryInit, TableMirrorsHeap, NoUntrackedFree, InFlight, NoCall
<1> QED
  BY <1>2, <1>3 DEF IInv

LEMMA MallocInv ==
  ASSUME IInv, NEW t \in Threads, NEW a \in Addresses, NEW size \in Sizes, Malloc(t, a, size)
  PROVE  IInv'
<1>1. normalize_size(size) \in Nat \ {0}
  BY TelemetryAssumption DEF normalize_size
<1>2. /\ pc[t] = NoCall /\ a \notin malloced /\ a # NoAddress
      /\ malloced' = malloced \cup {a}
      /\ requested' = [requested EXCEPT ![a] = normalize_size(size)]
      /\ pc' = [pc EXCEPT ![t] = [at |-> "allocated", ptr |-> a, epoch |-> 0]]
      /\ UNCHANGED <<owned, live_allocations, current_epoch, counters, straddled>>
  BY TelemetryAssumption DEF Malloc
<1>3. TelemetryTypeOK'
  BY <1>1, <1>2 DEF IInv, TelemetryTypeOK, counters, AllocationRecord, Word
<1>4. pc'[t] = [at |-> "allocated", ptr |-> a, epoch |-> 0]
      /\ \A u \in Threads \ {t} : pc'[u] = pc[u]
  BY <1>2 DEF IInv, TelemetryTypeOK
<1>5. TableMirrorsHeap'
  <2>1. \A b \in owned : requested'[b] = requested[b]
    BY <1>2 DEF IInv, TableMirrorsHeap, TelemetryTypeOK
  <2>2. \A u \in Threads : pc[u].ptr # a
    BY <1>2 DEF IInv, TableMirrorsHeap
  <2>3. ASSUME NEW u \in Threads, pc'[u].ptr # NoAddress
        PROVE  /\ pc'[u].ptr \in malloced' \ owned'
               /\ \A v \in Threads : pc'[v].ptr = pc'[u].ptr => v = u
    BY <1>2, <1>4, <2>2, <2>3 DEF IInv, TableMirrorsHeap
  <2> QED
    BY <1>2, <2>1, <2>3 DEF IInv, TableMirrorsHeap
<1>6. NoUntrackedFree'
  BY <1>2 DEF IInv, NoUntrackedFree, counters
<1>7. InFlight'
  BY <1>1, <1>2, <1>4 DEF IInv, InFlight, TelemetryTypeOK
<1> QED
  BY <1>3, <1>5, <1>6, <1>7 DEF IInv

LEMMA StampInv ==
  ASSUME IInv, NEW t \in Threads, StampEpoch(t)
  PROVE  IInv'
<1>1. /\ pc[t].at = "allocated"
      /\ pc' = [pc EXCEPT ![t].at = "stamped", ![t].epoch = current_epoch]
      /\ UNCHANGED <<malloced, owned, requested, live_allocations, current_epoch, counters,
                     straddled>>
  BY DEF StampEpoch
<1> DEFINE P == [at : {"idle", "allocated", "stamped", "erased"},
                 ptr : Addresses \cup {NoAddress}, epoch : Nat]
           s == [pc[t] EXCEPT !.at = "stamped", !.epoch = current_epoch]
<1>2. TelemetryTypeOK'
  <2>1. pc \in [Threads -> P] /\ current_epoch \in Nat
    BY DEF IInv, TelemetryTypeOK
  <2>2. pc[t] \in P
    BY <2>1
  <2>3. s \in P
    BY <2>1, <2>2
  <2>4. pc' = [pc EXCEPT ![t] = s]
    BY <1>1, <2>1
  <2> HIDE DEF P, s
  <2>5. pc' \in [Threads -> P]
    BY <2>1, <2>3, <2>4
  <2> QED
    BY <1>1, <2>5 DEF IInv, TelemetryTypeOK, counters, P
<1> HIDE DEF P, s
<1>3. /\ pc'[t] = [pc[t] EXCEPT !.at = "stamped", !.epoch = current_epoch]
      /\ \A u \in Threads \ {t} : pc'[u] = pc[u]
  BY <1>1 DEF IInv, TelemetryTypeOK
<1>4. pc[t] \in [at : {"idle", "allocated", "stamped", "erased"},
                 ptr : Addresses \cup {NoAddress}, epoch : Nat]
  BY DEF IInv, TelemetryTypeOK
<1>5. pc'[t].at = "stamped" /\ pc'[t].epoch = current_epoch /\ pc'[t].ptr = pc[t].ptr
  BY <1>3, <1>4
<1>6. \A u \in Threads : pc'[u].ptr = pc[u].ptr
  BY <1>3, <1>5
<1>7. TableMirrorsHeap'
  <2>1. malloced' = malloced /\ owned' = owned /\ requested' = requested
        /\ live_allocations' = live_allocations
    BY <1>1
  <2>2. ASSUME NEW u \in Threads, pc'[u].ptr # NoAddress
        PROVE  /\ pc'[u].ptr \in malloced' \ owned'
               /\ \A v \in Threads : pc'[v].ptr = pc'[u].ptr => v = u
    <3>1. pc[u].ptr # NoAddress /\ pc'[u].ptr = pc[u].ptr
      BY <1>6, <2>2
    <3>2. pc[u].ptr \in malloced \ owned /\ \A v \in Threads : pc[v].ptr = pc[u].ptr => v = u
      BY <3>1 DEF IInv, TableMirrorsHeap
    <3> QED
      BY <1>6, <2>1, <3>1, <3>2
  <2> QED
    BY <2>1, <2>2 DEF IInv, TableMirrorsHeap
<1>8. NoUntrackedFree'
  BY <1>1 DEF IInv, NoUntrackedFree, counters
<1>9. InFlight'
  BY <1>1, <1>3, <1>5 DEF IInv, InFlight, TelemetryTypeOK
<1> QED
  BY <1>2, <1>7, <1>8, <1>9 DEF IInv

\* A record is entered at an address that is in no record.
LEMMA RecordInv ==
  ASSUME IInv, NEW t \in Threads, Record(t)
  PROVE  IInv'
<1> DEFINE ptr == pc[t].ptr
           record == [size |-> requested[ptr], epoch |-> pc[t].epoch]
<1>1. /\ pc[t].at = "stamped"
      /\ live_allocations' = WithRecord(ptr, record)
      /\ owned' = owned \cup {ptr} /\ pc' = [pc EXCEPT ![t] = NoCall]
      /\ UNCHANGED <<malloced, requested, current_epoch, free_count, untracked_free_count>>
  BY DEF Record
<1>2. ptr \in Addresses /\ ptr # NoAddress /\ pc[t].epoch \in Nat \ {0}
  BY <1>1, TelemetryAssumption DEF IInv, InFlight, TelemetryTypeOK
<1>3. ptr \in malloced /\ ptr \notin owned /\ ptr \notin DOMAIN live_allocations
  BY <1>2 DEF IInv, TableMirrorsHeap
<1>4. record \in AllocationRecord /\ requested[ptr] \in Nat
  BY <1>2, <1>3 DEF IInv, InFlight, TelemetryTypeOK, AllocationRecord
<1>5. live_allocations' = [a \in owned' |-> IF a = ptr THEN record ELSE live_allocations[a]]
      /\ DOMAIN live_allocations = owned
  BY <1>1, <1>3 DEF WithRecord, IInv, TableMirrorsHeap
<1>6. pc'[t] = NoCall /\ \A u \in Threads \ {t} : pc'[u] = pc[u]
  BY <1>1 DEF IInv, TelemetryTypeOK
<1>7. TelemetryTypeOK'
  <2>1. live_bytes' \in Word /\ total_alloc_bytes' \in Word /\ alloc_count' \in Word
    <3>1. live_bytes \in Nat /\ total_alloc_bytes \in Nat /\ alloc_count \in Nat
      BY TelemetryAssumption DEF IInv, TelemetryTypeOK, Word
    <3> QED
      BY <1>4, <3>1, WordArithmetic DEF Record
  <2>2. straddled' \in [n : Nat, bytes : Nat]
    BY <1>4 DEF Record, IInv, TelemetryTypeOK
  <2>3. pc' \in [Threads -> [at : {"idle", "allocated", "stamped", "erased"},
                             ptr : Addresses \cup {NoAddress}, epoch : Nat]]
    BY <1>1 DEF IInv, TelemetryTypeOK, NoCall
  <2>4. DOMAIN live_allocations' \subseteq Addresses
        /\ live_allocations' \in [DOMAIN live_allocations' -> AllocationRecord]
    <3> HIDE DEF record
    <3> QED
      BY <1>1, <1>2, <1>4, <1>5 DEF IInv, TelemetryTypeOK
  <2> QED
    BY <1>1, <1>2, <2>1, <2>2, <2>3, <2>4 DEF IInv, TelemetryTypeOK, Word
<1>8. TableMirrorsHeap'
  <2>1. ASSUME NEW a \in owned'
        PROVE  live_allocations'[a].size = requested'[a]
    BY <1>1, <1>5, <2>1 DEF IInv, TableMirrorsHeap
  <2>2. ASSUME NEW u \in Threads, pc'[u].ptr # NoAddress
        PROVE  /\ pc'[u].ptr \in malloced' \ owned'
               /\ \A v \in Threads : pc'[v].ptr = pc'[u].ptr => v = u
    <3>1. u # t /\ pc'[u] = pc[u] /\ pc[u].ptr # ptr
      BY <1>2, <1>6, <2>2 DEF IInv, TableMirrorsHeap, NoCall
    <3>2. \A v \in Threads : pc'[v].ptr = pc'[u].ptr => v # t
      BY <1>6, <2>2 DEF NoCall
    <3> QED
      BY <1>1, <1>6, <2>2, <3>1, <3>2 DEF IInv, TableMirrorsHeap
  <2>3. DOMAIN live_allocations' = owned' /\ owned' \subseteq malloced'
    BY <1>1, <1>3, <1>5 DEF IInv, TableMirrorsHeap
  <2> QED
    BY <2>1, <2>2, <2>3 DEF TableMirrorsHeap
<1>9. NoUntrackedFree' /\ InFlight'
  BY <1>1, <1>6 DEF IInv, NoUntrackedFree, InFlight, NoCall
<1> QED
  BY <1>7, <1>8, <1>9 DEF IInv

\* The end of a delete, or of a new that fails: an address in flight leaves the heap.
LEMMA GiveBackInv ==
  ASSUME IInv, NEW t \in Threads, RecordThrows(t) \/ Dealloc(t)
  PROVE  IInv'
<1>1. /\ pc[t].at # "idle"
      /\ malloced' = malloced \ {pc[t].ptr} /\ pc' = [pc EXCEPT ![t] = NoCall]
      /\ UNCHANGED <<owned, requested, live_allocations, current_epoch, counters, straddled>>
  BY DEF RecordThrows, Dealloc
<1>2. pc[t].ptr \in Addresses /\ pc[t].ptr # NoAddress
  BY <1>1, TelemetryAssumption DEF IInv, InFlight
<1>3. pc'[t] = NoCall /\ \A u \in Threads \ {t} : pc'[u] = pc[u]
  BY <1>1 DEF IInv, TelemetryTypeOK
<1>4. TelemetryTypeOK'
  BY <1>1 DEF IInv, TelemetryTypeOK, counters, AllocationRecord, Word, NoCall
<1>5. TableMirrorsHeap'
  <2>1. ASSUME NEW u \in Threads, pc'[u].ptr # NoAddress
        PROVE  /\ pc'[u].ptr \in malloced' \ owned'
               /\ \A v \in Threads : pc'[v].ptr = pc'[u].ptr => v = u
    <3>1. u # t /\ pc'[u] = pc[u] /\ pc[u].ptr # pc[t].ptr
      BY <1>2, <1>3, <2>1 DEF IInv, TableMirrorsHeap, NoCall
    <3>2. \A v \in Threads : pc'[v].ptr = pc'[u].ptr => v # t
      BY <1>3, <2>1 DEF NoCall
    <3> QED
      BY <1>1, <1>3, <2>1, <3>1, <3>2 DEF IInv, TableMirrorsHeap
  <2>2. owned' \subseteq malloced'
    BY <1>1, <1>2 DEF IInv, TableMirrorsHeap
  <2> QED
    BY <1>1, <2>1, <2>2 DEF IInv, TableMirrorsHeap
<1>6. NoUntrackedFree' /\ InFlight'
  BY <1>1, <1>3 DEF IInv, NoUntrackedFree, InFlight, counters, NoCall
<1> QED
  BY <1>4, <1>5, <1>6 DEF IInv

\* The address of a delete is owned, so it has a record.
LEMMA EraseInv ==
  ASSUME IInv, NEW t \in Threads, NEW a \in Addresses, Erase(t, a)
  PROVE  IInv'
<1>1. /\ pc[t] = NoCall /\ a \in owned /\ owned' = owned \ {a}
      /\ pc' = [pc EXCEPT ![t] = [at |-> "erased", ptr |-> a, epoch |-> 0]]
      /\ UNCHANGED <<malloced, requested, current_epoch, total_alloc_bytes, alloc_count,
                     straddled>>
  BY DEF Erase
<1>2. a \in DOMAIN live_allocations /\ a # NoAddress /\ a \in malloced
      /\ DOMAIN live_allocations = owned
  BY <1>1, TelemetryAssumption DEF IInv, TableMirrorsHeap
<1>3. /\ live_allocations' = [b \in owned' |-> live_allocations[b]]
      /\ untracked_free_count' = untracked_free_count
  BY <1>1, <1>2 DEF Erase, WithoutRecord
<1>4. live_bytes' \in Word /\ free_count' \in Word
  <2>1. live_allocations[a].size \in Nat /\ live_bytes \in Nat /\ free_count \in Nat
    BY <1>2, TelemetryAssumption DEF IInv, TelemetryTypeOK, Word, AllocationRecord
  <2>2. CASE Counts(live_allocations[a])
    <3>1. /\ live_bytes' = Minus(live_bytes, live_allocations[a].size)
          /\ free_count' = Plus(free_count, 1)
      BY <1>2, <2>2 DEF Erase
    <3>2. Minus(live_bytes, live_allocations[a].size) \in Word
      BY <2>1, TelemetryAssumption DEF Minus, Word
    <3> QED
      BY <2>1, <3>1, <3>2, WordArithmetic
  <2>3. CASE ~Counts(live_allocations[a])
    BY <1>2, <2>3 DEF Erase, IInv, TelemetryTypeOK
  <2> QED
    BY <2>2, <2>3
<1>5. pc'[t] = [at |-> "erased", ptr |-> a, epoch |-> 0]
      /\ \A u \in Threads \ {t} : pc'[u] = pc[u]
  BY <1>1 DEF IInv, TelemetryTypeOK
<1>6. TelemetryTypeOK'
  BY <1>1, <1>2, <1>3, <1>4 DEF IInv, TelemetryTypeOK
<1>7. TableMirrorsHeap'
  <2>1. \A u \in Threads : pc[u].ptr # a
    BY <1>1, <1>2 DEF IInv, TableMirrorsHeap
  <2>2. ASSUME NEW u \in Threads, pc'[u].ptr # NoAddress
        PROVE  /\ pc'[u].ptr \in malloced' \ owned'
               /\ \A v \in Threads : pc'[v].ptr = pc'[u].ptr => v = u
    BY <1>1, <1>2, <1>5, <2>1, <2>2 DEF IInv, TableMirrorsHeap
  <2> QED
    BY <1>1, <1>3, <2>2 DEF IInv, TableMirrorsHeap
<1>8. NoUntrackedFree' /\ InFlight'
  BY <1>1, <1>3, <1>5 DEF IInv, NoUntrackedFree, InFlight
<1> QED
  BY <1>6, <1>7, <1>8 DEF IInv

LEMMA ResetInv == IInv /\ ResetTelemetry => IInv'
<1> SUFFICES ASSUME IInv, ResetTelemetry PROVE IInv'
  OBVIOUS
<1>1. current_epoch' \in Nat \ {0}
  BY WordArithmetic, TelemetryAssumption DEF ResetTelemetry, IInv, TelemetryTypeOK, Word
<1>2. 0 \in Word /\ None \in [n : Nat, bytes : Nat]
  BY TelemetryAssumption DEF Word, None
<1>3. TelemetryTypeOK'
  BY <1>1, <1>2 DEF ResetTelemetry, Retained, program, IInv, TelemetryTypeOK
<1> QED
  BY <1>3
  DEF ResetTelemetry, Retained, program, IInv, TableMirrorsHeap, NoUntrackedFree, InFlight

-----------------------------------------------------------------------------

\* No step of any thread leaves the invariant.
THEOREM TelemetryInvariance == TelemetrySpec => []IInv
<1>1. IInv /\ [TelemetryNext]_telemetryVars => IInv'
  <2> SUFFICES ASSUME IInv, [TelemetryNext]_telemetryVars PROVE IInv'
    OBVIOUS
  <2>1. ASSUME NEW t \in Threads, NEW a \in Addresses, NEW size \in Sizes, Malloc(t, a, size)
        PROVE  IInv'
    BY <2>1, MallocInv
  <2>2. ASSUME NEW t \in Threads, StampEpoch(t) \/ Record(t) \/ RecordThrows(t) \/ Dealloc(t)
        PROVE  IInv'
    BY <2>2, StampInv, RecordInv, GiveBackInv
  <2>3. ASSUME NEW t \in Threads, NEW a \in Addresses, Erase(t, a)
        PROVE  IInv'
    BY <2>3, EraseInv
  <2>4. CASE ResetTelemetry
    BY <2>4, ResetInv
  <2>5. CASE UNCHANGED telemetryVars
    BY <2>5
    DEF telemetryVars, program, counters, IInv, TelemetryTypeOK, TableMirrorsHeap,
        NoUntrackedFree, InFlight
  <2> QED
    BY <2>1, <2>2, <2>3, <2>4, <2>5 DEF TelemetryNext
<1> QED
  BY <1>1, InitInv, PTL DEF TelemetrySpec

\* The telemetry's state is well typed: records and epochs are never 0 and every
\* counter stays a 64-bit word.
THEOREM TelemetryTypeCorrect == TelemetrySpec => []TelemetryTypeOK
BY TelemetryInvariance, PTL DEF IInv

\* The table is the memory the program owns although malloc and free run unlocked.
THEOREM TableMirrorsHeapCorrect == TelemetrySpec => []TableMirrorsHeap
BY TelemetryInvariance, PTL DEF IInv

\* A delete of memory from this library always finds its record.
THEOREM NoUntrackedFreeCorrect == TelemetrySpec => []NoUntrackedFree
BY TelemetryInvariance, PTL DEF IInv

-----------------------------------------------------------------------------
(* Sums over the table. *)

\* The sum MapThenSumSet computes of the sizes in a table.
SizeSum(table, S) == MapThenSumSet(LAMBDA a : table[a].size, S)

SumStep(table, g, s) ==
  IF s = {} THEN 0
  ELSE LET x == CHOOSE x \in s : TRUE IN table[x].size + g[s \ {x}]

Sums(table, S) == CHOOSE g : g = [s \in SUBSET S |-> SumStep(table, g, s)]

LEMMA SumUnfolds == \A table, S : SizeSum(table, S) = Sums(table, S)[S]
BY DEF SizeSum, MapThenSumSet, MapThenFoldSet, Sums, SumStep

\* The recursion has a solution, because a set is larger than what it recurs to.
LEMMA SumsDefined ==
  ASSUME NEW table, NEW S, IsFiniteSet(S)
  PROVE  \A s \in SUBSET S : Sums(table, S)[s] = SumStep(table, Sums(table, S), s)
<1> DEFINE Small(n) == {s \in SUBSET S : Cardinality(s) <= n}
           N == {n \in Nat : \E g : g = [s \in Small(n) |-> SumStep(table, g, s)]}
<1>1. \A s \in SUBSET S : IsFiniteSet(s) /\ Cardinality(s) \in Nat
  BY FS_Subset, FS_CardinalityType
<1>2. \A s \in SUBSET S : s # {} =>
        LET x == CHOOSE x \in s : TRUE IN
        s \ {x} \in SUBSET S /\ Cardinality(s \ {x}) = Cardinality(s) - 1
  <2>1. ASSUME NEW s \in SUBSET S, s # {}, NEW x \in s
        PROVE  s \ {x} \in SUBSET S /\ Cardinality(s \ {x}) = Cardinality(s) - 1
    BY <1>1, FS_RemoveElement
  <2> QED
    BY <2>1
<1>3. 0 \in N
  <2> DEFINE g == [s \in Small(0) |-> 0]
  <2>1. \A s \in Small(0) : s = {}
    BY <1>1, FS_EmptySet
  <2>2. g = [s \in Small(0) |-> SumStep(table, g, s)]
    BY <2>1 DEF SumStep
  <2> QED
    BY <2>2
<1>4. ASSUME NEW n \in Nat, n \in N
      PROVE  n + 1 \in N
  <2>1. PICK g : g = [s \in Small(n) |-> SumStep(table, g, s)]
    BY <1>4
  <2> DEFINE h == [s \in Small(n + 1) |-> SumStep(table, g, s)]
  <2>2. \A s \in Small(n) : h[s] = g[s]
    BY <1>1, <2>1
  <2>3. \A s \in Small(n + 1) : s # {} => s \ {CHOOSE x \in s : TRUE} \in Small(n)
    BY <1>1, <1>2
  <2> HIDE DEF Small
  <2>4. ASSUME NEW s \in Small(n + 1)
        PROVE  SumStep(table, g, s) = SumStep(table, h, s)
    <3>1. s # {} => h[s \ {CHOOSE x \in s : TRUE}] = g[s \ {CHOOSE x \in s : TRUE}]
      BY <2>2, <2>3
    <3> HIDE DEF h
    <3> QED
      BY <3>1 DEF SumStep
  <2>5. h = [s \in Small(n + 1) |-> SumStep(table, h, s)]
    BY <2>4
  <2> HIDE DEF h
  <2>6. \E k : k = [s \in Small(n + 1) |-> SumStep(table, k, s)]
    BY <2>5
  <2> QED
    BY <2>6
<1>5. Cardinality(S) \in N
  <2> HIDE DEF N
  <2>1. Nat \subseteq N
    BY <1>3, <1>4, NatInductionOnSets
  <2> QED
    BY <2>1, <1>1
<1>6. Small(Cardinality(S)) = SUBSET S
  <2>1. \A s \in SUBSET S : Cardinality(s) <= Cardinality(S)
    BY FS_Subset
  <2> QED
    BY <2>1
<1>7. \E g : g = [s \in SUBSET S |-> SumStep(table, g, s)]
  BY <1>5, <1>6
<1>8. Sums(table, S) = [s \in SUBSET S |-> SumStep(table, Sums(table, S), s)]
  BY <1>7 DEF Sums
<1> QED
  BY <1>8

LEMMA SumsAgree ==
  ASSUME NEW t, NEW u, NEW A, NEW B, NEW S, IsFiniteSet(A), IsFiniteSet(B),
         S \subseteq A, S \subseteq B, \A a \in S : t[a].size = u[a].size
  PROVE  Sums(t, A)[S] = Sums(u, B)[S]
<1> DEFINE T == {s \in SUBSET S : Sums(t, A)[s] = Sums(u, B)[s]}
<1>1. IsFiniteSet(S)
  BY FS_Subset
<1>2. ASSUME NEW s \in SUBSET S, \A r \in SUBSET s : r # s => r \in T
      PROVE  s \in T
  <2>1. /\ Sums(t, A)[s] = SumStep(t, Sums(t, A), s)
        /\ Sums(u, B)[s] = SumStep(u, Sums(u, B), s)
    BY SumsDefined
  <2>2. CASE s = {}
    BY <2>1, <2>2 DEF SumStep
  <2>3. CASE s # {}
    <3> DEFINE x == CHOOSE x \in s : TRUE
    <3>1. x \in s /\ x \in S
      BY <2>3
    <3>2. s \ {x} \in T
      BY <1>2, <3>1
    <3> QED
      BY <2>1, <2>3, <3>1, <3>2 DEF SumStep
  <2> QED
    BY <2>2, <2>3
<1> HIDE DEF T
<1>3. SUBSET S \subseteq T
  BY <1>1, <1>2, SubsetInduction
<1> QED
  BY <1>3 DEF T

LEMMA SumsTyped ==
  ASSUME NEW table, NEW S, IsFiniteSet(S), \A a \in S : table[a].size \in Nat
  PROVE  \A s \in SUBSET S : Sums(table, S)[s] \in Nat
<1> DEFINE T == {s \in SUBSET S : Sums(table, S)[s] \in Nat}
<1>1. ASSUME NEW s \in SUBSET S, \A r \in SUBSET s : r # s => r \in T
      PROVE  s \in T
  <2>1. Sums(table, S)[s] = SumStep(table, Sums(table, S), s)
    BY SumsDefined
  <2>2. CASE s = {}
    BY <2>1, <2>2 DEF SumStep
  <2>3. CASE s # {}
    <3> DEFINE x == CHOOSE x \in s : TRUE
    <3>1. x \in s /\ x \in S
      BY <2>3
    <3>2. Sums(table, S)[s \ {x}] \in Nat
      BY <1>1, <3>1
    <3>3. Sums(table, S)[s] = table[x].size + Sums(table, S)[s \ {x}]
      BY <2>1, <2>3 DEF SumStep
    <3> QED
      BY <3>1, <3>2, <3>3
  <2> QED
    BY <2>2, <2>3
<1> HIDE DEF T
<1>2. SUBSET S \subseteq T
  BY <1>1, SubsetInduction
<1> QED
  BY <1>2 DEF T

\* Addition commutes, so that it does not matter which element CHOOSE takes first.
LEMMA SumsRemove ==
  ASSUME NEW table, NEW S, IsFiniteSet(S), \A a \in S : table[a].size \in Nat
  PROVE  \A s \in SUBSET S : \A x \in s :
           Sums(table, S)[s] = table[x].size + Sums(table, S)[s \ {x}]
<1> DEFINE sum == Sums(table, S)
           T == {s \in SUBSET S : \A x \in s : sum[s] = table[x].size + sum[s \ {x}]}
<1>1. \A s \in SUBSET S : sum[s] \in Nat
  BY SumsTyped
<1>2. \A s \in SUBSET S : sum[s] = SumStep(table, sum, s)
  BY SumsDefined
<1> HIDE DEF sum
<1>3. ASSUME NEW s \in SUBSET S, \A r \in SUBSET s : r # s => r \in T
      PROVE  s \in T
  <2>1. ASSUME NEW x \in s
        PROVE  sum[s] = table[x].size + sum[s \ {x}]
    <3> DEFINE c == CHOOSE y \in s : TRUE
    <3>1. c \in s
      OBVIOUS
    <3>2. sum[s] = table[c].size + sum[s \ {c}]
      BY <1>2 DEF SumStep
    <3> HIDE DEF c
    <3>3. CASE x = c
      BY <3>2, <3>3
    <3>4. CASE x # c
      <4> DEFINE r == sum[(s \ {x}) \ {c}]
      <4>1. sum[s \ {c}] = table[x].size + sum[(s \ {c}) \ {x}]
        BY <1>3, <3>1, <3>4
      <4>2. (s \ {c}) \ {x} = (s \ {x}) \ {c}
        OBVIOUS
      <4>3. sum[s \ {c}] = table[x].size + r
        BY <4>1, <4>2
      <4>4. sum[s \ {x}] = table[c].size + r
        BY <1>3, <3>1, <3>4
      <4>5. table[x].size \in Nat /\ table[c].size \in Nat /\ r \in Nat
        BY <1>1, <3>1
      <4> HIDE DEF r
      <4> QED
        BY <3>2, <4>3, <4>4, <4>5
    <3> QED
      BY <3>3, <3>4
  <2> QED
    BY <2>1
<1> HIDE DEF T
<1>4. SUBSET S \subseteq T
  BY <1>3, SubsetInduction
<1> QED
  BY <1>4 DEF T, sum

-----------------------------------------------------------------------------
LEMMA SizeSumEmpty == \A table : SizeSum(table, {}) = 0
BY SumUnfolds, SumsDefined, FS_EmptySet DEF SumStep

LEMMA SizeSumNat ==
  ASSUME NEW table, NEW S, IsFiniteSet(S), \A a \in S : table[a].size \in Nat
  PROVE  SizeSum(table, S) \in Nat
BY SumUnfolds, SumsTyped

LEMMA SizeSumAgrees ==
  ASSUME NEW t, NEW u, NEW S, IsFiniteSet(S), \A a \in S : t[a].size = u[a].size
  PROVE  SizeSum(t, S) = SizeSum(u, S)
<1>1. Sums(t, S)[S] = Sums(u, S)[S]
  BY SumsAgree
<1> QED
  BY <1>1, SumUnfolds

LEMMA SizeSumRemove ==
  ASSUME NEW table, NEW S, IsFiniteSet(S), \A a \in S : table[a].size \in Nat, NEW x \in S
  PROVE  SizeSum(table, S) = table[x].size + SizeSum(table, S \ {x})
<1>1. Sums(table, S)[S] = table[x].size + Sums(table, S)[S \ {x}]
  BY SumsRemove
<1>2. IsFiniteSet(S \ {x})
  BY FS_Subset
<1>3. Sums(table, S)[S \ {x}] = Sums(table, S \ {x})[S \ {x}]
  BY <1>2, SumsAgree
<1> QED
  BY <1>1, <1>3, SumUnfolds

-----------------------------------------------------------------------------
(* The counters. *)

\* No counter of an epoch reaches 2^64: the allocations it may count, those that
\* are inside operator new included, are at most maxSize bytes each.
NoWrap(maxSize) ==
  /\ IsFiniteSet(Threads)
  /\ maxSize \in Nat \ {0}
  /\ \A size \in Sizes : size <= maxSize
  /\ (MaxAllocs + Cardinality(Threads)) * maxSize < WordMod

Allocating == {t \in Threads : pc[t].at \in {"allocated", "stamped"}}

\* No record and no stamp is of an epoch to come, so that a reset leaves none of its own.
EpochsPast ==
  /\ \A a \in DOMAIN live_allocations : live_allocations[a].epoch <= current_epoch
  /\ \A t \in Threads : pc[t].epoch <= current_epoch

\* What keeps the counters below 2^64.
Budget(maxSize) ==
  /\ \A a \in Addresses : requested[a] <= maxSize
  /\ total_alloc_bytes <= alloc_count * maxSize
  /\ alloc_count + Cardinality(Allocating) <= MaxAllocs + Cardinality(Threads)

Accounted ==
  /\ live_bytes = SizeSum(live_allocations, ThisEpoch) + straddled.bytes
  /\ alloc_count = free_count + Cardinality(ThisEpoch) + straddled.n
  /\ live_bytes <= total_alloc_bytes

CountInv(maxSize) == EpochsPast /\ Budget(maxSize) /\ Accounted

LEMMA CountersFinite ==
  ASSUME IInv
  PROVE  /\ IsFiniteSet(ThisEpoch) /\ Cardinality(ThisEpoch) \in Nat
         /\ \A a \in DOMAIN live_allocations : live_allocations[a].size \in Nat \ {0}
         /\ SizeSum(live_allocations, ThisEpoch) \in Nat
         /\ live_bytes \in Nat /\ total_alloc_bytes \in Nat /\ alloc_count \in Nat
         /\ free_count \in Nat /\ straddled.n \in Nat /\ straddled.bytes \in Nat
<1>1. IsFiniteSet(ThisEpoch) /\ Cardinality(ThisEpoch) \in Nat
  <2>1. ThisEpoch \subseteq Addresses
    BY DEF IInv, TelemetryTypeOK, ThisEpoch
  <2> QED
    BY <2>1, FS_Subset, FS_CardinalityType, TelemetryAssumption
<1>2. \A a \in DOMAIN live_allocations : live_allocations[a].size \in Nat \ {0}
  BY DEF IInv, TelemetryTypeOK, AllocationRecord
<1>3. SizeSum(live_allocations, ThisEpoch) \in Nat
  <2>1. \A a \in ThisEpoch : live_allocations[a].size \in Nat
    BY <1>2 DEF ThisEpoch
  <2> QED
    BY <1>1, <2>1, SizeSumNat
<1>4. /\ live_bytes \in Nat /\ total_alloc_bytes \in Nat /\ alloc_count \in Nat
      /\ free_count \in Nat /\ straddled.n \in Nat /\ straddled.bytes \in Nat
  BY TelemetryAssumption DEF IInv, TelemetryTypeOK, Word
<1> QED
  BY <1>1, <1>2, <1>3, <1>4

\* Below 2^64 the counters' arithmetic is exact.
LEMMA ExactArithmetic ==
  ASSUME NEW a \in Nat, NEW b \in Nat
  PROVE  /\ a + b < WordMod => Plus(a, b) = a + b
         /\ b <= a /\ a < WordMod => Minus(a, b) = a - b
<1>1. WordMod \in Nat /\ WordMod > 1
  BY TelemetryAssumption
<1>2. ASSUME a + b < WordMod
      PROVE  (a + b) % WordMod = a + b
  BY <1>1, <1>2
<1>3. ASSUME b <= a, a < WordMod
      PROVE  (a + WordMod - b) % WordMod = a - b
  <2> DEFINE d == a - b
  <2>1. d \in 0 .. WordMod - 1 /\ a + WordMod - b = d + WordMod
    BY <1>1, <1>3
  <2> HIDE DEF d
  <2>2. (d + WordMod) % WordMod = d
    BY <1>1, <2>1
  <2> QED
    BY <2>1, <2>2 DEF d
<1> QED
  BY <1>2, <1>3 DEF Plus, Minus

LEMMA CountInitially ==
  ASSUME NEW maxSize, NoWrap(maxSize) PROVE TelemetryInit => CountInv(maxSize)
<1> SUFFICES ASSUME TelemetryInit PROVE CountInv(maxSize)
  OBVIOUS
<1>1. ThisEpoch = {} /\ Allocating = {} /\ DOMAIN live_allocations = {}
  BY DEF TelemetryInit, ThisEpoch, Allocating, NoCall
<1>2. Cardinality(ThisEpoch) = 0 /\ Cardinality(Allocating) = 0
      /\ SizeSum(live_allocations, ThisEpoch) = 0
  BY <1>1, FS_EmptySet, SizeSumEmpty
<1>3. Accounted
  BY <1>2 DEF TelemetryInit, Accounted, None
<1>4. Cardinality(Threads) \in Nat
  BY FS_CardinalityType DEF NoWrap
<1>5. Budget(maxSize)
  BY <1>2, <1>4, TelemetryAssumption DEF TelemetryInit, Budget, NoWrap
<1>6. EpochsPast
  BY <1>1 DEF TelemetryInit, EpochsPast, NoCall
<1> QED
  BY <1>3, <1>5, <1>6 DEF CountInv

\* A step that leaves the table and the counters alone, and that lets no thread but
\* those within the bound start an allocation.
LEMMA CountUntouched ==
  ASSUME NEW maxSize, NoWrap(maxSize), IInv, CountInv(maxSize), IInv',
         UNCHANGED <<live_allocations, current_epoch, counters, straddled>>,
         \A a \in Addresses : requested'[a] <= maxSize,
         \A t \in Threads : pc'[t].epoch <= current_epoch,
         Allocating' \subseteq Allocating \/ alloc_count < MaxAllocs
  PROVE  CountInv(maxSize)'
<1>1. Accounted'
  BY DEF CountInv, Accounted, ThisEpoch, counters
<1>2. /\ Allocating \subseteq Threads /\ Allocating' \subseteq Threads
      /\ IsFiniteSet(Threads) /\ Cardinality(Threads) \in Nat
  BY FS_CardinalityType DEF Allocating, NoWrap
<1>3. /\ Cardinality(Allocating) \in Nat /\ Cardinality(Allocating') \in Nat
      /\ Cardinality(Allocating') <= Cardinality(Threads)
      /\ Allocating' \subseteq Allocating => Cardinality(Allocating') <= Cardinality(Allocating)
  <2>1. IsFiniteSet(Allocating) /\ IsFiniteSet(Allocating')
        /\ Cardinality(Allocating') <= Cardinality(Threads)
    BY <1>2, FS_Subset
  <2> QED
    BY <2>1, FS_Subset, FS_CardinalityType
<1>4. alloc_count' = alloc_count /\ total_alloc_bytes' = total_alloc_bytes
  BY DEF counters
<1>5. alloc_count + Cardinality(Allocating') <= MaxAllocs + Cardinality(Threads)
  BY <1>2, <1>3, CountersFinite, TelemetryAssumption DEF CountInv, Budget
<1>6. Budget(maxSize)'
  BY <1>4, <1>5 DEF CountInv, Budget
<1>7. EpochsPast'
  BY DEF CountInv, EpochsPast
<1> QED
  BY <1>1, <1>6, <1>7 DEF CountInv

LEMMA MallocCount ==
  ASSUME NEW maxSize, NoWrap(maxSize), IInv, CountInv(maxSize), IInv',
         NEW t \in Threads, NEW a \in Addresses, NEW size \in Sizes, Malloc(t, a, size)
  PROVE  CountInv(maxSize)'
<1>1. /\ alloc_count < MaxAllocs
      /\ requested' = [requested EXCEPT ![a] = normalize_size(size)]
      /\ pc' = [pc EXCEPT ![t] = [at |-> "allocated", ptr |-> a, epoch |-> 0]]
      /\ UNCHANGED <<live_allocations, current_epoch, counters, straddled>>
  BY DEF Malloc
<1>2. normalize_size(size) <= maxSize
  BY TelemetryAssumption DEF NoWrap, normalize_size
<1>3. \A b \in Addresses : requested'[b] <= maxSize
  BY <1>1, <1>2 DEF IInv, TelemetryTypeOK, CountInv, Budget
<1>4. \A u \in Threads : pc'[u].epoch <= current_epoch
  BY <1>1 DEF IInv, TelemetryTypeOK, CountInv, EpochsPast
<1> QED
  BY <1>1, <1>3, <1>4, CountUntouched

LEMMA StampCount ==
  ASSUME NEW maxSize, NoWrap(maxSize), IInv, CountInv(maxSize), IInv',
         NEW t \in Threads, StampEpoch(t)
  PROVE  CountInv(maxSize)'
<1>1. /\ pc[t].at = "allocated" /\ requested' = requested
      /\ pc' = [pc EXCEPT ![t].at = "stamped", ![t].epoch = current_epoch]
      /\ UNCHANGED <<live_allocations, current_epoch, counters, straddled>>
  BY DEF StampEpoch
<1>2. /\ pc'[t] = [pc[t] EXCEPT !.at = "stamped", !.epoch = current_epoch]
      /\ \A u \in Threads \ {t} : pc'[u] = pc[u]
  BY <1>1 DEF IInv, TelemetryTypeOK
<1>3. pc'[t].at = "stamped" /\ pc'[t].epoch = current_epoch
  BY <1>2 DEF IInv, TelemetryTypeOK
<1>4. Allocating' \subseteq Allocating
  BY <1>1, <1>2 DEF Allocating
<1>5. \A u \in Threads : pc'[u].epoch <= current_epoch
  <2>1. current_epoch \in Nat /\ \A u \in Threads : pc[u].epoch <= current_epoch
    BY DEF IInv, TelemetryTypeOK, CountInv, EpochsPast
  <2>2. current_epoch <= current_epoch
    BY <2>1
  <2> QED
    BY <1>2, <1>3, <2>1, <2>2
<1>6. \A a \in Addresses : requested'[a] <= maxSize
  BY <1>1 DEF CountInv, Budget
<1> QED
  BY <1>1, <1>4, <1>5, <1>6, CountUntouched

LEMMA GiveBackCount ==
  ASSUME NEW maxSize, NoWrap(maxSize), IInv, CountInv(maxSize), IInv',
         NEW t \in Threads, RecordThrows(t) \/ Dealloc(t)
  PROVE  CountInv(maxSize)'
<1>1. /\ requested' = requested /\ pc' = [pc EXCEPT ![t] = NoCall]
      /\ UNCHANGED <<live_allocations, current_epoch, counters, straddled>>
  BY DEF RecordThrows, Dealloc
<1>2. pc'[t] = NoCall /\ \A u \in Threads \ {t} : pc'[u] = pc[u]
  BY <1>1 DEF IInv, TelemetryTypeOK
<1>3. Allocating' \subseteq Allocating
  BY <1>2 DEF Allocating, NoCall
<1>4. \A u \in Threads : pc'[u].epoch <= current_epoch
  BY <1>2 DEF IInv, TelemetryTypeOK, CountInv, EpochsPast, NoCall
<1>5. \A a \in Addresses : requested'[a] <= maxSize
  BY <1>1 DEF CountInv, Budget
<1> QED
  BY <1>1, <1>3, <1>4, <1>5, CountUntouched

\* The budget bounds every allocation counted and being counted.
LEMMA RoomForOneMore ==
  ASSUME NEW maxSize, NoWrap(maxSize), IInv, CountInv(maxSize), Allocating # {}
  PROVE  /\ (alloc_count + 1) * maxSize < WordMod
         /\ alloc_count + 1 < WordMod
<1> DEFINE K == MaxAllocs + Cardinality(Threads)
<1>1. /\ IsFiniteSet(Threads) /\ Cardinality(Threads) \in Nat /\ Allocating \subseteq Threads
      /\ maxSize \in Nat \ {0}
  BY FS_CardinalityType DEF NoWrap, Allocating
<1>2. Cardinality(Allocating) \in Nat /\ Cardinality(Allocating) # 0
  BY <1>1, FS_Subset, FS_CardinalityType, FS_EmptySet
<1>3. alloc_count + 1 <= K /\ K \in Nat /\ alloc_count \in Nat
  BY <1>1, <1>2, CountersFinite, TelemetryAssumption DEF CountInv, Budget
<1>4. K * maxSize < WordMod
  BY DEF NoWrap
<1> HIDE DEF K
<1>5. \A i, j, m \in Nat : i <= j => i * m <= j * m
  OBVIOUS
<1>6. (alloc_count + 1) * maxSize <= K * maxSize
  BY <1>1, <1>3, <1>5
<1>7. \A i, m \in Nat : m # 0 => i <= i * m
  OBVIOUS
<1>8. alloc_count + 1 <= (alloc_count + 1) * maxSize
  BY <1>1, <1>3, <1>7
<1> DEFINE p == (alloc_count + 1) * maxSize
           q == K * maxSize
<1>9. p \in Nat /\ q \in Nat /\ WordMod \in Nat
  BY <1>1, <1>3, TelemetryAssumption
<1> HIDE DEF p, q
<1>10. p <= q /\ q < WordMod /\ alloc_count + 1 <= p
  BY <1>4, <1>6, <1>8 DEF p, q
<1>11. p < WordMod /\ alloc_count + 1 < WordMod
  BY <1>3, <1>9, <1>10
<1> QED
  BY <1>11 DEF p

\* An allocation is counted: in the current epoch's table when it was stamped with it,
\* among the straddled ones when a reset lies between.
LEMMA RecordCount ==
  ASSUME NEW maxSize, NoWrap(maxSize), IInv, CountInv(maxSize), IInv',
         NEW t \in Threads, Record(t)
  PROVE  CountInv(maxSize)'
<1> DEFINE ptr == pc[t].ptr
           size == requested[ptr]
           record == [size |-> size, epoch |-> pc[t].epoch]
<1>1. /\ pc[t].at = "stamped" /\ pc' = [pc EXCEPT ![t] = NoCall]
      /\ live_allocations' = WithRecord(ptr, record)
      /\ live_bytes' = Plus(live_bytes, size)
      /\ total_alloc_bytes' = Plus(total_alloc_bytes, size)
      /\ alloc_count' = Plus(alloc_count, 1)
      /\ UNCHANGED <<requested, current_epoch, free_count>>
      /\ straddled' = IF pc[t].epoch = current_epoch
                      THEN straddled
                      ELSE [n |-> straddled.n + 1, bytes |-> straddled.bytes + size]
  BY DEF Record
<1>2. ptr \in Addresses /\ ptr # NoAddress
  BY <1>1, TelemetryAssumption DEF IInv, InFlight
<1>3. ptr \notin DOMAIN live_allocations /\ size \in Nat /\ size <= maxSize
  BY <1>2 DEF IInv, TableMirrorsHeap, TelemetryTypeOK, CountInv, Budget
<1>4. /\ DOMAIN live_allocations' = DOMAIN live_allocations \cup {ptr}
      /\ live_allocations'[ptr] = record
      /\ \A a \in DOMAIN live_allocations : live_allocations'[a] = live_allocations[a]
  BY <1>1, <1>3 DEF WithRecord
<1>5. pc'[t] = NoCall /\ \A u \in Threads \ {t} : pc'[u] = pc[u]
  BY <1>1 DEF IInv, TelemetryTypeOK
<1>6. t \in Allocating /\ Allocating' = Allocating \ {t}
  BY <1>1, <1>5 DEF Allocating, NoCall
<1>7. /\ alloc_count' = alloc_count + 1
      /\ total_alloc_bytes' = total_alloc_bytes + size
      /\ live_bytes' = live_bytes + size
      /\ total_alloc_bytes' <= alloc_count' * maxSize
  <2>1. (alloc_count + 1) * maxSize < WordMod /\ alloc_count + 1 < WordMod
    BY <1>6, RoomForOneMore
  <2>2. /\ live_bytes <= total_alloc_bytes /\ total_alloc_bytes <= alloc_count * maxSize
        /\ live_bytes \in Nat /\ total_alloc_bytes \in Nat /\ alloc_count \in Nat
        /\ maxSize \in Nat /\ WordMod \in Nat
    BY CountersFinite, TelemetryAssumption DEF CountInv, Accounted, Budget, NoWrap
  <2>3. (alloc_count + 1) * maxSize = alloc_count * maxSize + maxSize
    BY <2>2
  <2> DEFINE q == alloc_count * maxSize
  <2>4. q \in Nat
    BY <2>2
  <2>5. q + maxSize < WordMod /\ total_alloc_bytes <= q
    BY <2>1, <2>2, <2>3
  <2> HIDE DEF q, size
  <2>6. total_alloc_bytes + size <= q + maxSize /\ total_alloc_bytes + size < WordMod
        /\ live_bytes + size < WordMod
    BY <1>3, <2>2, <2>4, <2>5
  <2>7. /\ Plus(alloc_count, 1) = alloc_count + 1
        /\ Plus(total_alloc_bytes, size) = total_alloc_bytes + size
        /\ Plus(live_bytes, size) = live_bytes + size
    BY <1>3, <2>1, <2>2, <2>6, ExactArithmetic
  <2>8. alloc_count' = alloc_count + 1 /\ total_alloc_bytes' = total_alloc_bytes + size
        /\ live_bytes' = live_bytes + size
    BY <1>1, <2>7
  <2>9. total_alloc_bytes' <= alloc_count' * maxSize
    BY <2>3, <2>6, <2>8 DEF q
  <2> QED
    BY <2>8, <2>9
<1>8. Budget(maxSize)'
  <2>1. IsFiniteSet(Allocating)
    BY FS_Subset DEF NoWrap, Allocating
  <2>2. Cardinality(Allocating') = Cardinality(Allocating) - 1 /\ Cardinality(Allocating) \in Nat
    BY <1>6, <2>1, FS_RemoveElement, FS_CardinalityType
  <2>3. alloc_count' + Cardinality(Allocating') = alloc_count + Cardinality(Allocating)
    BY <1>7, <2>2, CountersFinite
  <2> QED
    BY <1>1, <1>7, <2>3 DEF CountInv, Budget
<1>9. EpochsPast'
  <2>1. pc[t].epoch <= current_epoch /\ NoCall.epoch <= current_epoch
    BY DEF CountInv, EpochsPast, IInv, TelemetryTypeOK, NoCall
  <2> QED
    BY <1>1, <1>4, <1>5, <2>1 DEF CountInv, EpochsPast
<1>10. /\ live_bytes = SizeSum(live_allocations, ThisEpoch) + straddled.bytes
       /\ alloc_count = free_count + Cardinality(ThisEpoch) + straddled.n
       /\ live_bytes <= total_alloc_bytes
  BY DEF CountInv, Accounted
<1>11. SizeSum(live_allocations', ThisEpoch) = SizeSum(live_allocations, ThisEpoch)
  <2>1. \A a \in ThisEpoch : live_allocations'[a].size = live_allocations[a].size
    BY <1>4 DEF ThisEpoch
  <2> QED
    BY <2>1, CountersFinite, SizeSumAgrees
<1>12. Accounted'
  <2>1. CASE pc[t].epoch = current_epoch
    <3>1. ThisEpoch' = ThisEpoch \cup {ptr} /\ ptr \notin ThisEpoch /\ straddled' = straddled
      BY <1>1, <1>3, <1>4, <2>1 DEF ThisEpoch
    <3>2. Cardinality(ThisEpoch') = Cardinality(ThisEpoch) + 1
      BY <3>1, CountersFinite, FS_AddElement
    <3>3. SizeSum(live_allocations', ThisEpoch') = size + SizeSum(live_allocations', ThisEpoch)
      <4>1. ThisEpoch' \ {ptr} = ThisEpoch /\ ptr \in ThisEpoch'
        BY <3>1
      <4>2. IsFiniteSet(ThisEpoch')
        BY <3>1, CountersFinite, FS_AddElement
      <4>3. \A a \in ThisEpoch' : live_allocations'[a].size \in Nat
        BY <1>3, <1>4, <3>1, CountersFinite DEF ThisEpoch
      <4>4. SizeSum(live_allocations', ThisEpoch')
              = live_allocations'[ptr].size + SizeSum(live_allocations', ThisEpoch' \ {ptr})
        BY <4>1, <4>2, <4>3, SizeSumRemove
      <4> QED
        BY <1>4, <4>1, <4>4
    <3> HIDE DEF size
    <3>4. /\ live_bytes' = SizeSum(live_allocations', ThisEpoch') + straddled'.bytes
          /\ live_bytes' <= total_alloc_bytes'
      BY <1>3, <1>7, <1>10, <1>11, <3>1, <3>3, CountersFinite
    <3>5. alloc_count' = free_count' + Cardinality(ThisEpoch') + straddled'.n
      BY <1>1, <1>7, <1>10, <3>1, <3>2, CountersFinite
    <3> QED
      BY <3>4, <3>5 DEF Accounted
  <2>2. CASE pc[t].epoch # current_epoch
    <3>0. straddled' = [n |-> straddled.n + 1, bytes |-> straddled.bytes + size]
      BY <1>1, <2>2
    <3>a. ThisEpoch' = ThisEpoch
      BY <1>1, <1>3, <1>4, <2>2 DEF ThisEpoch
    <3>1. ThisEpoch' = ThisEpoch
          /\ straddled' = [n |-> straddled.n + 1, bytes |-> straddled.bytes + size]
      BY <3>0, <3>a
    <3> HIDE DEF size
    <3>2. straddled'.n = straddled.n + 1 /\ straddled'.bytes = straddled.bytes + size
      BY <3>1
    <3>3. /\ live_bytes' = SizeSum(live_allocations', ThisEpoch') + straddled'.bytes
          /\ live_bytes' <= total_alloc_bytes'
      BY <1>3, <1>7, <1>10, <1>11, <3>1, <3>2, CountersFinite
    <3>4. alloc_count' = free_count' + Cardinality(ThisEpoch') + straddled'.n
      BY <1>1, <1>7, <1>10, <3>1, <3>2, CountersFinite
    <3> QED
      BY <3>3, <3>4 DEF Accounted
  <2> QED
    BY <2>1, <2>2
<1> QED
  BY <1>8, <1>9, <1>12 DEF CountInv

\* A delete takes from the counters what the record put there, and only when the
\* record is of this epoch: live_bytes covers it.
LEMMA EraseCount ==
  ASSUME NEW maxSize, NoWrap(maxSize), IInv, CountInv(maxSize), IInv',
         NEW t \in Threads, NEW a \in Addresses, Erase(t, a)
  PROVE  CountInv(maxSize)'
<1> DEFINE size == live_allocations[a].size
<1>1. /\ pc[t] = NoCall /\ a \in owned
      /\ pc' = [pc EXCEPT ![t] = [at |-> "erased", ptr |-> a, epoch |-> 0]]
      /\ UNCHANGED <<requested, current_epoch, total_alloc_bytes, alloc_count, straddled>>
  BY DEF Erase
<1>2. a \in DOMAIN live_allocations
  BY <1>1 DEF IInv, TableMirrorsHeap
<1>3. /\ DOMAIN live_allocations' = DOMAIN live_allocations \ {a}
      /\ \A b \in DOMAIN live_allocations \ {a} : live_allocations'[b] = live_allocations[b]
  BY <1>2 DEF Erase, WithoutRecord
<1>4. pc'[t] = [at |-> "erased", ptr |-> a, epoch |-> 0]
      /\ \A u \in Threads \ {t} : pc'[u] = pc[u]
  BY <1>1 DEF IInv, TelemetryTypeOK
<1>5. Allocating' = Allocating
  BY <1>1, <1>4 DEF Allocating, NoCall
<1>6. Budget(maxSize)'
  BY <1>1, <1>5 DEF CountInv, Budget
<1>7. EpochsPast'
  BY <1>1, <1>3, <1>4 DEF CountInv, EpochsPast, IInv, TelemetryTypeOK
<1>8. /\ live_bytes = SizeSum(live_allocations, ThisEpoch) + straddled.bytes
      /\ alloc_count = free_count + Cardinality(ThisEpoch) + straddled.n
      /\ live_bytes <= total_alloc_bytes
  BY DEF CountInv, Accounted
<1>9. size \in Nat
  BY <1>2, CountersFinite
<1>10. Accounted'
  <2>1. CASE Counts(live_allocations[a])
    <3>1. /\ live_bytes' = Minus(live_bytes, size) /\ free_count' = Plus(free_count, 1)
      BY <1>2, <2>1 DEF Erase
    <3>2. ThisEpoch' = ThisEpoch \ {a} /\ a \in ThisEpoch
      BY <1>1, <1>2, <1>3, <2>1 DEF ThisEpoch, Counts
    <3>3. Cardinality(ThisEpoch') = Cardinality(ThisEpoch) - 1 /\ IsFiniteSet(ThisEpoch')
          /\ Cardinality(ThisEpoch) # 0
      BY <3>2, CountersFinite, FS_RemoveElement, FS_EmptySet
    <3>4. SizeSum(live_allocations, ThisEpoch)
            = size + SizeSum(live_allocations, ThisEpoch')
      <4>1. \A b \in ThisEpoch : live_allocations[b].size \in Nat
        BY CountersFinite DEF ThisEpoch
      <4>2. SizeSum(live_allocations, ThisEpoch)
              = size + SizeSum(live_allocations, ThisEpoch \ {a})
        BY <3>2, <4>1, CountersFinite, SizeSumRemove
      <4> QED
        BY <3>2, <4>2
    <3>5. SizeSum(live_allocations', ThisEpoch') = SizeSum(live_allocations, ThisEpoch')
          /\ SizeSum(live_allocations, ThisEpoch') \in Nat
      <4>1. \A b \in ThisEpoch' : live_allocations'[b].size = live_allocations[b].size
                                  /\ live_allocations[b].size \in Nat
        BY <1>3, <3>2, CountersFinite DEF ThisEpoch
      <4> QED
        BY <3>3, <4>1, SizeSumAgrees, SizeSumNat
    <3> HIDE DEF size
    <3>6. size <= live_bytes /\ live_bytes < WordMod
      BY <1>8, <1>9, <3>4, <3>5, CountersFinite, TelemetryAssumption
      DEF IInv, TelemetryTypeOK, Word
    <3>7. live_bytes' = live_bytes - size
      BY <1>9, <3>1, <3>6, CountersFinite, ExactArithmetic
    <3>8. free_count' = free_count + 1
      <4>1. free_count + 1 <= alloc_count /\ alloc_count < WordMod
        <5>1. alloc_count < WordMod
          BY CountersFinite, TelemetryAssumption DEF IInv, TelemetryTypeOK, Word
        <5>2. free_count + 1 <= alloc_count
          BY <1>8, <3>3, CountersFinite
        <5> QED
          BY <5>1, <5>2
      <4>2. free_count + 1 < WordMod
        BY <4>1, CountersFinite, TelemetryAssumption
      <4> QED
        BY <3>1, <4>2, CountersFinite, ExactArithmetic
    <3>9. /\ live_bytes' = SizeSum(live_allocations', ThisEpoch') + straddled'.bytes
          /\ live_bytes' <= total_alloc_bytes'
      BY <1>1, <1>8, <1>9, <3>4, <3>5, <3>7, CountersFinite
    <3>10. alloc_count' = free_count' + Cardinality(ThisEpoch') + straddled'.n
      BY <1>1, <1>8, <3>3, <3>8, CountersFinite
    <3> QED
      BY <3>9, <3>10 DEF Accounted
  <2>2. CASE ~Counts(live_allocations[a])
    <3>1. live_bytes' = live_bytes /\ free_count' = free_count
      BY <1>2, <2>2 DEF Erase
    <3>2. ThisEpoch' = ThisEpoch /\ a \notin ThisEpoch
      BY <1>1, <1>2, <1>3, <2>2 DEF ThisEpoch, Counts
    <3>3. \A b \in ThisEpoch : live_allocations'[b].size = live_allocations[b].size
      BY <1>3, <3>2 DEF ThisEpoch
    <3>4. SizeSum(live_allocations', ThisEpoch') = SizeSum(live_allocations, ThisEpoch)
      BY <3>2, <3>3, CountersFinite, SizeSumAgrees
    <3> QED
      BY <1>1, <1>8, <3>1, <3>2, <3>4 DEF Accounted
  <2> QED
    BY <2>1, <2>2
<1> QED
  BY <1>6, <1>7, <1>10 DEF CountInv

\* A reset starts an epoch no record is of.
LEMMA ResetCount ==
  ASSUME NEW maxSize, NoWrap(maxSize), IInv, CountInv(maxSize), IInv', ResetTelemetry
  PROVE  CountInv(maxSize)'
<1>1. /\ live_allocations' = live_allocations /\ requested' = requested /\ pc' = pc
      /\ live_bytes' = 0 /\ total_alloc_bytes' = 0 /\ alloc_count' = 0 /\ free_count' = 0
      /\ straddled' = None
  BY DEF ResetTelemetry, Retained, program
<1>2. current_epoch' = current_epoch + 1 /\ current_epoch \in Nat
  <2>1. current_epoch \in Nat /\ current_epoch + 1 < WordMod
    BY TelemetryAssumption DEF ResetTelemetry, IInv, TelemetryTypeOK
  <2>2. Plus(current_epoch, 1) = current_epoch + 1
    BY <2>1, ExactArithmetic
  <2> QED
    BY <2>1, <2>2 DEF ResetTelemetry
<1>3. EpochsPast'
  <2>1. ASSUME NEW a \in DOMAIN live_allocations'
        PROVE  live_allocations'[a].epoch <= current_epoch'
    BY <1>1, <1>2 DEF CountInv, EpochsPast, IInv, TelemetryTypeOK, AllocationRecord
  <2>2. ASSUME NEW t \in Threads
        PROVE  pc'[t].epoch <= current_epoch'
    BY <1>1, <1>2 DEF CountInv, EpochsPast, IInv, TelemetryTypeOK
  <2> QED
    BY <2>1, <2>2 DEF EpochsPast
<1>4. ThisEpoch' = {}
  <2>1. ASSUME NEW a \in DOMAIN live_allocations
        PROVE  live_allocations[a].epoch # current_epoch'
    BY <1>2 DEF CountInv, EpochsPast, IInv, TelemetryTypeOK, AllocationRecord
  <2> QED
    BY <1>1, <2>1 DEF ThisEpoch
<1>5. Cardinality(ThisEpoch') = 0 /\ SizeSum(live_allocations', ThisEpoch') = 0
  BY <1>4, FS_EmptySet, SizeSumEmpty
<1>6. Accounted'
  BY <1>1, <1>5 DEF Accounted, None
<1>7. Budget(maxSize)'
  <2>1. Allocating' = Allocating
    BY <1>1 DEF Allocating
  <2>2. /\ Cardinality(Allocating) \in Nat /\ Cardinality(Threads) \in Nat
        /\ Cardinality(Allocating) <= Cardinality(Threads)
    BY FS_Subset, FS_CardinalityType DEF NoWrap, Allocating
  <2>3. 0 <= 0 * maxSize /\ 0 + Cardinality(Allocating) <= MaxAllocs + Cardinality(Threads)
    BY <2>2, TelemetryAssumption DEF NoWrap
  <2> QED
    BY <1>1, <2>1, <2>3 DEF CountInv, Budget
<1> QED
  BY <1>3, <1>6, <1>7 DEF CountInv

LEMMA CountStep ==
  ASSUME NEW maxSize, NoWrap(maxSize), IInv, CountInv(maxSize), IInv',
         [TelemetryNext]_telemetryVars
  PROVE  CountInv(maxSize)'
<1>1. ASSUME NEW t \in Threads, NEW a \in Addresses, NEW size \in Sizes, Malloc(t, a, size)
      PROVE  CountInv(maxSize)'
  BY <1>1, MallocCount
<1>2. ASSUME NEW t \in Threads, StampEpoch(t) \/ Record(t) \/ RecordThrows(t) \/ Dealloc(t)
      PROVE  CountInv(maxSize)'
  BY <1>2, StampCount, RecordCount, GiveBackCount
<1>3. ASSUME NEW t \in Threads, NEW a \in Addresses, Erase(t, a)
      PROVE  CountInv(maxSize)'
  BY <1>3, EraseCount
<1>4. CASE ResetTelemetry
  BY <1>4, ResetCount
<1>5. CASE UNCHANGED telemetryVars
  BY <1>5
  DEF telemetryVars, program, counters, CountInv, EpochsPast, Budget, Allocating, Accounted,
              ThisEpoch
<1> QED
  BY <1>1, <1>2, <1>3, <1>4, <1>5 DEF TelemetryNext

\* The counters of an epoch are exactly its live allocations, its frees and what
\* straddled the reset, for any number of threads and addresses, as long as the
\* bytes an epoch may count fit in 64 bits.
THEOREM CountersAccountedCorrect ==
  ASSUME NEW maxSize, NoWrap(maxSize)
  PROVE  TelemetrySpec => []CountersAccounted
<1>1. IInv /\ CountInv(maxSize) => CountersAccounted
  <2>1. MapThenSumSet(SizeOf, ThisEpoch) = SizeSum(live_allocations, ThisEpoch)
    BY DEF SizeSum, SizeOf
  <2> QED
    BY <2>1 DEF CountInv, Accounted, CountersAccounted
<1>2. TelemetryInit => CountInv(maxSize)
  BY CountInitially
<1>3. IInv /\ IInv' /\ CountInv(maxSize) /\ [TelemetryNext]_telemetryVars => CountInv(maxSize)'
  BY CountStep
<1> QED
  BY <1>1, <1>2, <1>3, TelemetryInvariance, PTL DEF TelemetrySpec


=============================================================================
