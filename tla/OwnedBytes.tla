------------------------------- MODULE OwnedBytes -------------------------------
(***************************************************************************)
(* The buffers that the library hands out: copies of strings and big       *)
(* integers, and arrays of views that match a wildcard path (registry.rs). *)
(* Each is one block of the process's heap.  It is made while one call     *)
(* holds the registry's mutex, entered into one of two tables under a      *)
(* second acquisition, taken out of it under a third one by the call that  *)
(* frees it, and given back to the allocator when that has let go of the   *)
(* mutex.                                                                  *)
(*                                                                         *)
(* Goroutines come through the Go bindings, which copy a buffer and free   *)
(* it at once.  Clients are threads of a C program: they keep buffers for  *)
(* as long as they like, free each other's, and may get the kind or the    *)
(* length wrong.  A pair that was freed and has since been issued again to *)
(* somebody else is out of the question, as the code cannot tell.          *)
(***************************************************************************)
EXTENDS Naturals

CONSTANTS
  Goroutines,
  Clients,
  Address,
  Lengths     \* of non-empty results; an empty one is a null pointer and no buffer

ASSUME OwnedBytesAssumption ==
  /\ Goroutines \cap Clients = {}
  /\ Lengths \subseteq Nat \ {0}

VARIABLES
  heap,       \* heap[a]: the block at address a, or Unused
  tables,     \* tables[kind][a]: registered length, 0 where nothing is registered
  calls,      \* calls[c]: where the native call of c is, and its buffer
  held        \* what has been issued and not yet been taken back

vars == <<heap, tables, calls, held>>

Callers == Goroutines \cup Clients
\* byte_allocations and view_array_allocations
Kinds == {"bytes", "views"}

Unused == [kind |-> "none", len |-> 0]
Idle == [pc |-> "idle", kind |-> "none", ptr |-> CHOOSE a \in Address : TRUE, len |-> 0]

TypeOK ==
  /\ heap \in [Address -> [kind : Kinds, len : Lengths] \cup {Unused}]
  /\ tables \in [Kinds -> [Address -> Lengths \cup {0}]]
  /\ calls \in [Callers -> [pc : {"copied", "issued", "removed"}, kind : Kinds,
                            ptr : Address, len : Lengths] \cup {Idle}]
  /\ held \subseteq [owner : Callers, kind : Kinds, ptr : Address, len : Lengths]

Init ==
  /\ heap = [a \in Address |-> Unused]
  /\ tables = [kind \in Kinds |-> [a \in Address |-> 0]]
  /\ calls = [c \in Callers |-> Idle]
  /\ held = {}

-----------------------------------------------------------------------------
(* Making a buffer *)

\* element_get_bytes_copy, element_at_path_wildcard: the result is copied while the
\* document cannot go away, into a block whose capacity is its length.
Copy(c, kind, ptr, len) ==
  /\ calls[c] = Idle
  /\ heap[ptr] = Unused
  /\ heap' = [heap EXCEPT ![ptr] = [kind |-> kind, len |-> len]]
  /\ calls' = [calls EXCEPT ![c] = [pc |-> "copied", kind |-> kind, ptr |-> ptr, len |-> len]]
  /\ UNCHANGED <<tables, held>>

\* Mutated form: the capacity that a growing vector may have.
RegisteredCapacity(len) == len + 1
RegisteredLength(len) == len

\* The address is entered.  Finding it there already would mean an entry that has outlived
\* its block: the new buffer is dropped and the call fails, leaving the new entry.
Register(c) ==
  LET b == calls[c]
      collides == tables[b.kind][b.ptr] # 0
  IN  /\ b.pc = "copied"
      /\ tables' = [tables EXCEPT ![b.kind][b.ptr] = RegisteredLength(b.len)]
      /\ heap' = IF collides THEN [heap EXCEPT ![b.ptr] = Unused] ELSE heap
      /\ held' = IF collides THEN held
                 ELSE held \cup {[owner |-> c, kind |-> b.kind, ptr |-> b.ptr, len |-> b.len]}
      /\ calls' = [calls EXCEPT ![c] = IF c \in Goroutines /\ ~collides
                                       THEN [b EXCEPT !.pc = "issued"] ELSE Idle]

-----------------------------------------------------------------------------
(* Freeing one *)

\* Mutated forms: the entry of a refused call is not put back, and any length will do.
AfterRefusalLost(registered, len) == 0
MatchesAny(registered, len) == registered # 0
Matches(registered, len) == registered = len
\* What the table has for the address once the call is through with it.
AfterFree(registered, len) == IF Matches(registered, len) THEN 0 ELSE registered

\* bytes_free, value_views_free: only an exact pair is accepted.
Free(c, kind, ptr, len) ==
  LET accepted == Matches(tables[kind][ptr], len)
  IN  /\ tables' = [tables EXCEPT ![kind][ptr] = AfterFree(@, len)]
      /\ held' = IF accepted THEN {b \in held : b.ptr # ptr} ELSE held
      /\ calls' = [calls EXCEPT ![c] =
                     IF accepted THEN [pc |-> "removed", kind |-> kind, ptr |-> ptr, len |-> len]
                     ELSE Idle]
      /\ UNCHANGED heap

\* copyElementBytes, ElementAtPathWildcard: with what the getter has returned.
GoFree(c) ==
  /\ calls[c].pc = "issued"
  /\ Free(c, calls[c].kind, calls[c].ptr, calls[c].len)

ClientFree(c, kind, ptr, len) ==
  /\ calls[c] = Idle
  /\ \E b \in held : b.owner \in Clients /\ b.ptr = ptr
  /\ Free(c, kind, ptr, len)

\* Vec::from_raw_parts and drop, without the mutex.
Drop(c) ==
  /\ calls[c].pc = "removed"
  /\ heap' = [heap EXCEPT ![calls[c].ptr] = Unused]
  /\ calls' = [calls EXCEPT ![c] = Idle]
  /\ UNCHANGED <<tables, held>>

Next ==
  \/ \E c \in Callers, kind \in Kinds, ptr \in Address, len \in Lengths : Copy(c, kind, ptr, len)
  \/ \E c \in Callers : Register(c) \/ Drop(c)
  \/ \E c \in Goroutines : GoFree(c)
  \/ \E c \in Clients, kind \in Kinds, ptr \in Address, len \in Lengths :
       ClientFree(c, kind, ptr, len)

Spec == Init /\ [][Next]_vars

-----------------------------------------------------------------------------
(* Properties *)

\* The call of c has a block that no table has: not yet, or no more.
Carries(c, a) == calls[c].pc \in {"copied", "removed"} /\ calls[c].ptr = a

\* Every block of the heap is answered for exactly once, by the table of its kind with its
\* exact length or by one call on its way to or from that table.  So no block is lost, none
\* is dropped twice, and whoever drops one does so with the layout it was made with.
BlocksAccounted ==
  \A a \in Address :
    /\ \A kind \in Kinds : tables[kind][a] # 0 =>
         heap[a] = [kind |-> kind, len |-> tables[kind][a]]
    /\ \A c \in Callers : Carries(c, a) =>
         /\ heap[a] = [kind |-> calls[c].kind, len |-> calls[c].len]
         /\ \A kind \in Kinds : tables[kind][a] = 0
         /\ \A d \in Callers : Carries(d, a) => d = c
    /\ heap[a] # Unused =>
         (\E kind \in Kinds : tables[kind][a] # 0) \/ (\E c \in Callers : Carries(c, a))

\* What a caller has been given stays its own and alive, whatever the others get wrong: the
\* free that it owes will be accepted, and no other buffer is at the same address.
HeldIsRegistered ==
  /\ \A b \in held : tables[b.kind][b.ptr] = b.len
  /\ \A b, d \in held : b.ptr = d.ptr => b = d
  /\ \A c \in Goroutines : calls[c].pc = "issued" =>
       [owner |-> c, kind |-> calls[c].kind, ptr |-> calls[c].ptr, len |-> calls[c].len] \in held
=============================================================================
