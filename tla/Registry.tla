-------------------------------- MODULE Registry --------------------------------
(***************************************************************************)
(* The native handle registry of src/src/runtime/registry.rs: the process- *)
(* wide table that turns the u64 handles of the C ABI into the C++ parser  *)
(* and document objects of the simdjson bridge.                            *)
(*                                                                         *)
(* Every exported operation takes the one registry mutex for its whole     *)
(* body, so each is one action here.  The exception is parser creation:    *)
(* the C++ parser is built before the mutex is taken, so it is two steps   *)
(* of a thread, NativeParserNew and RegisterParser.  A call whose guard    *)
(* fails returns an error code and leaves the registry as it was.          *)
(*                                                                         *)
(* The parser and document vectors only grow at the end, are scanned for   *)
(* the first vacant entry and give a pushed entry the start generation.    *)
(* They are functions over all MaxSlots slots here: a slot that was never  *)
(* pushed is a vacant one at the start generation, and the first vacant    *)
(* slot is then the one the scan finds or the one the push creates.        *)
(***************************************************************************)
EXTENDS Naturals, Sequences

CONSTANTS
  Threads,             \* callers that may be inside parser creation
  NativeParsers,       \* addresses the C++ allocator may return for parsers
  NativeDocs,          \* addresses the C++ allocator may return for documents
  NULL,                \* no object
  MaxSlots,            \* MAX_SLOT_COUNT
  GenMod,              \* 2^32: a generation is a u32
  InputLengths,        \* lengths of the inputs callers parse
  CapacityRequests,    \* max_capacity arguments callers pass (0: the default)
  DefaultMaxCapacity,  \* DEFAULT_MAX_CAPACITY
  MinMaxCapacity,      \* MIN_MAX_CAPACITY
  Padding,             \* simdjson's input padding
  MaxUses              \* bound: objects created per slot

ASSUME RegistryAssumption ==
  /\ MaxSlots \in Nat \ {0}
  /\ GenMod \in Nat /\ GenMod % 2 = 0 /\ GenMod >= 4
  /\ InputLengths \subseteq Nat
  /\ CapacityRequests \subseteq Nat
  /\ MinMaxCapacity \in Nat \ {0}
  /\ DefaultMaxCapacity \in Nat /\ DefaultMaxCapacity >= MinMaxCapacity
  /\ Padding \in Nat \ {0}
  /\ MaxUses \in Nat
  /\ NULL \notin NativeParsers \cup NativeDocs
  /\ NativeParsers \cap NativeDocs = {}

VARIABLES
  parsers,         \* Registry.parsers
  docs,            \* Registry.docs
  pending,         \* per thread: a C++ parser built and not yet registered
  nativeParsers,   \* C++ parsers allocated and not deleted
  nativeDocs,      \* C++ documents allocated and not deleted
  orphans,         \* C++ objects whose cleanup failed; the code only logs them
  parserHandles,   \* history: generations handed out per parser slot, in order
  docHandles       \* history: generations handed out per document slot

vars == <<parsers, docs, pending, nativeParsers, nativeDocs, orphans,
          parserHandles, docHandles>>

-----------------------------------------------------------------------------
(* Handles and slots *)

Slots == 1 .. MaxSlots
Generation == 1 .. GenMod - 1
Handle == [slot : Slots, generation : Generation]
Capacity == MinMaxCapacity .. DefaultMaxCapacity

\* The slot half of a packed handle is never 0, so no handle equals Idle.
Idle == [slot |-> 0, generation |-> 0]

ParserGenerationStart == 1
DocGenerationStart == 2

\* u32::wrapping_add
WrappingAdd(a, b) == IF a + b < GenMod THEN a + b ELSE a + b - GenMod

\* Mutated forms: the restart after the wrap is forgotten; the step is 1.
NextGenerationNoRestart(current, restart) == WrappingAdd(current, 2)
NextGenerationByOne(current, restart) ==
  IF WrappingAdd(current, 1) = 0 THEN restart ELSE WrappingAdd(current, 1)

NextGeneration(current, restart) ==
  IF WrappingAdd(current, 2) = 0 THEN restart ELSE WrappingAdd(current, 2)

VacantParser(g) ==
  [occupied |-> FALSE, generation |-> g, native |-> NULL, busy |-> Idle,
   arena |-> 0, maxCapacity |-> 0]

VacantDoc(g) ==
  [occupied |-> FALSE, generation |-> g, native |-> NULL, owner |-> Idle,
   input |-> 0]

FirstVacant(table, s) ==
  /\ ~table[s].occupied
  /\ \A r \in Slots : r < s => table[r].occupied

\* parser_entry and doc_entry: the slot is occupied at the handle's generation.
Resolves(table, h) ==
  /\ table[h.slot].occupied
  /\ table[h.slot].generation = h.generation

Init ==
  /\ parsers = [s \in Slots |-> VacantParser(ParserGenerationStart)]
  /\ docs = [s \in Slots |-> VacantDoc(DocGenerationStart)]
  /\ pending = [t \in Threads |-> [native |-> NULL, maxCapacity |-> 0]]
  /\ nativeParsers = {}
  /\ nativeDocs = {}
  /\ orphans = {}
  /\ parserHandles = [s \in Slots |-> <<>>]
  /\ docHandles = [s \in Slots |-> <<>>]

-----------------------------------------------------------------------------
(* Creating and freeing parsers *)

\* parser_new_configured: 0 asks for the default, other values are range-checked.
ValidRequest(req) == req = 0 \/ req \in Capacity
EffectiveCapacity(req) == IF req = 0 THEN DefaultMaxCapacity ELSE req

NativeParserNew(t, req, np) ==
  /\ pending[t].native = NULL
  /\ ValidRequest(req)
  /\ np \notin nativeParsers
  /\ nativeParsers' = nativeParsers \cup {np}
  /\ pending' = [pending EXCEPT ![t] =
                   [native |-> np, maxCapacity |-> EffectiveCapacity(req)]]
  /\ UNCHANGED <<parsers, docs, nativeDocs, orphans, parserHandles, docHandles>>

ClearPending(t) ==
  pending' = [pending EXCEPT ![t] = [native |-> NULL, maxCapacity |-> 0]]

RegisterParser(t, s) ==
  /\ pending[t].native # NULL
  /\ FirstVacant(parsers, s)
  /\ Len(parserHandles[s]) < MaxUses
  /\ parsers' = [parsers EXCEPT ![s] =
                   [occupied |-> TRUE, generation |-> parsers[s].generation,
                    native |-> pending[t].native, busy |-> Idle, arena |-> 0,
                    maxCapacity |-> pending[t].maxCapacity]]
  /\ parserHandles' = [parserHandles EXCEPT
                         ![s] = Append(@, parsers[s].generation)]
  /\ ClearPending(t)
  /\ UNCHANGED <<docs, nativeParsers, nativeDocs, orphans, docHandles>>

\* Mutated form: the parser that could not be registered is forgotten.
AbandonParserLeaks(np, freed) == UNCHANGED <<nativeParsers, orphans>>
AbandonParser(np, freed) ==
  IF freed
  THEN nativeParsers' = nativeParsers \ {np} /\ UNCHANGED orphans
  ELSE orphans' = orphans \cup {np} /\ UNCHANGED nativeParsers

\* Every slot is taken: the fresh C++ parser is deleted again, or, when that
\* fails too, only logged.
RegisterParserFails(t, freed) ==
  /\ pending[t].native # NULL
  /\ \A s \in Slots : parsers[s].occupied
  /\ AbandonParser(pending[t].native, freed)
  /\ ClearPending(t)
  /\ UNCHANGED <<parsers, docs, nativeDocs, parserHandles, docHandles>>

\* Mutated form: a parser is freed without looking at its state.
MayFreeAlways(p) == TRUE
MayFree(p) == p.busy = Idle

\* The C++ delete may report failure; the entry then stays as it is and the
\* caller may retry, which is the guard's other branch (nothing changes).
ParserFree(h) ==
  /\ Resolves(parsers, h)
  /\ MayFree(parsers[h.slot])
  /\ nativeParsers' = nativeParsers \ {parsers[h.slot].native}
  /\ parsers' = [parsers EXCEPT ![h.slot] =
                   VacantParser(NextGeneration(h.generation,
                                               ParserGenerationStart))]
  /\ UNCHANGED <<docs, pending, nativeDocs, orphans, parserHandles, docHandles>>

-----------------------------------------------------------------------------
(* Parsing *)

\* Mutated form: the capacity of the parser is not consulted.
FitsAlways(p, len) == TRUE
Fits(p, len) == len <= p.maxCapacity

\* The checks parser_parse makes before it takes the reusable input buffer.
MayParse(h, len) ==
  /\ Resolves(parsers, h)
  /\ parsers[h.slot].busy = Idle
  /\ Fits(parsers[h.slot], len)

\* The taken buffer, resized to hold the input and its padding.  Where their sum has no
\* usize the call returns without it; with capacities below 2^32 no 64-bit build gets there.
Filled(len) == len + Padding

\* Mutated form: the buffer taken for the attempt is dropped.
RestoreInputDropped(s, len) == [parsers EXCEPT ![s].arena = 0]
\* restore_parser_input_buffer
RestoreInput(s, len) == [parsers EXCEPT ![s].arena = Filled(len)]

\* native_parser_parse reports an error.
ParseFails(h, len) ==
  /\ MayParse(h, len)
  /\ parsers' = RestoreInput(h.slot, len)
  /\ UNCHANGED <<docs, pending, nativeParsers, nativeDocs, orphans,
                 parserHandles, docHandles>>

\* Mutated form: the document that could not be registered is forgotten.
AbandonDocLeaks(nd, freed) == nativeDocs' = nativeDocs \cup {nd} /\ UNCHANGED orphans
AbandonDoc(nd, freed) ==
  IF freed
  THEN UNCHANGED <<nativeDocs, orphans>>
  ELSE nativeDocs' = nativeDocs \cup {nd} /\ orphans' = orphans \cup {nd}

\* The C++ document nd was built, but its extent could not be read or no slot
\* was left: it is deleted again, or only logged when the delete fails.
ParseAbandoned(h, len, nd, freed) ==
  /\ MayParse(h, len)
  /\ nd \notin nativeDocs
  /\ AbandonDoc(nd, freed)
  /\ parsers' = RestoreInput(h.slot, len)
  /\ UNCHANGED <<docs, pending, nativeParsers, parserHandles, docHandles>>

ParseSucceeds(h, len, nd, s) ==
  /\ MayParse(h, len)
  /\ nd \notin nativeDocs
  /\ FirstVacant(docs, s)
  /\ Len(docHandles[s]) < MaxUses
  /\ nativeDocs' = nativeDocs \cup {nd}
  /\ docs' = [docs EXCEPT ![s] =
                [occupied |-> TRUE, generation |-> docs[s].generation,
                 native |-> nd, owner |-> h, input |-> Filled(len)]]
  /\ parsers' = [parsers EXCEPT ![h.slot] =
                   [@ EXCEPT !.busy = [slot |-> s, generation |-> docs[s].generation],
                             !.arena = 0]]
  /\ docHandles' = [docHandles EXCEPT ![s] = Append(@, docs[s].generation)]
  /\ UNCHANGED <<pending, nativeParsers, orphans, parserHandles>>

-----------------------------------------------------------------------------
(* Freeing documents *)

\* Mutated forms: the slot keeps its generation; the slot is not vacated.
RetiredDocSameGeneration(h) == VacantDoc(h.generation)
RetiredDocStaysOccupied(h) == docs[h.slot]
RetiredDoc(h) == VacantDoc(NextGeneration(h.generation, DocGenerationStart))

\* Mutated form: the parser is not returned to Idle.
ReleaseParserStaysBusy(s, input) == [parsers EXCEPT ![s].arena = input]
ReleaseParser(s, input) ==
  [parsers EXCEPT ![s] = [@ EXCEPT !.busy = Idle, !.arena = input]]

\* As with ParserFree, a failed C++ delete leaves everything as it is.
DocFree(h) ==
  /\ Resolves(docs, h)
  /\ LET owner == docs[h.slot].owner IN
       /\ Resolves(parsers, owner)
       /\ parsers[owner.slot].busy = h
       /\ parsers' = ReleaseParser(owner.slot, docs[h.slot].input)
  /\ nativeDocs' = nativeDocs \ {docs[h.slot].native}
  /\ docs' = [docs EXCEPT ![h.slot] = RetiredDoc(h)]
  /\ UNCHANGED <<pending, nativeParsers, orphans, parserHandles, docHandles>>

-----------------------------------------------------------------------------

CreateParser(t) ==
  \/ \E req \in CapacityRequests, np \in NativeParsers : NativeParserNew(t, req, np)
  \/ \E s \in Slots : RegisterParser(t, s)
  \/ \E freed \in BOOLEAN : RegisterParserFails(t, freed)

Parse(h, len) ==
  \/ ParseFails(h, len)
  \/ \E nd \in NativeDocs, freed \in BOOLEAN : ParseAbandoned(h, len, nd, freed)
  \/ \E nd \in NativeDocs, s \in Slots : ParseSucceeds(h, len, nd, s)

\* A call with a handle of no live object, or a parse or free of a busy parser,
\* returns its error code and touches nothing.
RefusedCall(h) ==
  /\ ~Resolves(parsers, h) \/ parsers[h.slot].busy # Idle
  /\ ~Resolves(docs, h)
  /\ UNCHANGED vars

\* A caller may pass any handle value, stale and wrong-typed ones included.
Next ==
  \/ \E t \in Threads : CreateParser(t)
  \/ \E h \in Handle : ParserFree(h) \/ DocFree(h) \/ RefusedCall(h)
  \/ \E h \in Handle, len \in InputLengths : Parse(h, len)

Spec == Init /\ [][Next]_vars

-----------------------------------------------------------------------------
(* Properties *)

ParserSlot ==
  [occupied : BOOLEAN, generation : Generation, native : NativeParsers \cup {NULL},
   busy : Handle \cup {Idle}, arena : Nat, maxCapacity : Nat]

DocSlot ==
  [occupied : BOOLEAN, generation : Generation, native : NativeDocs \cup {NULL},
   owner : Handle \cup {Idle}, input : Nat]

\* Every variable has its type; a generation is never 0 and never exceeds u32.
TypeOK ==
  /\ parsers \in [Slots -> ParserSlot]
  /\ docs \in [Slots -> DocSlot]
  /\ pending \in [Threads -> [native : NativeParsers \cup {NULL}, maxCapacity : Nat]]
  /\ nativeParsers \subseteq NativeParsers
  /\ nativeDocs \subseteq NativeDocs
  /\ orphans \subseteq NativeParsers \cup NativeDocs
  /\ parserHandles \in [Slots -> Seq(Generation)]
  /\ docHandles \in [Slots -> Seq(Generation)]

BusyParserHasItsDoc ==
  \A s \in Slots : parsers[s].occupied /\ parsers[s].busy # Idle =>
    /\ Resolves(docs, parsers[s].busy)
    /\ docs[parsers[s].busy.slot].owner =
         [slot |-> s, generation |-> parsers[s].generation]

DocHasItsBusyParser ==
  \A s \in Slots : docs[s].occupied =>
    /\ docs[s].owner # Idle
    /\ Resolves(parsers, docs[s].owner)
    /\ parsers[docs[s].owner.slot].busy =
         [slot |-> s, generation |-> docs[s].generation]

\* Busy parsers and live documents name each other, one to one: a parser is
\* busy exactly as long as the document it produced is live, so the owner
\* check of doc_free never turns a caller away from a live document and
\* parser_free can never strand one.
BusyMatchesDoc == BusyParserHasItsDoc /\ DocHasItsBusyParser

\* Every C++ document that is allocated belongs to exactly one registry entry or
\* was given up by a cleanup that failed; no entry points at a deleted one, no
\* two entries share one.  (No leak, no use after free, no double free.)
DocOwnership ==
  /\ nativeDocs = {docs[s].native : s \in {r \in Slots : docs[r].occupied}}
                    \cup (orphans \cap NativeDocs)
  /\ \A s \in Slots : docs[s].occupied =>
       /\ docs[s].native \notin orphans
       /\ \A r \in Slots : docs[r].occupied /\ docs[r].native = docs[s].native => r = s

\* The same for C++ parsers, counting those a thread has built and is about to
\* register.
ParserOwnership ==
  /\ nativeParsers =
       {parsers[s].native : s \in {r \in Slots : parsers[r].occupied}}
         \cup {pending[t].native : t \in {u \in Threads : pending[u].native # NULL}}
         \cup (orphans \cap NativeParsers)
  /\ \A s \in Slots : parsers[s].occupied =>
       /\ parsers[s].native # NULL
       /\ parsers[s].native \notin orphans
       /\ \A r \in Slots :
            parsers[r].occupied /\ parsers[r].native = parsers[s].native => r = s
       /\ \A t \in Threads : pending[t].native # parsers[s].native
  /\ \A t \in Threads : pending[t].native # NULL =>
       /\ pending[t].native \notin orphans
       /\ \A u \in Threads : pending[u].native = pending[t].native => u = t

\* No handle value is ever valid both as a parser and as a document, whatever
\* slots and generations the two tables have gone through: the packed u64 carries
\* no type tag, only the parity of its generation tells them apart.  And none has the
\* generation 0, so that no bare slot number is ever a handle.
HandlesDisjoint ==
  /\ \A s, r \in Slots :
       \A i \in DOMAIN parserHandles[s], j \in DOMAIN docHandles[r] :
         parserHandles[s][i] # docHandles[r][j]
  /\ \A s \in Slots :
       0 \notin {parserHandles[s][i] : i \in DOMAIN parserHandles[s]}
         \cup {docHandles[s][i] : i \in DOMAIN docHandles[s]}

\* The handle of a released object stays dead until its slot has been through
\* every other generation of its parity: two uses of a slot get the same handle
\* only when at least GenMod/2 (parsers) or GenMod/2 - 1 (documents, whose 0 is
\* skipped) uses lie between them.
HandleReuseDistance ==
  \A s \in Slots :
    /\ \A i, j \in DOMAIN parserHandles[s] :
         i < j /\ parserHandles[s][i] = parserHandles[s][j] => j - i >= GenMod \div 2
    /\ \A i, j \in DOMAIN docHandles[s] :
         i < j /\ docHandles[s][i] = docHandles[s][j] => j - i >= GenMod \div 2 - 1

\* A live document is never larger than the capacity its parser was created
\* with.
CapacityRespected ==
  \A s \in Slots : docs[s].occupied =>
    docs[s].input <= Filled(parsers[docs[s].owner.slot].maxCapacity)

\* A parser that could accept an input always finds a document slot: parsers and
\* documents share one limit and every live document keeps one parser busy, so the
\* "no slot" exit of alloc_doc cannot be the reason a parse is refused.
DocSlotsSuffice ==
  (\E s \in Slots : parsers[s].occupied /\ parsers[s].busy = Idle)
    => \E s \in Slots : ~docs[s].occupied

\* The input buffer a parser has grown is never lost while the parser lives: a
\* failed parse gives it back, a successful one moves it into the document, and
\* freeing the document returns it.
ArenaSurvives ==
  [][\A s \in Slots :
       /\ parsers[s].occupied /\ parsers'[s].occupied
       /\ parsers[s].arena # 0 \/ parsers[s].busy # Idle
       => \/ parsers'[s].arena # 0
          \/ parsers'[s].busy # Idle /\ docs'[parsers'[s].busy.slot].input # 0]_vars

-----------------------------------------------------------------------------
(* The registry implements DocumentLifecycle: the k-th object of a slot is     *)
(* the identity <<slot, k>>.                                                   *)

Ids == Slots \X (1 .. MaxUses)

Current(handles, s) == <<s, Len(handles[s])>>

LiveParsers == {Current(parserHandles, s) : s \in {r \in Slots : parsers[r].occupied}}

Held ==
  {<<Current(parserHandles, docs[s].owner.slot), Current(docHandles, s)>> :
     s \in {r \in Slots : docs[r].occupied}}

Spent(handles) == {id \in Ids : id[2] <= Len(handles[id[1]])}

Lifecycle ==
  INSTANCE DocumentLifecycle WITH
    ParserIds <- Ids, DocIds <- Ids,
    liveParsers <- LiveParsers, held <- Held,
    spentParsers <- Spent(parserHandles), spentDocs <- Spent(docHandles)

\* Seen through that mapping every step of the registry is a step of the
\* lifecycle or changes nothing.
ImplementsLifecycle == Lifecycle!Spec

=============================================================================
