----------------------------- MODULE RegistryProofs -----------------------------
(***************************************************************************)
(* Proofs about Registry, for every number of slots, threads and addresses *)
(* and every even generation modulus.  The first part is its invariant.    *)
(* The second, on handles and on the refinement of DocumentLifecycle, adds *)
(* that handles of parsers and documents never coincide and are reused as  *)
(* late as possible, that an idle parser finds a document slot, and that   *)
(* documents respect their parser's capacity.  The refinement needs that   *)
(* busy parsers and live documents name each other (BusyMatchesDoc) and    *)
(* that a slot's history counts its uses (UsesCounted).                    *)
(***************************************************************************)
EXTENDS Registry, FiniteSetTheorems, TLAPS

(* The generation of a retired slot is a nonzero u32 of the same parity.      *)
LEMMA NextGenerationType ==
  ASSUME NEW g \in Generation, NEW restart \in Generation
  PROVE  NextGeneration(g, restart) \in Generation
  BY RegistryAssumption DEF NextGeneration, WrappingAdd, Generation

LEMMA NextGenerationParity ==
  ASSUME NEW g \in Generation, NEW restart \in Generation,
         g % 2 = restart % 2
  PROVE  NextGeneration(g, restart) % 2 = restart % 2
  BY RegistryAssumption DEF NextGeneration, WrappingAdd, Generation

(* What a packed handle and the constants give the other proofs.              *)
LEMMA Basics ==
  /\ Idle \notin Handle
  /\ ParserGenerationStart \in Generation
  /\ DocGenerationStart \in Generation
  /\ ParserGenerationStart % 2 = 1
  /\ DocGenerationStart % 2 = 0
  BY RegistryAssumption
  DEF Idle, Handle, Slots, Generation, ParserGenerationStart, DocGenerationStart

LEMMA VacantParserType ==
  ASSUME NEW g \in Generation PROVE VacantParser(g) \in ParserSlot
  BY DEF VacantParser, ParserSlot

LEMMA VacantDocType ==
  ASSUME NEW g \in Generation PROVE VacantDoc(g) \in DocSlot
  BY DEF VacantDoc, DocSlot

LEMMA CapacityType ==
  ASSUME NEW req \in CapacityRequests PROVE EffectiveCapacity(req) \in Nat
  BY RegistryAssumption DEF EffectiveCapacity

LEMMA FilledType ==
  ASSUME NEW len \in InputLengths PROVE Filled(len) \in Nat /\ Filled(len) # 0
  BY RegistryAssumption DEF Filled

-----------------------------------------------------------------------------
(* What a step does to the parsers *)

\* Two tables of parsers that differ in what a parser does and not in what it is.
SameParsers(after) ==
  /\ after \in [Slots -> ParserSlot]
  /\ \A r \in Slots : /\ after[r].occupied = parsers[r].occupied
                      /\ after[r].generation = parsers[r].generation
                      /\ after[r].native = parsers[r].native
                      /\ after[r].maxCapacity = parsers[r].maxCapacity

\* One parser's state changes, or its buffer alone.
OneBusy(after, s, busy, arena) ==
  /\ SameParsers(after)
  /\ \A r \in Slots : r # s => after[r] = parsers[r]
  /\ s \in Slots => after[s].busy = busy /\ after[s].arena = arena

WithBusy(s, busy, arena) ==
  [parsers EXCEPT ![s] = [@ EXCEPT !.busy = busy, !.arena = arena]]
WithArena(s, arena) == [parsers EXCEPT ![s].arena = arena]

LEMMA ParserChanged ==
  ASSUME parsers \in [Slots -> ParserSlot], NEW s,
         NEW busy \in Handle \cup {Idle}, NEW arena \in Nat
  PROVE  OneBusy(WithBusy(s, busy, arena), s, busy, arena)
<1> DEFINE after == WithBusy(s, busy, arena)
<1>1. after = [parsers EXCEPT ![s] = [@ EXCEPT !.busy = busy, !.arena = arena]]
  BY DEF WithBusy
<1> HIDE DEF after
<1>2. \A r \in Slots : r # s => after[r] = parsers[r]
  BY <1>1
<1>3. \A r \in Slots : parsers[r] \in ParserSlot
  OBVIOUS
<1>4. ASSUME s \in Slots
      PROVE  /\ after[s] \in ParserSlot
             /\ after[s].occupied = parsers[s].occupied
             /\ after[s].generation = parsers[s].generation
             /\ after[s].native = parsers[s].native
             /\ after[s].maxCapacity = parsers[s].maxCapacity
             /\ after[s].busy = busy /\ after[s].arena = arena
  <2> DEFINE p == parsers[s]
  <2>1. after[s] = [p EXCEPT !.busy = busy, !.arena = arena]
    BY <1>1, <1>4
  <2>2. p \in ParserSlot
    BY <1>3, <1>4
  <2> HIDE DEF p
  <2>3. /\ after[s] \in ParserSlot
        /\ after[s].occupied = p.occupied /\ after[s].generation = p.generation
        /\ after[s].native = p.native /\ after[s].maxCapacity = p.maxCapacity
        /\ after[s].busy = busy /\ after[s].arena = arena
    BY ONLY <2>1, <2>2 DEF ParserSlot
  <2> QED
    BY <2>3 DEF p
<1>5. DOMAIN after = Slots /\ after = [r \in Slots |-> after[r]]
  BY <1>1
<1>6. \A r \in Slots : after[r] \in ParserSlot
  BY <1>2, <1>3, <1>4
<1>7. SameParsers(after)
  BY <1>2, <1>4, <1>5, <1>6 DEF SameParsers
<1> QED
  BY <1>2, <1>4, <1>7 DEF OneBusy, after

LEMMA ArenaChanged ==
  ASSUME parsers \in [Slots -> ParserSlot], NEW s, NEW arena \in Nat
  PROVE  /\ SameParsers(WithArena(s, arena))
         /\ \A r \in Slots : WithArena(s, arena)[r].busy = parsers[r].busy
         /\ \A r \in Slots : r # s => WithArena(s, arena)[r] = parsers[r]
         /\ s \in Slots => WithArena(s, arena)[s].arena = arena
<1> DEFINE after == WithArena(s, arena)
<1>1. after = [parsers EXCEPT ![s].arena = arena]
  BY DEF WithArena
<1> HIDE DEF after
<1>2. \A r \in Slots : r # s => after[r] = parsers[r]
  BY <1>1
<1>3. \A r \in Slots : parsers[r] \in ParserSlot
  OBVIOUS
<1>4. ASSUME s \in Slots
      PROVE  /\ after[s] \in ParserSlot
             /\ after[s].occupied = parsers[s].occupied
             /\ after[s].generation = parsers[s].generation
             /\ after[s].native = parsers[s].native
             /\ after[s].maxCapacity = parsers[s].maxCapacity
             /\ after[s].busy = parsers[s].busy /\ after[s].arena = arena
  <2> DEFINE p == parsers[s]
  <2>1. after[s] = [p EXCEPT !.arena = arena]
    BY <1>1, <1>4
  <2>2. p \in ParserSlot
    BY <1>3, <1>4
  <2> HIDE DEF p
  <2>3. /\ after[s] \in ParserSlot
        /\ after[s].occupied = p.occupied /\ after[s].generation = p.generation
        /\ after[s].native = p.native /\ after[s].maxCapacity = p.maxCapacity
        /\ after[s].busy = p.busy /\ after[s].arena = arena
    BY ONLY <2>1, <2>2 DEF ParserSlot
  <2> QED
    BY <2>3 DEF p
<1>5. DOMAIN after = Slots /\ after = [r \in Slots |-> after[r]]
  BY <1>1
<1>6. \A r \in Slots : after[r] \in ParserSlot /\ after[r].busy = parsers[r].busy
  BY <1>2, <1>3, <1>4
<1>7. SameParsers(after)
  BY <1>2, <1>4, <1>5, <1>6 DEF SameParsers
<1> QED
  BY <1>2, <1>4, <1>6, <1>7 DEF after

\* A document is freed: its parser becomes idle and has its buffer back.
LEMMA ReleasedParsers ==
  ASSUME TypeOK, NEW h \in Handle, DocFree(h)
  PROVE  LET owner == docs[h.slot].owner IN
         /\ SameParsers(parsers')
         /\ \A r \in Slots : r # owner.slot => parsers'[r] = parsers[r]
         /\ parsers[owner.slot].busy = h
         /\ owner.slot \in Slots => /\ parsers'[owner.slot].busy = Idle
                                   /\ parsers'[owner.slot].arena = docs[h.slot].input
<1> DEFINE o == docs[h.slot].owner.slot  input == docs[h.slot].input
<1>1. parsers' = WithBusy(o, Idle, input) /\ parsers[o].busy = h
  BY DEF DocFree, ReleaseParser, WithBusy
<1>2. input \in Nat /\ parsers \in [Slots -> ParserSlot] /\ Idle \in Handle \cup {Idle}
  BY DEF TypeOK, DocSlot, Handle
<1> HIDE DEF o, input
<1>3. OneBusy(WithBusy(o, Idle, input), o, Idle, input)
  BY ONLY <1>2, ParserChanged
<1>4. OneBusy(parsers', o, Idle, input)
  BY ONLY <1>1, <1>3
<1> QED
  BY <1>1, <1>4 DEF OneBusy, o, input

\* A parse fails: the parser has its buffer back, with what was read into it.
LEMMA RestoredParsers ==
  ASSUME TypeOK, NEW s, NEW len \in InputLengths, parsers' = RestoreInput(s, len)
  PROVE  /\ SameParsers(parsers')
         /\ \A r \in Slots : parsers'[r].busy = parsers[r].busy
         /\ \A r \in Slots : r # s => parsers'[r] = parsers[r]
         /\ s \in Slots => parsers'[s].arena = Filled(len)
<1>1. Filled(len) \in Nat /\ parsers \in [Slots -> ParserSlot]
  BY FilledType DEF TypeOK
<1>2. parsers' = WithArena(s, Filled(len))
  BY DEF RestoreInput, WithArena
<1> QED
  BY ONLY <1>1, <1>2, ArenaChanged

\* A parse succeeds: the parser is busy with the document, which has its buffer.
LEMMA LentParsers ==
  ASSUME TypeOK, NEW h \in Handle, NEW len \in InputLengths, NEW nd \in NativeDocs,
         NEW s \in Slots, ParseSucceeds(h, len, nd, s)
  PROVE  /\ SameParsers(parsers')
         /\ \A r \in Slots : r # h.slot => parsers'[r] = parsers[r]
         /\ h.slot \in Slots
         /\ parsers'[h.slot].busy = [slot |-> s, generation |-> docs[s].generation]
         /\ parsers'[h.slot].arena = 0
<1> DEFINE d == [slot |-> s, generation |-> docs[s].generation]
<1>1. parsers' = WithBusy(h.slot, d, 0)
  BY DEF ParseSucceeds, WithBusy
<1>2. d \in Handle \cup {Idle} /\ h.slot \in Slots /\ parsers \in [Slots -> ParserSlot] /\ 0 \in Nat
  BY DEF TypeOK, DocSlot, Handle
<1> HIDE DEF d
<1>3. OneBusy(WithBusy(h.slot, d, 0), h.slot, d, 0)
  BY ONLY <1>2, ParserChanged
<1>4. OneBusy(parsers', h.slot, d, 0)
  BY ONLY <1>1, <1>3
<1> QED
  BY <1>2, <1>4 DEF OneBusy, d

-----------------------------------------------------------------------------

LEMMA TypeInit == Init => TypeOK
  <1> SUFFICES ASSUME Init PROVE TypeOK
    OBVIOUS
  <1>1. parsers \in [Slots -> ParserSlot] /\ docs \in [Slots -> DocSlot]
    BY Basics, VacantParserType, VacantDocType DEF Init
  <1>2. pending \in [Threads -> [native : NativeParsers \cup {NULL}, maxCapacity : Nat]]
    BY DEF Init
  <1>3. parserHandles \in [Slots -> Seq(Generation)] /\ docHandles \in [Slots -> Seq(Generation)]
    BY DEF Init
  <1> QED
    BY <1>1, <1>2, <1>3 DEF Init, TypeOK

LEMMA TypeNext == TypeOK /\ [Next]_vars => TypeOK'
  <1> SUFFICES ASSUME TypeOK, [Next]_vars PROVE TypeOK'
    OBVIOUS
  <1> USE DEF TypeOK
  <1>1. ASSUME NEW t \in Threads, NEW req \in CapacityRequests,
               NEW np \in NativeParsers, NativeParserNew(t, req, np)
        PROVE  TypeOK'
    <2>1. pending' \in [Threads -> [native : NativeParsers \cup {NULL}, maxCapacity : Nat]]
      BY <1>1, CapacityType DEF NativeParserNew
    <2> QED
      BY <1>1, <2>1 DEF NativeParserNew
  <1>2. ASSUME NEW t \in Threads, NEW s \in Slots, RegisterParser(t, s)
        PROVE  TypeOK'
    <2>1. parsers[s].generation \in Generation /\ pending[t].native \in NativeParsers
          /\ pending[t].maxCapacity \in Nat
      BY <1>2 DEF RegisterParser, ParserSlot
    <2>2. parsers' \in [Slots -> ParserSlot]
      BY <1>2, <2>1 DEF RegisterParser, ParserSlot
    <2>3. pending' \in [Threads -> [native : NativeParsers \cup {NULL}, maxCapacity : Nat]]
      BY <1>2 DEF RegisterParser, ClearPending
    <2>4. parserHandles' \in [Slots -> Seq(Generation)]
      BY <1>2, <2>1 DEF RegisterParser
    <2> QED
      BY <1>2, <2>2, <2>3, <2>4 DEF RegisterParser
  <1>3. ASSUME NEW t \in Threads, NEW freed \in BOOLEAN, RegisterParserFails(t, freed)
        PROVE  TypeOK'
    <2>1. pending[t].native \in NativeParsers
      BY <1>3 DEF RegisterParserFails, AbandonParser
    <2>2. pending' \in [Threads -> [native : NativeParsers \cup {NULL}, maxCapacity : Nat]]
      BY <1>3 DEF RegisterParserFails, AbandonParser, ClearPending
    <2>3. nativeParsers' \subseteq NativeParsers /\ orphans' \subseteq NativeParsers \cup NativeDocs
      BY <1>3, <2>1 DEF RegisterParserFails, AbandonParser
    <2> QED
      BY <1>3, <2>2, <2>3 DEF RegisterParserFails, AbandonParser
  <1>4. ASSUME NEW h \in Handle, ParserFree(h)
        PROVE  TypeOK'
    <2>1. NextGeneration(h.generation, ParserGenerationStart) \in Generation
      BY Basics, NextGenerationType DEF Handle
    <2>2. parsers' \in [Slots -> ParserSlot]
      BY <1>4, <2>1, VacantParserType DEF ParserFree
    <2> QED
      BY <1>4, <2>2 DEF ParserFree
  <1>5. ASSUME NEW h \in Handle, DocFree(h)
        PROVE  TypeOK'
    <2> DEFINE owner == docs[h.slot].owner
    <2>1. NextGeneration(h.generation, DocGenerationStart) \in Generation
      BY Basics, NextGenerationType DEF Handle
    <2>2. docs' \in [Slots -> DocSlot]
      BY <1>5, <2>1, VacantDocType DEF DocFree, RetiredDoc
    <2>3. docs[h.slot].input \in Nat
      BY DEF DocSlot, Handle
    <2>4. parsers' \in [Slots -> ParserSlot]
      BY <1>5, ReleasedParsers DEF SameParsers
    <2> QED
      BY <1>5, <2>2, <2>4 DEF DocFree
  <1>6. ASSUME NEW h \in Handle, NEW len \in InputLengths, ParseFails(h, len)
        PROVE  TypeOK'
    <2>1. parsers' \in [Slots -> ParserSlot]
      BY <1>6, RestoredParsers DEF ParseFails, SameParsers
    <2> QED
      BY <1>6, <2>1 DEF ParseFails
  <1>7. ASSUME NEW h \in Handle, NEW len \in InputLengths, NEW nd \in NativeDocs,
               NEW freed \in BOOLEAN, ParseAbandoned(h, len, nd, freed)
        PROVE  TypeOK'
    <2>1. parsers' \in [Slots -> ParserSlot]
      BY <1>7, RestoredParsers DEF ParseAbandoned, SameParsers
    <2>2. nativeDocs' \subseteq NativeDocs /\ orphans' \subseteq NativeParsers \cup NativeDocs
      BY <1>7 DEF ParseAbandoned, AbandonDoc
    <2> QED
      BY <1>7, <2>1, <2>2 DEF ParseAbandoned
  <1>8. ASSUME NEW h \in Handle, NEW len \in InputLengths, NEW nd \in NativeDocs,
               NEW s \in Slots, ParseSucceeds(h, len, nd, s)
        PROVE  TypeOK'
    <2>1. docs[s].generation \in Generation
      BY DEF DocSlot
    <2>2. [slot |-> s, generation |-> docs[s].generation] \in Handle
      BY <2>1 DEF Handle
    <2>3. docs' \in [Slots -> DocSlot]
      BY <1>8, <2>1, FilledType DEF ParseSucceeds, DocSlot
    <2>4. parsers' \in [Slots -> ParserSlot]
      BY <1>8, LentParsers DEF SameParsers
    <2>5. docHandles' \in [Slots -> Seq(Generation)]
      BY <1>8, <2>1 DEF ParseSucceeds
    <2> QED
      BY <1>8, <2>3, <2>4, <2>5 DEF ParseSucceeds
  <1>9. CASE UNCHANGED vars
    BY <1>9 DEF vars
  <1> QED
    BY <1>1, <1>2, <1>3, <1>4, <1>5, <1>6, <1>7, <1>8, <1>9
    DEF Next, CreateParser, Parse, RefusedCall

(* Every reachable state is well typed: in particular no u32 generation is    *)
(* ever 0 or overflows, whatever the sequence of calls.                       *)
THEOREM TypeCorrect == Spec => []TypeOK
  BY TypeInit, TypeNext, PTL DEF Spec

-----------------------------------------------------------------------------
(* Busy parsers and live documents name each other.                          *)

(* The two ends of the correspondence, seen from a document and from a parser. *)
LEMMA OwnerOfDoc ==
  ASSUME TypeOK, BusyMatchesDoc, NEW s \in Slots, docs[s].occupied
  PROVE  /\ docs[s].owner \in Handle
         /\ docs[s].owner.slot \in Slots
         /\ Resolves(parsers, docs[s].owner)
         /\ parsers[docs[s].owner.slot].busy # Idle
         /\ parsers[docs[s].owner.slot].busy.slot = s
  <1>1. docs[s].owner \in Handle /\ Resolves(parsers, docs[s].owner)
        /\ parsers[docs[s].owner.slot].busy = [slot |-> s, generation |-> docs[s].generation]
    BY DEF TypeOK, DocSlot, BusyMatchesDoc, DocHasItsBusyParser
  <1>2. parsers[docs[s].owner.slot].busy.slot = s
    BY <1>1
  <1>3. s # 0 /\ Idle.slot = 0
    BY DEF Slots, Idle
  <1> QED
    BY <1>1, <1>2, <1>3 DEF Handle

LEMMA DocOfParser ==
  ASSUME TypeOK, BusyMatchesDoc, NEW s \in Slots, parsers[s].occupied, parsers[s].busy # Idle
  PROVE  /\ parsers[s].busy \in Handle
         /\ parsers[s].busy.slot \in Slots
         /\ Resolves(docs, parsers[s].busy)
         /\ docs[parsers[s].busy.slot].owner.slot = s
  <1>1. parsers[s].busy \in Handle /\ Resolves(docs, parsers[s].busy)
        /\ docs[parsers[s].busy.slot].owner = [slot |-> s, generation |-> parsers[s].generation]
    BY DEF TypeOK, ParserSlot, BusyMatchesDoc, BusyParserHasItsDoc
  <1>2. docs[parsers[s].busy.slot].owner.slot = s
    BY <1>1
  <1> QED
    BY <1>1, <1>2 DEF Handle

LEMMA BusyInit == Init => BusyMatchesDoc
  BY DEF Init, BusyMatchesDoc, BusyParserHasItsDoc, DocHasItsBusyParser,
         VacantParser, VacantDoc

(* Changing nothing of a parser but its arena, or nothing at all, keeps the    *)
(* correspondence.                                                           *)
LEMMA BusyFrame ==
  ASSUME TypeOK, TypeOK', BusyMatchesDoc, docs' = docs,
         \A s \in Slots : /\ parsers'[s].occupied = parsers[s].occupied
                         /\ parsers'[s].generation = parsers[s].generation
                         /\ parsers'[s].busy = parsers[s].busy
  PROVE  BusyMatchesDoc'
  <1> USE DEF BusyMatchesDoc, BusyParserHasItsDoc, DocHasItsBusyParser, Resolves
  <1>1. BusyParserHasItsDoc'
    OBVIOUS
  <1>2. DocHasItsBusyParser'
    <2> SUFFICES ASSUME NEW s \in Slots, docs[s].occupied
                 PROVE  /\ docs[s].owner # Idle
                        /\ Resolves(parsers, docs[s].owner)'
                        /\ parsers'[docs[s].owner.slot].busy =
                             [slot |-> s, generation |-> docs[s].generation]
      OBVIOUS
    <2>1. docs[s].owner \in Handle
      BY DEF TypeOK, DocSlot
    <2> QED
      BY <2>1 DEF Handle
  <1> QED
    BY <1>1, <1>2

LEMMA BusyNext == TypeOK /\ TypeOK' /\ BusyMatchesDoc /\ [Next]_vars => BusyMatchesDoc'
  <1> SUFFICES ASSUME TypeOK, TypeOK', BusyMatchesDoc, [Next]_vars
               PROVE  BusyMatchesDoc'
    OBVIOUS
  <1>1. ASSUME NEW t \in Threads, NEW req \in CapacityRequests,
               NEW np \in NativeParsers, NativeParserNew(t, req, np)
        PROVE  BusyMatchesDoc'
    BY <1>1, BusyFrame DEF NativeParserNew
  <1>2. ASSUME NEW t \in Threads, NEW s \in Slots, RegisterParser(t, s)
        PROVE  BusyMatchesDoc'
    <2>1. ~parsers[s].occupied /\ parsers'[s].busy = Idle /\ docs' = docs
          /\ \A r \in Slots : r # s => parsers'[r] = parsers[r]
      BY <1>2 DEF RegisterParser, FirstVacant, TypeOK
    <2>2. \A r \in Slots : docs[r].occupied => docs[r].owner \in Handle /\ docs[r].owner.slot # s
      BY <2>1 DEF TypeOK, DocSlot, BusyMatchesDoc, DocHasItsBusyParser, Resolves
    <2>3. BusyParserHasItsDoc'
      BY <2>1 DEF BusyMatchesDoc, BusyParserHasItsDoc, Resolves
    <2>4. DocHasItsBusyParser'
      BY <2>1, <2>2 DEF BusyMatchesDoc, DocHasItsBusyParser, Resolves, Handle
    <2> QED
      BY <2>3, <2>4 DEF BusyMatchesDoc
  <1>3. ASSUME NEW t \in Threads, NEW freed \in BOOLEAN, RegisterParserFails(t, freed)
        PROVE  BusyMatchesDoc'
    BY <1>3, BusyFrame DEF RegisterParserFails, AbandonParser
  <1>4. ASSUME NEW h \in Handle, ParserFree(h)
        PROVE  BusyMatchesDoc'
    <2>1. h.slot \in Slots /\ parsers[h.slot].busy = Idle /\ ~parsers'[h.slot].occupied
          /\ docs' = docs /\ \A r \in Slots : r # h.slot => parsers'[r] = parsers[r]
      BY <1>4 DEF ParserFree, MayFree, TypeOK, VacantParser, Handle
    <2>2. \A r \in Slots : docs[r].occupied => docs[r].owner \in Handle /\ docs[r].owner.slot # h.slot
      BY <2>1, OwnerOfDoc
    <2>3. BusyParserHasItsDoc'
      BY <2>1 DEF BusyMatchesDoc, BusyParserHasItsDoc, Resolves
    <2>4. DocHasItsBusyParser'
      BY <2>1, <2>2 DEF BusyMatchesDoc, DocHasItsBusyParser, Resolves, Handle
    <2> QED
      BY <2>3, <2>4 DEF BusyMatchesDoc
  <1>5. ASSUME NEW h \in Handle, DocFree(h)
        PROVE  BusyMatchesDoc'
    <2> DEFINE owner == docs[h.slot].owner
    <2>1. h.slot \in Slots /\ docs[h.slot].occupied /\ docs[h.slot].generation = h.generation
          /\ owner \in Handle /\ owner.slot \in Slots
      BY <1>5 DEF DocFree, Resolves, Handle, TypeOK, DocSlot, BusyMatchesDoc, DocHasItsBusyParser
    <2>2. parsers[owner.slot].busy = h /\ parsers'[owner.slot].busy = Idle
      BY <1>5, <2>1, ReleasedParsers
    <2>3. ~docs'[h.slot].occupied /\ \A r \in Slots : r # h.slot => docs'[r] = docs[r]
      BY <1>5, <2>1 DEF DocFree, RetiredDoc, VacantDoc, TypeOK
    <2>4. \A r \in Slots : r # owner.slot => parsers'[r] = parsers[r]
      BY <1>5, ReleasedParsers
    <2>5. BusyParserHasItsDoc'
      <3> SUFFICES ASSUME NEW s \in Slots, parsers'[s].occupied, parsers'[s].busy # Idle
                   PROVE  /\ Resolves(docs, parsers[s].busy)'
                          /\ docs'[parsers'[s].busy.slot].owner =
                               [slot |-> s, generation |-> parsers'[s].generation]
        BY DEF BusyParserHasItsDoc
      <3>1. s # owner.slot /\ parsers'[s] = parsers[s]
        BY <2>2, <2>4
      <3>2. parsers[s].busy \in Handle
        BY <3>1 DEF TypeOK, ParserSlot
      <3>3. docs[parsers[s].busy.slot].owner.slot = s
        BY <3>1, DocOfParser
      <3>4. parsers[s].busy.slot # h.slot /\ parsers[s].busy.slot \in Slots
        BY <3>1, <3>2, <3>3 DEF Handle
      <3> QED
        BY <2>3, <3>1, <3>4 DEF BusyMatchesDoc, BusyParserHasItsDoc, Resolves
    <2>6. DocHasItsBusyParser'
      <3> SUFFICES ASSUME NEW s \in Slots, docs'[s].occupied
                   PROVE  /\ docs'[s].owner # Idle
                          /\ Resolves(parsers, docs[s].owner)'
                          /\ parsers'[docs'[s].owner.slot].busy =
                               [slot |-> s, generation |-> docs'[s].generation]
        BY DEF DocHasItsBusyParser
      <3>1. s # h.slot /\ docs'[s] = docs[s]
        BY <2>3
      <3>2. docs[s].owner \in Handle /\ parsers[docs[s].owner.slot].busy.slot = s
        BY <3>1, OwnerOfDoc
      <3>3. docs[s].owner.slot # owner.slot /\ docs[s].owner.slot \in Slots
        BY <2>2, <3>1, <3>2 DEF Handle
      <3> QED
        BY <2>4, <3>1, <3>3 DEF BusyMatchesDoc, DocHasItsBusyParser, Resolves
    <2> QED
      BY <2>5, <2>6 DEF BusyMatchesDoc
  <1>6. ASSUME NEW h \in Handle, NEW len \in InputLengths, ParseFails(h, len)
        PROVE  BusyMatchesDoc'
    <2>1. \A s \in Slots : /\ parsers'[s].occupied = parsers[s].occupied
                          /\ parsers'[s].generation = parsers[s].generation
                          /\ parsers'[s].busy = parsers[s].busy
      BY <1>6, RestoredParsers DEF ParseFails, SameParsers
    <2> QED
      BY <1>6, <2>1, BusyFrame DEF ParseFails
  <1>7. ASSUME NEW h \in Handle, NEW len \in InputLengths, NEW nd \in NativeDocs,
               NEW freed \in BOOLEAN, ParseAbandoned(h, len, nd, freed)
        PROVE  BusyMatchesDoc'
    <2>1. \A s \in Slots : /\ parsers'[s].occupied = parsers[s].occupied
                          /\ parsers'[s].generation = parsers[s].generation
                          /\ parsers'[s].busy = parsers[s].busy
      BY <1>7, RestoredParsers DEF ParseAbandoned, SameParsers
    <2> QED
      BY <1>7, <2>1, BusyFrame DEF ParseAbandoned
  <1>8. ASSUME NEW h \in Handle, NEW len \in InputLengths, NEW nd \in NativeDocs,
               NEW s \in Slots, ParseSucceeds(h, len, nd, s)
        PROVE  BusyMatchesDoc'
    <2> DEFINE d == [slot |-> s, generation |-> docs[s].generation]
    <2>1. /\ h.slot \in Slots /\ parsers[h.slot].occupied
          /\ parsers[h.slot].generation = h.generation /\ parsers[h.slot].busy = Idle
          /\ ~docs[s].occupied
      BY <1>8 DEF ParseSucceeds, MayParse, Resolves, FirstVacant, Handle
    <2>2. /\ parsers'[h.slot].occupied /\ parsers'[h.slot].generation = h.generation
          /\ parsers'[h.slot].busy = d
          /\ \A r \in Slots : r # h.slot => parsers'[r] = parsers[r]
      BY <1>8, <2>1 DEF ParseSucceeds, TypeOK, ParserSlot
    <2>3. /\ docs'[s].occupied /\ docs'[s].generation = docs[s].generation
          /\ docs'[s].owner = h
          /\ \A r \in Slots : r # s => docs'[r] = docs[r]
      BY <1>8 DEF ParseSucceeds, TypeOK
    <2>4. BusyParserHasItsDoc'
      <3> SUFFICES ASSUME NEW r \in Slots, parsers'[r].occupied, parsers'[r].busy # Idle
                   PROVE  /\ Resolves(docs, parsers[r].busy)'
                          /\ docs'[parsers'[r].busy.slot].owner =
                               [slot |-> r, generation |-> parsers'[r].generation]
        BY DEF BusyParserHasItsDoc
      <3>1. CASE r = h.slot
        BY <2>2, <2>3, <3>1 DEF Resolves, Handle
      <3>2. CASE r # h.slot
        <4>1. parsers[r].busy \in Handle /\ Resolves(docs, parsers[r].busy)
          BY <2>2, <3>2 DEF TypeOK, ParserSlot, BusyMatchesDoc, BusyParserHasItsDoc
        <4>2. parsers[r].busy.slot \in Slots /\ parsers[r].busy.slot # s
          BY <2>1, <4>1 DEF Handle, Resolves
        <4> QED
          BY <2>2, <2>3, <3>2, <4>2 DEF BusyMatchesDoc, BusyParserHasItsDoc, Resolves
      <3> QED
        BY <3>1, <3>2
    <2>5. DocHasItsBusyParser'
      <3> SUFFICES ASSUME NEW r \in Slots, docs'[r].occupied
                   PROVE  /\ docs'[r].owner # Idle
                          /\ Resolves(parsers, docs[r].owner)'
                          /\ parsers'[docs'[r].owner.slot].busy =
                               [slot |-> r, generation |-> docs'[r].generation]
        BY DEF DocHasItsBusyParser
      <3>1. CASE r = s
        BY <2>1, <2>2, <2>3, <3>1, Basics DEF Resolves
      <3>2. CASE r # s
        <4>1. docs'[r] = docs[r] /\ docs[r].owner \in Handle
          BY <2>3, <3>2 DEF TypeOK, DocSlot, BusyMatchesDoc, DocHasItsBusyParser
        <4>2. docs[r].owner.slot \in Slots /\ docs[r].owner.slot # h.slot
          BY <2>1, <2>3, <3>2, <4>1, OwnerOfDoc
        <4> QED
          BY <2>2, <4>1, <4>2 DEF BusyMatchesDoc, DocHasItsBusyParser, Resolves
      <3> QED
        BY <3>1, <3>2
    <2> QED
      BY <2>4, <2>5 DEF BusyMatchesDoc
  <1>9. CASE UNCHANGED vars
    BY <1>9, BusyFrame DEF vars
  <1> QED
    BY <1>1, <1>2, <1>3, <1>4, <1>5, <1>6, <1>7, <1>8, <1>9
    DEF Next, CreateParser, Parse, RefusedCall

(* A parser is busy exactly while the document it produced is live.           *)
THEOREM BusyMatchesDocCorrect == Spec => []BusyMatchesDoc
  BY TypeCorrect, BusyInit, BusyNext, PTL DEF Spec

-----------------------------------------------------------------------------
(* The C++ documents                                                         *)

LEMMA DocOwnershipInit == Init => DocOwnership
  BY DEF Init, DocOwnership, VacantDoc

(* Steps that leave the documents, and the document addresses among the       *)
(* orphans, alone.                                                           *)
LEMMA DocOwnershipFrame ==
  ASSUME TypeOK, DocOwnership, docs' = docs, nativeDocs' = nativeDocs,
         orphans' \cap NativeDocs = orphans \cap NativeDocs
  PROVE  DocOwnership'
  <1>1. \A s \in Slots : docs[s].occupied => docs[s].native \in NativeDocs
    BY DEF DocOwnership, TypeOK
  <1> QED
    BY <1>1 DEF DocOwnership

LEMMA DocOwnershipNext ==
  TypeOK /\ TypeOK' /\ DocOwnership /\ [Next]_vars => DocOwnership'
  <1> SUFFICES ASSUME TypeOK, TypeOK', DocOwnership, [Next]_vars
               PROVE  DocOwnership'
    OBVIOUS
  <1>1. ASSUME NEW t \in Threads, NEW req \in CapacityRequests,
               NEW np \in NativeParsers, NativeParserNew(t, req, np)
        PROVE  DocOwnership'
    BY <1>1, DocOwnershipFrame DEF NativeParserNew
  <1>2. ASSUME NEW t \in Threads, NEW s \in Slots, RegisterParser(t, s)
        PROVE  DocOwnership'
    BY <1>2, DocOwnershipFrame DEF RegisterParser
  <1>3. ASSUME NEW t \in Threads, NEW freed \in BOOLEAN, RegisterParserFails(t, freed)
        PROVE  DocOwnership'
    <2>1. pending[t].native \in NativeParsers
      BY <1>3 DEF RegisterParserFails, AbandonParser, TypeOK
    <2>2. orphans' \cap NativeDocs = orphans \cap NativeDocs
      BY <1>3, <2>1, RegistryAssumption DEF RegisterParserFails, AbandonParser
    <2> QED
      BY <1>3, <2>2, DocOwnershipFrame DEF RegisterParserFails, AbandonParser
  <1>4. ASSUME NEW h \in Handle, ParserFree(h)
        PROVE  DocOwnership'
    BY <1>4, DocOwnershipFrame DEF ParserFree
  <1>5. ASSUME NEW h \in Handle, DocFree(h)
        PROVE  DocOwnership'
    <2>1. h.slot \in Slots /\ docs[h.slot].occupied /\ ~docs'[h.slot].occupied
          /\ (\A r \in Slots : r # h.slot => docs'[r] = docs[r])
          /\ nativeDocs' = nativeDocs \ {docs[h.slot].native} /\ orphans' = orphans
      BY <1>5 DEF DocFree, Resolves, RetiredDoc, VacantDoc, TypeOK, Handle
    <2>2. \A r \in Slots : docs'[r].occupied =>
             docs[r].occupied /\ r # h.slot /\ docs'[r].native = docs[r].native
                              /\ docs[r].native # docs[h.slot].native
      BY <2>1 DEF DocOwnership
    <2>3. nativeDocs' = {docs'[s].native : s \in {r \in Slots : docs'[r].occupied}}
                          \cup (orphans' \cap NativeDocs)
      BY <2>1, <2>2 DEF DocOwnership
    <2> QED
      BY <2>1, <2>2, <2>3 DEF DocOwnership
  <1>6. ASSUME NEW h \in Handle, NEW len \in InputLengths, ParseFails(h, len)
        PROVE  DocOwnership'
    BY <1>6, DocOwnershipFrame DEF ParseFails
  <1>7. ASSUME NEW h \in Handle, NEW len \in InputLengths, NEW nd \in NativeDocs,
               NEW freed \in BOOLEAN, ParseAbandoned(h, len, nd, freed)
        PROVE  DocOwnership'
    <2>1. CASE freed
      BY <1>7, <2>1, DocOwnershipFrame DEF ParseAbandoned, AbandonDoc
    <2>2. CASE ~freed
      <3>1. docs' = docs /\ nd \notin nativeDocs /\ nativeDocs' = nativeDocs \cup {nd}
            /\ orphans' = orphans \cup {nd}
        BY <1>7, <2>2 DEF ParseAbandoned, AbandonDoc
      <3>2. \A s \in Slots : docs[s].occupied => docs[s].native # nd
        BY <3>1 DEF DocOwnership
      <3> QED
        BY <3>1, <3>2 DEF DocOwnership
    <2> QED
      BY <2>1, <2>2
  <1>8. ASSUME NEW h \in Handle, NEW len \in InputLengths, NEW nd \in NativeDocs,
               NEW s \in Slots, ParseSucceeds(h, len, nd, s)
        PROVE  DocOwnership'
    <2>1. /\ nd \notin nativeDocs /\ nativeDocs' = nativeDocs \cup {nd} /\ orphans' = orphans
          /\ ~docs[s].occupied /\ docs'[s].occupied /\ docs'[s].native = nd
          /\ \A r \in Slots : r # s => docs'[r] = docs[r]
      BY <1>8 DEF ParseSucceeds, FirstVacant, TypeOK
    <2>2. \A r \in Slots : docs[r].occupied => r # s /\ docs[r].native # nd
      BY <2>1 DEF DocOwnership
    <2>3. nd \notin orphans
      BY <2>1 DEF DocOwnership
    <2>4. nativeDocs' = {docs'[q].native : q \in {r \in Slots : docs'[r].occupied}}
                          \cup (orphans' \cap NativeDocs)
      BY <2>1, <2>2 DEF DocOwnership
    <2> QED
      BY <2>1, <2>2, <2>3, <2>4 DEF DocOwnership
  <1>9. CASE UNCHANGED vars
    BY <1>9, DocOwnershipFrame DEF vars
  <1> QED
    BY <1>1, <1>2, <1>3, <1>4, <1>5, <1>6, <1>7, <1>8, <1>9
    DEF Next, CreateParser, Parse, RefusedCall

(* Every allocated C++ document has exactly one owner, and no entry points at *)
(* a deleted one.                                                            *)
THEOREM DocOwnershipCorrect == Spec => []DocOwnership
  BY TypeCorrect, DocOwnershipInit, DocOwnershipNext, PTL DEF Spec

-----------------------------------------------------------------------------
(* The C++ parsers                                                           *)

RegisteredNatives == {parsers[s].native : s \in {r \in Slots : parsers[r].occupied}}
PendingNatives == {pending[t].native : t \in {u \in Threads : pending[u].native # NULL}}

LEMMA ParserOwnershipInit == Init => ParserOwnership
  BY DEF Init, ParserOwnership, VacantParser

LEMMA ParserOwnershipFrame ==
  ASSUME TypeOK, ParserOwnership, pending' = pending, nativeParsers' = nativeParsers,
         orphans' \cap NativeParsers = orphans \cap NativeParsers,
         \A s \in Slots : /\ parsers'[s].occupied = parsers[s].occupied
                         /\ parsers'[s].native = parsers[s].native
  PROVE  ParserOwnership'
  <1>1. \A s \in Slots : parsers[s].occupied => parsers[s].native \in NativeParsers
    BY DEF ParserOwnership, TypeOK
  <1>2. \A t \in Threads : pending[t].native # NULL => pending[t].native \in NativeParsers
    BY DEF TypeOK
  <1>3. RegisteredNatives' = RegisteredNatives /\ PendingNatives' = PendingNatives
    BY DEF RegisteredNatives, PendingNatives
  <1> QED
    BY <1>1, <1>2, <1>3 DEF ParserOwnership, RegisteredNatives, PendingNatives

LEMMA ParserOwnershipNext ==
  TypeOK /\ TypeOK' /\ ParserOwnership /\ [Next]_vars => ParserOwnership'
  <1> SUFFICES ASSUME TypeOK, TypeOK', ParserOwnership, [Next]_vars
               PROVE  ParserOwnership'
    OBVIOUS
  <1>1. ASSUME NEW t \in Threads, NEW req \in CapacityRequests,
               NEW np \in NativeParsers, NativeParserNew(t, req, np)
        PROVE  ParserOwnership'
    <2>1. /\ np \notin nativeParsers /\ nativeParsers' = nativeParsers \cup {np}
          /\ parsers' = parsers /\ orphans' = orphans
          /\ pending[t].native = NULL /\ pending'[t].native = np /\ np # NULL
          /\ \A u \in Threads : u # t => pending'[u] = pending[u]
      BY <1>1, RegistryAssumption DEF NativeParserNew, TypeOK
    <2>2. np \notin RegisteredNatives /\ np \notin PendingNatives /\ np \notin orphans
      BY <2>1 DEF ParserOwnership, RegisteredNatives, PendingNatives
    <2>3. PendingNatives' = PendingNatives \cup {np} /\ RegisteredNatives' = RegisteredNatives
      BY <2>1 DEF PendingNatives, RegisteredNatives
    <2>4. nativeParsers' = RegisteredNatives' \cup PendingNatives' \cup (orphans' \cap NativeParsers)
      BY <2>1, <2>3 DEF ParserOwnership, RegisteredNatives, PendingNatives
    <2> QED
      BY <2>1, <2>2, <2>4 DEF ParserOwnership, RegisteredNatives, PendingNatives
  <1>2. ASSUME NEW t \in Threads, NEW s \in Slots, RegisterParser(t, s)
        PROVE  ParserOwnership'
    <2> DEFINE np == pending[t].native
    <2>1. /\ np # NULL /\ ~parsers[s].occupied /\ parsers'[s].occupied
          /\ parsers'[s].native = np /\ pending'[t].native = NULL
          /\ nativeParsers' = nativeParsers /\ orphans' = orphans
          /\ \A r \in Slots : r # s => parsers'[r] = parsers[r]
          /\ \A u \in Threads : u # t => pending'[u] = pending[u]
      BY <1>2 DEF RegisterParser, ClearPending, FirstVacant, TypeOK
    <2>2. RegisteredNatives' = RegisteredNatives \cup {np}
      BY <2>1 DEF RegisteredNatives
    <2>3. PendingNatives' = PendingNatives \ {np} /\ np \in PendingNatives
      BY <2>1 DEF PendingNatives, ParserOwnership
    <2>4. nativeParsers' = RegisteredNatives' \cup PendingNatives' \cup (orphans' \cap NativeParsers)
      BY <2>1, <2>2, <2>3 DEF ParserOwnership, RegisteredNatives, PendingNatives
    <2>5. \A u \in Threads : pending'[u].native # NULL =>
             pending'[u] = pending[u] /\ pending[u].native # np
      BY <2>1 DEF ParserOwnership
    <2>6. \A r \in Slots : parsers'[r].occupied /\ r # s =>
             parsers'[r] = parsers[r] /\ parsers[r].native # np
      BY <2>1 DEF ParserOwnership
    <2>7. np \notin orphans
      BY <2>1 DEF ParserOwnership
    <2>8. \A r \in Slots : parsers'[r].occupied =>
             /\ parsers'[r].native \notin orphans'
             /\ \A q \in Slots :
                  parsers'[q].occupied /\ parsers'[q].native = parsers'[r].native => q = r
      BY <2>1, <2>6, <2>7 DEF ParserOwnership
    <2>9. \A r \in Slots : parsers'[r].occupied =>
             parsers'[r].native # NULL
             /\ \A u \in Threads : pending'[u].native # parsers'[r].native
      BY <2>1, <2>5, <2>6 DEF ParserOwnership
    <2>10. \A u \in Threads : pending'[u].native # NULL =>
             /\ pending'[u].native \notin orphans'
             /\ \A v \in Threads : pending'[v].native = pending'[u].native => v = u
      BY <2>1, <2>5 DEF ParserOwnership
    <2> QED
      BY <2>4, <2>8, <2>9, <2>10 DEF ParserOwnership, RegisteredNatives, PendingNatives
  <1>3. ASSUME NEW t \in Threads, NEW freed \in BOOLEAN, RegisterParserFails(t, freed)
        PROVE  ParserOwnership'
    <2> DEFINE np == pending[t].native
    <2>1. /\ np # NULL /\ np \in NativeParsers /\ parsers' = parsers /\ pending'[t].native = NULL
          /\ \A u \in Threads : u # t => pending'[u] = pending[u]
      BY <1>3 DEF RegisterParserFails, AbandonParser, ClearPending, TypeOK
    <2>2. PendingNatives' = PendingNatives \ {np} /\ np \in PendingNatives
          /\ RegisteredNatives' = RegisteredNatives /\ np \notin RegisteredNatives
      BY <2>1 DEF PendingNatives, RegisteredNatives, ParserOwnership
    <2>3. nativeParsers' = RegisteredNatives' \cup PendingNatives' \cup (orphans' \cap NativeParsers)
      <3>1. CASE freed
        BY <1>3, <2>1, <2>2, <3>1
        DEF RegisterParserFails, AbandonParser, ParserOwnership, RegisteredNatives, PendingNatives
      <3>2. CASE ~freed
        BY <1>3, <2>1, <2>2, <3>2
        DEF RegisterParserFails, AbandonParser, ParserOwnership, RegisteredNatives, PendingNatives
      <3> QED
        BY <3>1, <3>2
    <2>4. orphans' \subseteq orphans \cup {np}
      BY <1>3 DEF RegisterParserFails, AbandonParser
    <2>5. \A u \in Threads : pending'[u].native # NULL =>
             /\ pending'[u].native \notin orphans'
             /\ \A v \in Threads : pending'[v].native = pending'[u].native => v = u
      BY <2>1, <2>4 DEF ParserOwnership
    <2>6. \A r \in Slots : parsers[r].occupied =>
             /\ parsers[r].native # NULL
             /\ parsers[r].native \notin orphans'
             /\ \A u \in Threads : pending'[u].native # parsers[r].native
      BY <2>1, <2>4 DEF ParserOwnership
    <2> QED
      BY <2>1, <2>3, <2>5, <2>6 DEF ParserOwnership, RegisteredNatives, PendingNatives
  <1>4. ASSUME NEW h \in Handle, ParserFree(h)
        PROVE  ParserOwnership'
    <2>1. /\ h.slot \in Slots /\ parsers[h.slot].occupied /\ ~parsers'[h.slot].occupied
          /\ \A r \in Slots : r # h.slot => parsers'[r] = parsers[r]
          /\ nativeParsers' = nativeParsers \ {parsers[h.slot].native}
          /\ orphans' = orphans /\ pending' = pending
      BY <1>4 DEF ParserFree, Resolves, VacantParser, TypeOK, Handle
    <2>2. RegisteredNatives' = RegisteredNatives \ {parsers[h.slot].native}
      BY <2>1 DEF RegisteredNatives, ParserOwnership
    <2>3. PendingNatives' = PendingNatives /\ parsers[h.slot].native \notin PendingNatives
      BY <2>1 DEF PendingNatives, ParserOwnership
    <2>4. nativeParsers' = RegisteredNatives' \cup PendingNatives' \cup (orphans' \cap NativeParsers)
      BY <2>1, <2>2, <2>3 DEF ParserOwnership, RegisteredNatives, PendingNatives
    <2> QED
      BY <2>1, <2>4 DEF ParserOwnership, RegisteredNatives, PendingNatives
  <1>5. ASSUME NEW h \in Handle, DocFree(h)
        PROVE  ParserOwnership'
    <2>1. \A s \in Slots : /\ parsers'[s].occupied = parsers[s].occupied
                          /\ parsers'[s].native = parsers[s].native
      BY <1>5, ReleasedParsers DEF SameParsers
    <2> QED
      BY <1>5, <2>1, ParserOwnershipFrame DEF DocFree
  <1>6. ASSUME NEW h \in Handle, NEW len \in InputLengths, ParseFails(h, len)
        PROVE  ParserOwnership'
    <2>1. \A s \in Slots : /\ parsers'[s].occupied = parsers[s].occupied
                          /\ parsers'[s].native = parsers[s].native
      BY <1>6, RestoredParsers DEF ParseFails, SameParsers
    <2> QED
      BY <1>6, <2>1, ParserOwnershipFrame DEF ParseFails
  <1>7. ASSUME NEW h \in Handle, NEW len \in InputLengths, NEW nd \in NativeDocs,
               NEW freed \in BOOLEAN, ParseAbandoned(h, len, nd, freed)
        PROVE  ParserOwnership'
    <2>1. \A s \in Slots : /\ parsers'[s].occupied = parsers[s].occupied
                          /\ parsers'[s].native = parsers[s].native
      BY <1>7, RestoredParsers DEF ParseAbandoned, SameParsers
    <2>2. orphans' \cap NativeParsers = orphans \cap NativeParsers
      BY <1>7, RegistryAssumption DEF ParseAbandoned, AbandonDoc
    <2> QED
      BY <1>7, <2>1, <2>2, ParserOwnershipFrame DEF ParseAbandoned
  <1>8. ASSUME NEW h \in Handle, NEW len \in InputLengths, NEW nd \in NativeDocs,
               NEW s \in Slots, ParseSucceeds(h, len, nd, s)
        PROVE  ParserOwnership'
    <2>1. \A r \in Slots : /\ parsers'[r].occupied = parsers[r].occupied
                          /\ parsers'[r].native = parsers[r].native
      BY <1>8 DEF ParseSucceeds, TypeOK, ParserSlot
    <2> QED
      BY <1>8, <2>1, ParserOwnershipFrame DEF ParseSucceeds
  <1>9. CASE UNCHANGED vars
    BY <1>9, ParserOwnershipFrame DEF vars
  <1> QED
    BY <1>1, <1>2, <1>3, <1>4, <1>5, <1>6, <1>7, <1>8, <1>9
    DEF Next, CreateParser, Parse, RefusedCall

(* Every allocated C++ parser has exactly one owner: an entry, the thread about *)
(* to register it, or the orphans of failed cleanups.                        *)
THEOREM ParserOwnershipCorrect == Spec => []ParserOwnership
  BY TypeCorrect, ParserOwnershipInit, ParserOwnershipNext, PTL DEF Spec

-----------------------------------------------------------------------------
(* Handles *)

\* Parser generations are odd, document generations even, past ones included.
Parity ==
  /\ \A s \in Slots : parsers[s].generation % 2 = 1 /\ docs[s].generation % 2 = 0
  /\ \A s \in Slots : \A i \in 1 .. Len(parserHandles[s]) : parserHandles[s][i] % 2 = 1
  /\ \A s \in Slots : \A i \in 1 .. Len(docHandles[s]) : docHandles[s][i] % 2 = 0

\* A slot has been used at least once if it is occupied, and never too often.
UsesCounted ==
  \A s \in Slots :
    /\ Len(parserHandles[s]) \in 0 .. MaxUses /\ Len(docHandles[s]) \in 0 .. MaxUses
    /\ parsers[s].occupied => Len(parserHandles[s]) > 0
    /\ docs[s].occupied => Len(docHandles[s]) > 0

HandleInv == Parity /\ UsesCounted

LEMMA HandleInit == Init => HandleInv
<1> SUFFICES ASSUME Init PROVE HandleInv
  OBVIOUS
<1>1. MaxUses \in Nat
  BY RegistryAssumption
<1> QED
  BY <1>1, Basics DEF Init, HandleInv, Parity, UsesCounted, VacantParser, VacantDoc

\* The generations and the histories stay, and no slot becomes occupied.
LEMMA HandleFrame ==
  ASSUME TypeOK, HandleInv, UNCHANGED <<parserHandles, docHandles>>,
         \A s \in Slots :
           /\ parsers'[s].generation % 2 = 1 /\ docs'[s].generation % 2 = 0
           /\ parsers'[s].occupied => parsers[s].occupied
           /\ docs'[s].occupied => docs[s].occupied
  PROVE  HandleInv'
BY DEF HandleInv, Parity, UsesCounted

\* One more use of a slot, with a generation of the right parity.
LEMMA OneMoreUse ==
  ASSUME NEW old \in Seq(Generation), NEW g \in Generation, NEW parity \in {0, 1},
         g % 2 = parity, \A i \in 1 .. Len(old) : old[i] % 2 = parity,
         Len(old) < MaxUses
  PROVE  /\ \A i \in 1 .. Len(Append(old, g)) : Append(old, g)[i] % 2 = parity
         /\ Len(Append(old, g)) \in 0 .. MaxUses /\ Len(Append(old, g)) > 0
<1>1. Len(old) \in Nat /\ MaxUses \in Nat /\ Len(Append(old, g)) = Len(old) + 1
  BY RegistryAssumption
<1>2. ASSUME NEW i \in 1 .. Len(old) + 1
      PROVE  Append(old, g)[i] % 2 = parity
  <2>1. CASE i \in 1 .. Len(old)
    BY <2>1
  <2>2. CASE i = Len(old) + 1
    BY <2>2
  <2> QED
    BY <1>1, <2>1, <2>2
<1> QED
  BY <1>1, <1>2

LEMMA HandleNext == TypeOK /\ HandleInv /\ [Next]_vars => HandleInv'
<1> SUFFICES ASSUME TypeOK, HandleInv, [Next]_vars PROVE HandleInv'
  OBVIOUS
<1>1. ASSUME NEW t \in Threads, NEW s \in Slots, RegisterParser(t, s)
      PROVE  HandleInv'
  <2>1. /\ parsers'[s].occupied /\ parsers'[s].generation = parsers[s].generation
        /\ \A r \in Slots : r # s => parsers'[r] = parsers[r]
        /\ parserHandles' = [parserHandles EXCEPT ![s] = Append(@, parsers[s].generation)]
        /\ docs' = docs /\ docHandles' = docHandles /\ Len(parserHandles[s]) < MaxUses
    BY <1>1 DEF RegisterParser, TypeOK
  <2>2. parsers[s].generation \in Generation /\ parsers[s].generation % 2 = 1
        /\ parserHandles \in [Slots -> Seq(Generation)]
        /\ Len(parserHandles[s]) \in 0 .. MaxUses
    BY DEF TypeOK, ParserSlot, HandleInv, Parity, UsesCounted
  <2>3. /\ \A r \in Slots : \A i \in 1 .. Len(parserHandles'[r]) :
             parserHandles'[r][i] % 2 = 1
        /\ Len(parserHandles'[s]) \in 0 .. MaxUses /\ Len(parserHandles'[s]) > 0
        /\ \A r \in Slots : r # s => parserHandles'[r] = parserHandles[r]
    <3>1. /\ parserHandles[s] \in Seq(Generation) /\ Len(parserHandles[s]) < MaxUses
          /\ parserHandles'[s] = Append(parserHandles[s], parsers[s].generation)
          /\ \A r \in Slots : r # s => parserHandles'[r] = parserHandles[r]
      BY <2>1, <2>2
    <3>2. \A r \in Slots : \A i \in 1 .. Len(parserHandles[r]) : parserHandles[r][i] % 2 = 1
      BY DEF HandleInv, Parity
    <3>3. /\ \A i \in 1 .. Len(parserHandles'[s]) : parserHandles'[s][i] % 2 = 1
          /\ Len(parserHandles'[s]) \in 0 .. MaxUses /\ Len(parserHandles'[s]) > 0
      BY <2>2, <3>1, <3>2, OneMoreUse
    <3> QED
      BY <3>1, <3>2, <3>3
  <2>4. \A r \in Slots : parsers'[r].generation = parsers[r].generation
    BY <2>1
  <2>5. Parity'
    BY <2>1, <2>3, <2>4 DEF HandleInv, Parity
  <2>6. UsesCounted'
    BY <2>1, <2>3 DEF HandleInv, UsesCounted
  <2> QED
    BY <2>5, <2>6 DEF HandleInv
<1>2. ASSUME NEW h \in Handle, NEW len \in InputLengths, NEW nd \in NativeDocs,
             NEW s \in Slots, ParseSucceeds(h, len, nd, s)
      PROVE  HandleInv'
  <2>1. /\ docs'[s].occupied /\ docs'[s].generation = docs[s].generation
        /\ \A r \in Slots : r # s => docs'[r] = docs[r]
        /\ docHandles' = [docHandles EXCEPT ![s] = Append(@, docs[s].generation)]
        /\ parserHandles' = parserHandles /\ Len(docHandles[s]) < MaxUses
    BY <1>2 DEF ParseSucceeds, TypeOK
  <2>2. docs[s].generation \in Generation /\ docs[s].generation % 2 = 0
        /\ docHandles \in [Slots -> Seq(Generation)]
        /\ Len(docHandles[s]) \in 0 .. MaxUses
    BY DEF TypeOK, DocSlot, HandleInv, Parity, UsesCounted
  <2>3. /\ \A r \in Slots : \A i \in 1 .. Len(docHandles'[r]) : docHandles'[r][i] % 2 = 0
        /\ Len(docHandles'[s]) \in 0 .. MaxUses /\ Len(docHandles'[s]) > 0
        /\ \A r \in Slots : r # s => docHandles'[r] = docHandles[r]
    <3>1. /\ docHandles[s] \in Seq(Generation) /\ Len(docHandles[s]) < MaxUses
          /\ docHandles'[s] = Append(docHandles[s], docs[s].generation)
          /\ \A r \in Slots : r # s => docHandles'[r] = docHandles[r]
      BY <2>1, <2>2
    <3>2. \A r \in Slots : \A i \in 1 .. Len(docHandles[r]) : docHandles[r][i] % 2 = 0
      BY DEF HandleInv, Parity
    <3>3. /\ \A i \in 1 .. Len(docHandles'[s]) : docHandles'[s][i] % 2 = 0
          /\ Len(docHandles'[s]) \in 0 .. MaxUses /\ Len(docHandles'[s]) > 0
      BY <2>2, <3>1, <3>2, OneMoreUse
    <3> QED
      BY <3>1, <3>2, <3>3
  <2>4. \A r \in Slots : parsers'[r].generation = parsers[r].generation
                         /\ parsers'[r].occupied = parsers[r].occupied
    BY <1>2, LentParsers DEF SameParsers
  <2>5. Parity'
    BY <2>1, <2>3, <2>4 DEF HandleInv, Parity
  <2>6. UsesCounted'
    BY <2>1, <2>3, <2>4 DEF HandleInv, UsesCounted
  <2> QED
    BY <2>5, <2>6 DEF HandleInv
<1>3. ASSUME NEW h \in Handle, ParserFree(h)
      PROVE  HandleInv'
  <2>1. /\ \A r \in Slots : r # h.slot => parsers'[r] = parsers[r]
        /\ h.slot \in Slots /\ parsers[h.slot].generation = h.generation
        /\ parsers'[h.slot] = VacantParser(NextGeneration(h.generation, ParserGenerationStart))
        /\ docs' = docs /\ UNCHANGED <<parserHandles, docHandles>>
    BY <1>3 DEF ParserFree, Resolves, TypeOK, Handle
  <2>2. NextGeneration(h.generation, ParserGenerationStart) % 2 = 1
    BY <2>1, Basics, NextGenerationParity DEF HandleInv, Parity, Handle
  <2> QED
    BY <2>1, <2>2, HandleFrame DEF VacantParser, HandleInv, Parity
<1>4. ASSUME NEW h \in Handle, DocFree(h)
      PROVE  HandleInv'
  <2>1. /\ \A r \in Slots : r # h.slot => docs'[r] = docs[r]
        /\ h.slot \in Slots /\ docs[h.slot].generation = h.generation
        /\ docs'[h.slot] = VacantDoc(NextGeneration(h.generation, DocGenerationStart))
        /\ UNCHANGED <<parserHandles, docHandles>>
    BY <1>4 DEF DocFree, RetiredDoc, Resolves, TypeOK, Handle
  <2>2. \A r \in Slots : parsers'[r].generation = parsers[r].generation
                         /\ parsers'[r].occupied = parsers[r].occupied
    BY <1>4, ReleasedParsers DEF SameParsers
  <2>3. NextGeneration(h.generation, DocGenerationStart) % 2 = 0
    BY <2>1, Basics, NextGenerationParity DEF HandleInv, Parity, Handle
  <2> QED
    BY <2>1, <2>2, <2>3, HandleFrame DEF VacantDoc, HandleInv, Parity
<1>5. ASSUME NEW s \in Slots, NEW len \in InputLengths,
             parsers' = RestoreInput(s, len), UNCHANGED <<docs, parserHandles, docHandles>>
      PROVE  HandleInv'
  <2>1. \A r \in Slots : parsers'[r].generation = parsers[r].generation
                         /\ parsers'[r].occupied = parsers[r].occupied
    BY <1>5, RestoredParsers DEF SameParsers
  <2> QED
    BY <1>5, <2>1, HandleFrame DEF HandleInv, Parity
<1>6. ASSUME UNCHANGED <<parsers, docs, parserHandles, docHandles>>
      PROVE  HandleInv'
  BY <1>6, HandleFrame DEF HandleInv, Parity
<1>7. ASSUME NEW t \in Threads, CreateParser(t)
      PROVE  HandleInv'
  BY <1>1, <1>6, <1>7 DEF CreateParser, NativeParserNew, RegisterParserFails
<1>8. ASSUME NEW h \in Handle, NEW len \in InputLengths, Parse(h, len)
      PROVE  HandleInv'
  <2>1. h.slot \in Slots
    BY DEF Handle
  <2> QED
    BY <1>2, <1>5, <1>8, <2>1 DEF Parse, ParseFails, ParseAbandoned
<1>9. CASE UNCHANGED vars
  BY <1>6, <1>9 DEF vars
<1> QED
  BY <1>3, <1>4, <1>7, <1>8, <1>9 DEF Next, RefusedCall

\* No handle was ever valid both as a parser and as a document, for every number of
\* slots and every even generation modulus.
THEOREM HandlesDisjointCorrect == Spec => []HandlesDisjoint
<1>1. ASSUME TypeOK, HandleInv
      PROVE  HandlesDisjoint
  <2>1. \A s \in Slots :
          /\ DOMAIN parserHandles[s] = 1 .. Len(parserHandles[s])
          /\ DOMAIN docHandles[s] = 1 .. Len(docHandles[s])
          /\ \A i \in DOMAIN parserHandles[s] : parserHandles[s][i] \in Generation
          /\ \A i \in DOMAIN docHandles[s] : docHandles[s][i] \in Generation
    BY <1>1 DEF TypeOK
  <2>2. ASSUME NEW s \in Slots, NEW r \in Slots,
               NEW i \in DOMAIN parserHandles[s], NEW j \in DOMAIN docHandles[r]
        PROVE  parserHandles[s][i] # docHandles[r][j]
    <3>1. parserHandles[s][i] % 2 = 1
      BY <1>1, <2>1 DEF HandleInv, Parity
    <3>2. docHandles[r][j] % 2 = 0
      BY <1>1, <2>1 DEF HandleInv, Parity
    <3> QED
      BY <3>1, <3>2
  <2>3. \A g \in Generation : g # 0
    BY RegistryAssumption DEF Generation
  <2> QED
    BY <2>1, <2>2, <2>3 DEF HandlesDisjoint
<1> QED
  BY <1>1, TypeCorrect, HandleInit, HandleNext, PTL DEF Spec

-----------------------------------------------------------------------------
(* Reuse of handles *)

\* The generation d uses after g, when generations come round after width: GenMod for the odd
\* ones of parsers, GenMod - 2 for those of documents, which pass over 0.
Ahead(g, d, width) == IF g + 2 * d < GenMod THEN g + 2 * d ELSE g + 2 * d - width

\* The widths with their starts.
Rounds == {<<ParserGenerationStart, GenMod>>, <<DocGenerationStart, GenMod - 2>>}

LEMMA AheadStep ==
  ASSUME NEW start \in Nat, NEW width \in Nat, <<start, width>> \in Rounds,
         NEW g \in Generation, g % 2 = start % 2,
         NEW d \in Nat, 2 * (d + 1) < width
  PROVE  NextGeneration(Ahead(g, d, width), start) = Ahead(g, d + 1, width)
<1>1. PICK half \in Nat : GenMod = 2 * half
  BY RegistryAssumption
<1>2. g \in Nat /\ g > 0 /\ g < GenMod /\ GenMod \in Nat /\ GenMod >= 4
  BY RegistryAssumption DEF Generation
<1>3. CASE start = 1 /\ width = GenMod
  <2>1. PICK k \in Nat : g = 2 * k + 1
    BY <1>2, <1>3
  <2> QED
    BY <1>1, <1>2, <1>3, <2>1 DEF Ahead, NextGeneration, WrappingAdd
<1>4. CASE start = 2 /\ width = GenMod - 2
  <2>1. PICK k \in Nat : g = 2 * k
    BY <1>2, <1>4
  <2> QED
    BY <1>1, <1>2, <1>4, <2>1 DEF Ahead, NextGeneration, WrappingAdd
<1> QED
  BY <1>3, <1>4 DEF Rounds, ParserGenerationStart, DocGenerationStart

\* Not once round, a generation is another one.
LEMMA AheadDiffers ==
  ASSUME NEW width \in {GenMod, GenMod - 2}, NEW g \in Generation,
         NEW d \in Nat, d > 0, 2 * d < width
  PROVE  Ahead(g, d, width) # g
BY RegistryAssumption DEF Ahead, Generation

Spaced(walk, width) ==
  \A i, j \in 1 .. Len(walk) :
    i < j /\ 2 * (j - i) < width => walk[j] = Ahead(walk[i], j - i, width)

LEMMA SpacedAppend ==
  ASSUME NEW start \in Nat, NEW width \in Nat, <<start, width>> \in Rounds,
         NEW walk \in Seq(Generation), Len(walk) > 0, Spaced(walk, width),
         \A i \in 1 .. Len(walk) : walk[i] % 2 = start % 2
  PROVE  Spaced(Append(walk, NextGeneration(walk[Len(walk)], start)), width)
<1> DEFINE last == Len(walk)
           longer == Append(walk, NextGeneration(walk[last], start))
<1>1. /\ last \in Nat /\ Len(longer) = last + 1
      /\ longer[last + 1] = NextGeneration(walk[last], start)
      /\ \A i \in 1 .. last : longer[i] = walk[i] /\ walk[i] \in Generation
  OBVIOUS
<1> HIDE DEF last, longer
<1>2. ASSUME NEW i \in 1 .. last, 2 * (last + 1 - i) < width
      PROVE  longer[last + 1] = Ahead(walk[i], last + 1 - i, width)
  <2>1. last - i \in Nat /\ 2 * ((last - i) + 1) < width /\ (last - i) + 1 = last + 1 - i
    BY <1>1, <1>2
  <2>2. walk[last] = Ahead(walk[i], last - i, width)
    <3>1. CASE i = last
      BY <1>1, <3>1, RegistryAssumption DEF Ahead, Generation
    <3>2. CASE i < last
      BY <1>1, <2>1, <3>2 DEF Spaced, last
    <3> QED
      BY <1>1, <3>1, <3>2
  <2>3. NextGeneration(Ahead(walk[i], last - i, width), start)
          = Ahead(walk[i], (last - i) + 1, width)
    BY <1>1, <2>1, AheadStep DEF last
  <2> QED
    BY <1>1, <2>1, <2>2, <2>3
<1>3. ASSUME NEW i \in 1 .. last + 1, NEW j \in 1 .. last + 1, i < j, 2 * (j - i) < width
      PROVE  longer[j] = Ahead(longer[i], j - i, width)
  <2>1. CASE j \in 1 .. last
    BY <1>1, <1>3, <2>1 DEF Spaced, last
  <2>2. CASE j = last + 1
    BY <1>1, <1>2, <1>3, <2>2
  <2> QED
    BY <1>1, <2>1, <2>2
<1> QED
  BY <1>1, <1>3 DEF Spaced, longer, last

\* The generations a slot has gone through, the one of its next use included.
Walk(table, handles, s) ==
  IF table[s].occupied THEN handles[s] ELSE Append(handles[s], table[s].generation)

WalkInv(table, handles, width) ==
  \A s \in Slots :
    LET walk == Walk(table, handles, s) IN
    /\ Len(walk) > 0 /\ walk[Len(walk)] = table[s].generation
    /\ Spaced(walk, width)

ReuseInv == WalkInv(parsers, parserHandles, GenMod) /\ WalkInv(docs, docHandles, GenMod - 2)

\* One slot is taken into use, or retired.
TakesUse(table, tableNext, handles, handlesNext, s) ==
  /\ ~table[s].occupied /\ tableNext[s].occupied
  /\ tableNext[s].generation = table[s].generation
  /\ handlesNext[s] = Append(handles[s], table[s].generation)

Retires(table, tableNext, handles, handlesNext, s, start) ==
  /\ table[s].occupied /\ ~tableNext[s].occupied
  /\ tableNext[s].generation = NextGeneration(table[s].generation, start)
  /\ handlesNext[s] = handles[s]

Rests(table, tableNext, handles, handlesNext, s) ==
  /\ tableNext[s].occupied = table[s].occupied
  /\ tableNext[s].generation = table[s].generation
  /\ handlesNext[s] = handles[s]

LEMMA WalkGoesOn ==
  ASSUME NEW start \in Nat, NEW width \in Nat, <<start, width>> \in Rounds,
         NEW table, NEW tableNext, NEW handles, NEW handlesNext,
         WalkInv(table, handles, width),
         \A s \in Slots :
           /\ table[s].occupied \in BOOLEAN
           /\ Walk(table, handles, s) \in Seq(Generation)
           /\ \A i \in 1 .. Len(Walk(table, handles, s)) :
                Walk(table, handles, s)[i] % 2 = start % 2
           /\ \/ TakesUse(table, tableNext, handles, handlesNext, s)
              \/ Retires(table, tableNext, handles, handlesNext, s, start)
              \/ Rests(table, tableNext, handles, handlesNext, s)
  PROVE  WalkInv(tableNext, handlesNext, width)
<1> SUFFICES ASSUME NEW s \in Slots
             PROVE  LET walk == Walk(tableNext, handlesNext, s) IN
                    /\ Len(walk) > 0 /\ walk[Len(walk)] = tableNext[s].generation
                    /\ Spaced(walk, width)
  BY DEF WalkInv
<1> DEFINE walk == Walk(table, handles, s)
           g == table[s].generation
<1>1. /\ walk \in Seq(Generation) /\ Len(walk) > 0 /\ walk[Len(walk)] = g
      /\ Spaced(walk, width)
      /\ \A i \in 1 .. Len(walk) : walk[i] % 2 = start % 2
  BY DEF WalkInv
<1>2. CASE \/ TakesUse(table, tableNext, handles, handlesNext, s)
           \/ Rests(table, tableNext, handles, handlesNext, s)
  <2>1. Walk(tableNext, handlesNext, s) = walk /\ tableNext[s].generation = g
    BY <1>2 DEF Walk, TakesUse, Rests
  <2> QED
    BY <1>1, <2>1
<1>3. CASE Retires(table, tableNext, handles, handlesNext, s, start)
  <2>1. /\ Walk(tableNext, handlesNext, s) = Append(walk, NextGeneration(g, start))
        /\ tableNext[s].generation = NextGeneration(g, start)
    BY <1>3 DEF Walk, Retires
  <2>2. Spaced(Append(walk, NextGeneration(g, start)), width)
    BY <1>1, SpacedAppend
  <2>3. /\ Len(Append(walk, NextGeneration(g, start))) = Len(walk) + 1
        /\ Append(walk, NextGeneration(g, start))[Len(walk) + 1] = NextGeneration(g, start)
        /\ Len(walk) \in Nat
    BY <1>1
  <2> HIDE DEF walk, g
  <2> QED
    BY <2>1, <2>2, <2>3
<1> QED
  BY <1>2, <1>3

LEMMA ReuseInit == TypeOK /\ Init => ReuseInv
<1> SUFFICES ASSUME TypeOK, Init PROVE ReuseInv
  OBVIOUS
<1>1. ASSUME NEW g \in Generation
      PROVE  /\ Len(Append(<<>>, g)) = 1 /\ Append(<<>>, g)[1] = g
             /\ Spaced(Append(<<>>, g), GenMod) /\ Spaced(Append(<<>>, g), GenMod - 2)
  <2>1. <<>> \in Seq(Generation) /\ Len(<<>>) = 0
    OBVIOUS
  <2>2. Len(Append(<<>>, g)) = 1 /\ Append(<<>>, g)[1] = g
    BY <2>1
  <2> QED
    BY <2>2 DEF Spaced
<1>2. WalkInv(parsers, parserHandles, GenMod)
  <2>1. \A s \in Slots : /\ Walk(parsers, parserHandles, s) = Append(<<>>, ParserGenerationStart)
                         /\ parsers[s].generation = ParserGenerationStart
    BY DEF Init, Walk, VacantParser
  <2> QED
    BY <1>1, <2>1, Basics DEF WalkInv
<1>3. WalkInv(docs, docHandles, GenMod - 2)
  <2>1. \A s \in Slots : /\ Walk(docs, docHandles, s) = Append(<<>>, DocGenerationStart)
                         /\ docs[s].generation = DocGenerationStart
    BY DEF Init, Walk, VacantDoc
  <2>2. /\ Len(Append(<<>>, DocGenerationStart)) = 1
        /\ Append(<<>>, DocGenerationStart)[1] = DocGenerationStart
        /\ Spaced(Append(<<>>, DocGenerationStart), GenMod - 2)
    BY <1>1, Basics
  <2> QED
    BY <2>1, <2>2 DEF WalkInv
<1> QED
  BY <1>2, <1>3 DEF ReuseInv

\* What WalkGoesOn asks of the generations that a slot has gone through.
LEMMA WalkTyped ==
  ASSUME NEW handles \in Seq(Generation), NEW g \in Generation, NEW parity \in {0, 1},
         g % 2 = parity, \A i \in 1 .. Len(handles) : handles[i] % 2 = parity
  PROVE  /\ Append(handles, g) \in Seq(Generation)
         /\ \A i \in 1 .. Len(Append(handles, g)) : Append(handles, g)[i] % 2 = parity
<1>1. ASSUME NEW i \in 1 .. Len(handles) + 1
      PROVE  Append(handles, g)[i] % 2 = parity
  <2>1. CASE i \in 1 .. Len(handles)
    BY <2>1
  <2>2. CASE i = Len(handles) + 1
    BY <2>2
  <2> QED
    BY <2>1, <2>2
<1> QED
  BY <1>1

LEMMA WalksTyped ==
  ASSUME TypeOK, HandleInv, NEW s \in Slots
  PROVE  /\ parsers[s].occupied \in BOOLEAN /\ docs[s].occupied \in BOOLEAN
         /\ Walk(parsers, parserHandles, s) \in Seq(Generation)
         /\ \A i \in 1 .. Len(Walk(parsers, parserHandles, s)) :
              Walk(parsers, parserHandles, s)[i] % 2 = ParserGenerationStart % 2
         /\ Walk(docs, docHandles, s) \in Seq(Generation)
         /\ \A i \in 1 .. Len(Walk(docs, docHandles, s)) :
              Walk(docs, docHandles, s)[i] % 2 = DocGenerationStart % 2
<1>1. /\ parsers[s].occupied \in BOOLEAN /\ docs[s].occupied \in BOOLEAN
      /\ parsers[s].generation \in Generation /\ docs[s].generation \in Generation
      /\ parserHandles[s] \in Seq(Generation) /\ docHandles[s] \in Seq(Generation)
  BY DEF TypeOK, ParserSlot, DocSlot
<1>2. /\ parsers[s].generation % 2 = 1 /\ docs[s].generation % 2 = 0
      /\ \A i \in 1 .. Len(parserHandles[s]) : parserHandles[s][i] % 2 = 1
      /\ \A i \in 1 .. Len(docHandles[s]) : docHandles[s][i] % 2 = 0
  BY DEF HandleInv, Parity
<1>3. /\ Append(parserHandles[s], parsers[s].generation) \in Seq(Generation)
      /\ \A i \in 1 .. Len(Append(parserHandles[s], parsers[s].generation)) :
           Append(parserHandles[s], parsers[s].generation)[i] % 2 = 1
  BY <1>1, <1>2, WalkTyped
<1>4. /\ Append(docHandles[s], docs[s].generation) \in Seq(Generation)
      /\ \A i \in 1 .. Len(Append(docHandles[s], docs[s].generation)) :
           Append(docHandles[s], docs[s].generation)[i] % 2 = 0
  BY <1>1, <1>2, WalkTyped
<1> QED
  BY <1>1, <1>2, <1>3, <1>4, Basics DEF Walk

ParserSlotSteps ==
  \A s \in Slots :
    \/ TakesUse(parsers, parsers', parserHandles, parserHandles', s)
    \/ Retires(parsers, parsers', parserHandles, parserHandles', s, ParserGenerationStart)
    \/ Rests(parsers, parsers', parserHandles, parserHandles', s)

DocSlotSteps ==
  \A s \in Slots :
    \/ TakesUse(docs, docs', docHandles, docHandles', s)
    \/ Retires(docs, docs', docHandles, docHandles', s, DocGenerationStart)
    \/ Rests(docs, docs', docHandles, docHandles', s)

\* Every step takes a vacant slot into use, retires an occupied one, or does neither.
LEMMA SlotSteps == TypeOK /\ [Next]_vars => ParserSlotSteps /\ DocSlotSteps
<1> SUFFICES ASSUME TypeOK, [Next]_vars PROVE ParserSlotSteps /\ DocSlotSteps
  OBVIOUS
<1>1. ASSUME UNCHANGED <<docs, docHandles>>
      PROVE  DocSlotSteps
  BY <1>1 DEF DocSlotSteps, Rests
<1>2. ASSUME parserHandles' = parserHandles,
             \A s \in Slots : /\ parsers'[s].occupied = parsers[s].occupied
                              /\ parsers'[s].generation = parsers[s].generation
      PROVE  ParserSlotSteps
  BY <1>2 DEF ParserSlotSteps, Rests
<1>3. ASSUME NEW t \in Threads, CreateParser(t)
      PROVE  ParserSlotSteps /\ DocSlotSteps
  <2>1. ASSUME NEW s \in Slots, RegisterParser(t, s)
        PROVE  ParserSlotSteps
    <3>1. /\ TakesUse(parsers, parsers', parserHandles, parserHandles', s)
          /\ \A r \in Slots : r # s =>
               Rests(parsers, parsers', parserHandles, parserHandles', r)
      BY <2>1 DEF RegisterParser, FirstVacant, TypeOK, TakesUse, Rests
    <3> QED
      BY <3>1 DEF ParserSlotSteps
  <2>2. UNCHANGED <<docs, docHandles>>
    BY <1>3 DEF CreateParser, NativeParserNew, RegisterParser, RegisterParserFails
  <2> QED
    BY <1>1, <1>2, <1>3, <2>1, <2>2 DEF CreateParser, NativeParserNew, RegisterParserFails
<1>4. ASSUME NEW h \in Handle, ParserFree(h)
      PROVE  ParserSlotSteps /\ DocSlotSteps
  <2>1. /\ Retires(parsers, parsers', parserHandles, parserHandles', h.slot,
                   ParserGenerationStart)
        /\ \A r \in Slots : r # h.slot =>
             Rests(parsers, parsers', parserHandles, parserHandles', r)
    BY <1>4 DEF ParserFree, Resolves, VacantParser, TypeOK, Retires, Rests, Handle
  <2> QED
    BY <1>1, <1>4, <2>1 DEF ParserSlotSteps, ParserFree
<1>5. ASSUME NEW h \in Handle, DocFree(h)
      PROVE  ParserSlotSteps /\ DocSlotSteps
  <2>1. /\ Retires(docs, docs', docHandles, docHandles', h.slot, DocGenerationStart)
        /\ \A r \in Slots : r # h.slot => Rests(docs, docs', docHandles, docHandles', r)
    BY <1>5 DEF DocFree, RetiredDoc, Resolves, VacantDoc, TypeOK, Retires, Rests, Handle
  <2>2. \A s \in Slots : /\ parsers'[s].occupied = parsers[s].occupied
                         /\ parsers'[s].generation = parsers[s].generation
    BY <1>5, ReleasedParsers DEF SameParsers
  <2> QED
    BY <1>2, <1>5, <2>1, <2>2 DEF DocSlotSteps, DocFree
<1>6. ASSUME NEW h \in Handle, NEW len \in InputLengths, Parse(h, len)
      PROVE  ParserSlotSteps /\ DocSlotSteps
  <2>1. ASSUME NEW nd \in NativeDocs, NEW s \in Slots, ParseSucceeds(h, len, nd, s)
        PROVE  DocSlotSteps
    <3>1. /\ TakesUse(docs, docs', docHandles, docHandles', s)
          /\ \A r \in Slots : r # s => Rests(docs, docs', docHandles, docHandles', r)
      BY <2>1 DEF ParseSucceeds, FirstVacant, TypeOK, TakesUse, Rests
    <3> QED
      BY <3>1 DEF DocSlotSteps
  <2>2. /\ parserHandles' = parserHandles
        /\ \A s \in Slots : /\ parsers'[s].occupied = parsers[s].occupied
                            /\ parsers'[s].generation = parsers[s].generation
    <3>1. CASE parsers' = RestoreInput(h.slot, len) /\ parserHandles' = parserHandles
      BY <3>1, RestoredParsers DEF SameParsers
    <3>2. ASSUME NEW nd \in NativeDocs, NEW s \in Slots, ParseSucceeds(h, len, nd, s)
          PROVE  /\ parserHandles' = parserHandles
                 /\ \A r \in Slots : /\ parsers'[r].occupied = parsers[r].occupied
                                      /\ parsers'[r].generation = parsers[r].generation
      BY <3>2, LentParsers DEF SameParsers, ParseSucceeds
    <3> QED
      BY <1>6, <3>1, <3>2 DEF Parse, ParseFails, ParseAbandoned
  <2> QED
    BY <1>1, <1>2, <1>6, <2>1, <2>2 DEF Parse, ParseFails, ParseAbandoned
<1>7. CASE UNCHANGED vars
  BY <1>1, <1>2, <1>7 DEF vars
<1> QED
  BY <1>3, <1>4, <1>5, <1>6, <1>7 DEF Next, RefusedCall

LEMMA ReuseNext == TypeOK /\ HandleInv /\ ReuseInv /\ [Next]_vars => ReuseInv'
<1> SUFFICES ASSUME TypeOK, HandleInv, ReuseInv, [Next]_vars PROVE ReuseInv'
  OBVIOUS
<1>1. GenMod \in Nat /\ GenMod - 2 \in Nat /\ ParserGenerationStart \in Nat /\ DocGenerationStart \in Nat
  BY RegistryAssumption DEF ParserGenerationStart, DocGenerationStart
<1>2. WalkInv(parsers', parserHandles', GenMod)
  BY <1>1, WalksTyped, SlotSteps, WalkGoesOn DEF ReuseInv, Rounds, ParserSlotSteps
<1>3. WalkInv(docs', docHandles', GenMod - 2)
  BY <1>1, WalksTyped, SlotSteps, WalkGoesOn DEF ReuseInv, Rounds, DocSlotSteps
<1> QED
  BY <1>2, <1>3 DEF ReuseInv, WalkInv, Walk

\* Equal generations of one slot are at least once round apart.
LEMMA SpacedApart ==
  ASSUME NEW table, NEW handles, NEW s \in Slots, NEW width \in {GenMod, GenMod - 2},
         handles[s] \in Seq(Generation), table[s].generation \in Generation,
         Spaced(Walk(table, handles, s), width),
         NEW i \in DOMAIN handles[s], NEW j \in DOMAIN handles[s],
         i < j, handles[s][i] = handles[s][j]
  PROVE  2 * (j - i) >= width
<1> DEFINE walk == Walk(table, handles, s)
<1>1. i \in Nat /\ j \in Nat /\ handles[s][i] \in Generation
  OBVIOUS
<1>2. /\ i \in 1 .. Len(walk) /\ j \in 1 .. Len(walk)
      /\ walk[i] = handles[s][i] /\ walk[j] = handles[s][j]
  BY DEF Walk
<1> HIDE DEF walk
<1>3. ASSUME 2 * (j - i) < width
      PROVE  FALSE
  <2>1. walk[j] = Ahead(walk[i], j - i, width)
    BY <1>2, <1>3 DEF Spaced, walk
  <2>2. j - i \in Nat /\ j - i > 0
    BY <1>1
  <2> QED
    BY <1>1, <1>2, <1>3, <2>1, <2>2, AheadDiffers
<1> QED
  BY <1>1, <1>3, RegistryAssumption

\* A stale handle is mistaken for a live one only after its slot has gone through all other
\* generations, for every modulus: 2^31 objects for a parser, 2^31 - 1 for a document.
THEOREM HandleReuseDistanceCorrect == Spec => []HandleReuseDistance
<1>1. ASSUME TypeOK, ReuseInv
      PROVE  HandleReuseDistance
  <2>1. ASSUME NEW s \in Slots
        PROVE  /\ parserHandles[s] \in Seq(Generation) /\ parsers[s].generation \in Generation
               /\ docHandles[s] \in Seq(Generation) /\ docs[s].generation \in Generation
               /\ Spaced(Walk(parsers, parserHandles, s), GenMod)
               /\ Spaced(Walk(docs, docHandles, s), GenMod - 2)
    BY <1>1 DEF TypeOK, ParserSlot, DocSlot, ReuseInv, WalkInv
  <2>2. ASSUME NEW s \in Slots, NEW i \in DOMAIN parserHandles[s],
               NEW j \in DOMAIN parserHandles[s],
               i < j, parserHandles[s][i] = parserHandles[s][j]
        PROVE  j - i >= GenMod \div 2
    <3>1. 2 * (j - i) >= GenMod /\ i \in Nat /\ j \in Nat
      BY <2>1, <2>2, SpacedApart
    <3> QED
      BY <3>1, RegistryAssumption
  <2>3. ASSUME NEW s \in Slots, NEW i \in DOMAIN docHandles[s], NEW j \in DOMAIN docHandles[s],
               i < j, docHandles[s][i] = docHandles[s][j]
        PROVE  j - i >= GenMod \div 2 - 1
    <3>1. 2 * (j - i) >= GenMod - 2 /\ i \in Nat /\ j \in Nat
      BY <2>1, <2>3, SpacedApart
    <3> QED
      BY <3>1, RegistryAssumption
  <2> QED
    BY <2>2, <2>3 DEF HandleReuseDistance
<1>2. Init => TypeOK /\ HandleInv /\ ReuseInv
  BY TypeInit, HandleInit, ReuseInit
<1>3. TypeOK /\ HandleInv /\ ReuseInv /\ [Next]_vars => (TypeOK /\ HandleInv /\ ReuseInv)'
  BY TypeNext, HandleNext, ReuseNext
<1> QED
  BY <1>1, <1>2, <1>3, PTL DEF Spec

-----------------------------------------------------------------------------
(* Document slots *)

\* If every document slot were taken, the owners would be as many different parsers, and
\* all of those are busy.
LEMMA FullMeansBusy ==
  ASSUME TypeOK, BusyMatchesDoc, \A s \in Slots : docs[s].occupied,
         NEW p \in Slots
  PROVE  parsers[p].busy # Idle
<1> DEFINE ownerSlot == [s \in Slots |-> docs[s].owner.slot]
<1>1. \A s \in Slots : /\ docs[s].owner.slot \in Slots
                       /\ parsers[docs[s].owner.slot].busy # Idle
                       /\ parsers[docs[s].owner.slot].busy.slot = s
  BY OwnerOfDoc
<1>2. \A s, r \in Slots : docs[s].owner.slot = docs[r].owner.slot => s = r
  BY <1>1
<1>3. ownerSlot \in Injection(Slots, Slots)
  BY <1>1, <1>2 DEF Injection, IsInjective
<1>4. IsFiniteSet(Slots)
  BY RegistryAssumption, FS_Interval DEF Slots
<1>5. ownerSlot \in Surjection(Slots, Slots)
  BY <1>3, <1>4, FS_Injection
<1>6. PICK s \in Slots : docs[s].owner.slot = p
  BY <1>5 DEF Surjection
<1> QED
  BY <1>1, <1>6

\* A parse by an idle parser is never refused for want of a document slot, however many
\* slots there are.
THEOREM DocSlotsSufficeCorrect == Spec => []DocSlotsSuffice
<1>1. TypeOK /\ BusyMatchesDoc => DocSlotsSuffice
  BY FullMeansBusy DEF DocSlotsSuffice
<1> QED
  BY <1>1, TypeCorrect, BusyMatchesDocCorrect, PTL

-----------------------------------------------------------------------------
(* Capacities *)

LEMMA CapacityInit == Init => CapacityRespected
BY DEF Init, CapacityRespected, VacantDoc

\* A live document's owner is an occupied slot.
LEMMA OwnerOccupied ==
  ASSUME TypeOK, BusyMatchesDoc, NEW s \in Slots, docs[s].occupied
  PROVE  /\ docs[s].owner.slot \in Slots
         /\ parsers[docs[s].owner.slot].occupied
         /\ parsers[docs[s].owner.slot].busy # Idle
BY OwnerOfDoc DEF Resolves

\* No document appears or changes, and occupied slots keep their capacity.
LEMMA CapacityFrame ==
  ASSUME TypeOK, BusyMatchesDoc, CapacityRespected,
         \A s \in Slots : docs'[s].occupied => docs'[s] = docs[s],
         \A s \in Slots : parsers[s].occupied /\ parsers[s].busy # Idle =>
           parsers'[s].maxCapacity = parsers[s].maxCapacity
  PROVE  CapacityRespected'
<1> SUFFICES ASSUME NEW s \in Slots, docs'[s].occupied
             PROVE  docs'[s].input <= Filled(parsers'[docs'[s].owner.slot].maxCapacity)
  BY DEF CapacityRespected, Filled
<1>1. docs'[s] = docs[s] /\ docs[s].occupied
  OBVIOUS
<1>2. parsers'[docs[s].owner.slot].maxCapacity = parsers[docs[s].owner.slot].maxCapacity
  BY <1>1, OwnerOccupied
<1>3. docs[s].input <= Filled(parsers[docs[s].owner.slot].maxCapacity)
  BY <1>1 DEF CapacityRespected
<1> QED
  BY <1>1, <1>2, <1>3

LEMMA CapacityNext ==
  TypeOK /\ BusyMatchesDoc /\ CapacityRespected /\ [Next]_vars => CapacityRespected'
<1> SUFFICES ASSUME TypeOK, BusyMatchesDoc, CapacityRespected, [Next]_vars
             PROVE  CapacityRespected'
  OBVIOUS
<1>1. ASSUME NEW t \in Threads, CreateParser(t)
      PROVE  CapacityRespected'
  <2>1. docs' = docs
        /\ \A s \in Slots : parsers[s].occupied => parsers'[s] = parsers[s]
    BY <1>1 DEF CreateParser, NativeParserNew, RegisterParser, RegisterParserFails,
                FirstVacant, TypeOK
  <2> QED
    BY <2>1, CapacityFrame
<1>2. ASSUME NEW h \in Handle, ParserFree(h)
      PROVE  CapacityRespected'
  <2>1. docs' = docs
        /\ \A s \in Slots : parsers[s].busy # Idle => parsers'[s] = parsers[s]
    BY <1>2 DEF ParserFree, MayFree, TypeOK, Handle
  <2> QED
    BY <2>1, CapacityFrame
<1>3. ASSUME NEW h \in Handle, DocFree(h)
      PROVE  CapacityRespected'
  <2>1. /\ \A s \in Slots : docs'[s].occupied => docs'[s] = docs[s]
        /\ \A s \in Slots : parsers'[s].maxCapacity = parsers[s].maxCapacity
    BY <1>3 DEF DocFree, RetiredDoc, ReleaseParser, VacantDoc, TypeOK, ParserSlot, Handle
  <2> QED
    BY <2>1, CapacityFrame
<1>4. ASSUME NEW h \in Handle, NEW len \in InputLengths, parsers' = RestoreInput(h.slot, len),
             docs' = docs
      PROVE  CapacityRespected'
  <2>1. \A s \in Slots : parsers'[s].maxCapacity = parsers[s].maxCapacity
    BY <1>4, RestoredParsers DEF SameParsers
  <2> QED
    BY <1>4, <2>1, CapacityFrame
<1>5. ASSUME NEW h \in Handle, NEW len \in InputLengths, NEW nd \in NativeDocs,
             NEW s \in Slots, ParseSucceeds(h, len, nd, s)
      PROVE  CapacityRespected'
  <2>1. /\ \A r \in Slots : r # s => docs'[r] = docs[r]
        /\ docs'[s].owner = h /\ docs'[s].input = Filled(len)
        /\ len <= parsers[h.slot].maxCapacity
        /\ h.slot \in Slots
    BY <1>5 DEF ParseSucceeds, MayParse, Fits, TypeOK, Handle
  <2>2. \A r \in Slots : parsers'[r].maxCapacity = parsers[r].maxCapacity
                         /\ parsers[r].maxCapacity \in Nat
    BY <1>5 DEF ParseSucceeds, TypeOK, ParserSlot
  <2> SUFFICES ASSUME NEW r \in Slots, docs'[r].occupied
               PROVE  docs'[r].input <= Filled(parsers'[docs'[r].owner.slot].maxCapacity)
    BY DEF CapacityRespected, Filled
  <2>3. CASE r = s
    <3>1. len \in Nat /\ Padding \in Nat
      BY RegistryAssumption
    <3> QED
      BY <2>1, <2>2, <2>3, <3>1 DEF Filled
  <2>4. CASE r # s
    <3>1. docs'[r] = docs[r] /\ docs[r].occupied
      BY <2>1, <2>4
    <3>2. docs[r].owner.slot \in Slots
      BY <3>1, OwnerOccupied
    <3> QED
      BY <2>2, <3>1, <3>2 DEF CapacityRespected, Filled
  <2> QED
    BY <2>3, <2>4
<1>6. ASSUME NEW h \in Handle, NEW len \in InputLengths, Parse(h, len)
      PROVE  CapacityRespected'
  BY <1>4, <1>5, <1>6 DEF Parse, ParseFails, ParseAbandoned
<1>7. CASE UNCHANGED vars
  BY <1>7, CapacityFrame DEF vars
<1> QED
  BY <1>1, <1>2, <1>3, <1>6, <1>7 DEF Next, RefusedCall

\* No live document is larger than its parser's configured capacity allows.
THEOREM CapacityRespectedCorrect == Spec => []CapacityRespected
BY TypeCorrect, BusyMatchesDocCorrect, CapacityInit, CapacityNext, PTL DEF Spec

-----------------------------------------------------------------------------
(* Input buffers *)

\* Every live document holds a buffer.
DocsFilled == \A s \in Slots : docs[s].occupied => docs[s].input # 0

LEMMA DocsFilledNext == TypeOK /\ DocsFilled /\ [Next]_vars => DocsFilled'
<1> SUFFICES ASSUME TypeOK, DocsFilled, [Next]_vars PROVE DocsFilled'
  OBVIOUS
<1>1. ASSUME \A s \in Slots : docs'[s].occupied => docs'[s] = docs[s]
      PROVE  DocsFilled'
  BY <1>1 DEF DocsFilled
<1>2. ASSUME NEW h \in Handle, DocFree(h)
      PROVE  DocsFilled'
  BY <1>1, <1>2 DEF DocFree, RetiredDoc, VacantDoc, TypeOK, Handle
<1>3. ASSUME NEW h \in Handle, NEW len \in InputLengths, NEW nd \in NativeDocs,
             NEW s \in Slots, ParseSucceeds(h, len, nd, s)
      PROVE  DocsFilled'
  <2>1. docs'[s].input = Filled(len) /\ \A r \in Slots : r # s => docs'[r] = docs[r]
    BY <1>3 DEF ParseSucceeds, TypeOK
  <2> QED
    BY <2>1, FilledType DEF DocsFilled
<1>4. ASSUME docs' = docs
      PROVE  DocsFilled'
  BY <1>1, <1>4
<1>5. ASSUME NEW t \in Threads, CreateParser(t)
      PROVE  DocsFilled'
  BY <1>4, <1>5 DEF CreateParser, NativeParserNew, RegisterParser, RegisterParserFails
<1>6. ASSUME NEW h \in Handle, NEW len \in InputLengths, Parse(h, len)
      PROVE  DocsFilled'
  BY <1>3, <1>4, <1>6 DEF Parse, ParseFails, ParseAbandoned
<1> QED
  BY <1>2, <1>4, <1>5, <1>6 DEF Next, RefusedCall, ParserFree, vars

\* The grown input buffer of a living parser is in the parser or in its document.
THEOREM ArenaSurvivesCorrect == Spec => ArenaSurvives
<1> DEFINE Kept(s) ==
      /\ parsers[s].occupied /\ parsers'[s].occupied
      /\ parsers[s].arena # 0 \/ parsers[s].busy # Idle
      => \/ parsers'[s].arena # 0
         \/ parsers'[s].busy # Idle /\ docs'[parsers'[s].busy.slot].input # 0
    Inv == TypeOK /\ BusyMatchesDoc /\ DocsFilled
<1>1. ASSUME Inv, Inv', [Next]_vars, NEW s \in Slots,
             parsers[s].occupied, parsers'[s].occupied,
             parsers[s].arena # 0 \/ parsers[s].busy # Idle
      PROVE  \/ parsers'[s].arena # 0
             \/ parsers'[s].busy # Idle /\ docs'[parsers'[s].busy.slot].input # 0
  <2>1. CASE parsers'[s].busy # Idle
    <3>1. docs'[parsers'[s].busy.slot].occupied /\ parsers'[s].busy.slot \in Slots
      BY <1>1, <2>1 DEF TypeOK, ParserSlot, BusyMatchesDoc, BusyParserHasItsDoc, Resolves, Handle
    <3> QED
      BY <1>1, <2>1, <3>1 DEF DocsFilled
  <2>2. CASE parsers'[s].busy = Idle
    <3>1. ASSUME parsers'[s] = parsers[s]
          PROVE  parsers'[s].arena # 0
      BY <1>1, <2>2, <3>1
    <3>2. ASSUME NEW t \in Threads, CreateParser(t)
          PROVE  parsers'[s].arena # 0
      BY <1>1, <3>1, <3>2
      DEF CreateParser, NativeParserNew, RegisterParser, RegisterParserFails, FirstVacant, TypeOK
    <3>3. ASSUME NEW h \in Handle, ParserFree(h)
          PROVE  parsers'[s].arena # 0
      <4>1. s # h.slot
        BY <1>1, <3>3 DEF ParserFree, VacantParser, TypeOK
      <4> QED
        BY <1>1, <3>1, <3>3, <4>1 DEF ParserFree, TypeOK
    <3>4. ASSUME NEW h \in Handle, DocFree(h)
          PROVE  parsers'[s].arena # 0
      <4> DEFINE o == docs[h.slot].owner.slot
      <4>1. /\ docs[h.slot].occupied /\ h.slot \in Slots
            /\ parsers' = ReleaseParser(o, docs[h.slot].input)
        BY <3>4 DEF DocFree, Resolves, Handle
      <4>2. docs[h.slot].input # 0
        BY <1>1, <4>1 DEF DocsFilled
      <4>3. CASE s = o
        <5>1. s \in DOMAIN parsers
          BY <1>1 DEF TypeOK
        <5>2. parsers[s] \in ParserSlot
          BY <1>1 DEF TypeOK
        <5>3. parsers'[s].arena = docs[h.slot].input
          BY <4>1, <4>3, <5>1, <5>2 DEF ReleaseParser, ParserSlot
        <5> QED
          BY <4>2, <5>3
      <4>4. CASE s # o
        BY <1>1, <3>1, <4>1, <4>4 DEF ReleaseParser, TypeOK
      <4> QED
        BY <4>3, <4>4
    <3>5. ASSUME NEW h \in Handle, NEW len \in InputLengths,
                 parsers' = RestoreInput(h.slot, len)
          PROVE  parsers'[s].arena # 0
      <4>1. CASE s = h.slot
        BY <1>1, <3>5, <4>1, FilledType DEF RestoreInput, TypeOK, ParserSlot
      <4>2. CASE s # h.slot
        BY <1>1, <3>1, <3>5, <4>2 DEF RestoreInput, TypeOK
      <4> QED
        BY <4>1, <4>2
    <3>6. ASSUME NEW h \in Handle, NEW len \in InputLengths, NEW nd \in NativeDocs,
                 NEW r \in Slots, ParseSucceeds(h, len, nd, r)
          PROVE  parsers'[s].arena # 0
      <4>1. s # h.slot
        <5>1. [slot |-> r, generation |-> docs[r].generation] # Idle
          BY DEF Idle, Slots
        <5>2. s = h.slot => parsers'[s].busy = [slot |-> r, generation |-> docs[r].generation]
          BY <1>1, <3>6 DEF ParseSucceeds, TypeOK, ParserSlot
        <5> QED
          BY <2>2, <5>1, <5>2
      <4> QED
        BY <1>1, <3>1, <3>6, <4>1 DEF ParseSucceeds, TypeOK
    <3>7. ASSUME NEW h \in Handle, NEW len \in InputLengths, Parse(h, len)
          PROVE  parsers'[s].arena # 0
      BY <3>5, <3>6, <3>7 DEF Parse, ParseFails, ParseAbandoned
    <3>8. CASE UNCHANGED vars
      BY <3>1, <3>8 DEF vars
    <3> QED
      BY <1>1, <3>2, <3>3, <3>4, <3>7, <3>8 DEF Next, RefusedCall
  <2> QED
    BY <2>1, <2>2
<1>2. Inv /\ Inv' /\ [Next]_vars => [\A s \in Slots : Kept(s)]_vars
  BY <1>1
<1>3. Init => DocsFilled
  BY DEF Init, DocsFilled, VacantDoc
<1>4. Spec => [](TypeOK /\ BusyMatchesDoc /\ DocsFilled)
  <2>1. Spec => []DocsFilled
    BY <1>3, DocsFilledNext, TypeCorrect, PTL DEF Spec
  <2> QED
    BY <2>1, TypeCorrect, BusyMatchesDocCorrect, PTL
<1> QED
  BY <1>2, <1>4, PTL DEF Spec, ArenaSurvives

-----------------------------------------------------------------------------
(* The registry implements DocumentLifecycle *)

LEMMA LifecycleInit == Init => Lifecycle!Init
<1> SUFFICES ASSUME Init PROVE Lifecycle!Init
  OBVIOUS
<1>1. LiveParsers = {} /\ Held = {}
  BY DEF Init, LiveParsers, Held, VacantParser, VacantDoc
<1>2. Spent(parserHandles) = {} /\ Spent(docHandles) = {}
  <2>1. \A s \in Slots : Len(parserHandles[s]) = 0 /\ Len(docHandles[s]) = 0
    BY DEF Init
  <2> QED
    BY <2>1, RegistryAssumption DEF Spent, Ids
<1> QED
  BY <1>1, <1>2 DEF Lifecycle!Init

\* A step that keeps the histories, the occupied slots and the documents' owners is
\* not visible to the lifecycle.
LEMMA Stutter ==
  ASSUME UNCHANGED <<docs, parserHandles, docHandles>>,
         \A s \in Slots : parsers'[s].occupied = parsers[s].occupied
  PROVE  UNCHANGED Lifecycle!lifecycleVars
BY DEF Lifecycle!lifecycleVars, LiveParsers, Held, Current, Spent

\* One more use of slot s uses up one more identity.
UsedOnce(old, new, s) ==
  /\ Len(old[s]) \in Nat /\ Len(old[s]) < MaxUses
  /\ Len(new[s]) = Len(old[s]) + 1
  /\ \A r \in Slots : r # s => new[r] = old[r]

IdentityTaken(old, new, s) ==
  /\ Current(new, s) \in Ids /\ Current(new, s) \notin Spent(old)
  /\ Spent(new) = Spent(old) \cup {Current(new, s)}
  /\ \A r \in Slots : r # s => Current(new, r) = Current(old, r)

LEMMA OneMoreSpent ==
  ASSUME NEW old, NEW new, NEW s \in Slots, UsedOnce(old, new, s)
  PROVE  IdentityTaken(old, new, s)
<1> USE DEF UsedOnce
<1>1. MaxUses \in Nat
  BY RegistryAssumption
<1>2. Current(new, s) = <<s, Len(old[s]) + 1>>
  BY DEF Current
<1>3. Current(new, s) \in Ids /\ Current(new, s) \notin Spent(old)
  BY <1>1, <1>2 DEF Ids, Spent
<1>4. ASSUME NEW r \in Slots, NEW k \in 1 .. MaxUses
      PROVE  k <= Len(new[r]) <=> k <= Len(old[r]) \/ <<r, k>> = <<s, Len(old[s]) + 1>>
  BY <1>1
<1>5. Spent(new) = Spent(old) \cup {Current(new, s)}
  BY <1>2, <1>3, <1>4 DEF Spent, Ids
<1> QED
  BY <1>3, <1>5 DEF Current, IdentityTaken

\* RegisterParser is NewParser.
LEMMA RegisterStep ==
  ASSUME TypeOK, BusyMatchesDoc, HandleInv,
         NEW t \in Threads, NEW s \in Slots, RegisterParser(t, s)
  PROVE  \E p \in Ids : Lifecycle!NewParser(p)
<1>1. /\ ~parsers[s].occupied /\ parsers'[s].occupied
      /\ \A r \in Slots : r # s => parsers'[r] = parsers[r]
      /\ parserHandles'[s] = Append(parserHandles[s], parsers[s].generation)
      /\ \A r \in Slots : r # s => parserHandles'[r] = parserHandles[r]
      /\ docs' = docs /\ docHandles' = docHandles
      /\ Len(parserHandles[s]) < MaxUses /\ Len(parserHandles[s]) \in Nat
  BY DEF RegisterParser, FirstVacant, TypeOK
<1>2. Len(parserHandles'[s]) = Len(parserHandles[s]) + 1
  BY <1>1 DEF TypeOK, ParserSlot
<1> DEFINE p == Current(parserHandles', s)
<1>3. /\ p \in Ids /\ p \notin Spent(parserHandles)
      /\ Spent(parserHandles') = Spent(parserHandles) \cup {p}
      /\ \A r \in Slots : r # s => Current(parserHandles', r) = Current(parserHandles, r)
  <2>1. UsedOnce(parserHandles, parserHandles', s)
    BY <1>1, <1>2 DEF UsedOnce
  <2>2. IdentityTaken(parserHandles, parserHandles', s)
    BY <2>1, OneMoreSpent
  <2> QED
    BY <2>2 DEF IdentityTaken
<1> HIDE DEF p
<1>4. LiveParsers' = LiveParsers \cup {p}
  BY <1>1, <1>3 DEF LiveParsers, p
<1>5. Held' = Held
  <2>1. \A r \in Slots : docs[r].occupied =>
          docs[r].owner.slot \in Slots /\ docs[r].owner.slot # s
    BY <1>1, OwnerOccupied
  <2>2. \A r \in Slots : docs[r].occupied =>
          Current(parserHandles', docs[r].owner.slot) = Current(parserHandles, docs[r].owner.slot)
    BY <1>3, <2>1
  <2> QED
    BY <1>1, <2>2 DEF Held
<1>6. Spent(docHandles') = Spent(docHandles)
  BY <1>1
<1>7. Lifecycle!NewParser(p)
  BY <1>3, <1>4, <1>5, <1>6 DEF Lifecycle!NewParser, Spent
<1> QED
  BY <1>3, <1>7

\* No two documents of the lifecycle share a parser or an identity.
LEMMA HeldFacts ==
  ASSUME TypeOK, BusyMatchesDoc, HandleInv, NEW s \in Slots
  PROVE  /\ ~parsers[s].occupied \/ parsers[s].busy = Idle
              => Lifecycle!Free(Current(parserHandles, s))
         /\ parsers[s].occupied => Current(parserHandles, s) \in LiveParsers \cap Ids
         /\ docs[s].occupied =>
              /\ Current(docHandles, s) \in Ids
              /\ Current(parserHandles, docs[s].owner.slot) \in Ids
<1>1. \A r \in Slots : parsers[r].occupied => Current(parserHandles, r) \in Ids
  BY RegistryAssumption DEF HandleInv, UsesCounted, Current, Ids
<1>2. docs[s].occupied =>
        /\ Current(docHandles, s) \in Ids
        /\ Current(parserHandles, docs[s].owner.slot) \in Ids
  BY <1>1, OwnerOccupied, RegistryAssumption DEF HandleInv, UsesCounted, Current, Ids
<1>3. ASSUME ~parsers[s].occupied \/ parsers[s].busy = Idle
      PROVE  Lifecycle!Free(Current(parserHandles, s))
  <2> SUFFICES ASSUME NEW r \in Slots, docs[r].occupied
               PROVE  Current(parserHandles, docs[r].owner.slot) # Current(parserHandles, s)
    BY DEF Lifecycle!Free, Held
  <2>1. docs[r].owner.slot # s
    BY <1>3, OwnerOccupied
  <2> QED
    BY <2>1 DEF Current
<1> QED
  BY <1>1, <1>2, <1>3 DEF LiveParsers

\* ParserFree is FreeParser.
LEMMA FreeStep ==
  ASSUME TypeOK, BusyMatchesDoc, HandleInv, NEW h \in Handle, ParserFree(h)
  PROVE  \E p \in Ids : Lifecycle!FreeParser(p)
<1> DEFINE p == Current(parserHandles, h.slot)
<1>1. /\ h.slot \in Slots /\ parsers[h.slot].occupied /\ parsers[h.slot].busy = Idle
      /\ ~parsers'[h.slot].occupied
      /\ \A r \in Slots : r # h.slot => parsers'[r] = parsers[r]
      /\ UNCHANGED <<docs, parserHandles, docHandles>>
  BY DEF ParserFree, Resolves, MayFree, VacantParser, TypeOK, Handle
<1>2. p \in LiveParsers /\ p \in Ids /\ Lifecycle!Free(p)
  BY <1>1, HeldFacts
<1>3. \A r \in Slots : r # h.slot => Current(parserHandles, r) # p
  BY DEF Current
<1>4. LiveParsers' = LiveParsers \ {p}
  <2>1. \A r \in Slots : Current(parserHandles, r)' = Current(parserHandles, r)
    BY <1>1 DEF Current
  <2> HIDE DEF p
  <2>2. \A r \in Slots : parsers'[r].occupied <=> parsers[r].occupied /\ r # h.slot
    BY <1>1
  <2>3. Current(parserHandles, h.slot) = p
    BY DEF p
  <2> QED
    BY <1>1, <1>3, <2>1, <2>2, <2>3 DEF LiveParsers
<1>5. Held' = Held /\ Spent(parserHandles)' = Spent(parserHandles)
      /\ Spent(docHandles)' = Spent(docHandles)
  BY <1>1 DEF Held, Current, Spent
<1> HIDE DEF p
<1>6. Lifecycle!FreeParser(p)
  BY <1>2, <1>4, <1>5 DEF Lifecycle!FreeParser
<1> QED
  BY <1>2, <1>6

\* DocFree is FreeDoc.
LEMMA DocFreeStep ==
  ASSUME TypeOK, BusyMatchesDoc, HandleInv, NEW h \in Handle, DocFree(h)
  PROVE  \E p \in Ids, d \in Ids : Lifecycle!FreeDoc(p, d)
<1> DEFINE d == Current(docHandles, h.slot)
           p == Current(parserHandles, docs[h.slot].owner.slot)
           Pair(r) == <<Current(parserHandles, docs[r].owner.slot), Current(docHandles, r)>>
<1>1. /\ h.slot \in Slots /\ docs[h.slot].occupied /\ ~docs'[h.slot].occupied
      /\ \A r \in Slots : r # h.slot => docs'[r] = docs[r]
      /\ parserHandles' = parserHandles /\ docHandles' = docHandles
  BY DEF DocFree, Resolves, RetiredDoc, VacantDoc, TypeOK, Handle
<1>2. \A r \in Slots : parsers'[r].occupied = parsers[r].occupied
  BY ReleasedParsers DEF SameParsers
<1>3. p \in Ids /\ d \in Ids
  BY <1>1, HeldFacts
<1>4. Held = {Pair(r) : r \in {q \in Slots : docs[q].occupied}}
  BY DEF Held
<1>5. Held' = {Pair(r) : r \in {q \in Slots : docs[q].occupied} \ {h.slot}}
  BY <1>1 DEF Held, Current
<1>6. \A r \in Slots : Pair(r) = <<p, d>> => r = h.slot
  BY DEF Current
<1>7. Pair(h.slot) = <<p, d>>
  OBVIOUS
<1> HIDE DEF Pair, p, d
<1>8. <<p, d>> \in Held /\ Held' = Held \ {<<p, d>>}
  BY <1>1, <1>4, <1>5, <1>6, <1>7
<1>9. LiveParsers' = LiveParsers /\ Spent(parserHandles)' = Spent(parserHandles)
      /\ Spent(docHandles)' = Spent(docHandles)
  BY <1>1, <1>2 DEF LiveParsers, Current, Spent
<1>10. Lifecycle!FreeDoc(p, d)
  BY <1>8, <1>9 DEF Lifecycle!FreeDoc
<1> QED
  BY <1>3, <1>10

\* ParseSucceeds is Parse.
LEMMA ParseStep ==
  ASSUME TypeOK, BusyMatchesDoc, HandleInv, NEW h \in Handle, NEW len \in InputLengths,
         NEW nd \in NativeDocs, NEW s \in Slots, ParseSucceeds(h, len, nd, s)
  PROVE  \E p \in Ids, d \in Ids : Lifecycle!Parse(p, d)
<1> DEFINE p == Current(parserHandles, h.slot)
           d == Current(docHandles', s)
           Pair(r) == <<Current(parserHandles, docs[r].owner.slot), Current(docHandles, r)>>
<1>1. /\ h.slot \in Slots /\ parsers[h.slot].occupied /\ parsers[h.slot].busy = Idle
      /\ ~docs[s].occupied /\ docs'[s].occupied /\ docs'[s].owner = h
      /\ \A r \in Slots : r # s => docs'[r] = docs[r]
      /\ docHandles'[s] = Append(docHandles[s], docs[s].generation)
      /\ \A r \in Slots : r # s => docHandles'[r] = docHandles[r]
      /\ parserHandles' = parserHandles
      /\ Len(docHandles[s]) < MaxUses /\ Len(docHandles[s]) \in Nat
  BY DEF ParseSucceeds, MayParse, Resolves, FirstVacant, TypeOK, Handle
<1>2. \A r \in Slots : parsers'[r].occupied = parsers[r].occupied
  BY DEF ParseSucceeds, TypeOK, ParserSlot
<1>3. Len(docHandles'[s]) = Len(docHandles[s]) + 1
  BY <1>1 DEF TypeOK, DocSlot
<1>4. /\ d \in Ids /\ d \notin Spent(docHandles)
      /\ Spent(docHandles') = Spent(docHandles) \cup {d}
      /\ \A r \in Slots : r # s => Current(docHandles', r) = Current(docHandles, r)
  <2>1. UsedOnce(docHandles, docHandles', s)
    BY <1>1, <1>3 DEF UsedOnce
  <2>2. IdentityTaken(docHandles, docHandles', s)
    BY <2>1, OneMoreSpent
  <2> QED
    BY <2>2 DEF IdentityTaken
<1>5. p \in LiveParsers /\ p \in Ids /\ Lifecycle!Free(p)
  BY <1>1, HeldFacts
<1>6. Held = {Pair(r) : r \in {q \in Slots : docs[q].occupied}}
  BY DEF Held
<1>7. Held' = Held \cup {<<p, d>>}
  <2> DEFINE PairNext(r) == <<Current(parserHandles', docs'[r].owner.slot),
                              Current(docHandles', r)>>
  <2>1. Held' = {PairNext(r) : r \in {q \in Slots : docs'[q].occupied}}
    BY DEF Held
  <2>2. PairNext(s) = <<p, d>>
    BY <1>1
  <2>3. \A r \in Slots : r # s => PairNext(r) = Pair(r)
    BY <1>1, <1>4
  <2>4. \A r \in Slots : docs'[r].occupied <=> docs[r].occupied \/ r = s
    BY <1>1
  <2> HIDE DEF PairNext, Pair, p, d
  <2> QED
    BY <1>1, <1>6, <2>1, <2>2, <2>3, <2>4
<1>8. LiveParsers' = LiveParsers /\ Spent(parserHandles)' = Spent(parserHandles)
  BY <1>1, <1>2 DEF LiveParsers, Current, Spent
<1>9. Spent(docHandles)' = Spent(docHandles) \cup {d}
  BY <1>4 DEF Spent
<1> HIDE DEF p, d
<1>10. Lifecycle!Parse(p, d)
  BY <1>4, <1>5, <1>7, <1>8, <1>9 DEF Lifecycle!Parse
<1> QED
  BY <1>4, <1>5, <1>10

LEMMA LifecycleNext ==
  TypeOK /\ BusyMatchesDoc /\ HandleInv /\ [Next]_vars
    => [Lifecycle!Next]_(Lifecycle!lifecycleVars)
<1> SUFFICES ASSUME TypeOK, BusyMatchesDoc, HandleInv, [Next]_vars
             PROVE  Lifecycle!Next \/ UNCHANGED Lifecycle!lifecycleVars
  OBVIOUS
<1>1. ASSUME NEW t \in Threads, NEW s \in Slots, RegisterParser(t, s)
      PROVE  Lifecycle!Next
  BY <1>1, RegisterStep DEF Lifecycle!Next
<1>2. ASSUME NEW h \in Handle, ParserFree(h)
      PROVE  Lifecycle!Next
  BY <1>2, FreeStep DEF Lifecycle!Next
<1>3. ASSUME NEW h \in Handle, DocFree(h)
      PROVE  Lifecycle!Next
  BY <1>3, DocFreeStep DEF Lifecycle!Next
<1>4. ASSUME NEW h \in Handle, NEW len \in InputLengths, NEW nd \in NativeDocs,
             NEW s \in Slots, ParseSucceeds(h, len, nd, s)
      PROVE  Lifecycle!Next
  BY <1>4, ParseStep DEF Lifecycle!Next
<1>5. ASSUME NEW h \in Handle, NEW len \in InputLengths, parsers' = RestoreInput(h.slot, len),
             UNCHANGED <<docs, parserHandles, docHandles>>
      PROVE  UNCHANGED Lifecycle!lifecycleVars
  <2>1. \A s \in Slots : parsers'[s].occupied = parsers[s].occupied
    BY <1>5, RestoredParsers DEF SameParsers
  <2> QED
    BY <1>5, <2>1, Stutter
<1>6. ASSUME UNCHANGED <<parsers, docs, parserHandles, docHandles>>
      PROVE  UNCHANGED Lifecycle!lifecycleVars
  BY <1>6, Stutter
<1>7. ASSUME NEW t \in Threads, CreateParser(t)
      PROVE  Lifecycle!Next \/ UNCHANGED Lifecycle!lifecycleVars
  BY <1>1, <1>6, <1>7 DEF CreateParser, NativeParserNew, RegisterParserFails
<1>8. ASSUME NEW h \in Handle, NEW len \in InputLengths, Parse(h, len)
      PROVE  Lifecycle!Next \/ UNCHANGED Lifecycle!lifecycleVars
  BY <1>4, <1>5, <1>8 DEF Parse, ParseFails, ParseAbandoned
<1>9. CASE UNCHANGED vars
  BY <1>6, <1>9 DEF vars
<1> QED
  BY <1>2, <1>3, <1>6, <1>7, <1>8, <1>9 DEF Next, RefusedCall

\* For every number of slots, threads, addresses and generations the registry implements
\* the lifecycle: nothing that was released ever comes back.
THEOREM ImplementsLifecycleCorrect == Spec => ImplementsLifecycle
<1>1. Spec => [](TypeOK /\ BusyMatchesDoc /\ HandleInv)
  <2>1. Spec => []HandleInv
    BY TypeCorrect, HandleInit, HandleNext, PTL DEF Spec
  <2> QED
    BY <2>1, TypeCorrect, BusyMatchesDocCorrect, PTL
<1> QED
  BY <1>1, LifecycleInit, LifecycleNext, PTL DEF Spec, ImplementsLifecycle, Lifecycle!Spec

=============================================================================
