--------------------------- MODULE GoLifecycleProofs ---------------------------
(***************************************************************************)
(* Proofs about GoLifecycle, for any goroutines, parsers and documents and *)
(* any number of failures.                                                 *)
(***************************************************************************)
EXTENDS GoLifecycle, TLAPS

\* The native side: a parser holds one document, a document belongs to one parser.
HeldSound ==
  /\ liveParsers \subseteq spentParsers
  /\ \A p, d : <<p, d>> \in held => p \in liveParsers /\ d \in spentDocs
  /\ \A p, d, e : <<p, d>> \in held /\ <<p, e>> \in held => d = e
  /\ \A p, q, d : <<p, d>> \in held /\ <<q, d>> \in held => p = q

\* Nobody refers to what was never made.
Unmade ==
  /\ \A p \in Parsers \ spentParsers :
       parser[p] = UnmadeParser /\ p \notin userParsers /\ pool[p] = 0
  /\ \A d \in Docs \ spentDocs : doc[d].parser = NoParser
  /\ \A d \in Docs : doc[d].parser = NoParser => d \notin userDocs /\ ~doc[d].finalizer

\* The objects agree with the registry on who is live and who owns what.
OwnersAgree ==
  /\ \A p \in Parsers : parser[p].handle <=> p \in liveParsers
  /\ \A p \in Parsers, d \in Docs : <<p, d>> \in held => doc[d].parser \in {p, NoParser}
  /\ \A p \in Parsers : parser[p].liveDoc # NoDoc => doc[parser[p].liveDoc].parser = p

\* An object with a finalizer is live natively; one the program can use has its
\* finalizer unless it is closed; and a live parser without one has been abandoned
\* or is being finalized.
Watched ==
  /\ \A p \in Parsers : parser[p].finalizer => p \in liveParsers
  /\ \A d \in Docs : doc[d].finalizer => <<doc[d].parser, d>> \in held
  /\ \A p \in Parsers : p \in userParsers \/ pool[p] # 0 => parser[p].closed \/ parser[p].finalizer
  /\ \A d \in userDocs : doc[d].closed \/ doc[d].finalizer
  /\ \A p \in liveParsers :
       parser[p].finalizer \/ p \in abandoned \/ finalizing = [at |-> "free", parser |-> p, doc |-> NoDoc]

\* What a call in progress relies on.
Rooting(a) == <<a.parser, a.doc>> \in held /\ doc[a.doc].parser = NoParser
Reading(a) == <<a.parser, a.doc>> \in held /\ doc[a.doc].parser = a.parser
Clearing(a) ==
  /\ a.parser \in Parsers /\ a.doc \in spentDocs
  /\ doc[a.doc].parser = a.parser
  /\ <<a.parser, a.doc>> \notin held

\* A parser only its finalizer refers to.
Detached(p) ==
  /\ p \in Parsers /\ p \notin userParsers /\ pool[p] = 0 /\ p \in spentParsers
  /\ ~parser[p].finalizer
  /\ \A g \in Goroutines : pc[g].parser # p
  /\ \A d \in Docs : doc[d].parser = p => d \notin userDocs /\ ~doc[d].finalizer

RootsSound == \A g \in Goroutines : pc[g].at = "root" => Rooting(pc[g])
ReadsSound == \A g \in Goroutines : pc[g].at = "read" => Reading(pc[g])
ClearsSound ==
  /\ \A g \in Goroutines : pc[g].at = "clear" => Clearing(pc[g])
  /\ finalizing.at = "clear" => Clearing(finalizing)
FreeSound ==
  finalizing.at = "free" => finalizing.doc = NoDoc /\ Detached(finalizing.parser)
CallsSound == RootsSound /\ ReadsSound /\ ClearsSound /\ FreeSound

RootsApart ==
  \A g, h \in Goroutines :
    pc[g].at = "root" /\ pc[h].at = "root" /\ pc[g].doc = pc[h].doc => g = h

\* BusyAgrees, with the calls it speaks of named.
BeingCleared(d) ==
  \/ \E g \in Goroutines : pc[g].at = "clear" /\ pc[g].doc = d
  \/ finalizing.at = "clear" /\ finalizing.doc = d
BeingRooted(d) == \E g \in Goroutines : pc[g].at = "root" /\ pc[g].doc = d
BusyKept ==
  /\ \A p \in Parsers : parser[p].liveDoc # NoDoc =>
       <<p, parser[p].liveDoc>> \in held \/ BeingCleared(parser[p].liveDoc)
  /\ \A p \in Parsers, d \in Docs : <<p, d>> \in held =>
       parser[p].liveDoc = d \/ BeingRooted(d) \/ p \in abandoned

IInv ==
  /\ TypeOK /\ HeldSound /\ Unmade /\ OwnersAgree /\ Watched /\ CallsSound /\ RootsApart
  /\ BusyKept

LEMMA Initially == Init => IInv
<1> SUFFICES ASSUME Init
             PROVE  IInv
  OBVIOUS
<1> USE DEF Init, Native!Init
<1>1. /\ UnmadeParser \in ParserObject /\ UnmadeDoc \in DocObject
      /\ Idle \in Step({"idle", "root", "clear", "read"}) /\ Idle \in Step({"idle", "clear", "free"})
  BY GoAssumption DEF UnmadeParser, UnmadeDoc, ParserObject, DocObject, Idle, Step
<1>2. TypeOK
  BY <1>1, GoAssumption DEF TypeOK
<1>3. HeldSound /\ Unmade
  BY DEF HeldSound, Unmade, UnmadeDoc
<1>4. OwnersAgree /\ Watched
  BY DEF OwnersAgree, Watched, UnmadeDoc, UnmadeParser
<1>5. CallsSound /\ RootsApart
  BY DEF CallsSound, RootsSound, ReadsSound, ClearsSound, FreeSound, RootsApart, Idle
<1>6. BusyKept
  BY DEF BusyKept, UnmadeParser
<1> QED
  BY <1>2, <1>3, <1>4, <1>5, <1>6 DEF IInv

-----------------------------------------------------------------------------
(* Objects and references *)

\* The changes the code makes to a Parser and to a Doc.
LEMMA ParserChanges ==
  ASSUME NEW o \in ParserObject
  PROVE  /\ \A d \in Docs : ~o.closed => [o EXCEPT !.liveDoc = d] \in ParserObject
         /\ [o EXCEPT !.liveDoc = NoDoc] \in ParserObject
         /\ ~o.closed => [o EXCEPT !.finalizer = TRUE] \in ParserObject
         /\ [o EXCEPT !.finalizer = FALSE] \in ParserObject
         /\ o.liveDoc = NoDoc =>
              [o EXCEPT !.closed = TRUE, !.handle = FALSE, !.finalizer = FALSE] \in ParserObject
         /\ ~o.finalizer =>
              [o EXCEPT !.handle = FALSE, !.closed = (o.liveDoc = NoDoc)] \in ParserObject
<1> DEFINE Objects == [handle : BOOLEAN, closed : BOOLEAN, liveDoc : Docs \cup {NoDoc},
                       config : Configs, finalizer : BOOLEAN]
<1>1. o \in Objects /\ (o.closed => ~o.handle /\ o.liveDoc = NoDoc /\ ~o.finalizer)
  BY DEF ParserObject
<1>2. \A x \in Objects :
        (x.closed => ~x.handle /\ x.liveDoc = NoDoc /\ ~x.finalizer) => x \in ParserObject
  BY DEF ParserObject
<1> HIDE DEF Objects
<1>3. \A d \in Docs \cup {NoDoc} : [o EXCEPT !.liveDoc = d] \in Objects
  BY <1>1 DEF Objects
<1> QED
  BY <1>1, <1>2, <1>3 DEF Objects

LEMMA DocChanges ==
  ASSUME NEW o \in DocObject
  PROVE  /\ ~o.closed => [o EXCEPT !.finalizer = TRUE] \in DocObject
         /\ [o EXCEPT !.finalizer = FALSE] \in DocObject
         /\ [o EXCEPT !.closed = TRUE, !.handle = FALSE, !.finalizer = FALSE] \in DocObject
BY DEF DocObject

\* A reference is only ever passed on: what has one after the step had one before it.
LEMMA RefsKeep ==
  ASSUME IInv, UNCHANGED <<native, parser, doc, pc, finalizing, faults, history>>,
         userParsers' \subseteq Parsers, userDocs' \subseteq userDocs,
         pool' \in [Parsers -> 0 .. MaxPooled],
         \A p \in Parsers :
           p \in userParsers' \/ pool'[p] # 0 => p \in userParsers \/ pool[p] # 0
  PROVE  IInv'
<1> USE DEF IInv, native, history
<1>1. TypeOK'
  BY DEF TypeOK
<1>2. HeldSound' /\ OwnersAgree' /\ RootsApart' /\ BusyKept'
  BY DEF HeldSound, OwnersAgree, RootsApart, BusyKept, BeingCleared, BeingRooted
<1>3. Unmade'
  BY DEF Unmade
<1>4. Watched'
  BY DEF Watched
<1>5. CallsSound'
  BY DEF CallsSound, RootsSound, ReadsSound, ClearsSound, FreeSound, Rooting, Reading, Clearing, Detached
<1> QED
  BY <1>1, <1>2, <1>3, <1>4, <1>5

\* A failure and the histories leave every object and call as it is.
LEMMA CountsKeep ==
  ASSUME IInv, UNCHANGED <<native, parser, doc, pc, finalizing, refs>>,
         faults' \in 0 .. MaxFaults, closeReturned' \subseteq Docs,
         abandoned \subseteq abandoned', abandoned' \subseteq Parsers
  PROVE  IInv'
<1> USE DEF IInv, native, refs
<1>1. TypeOK'
  BY DEF TypeOK
<1>2. HeldSound' /\ Unmade' /\ OwnersAgree' /\ Watched'
  BY DEF HeldSound, Unmade, OwnersAgree, Watched
<1>3. CallsSound' /\ RootsApart' /\ BusyKept'
  BY DEF CallsSound, RootsSound, ReadsSound, ClearsSound, FreeSound, Rooting, Reading, Clearing,
         Detached, RootsApart, BusyKept, BeingCleared, BeingRooted
<1> QED
  BY <1>1, <1>2, <1>3

LEMMA RefActionsKeep ==
  ASSUME IInv,
         \/ \E p \in Parsers : Put(p) \/ Get(p) \/ Evict(p) \/ DropParser(p)
         \/ \E d \in Docs : DropDoc(d)
  PROVE  IInv'
<1> USE DEF native, history
<1>1. /\ userParsers \subseteq Parsers /\ userDocs \subseteq Docs
      /\ pool \in [Parsers -> 0 .. MaxPooled] /\ MaxPooled \in Nat
  BY GoAssumption DEF IInv, TypeOK
<1>2. ASSUME NEW p \in Parsers, Put(p)
      PROVE  IInv'
  BY <1>1, <1>2, RefsKeep DEF Put, Available
<1>3. ASSUME NEW p \in Parsers, Get(p) \/ Evict(p)
      PROVE  IInv'
  BY <1>1, <1>3, RefsKeep DEF Get, Evict
<1>4. ASSUME NEW p \in Parsers, DropParser(p)
      PROVE  IInv'
  BY <1>1, <1>4, RefsKeep DEF DropParser
<1>5. ASSUME NEW d \in Docs, DropDoc(d)
      PROVE  IInv'
  BY <1>1, <1>5, RefsKeep DEF DropDoc
<1> QED
  BY <1>2, <1>3, <1>4, <1>5

-----------------------------------------------------------------------------
(* Making a parser *)

LEMMA NewParserKeeps ==
  ASSUME IInv, NEW p \in Parsers, NEW config \in Configs, NewParser(p, config)
  PROVE  IInv'
<1> USE DEF IInv, history
<1>1. /\ p \notin spentParsers
      /\ liveParsers' = liveParsers \cup {p} /\ spentParsers' = spentParsers \cup {p}
      /\ userParsers' = userParsers \cup {p}
      /\ UNCHANGED <<held, spentDocs, doc, pc, finalizing, userDocs, pool, faults, history>>
  BY DEF NewParser, Native!NewParser
<1>2. parser' = [parser EXCEPT ![p] = NewbornParser(config)]
  BY DEF NewParser
<1>3. \A q \in Parsers : parser'[q] = IF q = p THEN NewbornParser(config) ELSE parser[q]
  BY <1>2 DEF TypeOK
<1>4. /\ NewbornParser(config).liveDoc = NoDoc /\ NewbornParser(config).handle
      /\ NewbornParser(config).finalizer
  BY DEF NewbornParser
<1>5. TypeOK'
  <2>1. NewbornParser(config) \in ParserObject
    BY DEF NewbornParser, ParserObject
  <2> QED
    BY <1>1, <1>2, <2>1 DEF TypeOK
<1>6. HeldSound' /\ Unmade' /\ RootsApart'
  BY <1>1, <1>3 DEF HeldSound, Unmade, RootsApart
<1>7. OwnersAgree'
  BY <1>1, <1>3, <1>4 DEF HeldSound, OwnersAgree
<1>8. Watched'
  BY <1>1, <1>3, <1>4 DEF TypeOK, Watched
<1>9. CallsSound'
  BY <1>1, <1>3 DEF CallsSound, RootsSound, ReadsSound, ClearsSound, FreeSound, Rooting, Reading,
         Clearing, Detached
<1>10. BusyKept'
  BY <1>1, <1>3, <1>4 DEF HeldSound, BusyKept, BeingCleared, BeingRooted
<1> QED
  BY <1>5, <1>6, <1>7, <1>8, <1>9, <1>10

-----------------------------------------------------------------------------
(* Parser.Parse *)

LEMMA ParseNativeKeeps ==
  ASSUME IInv, NEW g \in Goroutines, NEW p \in Parsers, NEW d \in Docs, ParseNative(g, p, d)
  PROVE  IInv'
<1> DEFINE call == [at |-> "root", parser |-> p, doc |-> d]
<1> USE DEF IInv, refs, history
<1>1. /\ p \in liveParsers /\ d \notin spentDocs /\ \A e : <<p, e>> \notin held
      /\ held' = held \cup {<<p, d>>} /\ spentDocs' = spentDocs \cup {d}
      /\ UNCHANGED <<liveParsers, spentParsers, parser, doc, finalizing, refs, faults, history>>
  BY DEF ParseNative, Native!Parse, Native!Free
<1>2. pc' = [pc EXCEPT ![g] = call]
  BY DEF ParseNative
<1>3. p \in userParsers /\ pc[g] = Idle
  BY DEF ParseNative, Available
<1>4. \A h \in Goroutines : pc'[h] = IF h = g THEN call ELSE pc[h]
  BY <1>2 DEF TypeOK
<1>5. TypeOK'
  <2>1. call \in Step({"idle", "root", "clear", "read"})
    BY DEF Step
  <2> QED
    BY <1>1, <1>2, <2>1 DEF TypeOK
<1>6. HeldSound' /\ Unmade'
  BY <1>1 DEF HeldSound, Unmade
<1>7. OwnersAgree'
  BY <1>1 DEF OwnersAgree, Unmade
<1>8. Watched'
  BY <1>1 DEF Watched
<1>9. CallsSound'
  BY <1>1, <1>3, <1>4 DEF CallsSound, RootsSound, ReadsSound, ClearsSound, FreeSound, Rooting, Reading,
         Clearing, Detached, Unmade
<1>10. RootsApart'
  <2>1. \A h \in Goroutines : pc[h].at = "root" => pc[h].doc # d
    BY <1>1 DEF HeldSound, CallsSound, RootsSound, Rooting
  <2> QED
    BY <1>4, <2>1 DEF RootsApart
<1>11. BusyKept'
  BY <1>1, <1>3, <1>4 DEF BusyKept, BeingCleared, BeingRooted, Idle
<1> QED
  BY <1>5, <1>6, <1>7, <1>8, <1>9, <1>10, <1>11

LEMMA ParseReturnsKeeps ==
  ASSUME IInv, NEW g \in Goroutines, ParseReturns(g)
  PROVE  IInv'
<1> DEFINE p == pc[g].parser
           d == pc[g].doc
           made == [parser |-> p, handle |-> TRUE, closed |-> FALSE, finalizer |-> TRUE]
<1> USE DEF IInv, native, history
<1>1. pc[g].at = "root" /\ <<p, d>> \in held /\ doc[d].parser = NoParser
  BY DEF ParseReturns, CallsSound, RootsSound, Rooting
<1>2. p \in liveParsers /\ p \in Parsers /\ d \in Docs /\ d # NoDoc /\ d \in spentDocs
  BY <1>1, GoAssumption DEF TypeOK, HeldSound
<1>3. /\ doc' = [doc EXCEPT ![d] = made]
      /\ parser' = [parser EXCEPT ![p].liveDoc = d]
      /\ userDocs' = userDocs \cup {d}
      /\ pc' = [pc EXCEPT ![g] = Idle]
      /\ UNCHANGED <<native, finalizing, userParsers, pool, faults, history>>
  BY DEF ParseReturns
<1>4. /\ \A e \in Docs : doc'[e] = IF e = d THEN made ELSE doc[e]
      /\ \A h \in Goroutines : pc'[h] = IF h = g THEN Idle ELSE pc[h]
      /\ \A q \in Parsers : parser'[q] = IF q = p THEN [parser[p] EXCEPT !.liveDoc = d]
                                                  ELSE parser[q]
  BY <1>3 DEF TypeOK
<1>5. parser[p] \in ParserObject
  BY <1>2 DEF TypeOK
<1>6. \A q \in Parsers : /\ parser'[q].handle = parser[q].handle
                         /\ parser'[q].closed = parser[q].closed
                         /\ parser'[q].finalizer = parser[q].finalizer
                         /\ parser'[q].liveDoc = IF q = p THEN d ELSE parser[q].liveDoc
  BY <1>4, <1>5 DEF ParserObject
<1> HIDE DEF p, d
<1>7. TypeOK'
  <2>1. made \in DocObject /\ Idle \in Step({"idle", "root", "clear", "read"})
    BY <1>2 DEF DocObject, Idle, Step
  <2>2. parser[p].handle /\ ~parser[p].closed
    BY <1>2, <1>5 DEF OwnersAgree, ParserObject
  <2>3. [parser[p] EXCEPT !.liveDoc = d] \in ParserObject
    BY <1>2, <1>5, <2>2, ParserChanges
  <2> QED
    BY <1>2, <1>3, <2>1, <2>3 DEF TypeOK
<1>8. HeldSound'
  BY <1>3 DEF HeldSound
<1>9. Unmade'
  BY <1>2, <1>3, <1>4, GoAssumption DEF HeldSound, Unmade
<1>10. OwnersAgree'
  <2>1. \A q \in Parsers : <<q, d>> \in held => q = p
    BY <1>1 DEF HeldSound, p, d
  <2> QED
    BY <1>1, <1>2, <1>3, <1>4, <1>6, <2>1, GoAssumption DEF OwnersAgree, TypeOK
<1>11. Watched'
  BY <1>1, <1>2, <1>3, <1>4, <1>6 DEF Watched, p, d
<1>12. CallsSound'
  <2>1. \A h \in Goroutines \ {g} : pc[h].at = "root" => pc[h].doc # d
    BY <1>1 DEF RootsApart, d
  <2>2. \A e \in Docs : doc[e].parser # NoParser => doc'[e] = doc[e]
    BY <1>1, <1>4
  <2>3. RootsSound'
    BY <1>3, <1>4, <2>1 DEF CallsSound, RootsSound, Rooting, Idle, TypeOK
  <2>4. ReadsSound'
    BY <1>3, <1>4, <2>2, GoAssumption DEF CallsSound, ReadsSound, Reading, Idle, TypeOK
  <2>5. ClearsSound'
    BY <1>3, <1>4, <2>2, GoAssumption DEF CallsSound, ClearsSound, Clearing, Idle, TypeOK
  <2>6. FreeSound'
    BY <1>3, <1>4, <1>6, GoAssumption DEF CallsSound, FreeSound, Detached, Idle, p
  <2> QED
    BY <2>3, <2>4, <2>5, <2>6 DEF CallsSound
<1>13. RootsApart'
  BY <1>4 DEF RootsApart, Idle
<1>14. BusyKept'
  BY <1>1, <1>2, <1>3, <1>4, <1>6 DEF BusyKept, BeingCleared, BeingRooted, HeldSound, Idle, p, d
<1> QED
  BY <1>7, <1>8, <1>9, <1>10, <1>11, <1>12, <1>13, <1>14

LEMMA ParseUndoneKeeps ==
  ASSUME IInv, NEW g \in Goroutines, ParseUndone(g)
  PROVE  IInv'
<1> DEFINE p == pc[g].parser
           d == pc[g].doc
<1> USE DEF IInv, refs, history
<1>1. /\ pc[g].at = "root" /\ <<p, d>> \in held /\ doc[d].parser = NoParser
      /\ held' = held \ {<<p, d>>} /\ pc' = [pc EXCEPT ![g] = Idle]
      /\ UNCHANGED <<liveParsers, spentParsers, spentDocs, parser, doc, finalizing, refs,
                     faults, history>>
  BY DEF ParseUndone, Native!FreeDoc, CallsSound, RootsSound, Rooting
<1>2. \A h \in Goroutines : pc'[h] = IF h = g THEN Idle ELSE pc[h]
  BY <1>1 DEF TypeOK
<1>3. \A q, e : <<q, e>> \in held' <=> <<q, e>> \in held /\ e # d
  BY <1>1 DEF HeldSound
<1> HIDE DEF p, d
<1>4. TypeOK'
  <2>1. Idle \in Step({"idle", "root", "clear", "read"})
    BY DEF Idle, Step
  <2> QED
    BY <1>1, <2>1 DEF TypeOK
<1>5. HeldSound' /\ Unmade' /\ OwnersAgree'
  BY <1>1 DEF HeldSound, Unmade, OwnersAgree
<1>6. Watched'
  BY <1>1, <1>3 DEF Watched, Unmade
<1>7. RootsApart'
  BY <1>2 DEF RootsApart, Idle
<1>8. CallsSound'
  <2>1. RootsSound'
    BY <1>1, <1>2, <1>3 DEF CallsSound, RootsSound, Rooting, RootsApart, Idle, d
  <2>2. ReadsSound'
    BY <1>1, <1>2, <1>3, GoAssumption DEF CallsSound, ReadsSound, Reading, Idle, TypeOK, HeldSound
  <2>3. ClearsSound'
    BY <1>1, <1>2 DEF CallsSound, ClearsSound, Clearing, Idle
  <2>4. FreeSound'
    BY <1>1, <1>2, GoAssumption DEF CallsSound, FreeSound, Detached, Idle
  <2> QED
    BY <2>1, <2>2, <2>3, <2>4 DEF CallsSound
<1>9. BusyKept'
  <2>1. \A q \in Parsers : parser[q].liveDoc # NoDoc => parser[q].liveDoc # d
    BY <1>1, GoAssumption DEF OwnersAgree
  <2> QED
    BY <1>1, <1>2, <1>3, <2>1 DEF BusyKept, BeingCleared, BeingRooted, Idle, d
<1> QED
  BY <1>4, <1>5, <1>6, <1>7, <1>8, <1>9

LEMMA ParseStrandsDocKeeps ==
  ASSUME IInv, NEW g \in Goroutines, ParseStrandsDoc(g)
  PROVE  IInv'
<1> USE DEF IInv, native, refs
<1>1. /\ pc[g].at = "root" /\ <<pc[g].parser, pc[g].doc>> \in held
      /\ pc' = [pc EXCEPT ![g] = Idle]
      /\ abandoned' = abandoned \cup {pc[g].parser}
      /\ UNCHANGED <<native, parser, doc, finalizing, refs, closeReturned>>
  BY DEF ParseStrandsDoc, CallsSound, RootsSound, Rooting
<1>2. \A h \in Goroutines : pc'[h] = IF h = g THEN Idle ELSE pc[h]
  BY <1>1 DEF TypeOK
<1>3. TypeOK'
  <2>1. Idle \in Step({"idle", "root", "clear", "read"})
    BY DEF Idle, Step
  <2>2. faults' \in 0 .. MaxFaults
    BY GoAssumption DEF ParseStrandsDoc, Fault, TypeOK
  <2> QED
    BY <1>1, <2>1, <2>2 DEF TypeOK
<1>4. HeldSound' /\ Unmade' /\ OwnersAgree' /\ Watched'
  BY <1>1 DEF HeldSound, Unmade, OwnersAgree, Watched
<1>5. CallsSound'
  BY <1>1, <1>2, GoAssumption
  DEF CallsSound, RootsSound, ReadsSound, ClearsSound, FreeSound, Rooting, Reading, Clearing,
      Detached, Idle
<1>6. RootsApart'
  BY <1>2 DEF RootsApart, Idle
<1>7. BusyKept'
  BY <1>1, <1>2 DEF BusyKept, BeingCleared, BeingRooted, HeldSound, Idle
<1> QED
  BY <1>3, <1>4, <1>5, <1>6, <1>7

-----------------------------------------------------------------------------
(* Parser.Close *)

LEMMA CloseParserKeeps ==
  ASSUME IInv, NEW p \in Parsers, CloseParser(p)
  PROVE  IInv'
<1> USE DEF IInv, refs, history
<1>1. /\ p \in userParsers /\ p \in liveParsers /\ \A e : <<p, e>> \notin held
      /\ parser[p].liveDoc = NoDoc
      /\ liveParsers' = liveParsers \ {p}
      /\ parser' = [parser EXCEPT ![p] = ClosedParser(p)]
      /\ UNCHANGED <<held, spentParsers, spentDocs, doc, pc, finalizing, refs, faults, history>>
  BY DEF CloseParser, Available, Native!FreeParser, Native!Free
<1>2. \A q \in Parsers : parser'[q] = IF q = p THEN ClosedParser(p) ELSE parser[q]
  BY <1>1 DEF TypeOK
<1>3. ClosedParser(p) \in ParserObject
  BY <1>1, ParserChanges DEF ClosedParser, TypeOK
<1>4. /\ ClosedParser(p).closed /\ ~ClosedParser(p).handle /\ ~ClosedParser(p).finalizer
      /\ ClosedParser(p).liveDoc = NoDoc
  BY <1>1 DEF ClosedParser, TypeOK, ParserObject
<1>5. TypeOK'
  BY <1>1, <1>3 DEF TypeOK
<1>6. HeldSound' /\ Unmade' /\ RootsApart'
  BY <1>1, <1>2 DEF HeldSound, Unmade, RootsApart
<1>7. OwnersAgree'
  BY <1>1, <1>2, <1>4 DEF OwnersAgree
<1>8. Watched'
  BY <1>1, <1>2, <1>4 DEF Watched, TypeOK
<1>9. CallsSound'
  BY <1>1, <1>2
  DEF CallsSound, RootsSound, ReadsSound, ClearsSound, FreeSound, Rooting, Reading, Clearing,
      Detached
<1>10. BusyKept'
  BY <1>1, <1>2, <1>4 DEF BusyKept, BeingCleared, BeingRooted
<1> QED
  BY <1>5, <1>6, <1>7, <1>8, <1>9, <1>10

LEMMA CloseParserFailsKeeps ==
  ASSUME IInv, NEW p \in Parsers, CloseParserFails(p)
  PROVE  IInv'
<1> USE DEF IInv, native, refs, history
<1>1. /\ p \in userParsers /\ ~parser[p].closed
      /\ parser' = [parser EXCEPT ![p] = [@ EXCEPT !.finalizer = TRUE]]
      /\ UNCHANGED <<native, doc, pc, finalizing, refs, history>>
  BY DEF CloseParserFails, Available, AfterFailedClose
<1>2. parser[p].finalizer
  BY <1>1 DEF Watched
<1>3. parser[p] \in ParserObject /\ [parser[p] EXCEPT !.finalizer = TRUE] = parser[p]
  BY <1>2 DEF TypeOK, ParserObject
<1>4. parser' = parser
  BY <1>1, <1>3 DEF TypeOK
<1>5. faults' \in 0 .. MaxFaults
  BY GoAssumption DEF CloseParserFails, Fault, TypeOK
<1> QED
  BY <1>1, <1>4, <1>5, CountsKeep DEF TypeOK

-----------------------------------------------------------------------------
(* Doc.Close *)

LEMMA CloseDocFailsKeeps ==
  ASSUME IInv, NEW d \in Docs, CloseDocFails(d) \/ CloseDocAgain(d)
  PROVE  IInv'
<1> USE DEF IInv, native, refs, history
<1>1. CASE CloseDocFails(d)
  <2>1. /\ d \in userDocs /\ ~doc[d].closed
        /\ doc' = [doc EXCEPT ![d] = [@ EXCEPT !.finalizer = TRUE]]
        /\ UNCHANGED <<native, parser, pc, finalizing, refs, history>>
    BY <1>1 DEF CloseDocFails, OpenDoc, AfterFailedClose
  <2>2. doc[d].finalizer
    BY <2>1 DEF Watched
  <2>3. doc[d] \in DocObject /\ [doc[d] EXCEPT !.finalizer = TRUE] = doc[d]
    BY <2>2 DEF TypeOK, DocObject
  <2>4. doc' = doc
    BY <2>1, <2>3 DEF TypeOK
  <2>5. faults' \in 0 .. MaxFaults
    BY <1>1, GoAssumption DEF CloseDocFails, Fault, TypeOK
  <2> QED
    BY <2>1, <2>4, <2>5, CountsKeep DEF TypeOK
<1>2. CASE CloseDocAgain(d)
  BY <1>2, CountsKeep DEF CloseDocAgain, TypeOK
<1> QED
  BY <1>1, <1>2

\* Freeing an open document, by Close or by its finalizer: whoever does it is about
\* to clear the mark of its parser.
LEMMA FreedDocKeeps ==
  ASSUME IInv, NEW d \in Docs,
         <<doc[d].parser, d>> \in held, doc[d].finalizer, DocMuFree(d),
         held' = held \ {<<doc[d].parser, d>>},
         doc' = [doc EXCEPT ![d] = ClosedDoc(d)],
         UNCHANGED <<liveParsers, spentParsers, spentDocs, parser, refs, faults, history>>,
         TypeOK', BeingCleared(d)', ClearsSound', 
         \A g \in Goroutines :
           pc'[g] = pc[g] \/ (pc[g] = Idle /\ d \in userDocs /\ pc'[g].at = "clear" /\
                                                        pc'[g].parser = doc[d].parser),
         finalizing' = finalizing \/ (finalizing = Idle /\ finalizing'.at = "clear")
  PROVE  IInv'
<1> DEFINE p == doc[d].parser
<1> USE DEF IInv, refs, history
<1>1. p \in Parsers /\ doc[d] \in DocObject
  BY DEF TypeOK
<1>2. /\ ClosedDoc(d).parser = p /\ ClosedDoc(d).closed /\ ~ClosedDoc(d).finalizer
      /\ \A e \in Docs : doc'[e] = IF e = d THEN ClosedDoc(d) ELSE doc[e]
  BY <1>1 DEF ClosedDoc, TypeOK, DocObject
<1>3. \A q, e : <<q, e>> \in held' <=> <<q, e>> \in held /\ e # d
  BY DEF HeldSound
<1>4. HeldSound'
  BY DEF HeldSound
<1>5. Unmade' /\ OwnersAgree'
  BY <1>1, <1>2, GoAssumption DEF Unmade, OwnersAgree, TypeOK
<1>6. Watched'
  BY <1>2, <1>3 DEF Watched, TypeOK, Idle
<1>7. RootsApart'
  BY DEF RootsApart
<1>8. RootsSound'
  BY <1>2, <1>3, <1>1, GoAssumption DEF CallsSound, RootsSound, Rooting, TypeOK
<1>9. ReadsSound'
  BY <1>2, <1>3 DEF CallsSound, ReadsSound, Reading, TypeOK, DocMuFree
<1>10. FreeSound'
  BY <1>2 DEF CallsSound, FreeSound, Detached
<1>11. BusyKept'
  BY <1>3 DEF BusyKept, BeingCleared, BeingRooted, Idle
<1> QED
  BY <1>4, <1>5, <1>6, <1>7, <1>8, <1>9, <1>10, <1>11 DEF CallsSound

LEMMA CloseDocKeeps ==
  ASSUME IInv, NEW g \in Goroutines, NEW d \in Docs, CloseDoc(g, d)
  PROVE  IInv'
<1> DEFINE p == doc[d].parser
           call == [at |-> "clear", parser |-> p, doc |-> d]
<1>1. /\ pc[g] = Idle /\ d \in userDocs /\ DocMuFree(d) /\ ~doc[d].closed
      /\ <<p, d>> \in held /\ held' = held \ {<<p, d>>}
      /\ doc' = [doc EXCEPT ![d] = ClosedDoc(d)]
      /\ pc' = [pc EXCEPT ![g] = call]
      /\ UNCHANGED <<liveParsers, spentParsers, spentDocs, parser, finalizing, refs, faults,
                     history>>
  BY DEF CloseDoc, OpenDoc, Native!FreeDoc
<1>2. doc[d].finalizer
  BY <1>1 DEF IInv, Watched
<1>3. \A h \in Goroutines : pc'[h] = IF h = g THEN call ELSE pc[h]
  BY <1>1 DEF IInv, TypeOK
<1>4. TypeOK'
  <2>1. ClosedDoc(d) \in DocObject
    BY DocChanges DEF ClosedDoc, IInv, TypeOK
  <2>2. call \in Step({"idle", "root", "clear", "read"})
    BY DEF IInv, TypeOK, Step, DocObject
  <2> QED
    BY <1>1, <2>1, <2>2 DEF IInv, TypeOK, refs, history
<1>5. /\ doc'[d].parser = p
      /\ \A e \in Docs : e # d => doc'[e] = doc[e]
  BY <1>1 DEF ClosedDoc, IInv, TypeOK, DocObject
<1>6. ClearsSound'
  BY <1>1, <1>3, <1>5 DEF IInv, CallsSound, ClearsSound, Clearing, TypeOK, HeldSound
<1>7. BeingCleared(d)'
  BY <1>3 DEF BeingCleared
<1>8. \A h \in Goroutines :
        pc'[h] = pc[h] \/ (pc[h] = Idle /\ d \in userDocs /\ pc'[h].at = "clear" /\
                                                     pc'[h].parser = p)
  BY <1>1, <1>3
<1> QED
  BY <1>1, <1>2, <1>4, <1>6, <1>7, <1>8, FreedDocKeeps

LEMMA FinalizeDocKeeps ==
  ASSUME IInv, NEW d \in Docs, FinalizeDoc(d)
  PROVE  IInv'
<1> DEFINE p == doc[d].parser
           call == [at |-> "clear", parser |-> p, doc |-> d]
<1>1. /\ finalizing = Idle /\ doc[d].finalizer /\ d \notin ReachableDocs
      /\ <<p, d>> \in held /\ held' = held \ {<<p, d>>}
      /\ doc' = [doc EXCEPT ![d] = ClosedDoc(d)]
      /\ finalizing' = call
      /\ UNCHANGED <<liveParsers, spentParsers, spentDocs, parser, pc, refs, faults, history>>
  BY DEF FinalizeDoc, Collectable, Native!FreeDoc
<1>2. DocMuFree(d)
  BY <1>1 DEF DocMuFree, ReachableDocs
<1>3. TypeOK'
  <2>1. ClosedDoc(d) \in DocObject
    BY DocChanges DEF ClosedDoc, IInv, TypeOK
  <2>2. call \in Step({"idle", "clear", "free"})
    BY DEF IInv, TypeOK, Step, DocObject
  <2> QED
    BY <1>1, <2>1, <2>2 DEF IInv, TypeOK, refs, history
<1>4. /\ doc'[d].parser = p
      /\ \A e \in Docs : e # d => doc'[e] = doc[e]
  BY <1>1 DEF ClosedDoc, IInv, TypeOK, DocObject
<1>5. ClearsSound'
  BY <1>1, <1>4 DEF IInv, CallsSound, ClearsSound, Clearing, TypeOK, HeldSound
<1>6. BeingCleared(d)'
  BY <1>1 DEF BeingCleared
<1> QED
  BY <1>1, <1>2, <1>3, <1>5, <1>6, FreedDocKeeps

\* The second half, which clears the mark of the parser: a call that is clearing ends.
LEMMA ClearedKeeps ==
  ASSUME IInv, NEW p \in Parsers, NEW d \in Docs,
         doc[d].parser = p, <<p, d>> \notin held,
         parser' = [parser EXCEPT ![p] = Cleared(p, d)],
         UNCHANGED <<native, doc, refs, faults, abandoned>>,
         closeReturned' \subseteq Docs,
         pc' \in [Goroutines -> Step({"idle", "root", "clear", "read"})],
         finalizing' \in Step({"idle", "clear", "free"}),
         \A g \in Goroutines :
           pc'[g] = pc[g] \/ (pc[g].at = "clear" /\ pc[g].doc = d /\ pc'[g] = Idle),
         \/ finalizing' = finalizing
         \/ finalizing.at = "clear" /\ finalizing.doc = d /\ finalizing' = Idle
  PROVE  IInv'
<1> USE DEF IInv, native, refs
<1>1. parser[p] \in ParserObject /\ Cleared(p, d) \in ParserObject
  BY ParserChanges DEF Cleared, TypeOK
<1>2. \A q \in Parsers :
        /\ parser'[q].handle = parser[q].handle /\ parser'[q].closed = parser[q].closed
        /\ parser'[q].finalizer = parser[q].finalizer
        /\ parser'[q].liveDoc = IF q = p /\ parser[q].liveDoc = d THEN NoDoc ELSE parser[q].liveDoc
  BY <1>1 DEF Cleared, TypeOK, ParserObject
<1>3. TypeOK'
  BY <1>1 DEF TypeOK
<1>4. HeldSound' /\ RootsApart'
  BY DEF HeldSound, RootsApart, Idle
<1>5. Unmade'
  <2>1. \A q \in Parsers \ spentParsers : parser'[q] = parser[q]
    BY GoAssumption DEF Unmade, UnmadeParser, Cleared, TypeOK
  <2> QED
    BY <2>1 DEF Unmade
<1>6. OwnersAgree' /\ Watched'
  BY <1>2 DEF OwnersAgree, Watched, TypeOK, Idle
<1>7. CallsSound'
  <2>1. RootsSound' /\ ReadsSound' /\ ClearsSound'
    BY DEF CallsSound, RootsSound, ReadsSound, ClearsSound, Rooting, Reading, Clearing, Idle
  <2>2. FreeSound'
    BY <1>2, GoAssumption DEF CallsSound, FreeSound, Detached, Idle
  <2> QED
    BY <2>1, <2>2 DEF CallsSound
<1>8. BusyKept'
  <2>1. \A q \in Parsers : parser'[q].liveDoc # NoDoc =>
          parser'[q].liveDoc = parser[q].liveDoc /\ parser[q].liveDoc # d
    BY <1>2 DEF OwnersAgree
  <2>2. \A e : e # d /\ BeingCleared(e) => BeingCleared(e)'
    BY DEF BeingCleared
  <2>3. \A e : BeingRooted(e) => BeingRooted(e)'
    BY DEF BeingRooted
  <2> QED
    BY <1>2, <2>1, <2>2, <2>3 DEF BusyKept
<1> QED
  BY <1>3, <1>4, <1>5, <1>6, <1>7, <1>8

LEMMA CloseDocReturnsKeeps ==
  ASSUME IInv, NEW g \in Goroutines, CloseDocReturns(g)
  PROVE  IInv'
<1>1. Clearing(pc[g])
  BY DEF CloseDocReturns, IInv, CallsSound, ClearsSound
<1>2. pc[g].parser \in Parsers /\ pc[g].doc \in Docs
  BY <1>1 DEF Clearing, IInv, TypeOK
<1>3. Idle \in Step({"idle", "root", "clear", "read"})
  BY DEF Idle, Step
<1> QED
  BY <1>1, <1>2, <1>3, ClearedKeeps
  DEF CloseDocReturns, Clearing, IInv, TypeOK

LEMMA FinalizeDocReturnsKeeps ==
  ASSUME IInv, FinalizeDocReturns
  PROVE  IInv'
<1>1. Clearing(finalizing)
  BY DEF FinalizeDocReturns, IInv, CallsSound, ClearsSound
<1>2. finalizing.parser \in Parsers /\ finalizing.doc \in Docs
  BY <1>1 DEF Clearing, IInv, TypeOK
<1>3. Idle \in Step({"idle", "clear", "free"})
  BY DEF Idle, Step
<1> QED
  BY <1>1, <1>2, <1>3, ClearedKeeps
  DEF FinalizeDocReturns, Clearing, IInv, TypeOK, history

-----------------------------------------------------------------------------
(* Reading borrowed frames *)

LEMMA BeginReadKeeps ==
  ASSUME IInv, NEW g \in Goroutines, NEW d \in Docs, BeginRead(g, d)
  PROVE  IInv'
<1> DEFINE call == [at |-> "read", parser |-> doc[d].parser, doc |-> d]
<1> USE DEF IInv, native, refs, history
<1>1. /\ pc[g] = Idle /\ d \in userDocs /\ <<doc[d].parser, d>> \in held
      /\ pc' = [pc EXCEPT ![g] = call]
      /\ UNCHANGED <<native, parser, doc, finalizing, refs, faults, history>>
  BY DEF BeginRead, OpenDoc
<1>2. \A h \in Goroutines : pc'[h] = IF h = g THEN call ELSE pc[h]
  BY <1>1 DEF TypeOK
<1>3. TypeOK'
  <2>1. call \in Step({"idle", "root", "clear", "read"})
    BY DEF TypeOK, Step, DocObject
  <2> QED
    BY <1>1, <2>1 DEF TypeOK
<1>4. HeldSound' /\ Unmade' /\ OwnersAgree' /\ Watched'
  BY <1>1 DEF HeldSound, Unmade, OwnersAgree, Watched
<1>5. CallsSound'
  BY <1>1, <1>2
  DEF CallsSound, RootsSound, ReadsSound, ClearsSound, FreeSound, Rooting, Reading, Clearing,
      Detached
<1>6. RootsApart'
  BY <1>2 DEF RootsApart
<1>7. BusyKept'
  <2>1. \A e : BeingCleared(e) => BeingCleared(e)'
    BY <1>1, <1>2 DEF BeingCleared, Idle
  <2>2. \A e : BeingRooted(e) => BeingRooted(e)'
    BY <1>1, <1>2 DEF BeingRooted, Idle
  <2> QED
    BY <1>1, <2>1, <2>2 DEF BusyKept
<1> QED
  BY <1>3, <1>4, <1>5, <1>6, <1>7

LEMMA EndReadKeeps ==
  ASSUME IInv, NEW g \in Goroutines, EndRead(g)
  PROVE  IInv'
<1> USE DEF IInv, native, refs, history
<1>1. /\ pc[g].at = "read" /\ pc' = [pc EXCEPT ![g] = Idle]
      /\ UNCHANGED <<native, parser, doc, finalizing, refs, faults, history>>
  BY DEF EndRead
<1>2. \A h \in Goroutines : pc'[h] = IF h = g THEN Idle ELSE pc[h]
  BY <1>1 DEF TypeOK
<1>3. TypeOK'
  <2>1. Idle \in Step({"idle", "root", "clear", "read"})
    BY DEF Idle, Step
  <2> QED
    BY <1>1, <2>1 DEF TypeOK
<1>4. HeldSound' /\ Unmade' /\ OwnersAgree' /\ Watched'
  BY <1>1 DEF HeldSound, Unmade, OwnersAgree, Watched
<1>5. CallsSound'
  BY <1>1, <1>2, GoAssumption
  DEF CallsSound, RootsSound, ReadsSound, ClearsSound, FreeSound, Rooting, Reading, Clearing,
      Detached, Idle
<1>6. RootsApart' /\ BusyKept'
  BY <1>1, <1>2 DEF RootsApart, BusyKept, BeingCleared, BeingRooted, Idle
<1> QED
  BY <1>3, <1>4, <1>5, <1>6

-----------------------------------------------------------------------------
(* Finalizers *)

LEMMA FinalizeDocFailsKeeps ==
  ASSUME IInv, NEW d \in Docs, FinalizeDocFails(d)
  PROVE  IInv'
<1> USE DEF IInv, native, refs, history
<1>1. /\ d \notin userDocs /\ doc' = [doc EXCEPT ![d].finalizer = FALSE]
      /\ UNCHANGED <<native, parser, pc, finalizing, refs, history>>
  BY DEF FinalizeDocFails, Collectable, ReachableDocs
<1>2. doc[d] \in DocObject
  BY DEF TypeOK
<1>3. \A e \in Docs : /\ doc'[e].parser = doc[e].parser /\ doc'[e].closed = doc[e].closed
                      /\ doc'[e].finalizer = (doc[e].finalizer /\ e # d)
  BY <1>1, <1>2 DEF TypeOK, DocObject
<1>4. TypeOK'
  <2>1. [doc[d] EXCEPT !.finalizer = FALSE] \in DocObject
    BY <1>2, DocChanges
  <2>2. faults' \in 0 .. MaxFaults
    BY GoAssumption DEF FinalizeDocFails, Fault, TypeOK
  <2> QED
    BY <1>1, <2>1, <2>2 DEF TypeOK
<1>5. HeldSound' /\ RootsApart' /\ BusyKept'
  BY <1>1 DEF HeldSound, RootsApart, BusyKept, BeingCleared, BeingRooted
<1>6. Unmade' /\ OwnersAgree' /\ Watched'
  BY <1>1, <1>3 DEF Unmade, OwnersAgree, Watched, TypeOK
<1>7. CallsSound'
  BY <1>1, <1>3
  DEF CallsSound, RootsSound, ReadsSound, ClearsSound, FreeSound, Rooting, Reading, Clearing,
      Detached, TypeOK, HeldSound
<1> QED
  BY <1>4, <1>5, <1>6, <1>7

\* No reference leads to the parser being finalized, and no call is at work on it.
LEMMA UnreachableDetached ==
  ASSUME IInv, NEW p \in Parsers, parser[p].finalizer, p \notin ReachableParsers
  PROVE  /\ p \notin userParsers /\ pool[p] = 0 /\ p \in spentParsers /\ p \in liveParsers
         /\ \A g \in Goroutines : pc[g].parser # p
         /\ \A d \in Docs : doc[d].parser = p => d \notin userDocs /\ ~doc[d].finalizer
<1>1. p \in liveParsers /\ p \in spentParsers
  BY DEF IInv, Watched, HeldSound
<1>2. p \notin userParsers /\ ~(pool[p] > 0) /\ \A g \in Goroutines : pc[g].parser # p
  BY DEF ReachableParsers, Agents
<1>3. \A d \in Docs : doc[d].parser = p => d \notin userDocs /\ ~doc[d].finalizer
  BY DEF ReachableParsers, ReachableDocs
<1>4. pool[p] \in Nat
  BY GoAssumption DEF IInv, TypeOK
<1> QED
  BY <1>1, <1>2, <1>3, <1>4

LEMMA FinalizeParserKeeps ==
  ASSUME IInv, NEW p \in Parsers, NEW docFreed \in BOOLEAN, FinalizeParser(p, docFreed)
  PROVE  IInv'
<1> DEFINE d == parser[p].liveDoc
           after == [parser[p] EXCEPT !.finalizer = FALSE,
                                      !.liveDoc = IF docFreed THEN NoDoc ELSE d]
           call == [at |-> "free", parser |-> p, doc |-> NoDoc]
<1> USE DEF IInv, refs, history
<1>1. /\ finalizing = Idle /\ parser[p].finalizer /\ p \notin ReachableParsers
      /\ UNCHANGED <<liveParsers, spentParsers, spentDocs, doc, pc, refs, history>>
  BY DEF FinalizeParser, Native!FreeDoc, native
<1>2. /\ parser' = [parser EXCEPT ![p] = after]
      /\ finalizing' = call
  BY DEF FinalizeParser
<1>3. IF docFreed THEN <<p, d>> \in held /\ held' = held \ {<<p, d>>} ELSE held' = held
  BY DEF FinalizeParser, Native!FreeDoc, native
<1>4. /\ p \notin userParsers /\ pool[p] = 0 /\ p \in spentParsers /\ p \in liveParsers
      /\ \A g \in Goroutines : pc[g].parser # p
      /\ \A e \in Docs : doc[e].parser = p => e \notin userDocs /\ ~doc[e].finalizer
  BY <1>1, UnreachableDetached
<1>5. parser[p] \in ParserObject
  BY DEF TypeOK
<1>6. after \in ParserObject
  BY <1>5 DEF ParserObject
<1>7. \A q \in Parsers :
        /\ parser'[q].handle = parser[q].handle /\ parser'[q].closed = parser[q].closed
        /\ parser'[q].finalizer = (parser[q].finalizer /\ q # p)
        /\ parser'[q].liveDoc = IF q = p /\ docFreed THEN NoDoc ELSE parser[q].liveDoc
  BY <1>2, <1>5 DEF TypeOK, ParserObject
<1>8. \A q, e : <<q, e>> \in held' <=> <<q, e>> \in held /\ ~(docFreed /\ q = p)
  BY <1>3 DEF HeldSound
<1> HIDE DEF d, after
<1>9. TypeOK'
  <2>1. call \in Step({"idle", "clear", "free"})
    BY DEF Step
  <2>2. faults' \in 0 .. MaxFaults
    BY GoAssumption DEF FinalizeParser, Fault, TypeOK
  <2>3. held' \subseteq Parsers \X Docs
    BY <1>3 DEF TypeOK
  <2> QED
    BY <1>1, <1>2, <1>6, <2>1, <2>2, <2>3 DEF TypeOK
<1>10. HeldSound' /\ RootsApart'
  BY <1>1, <1>8 DEF HeldSound, RootsApart
<1>11. Unmade'
  BY <1>1, <1>2, <1>4 DEF Unmade, TypeOK
<1>12. OwnersAgree'
  BY <1>1, <1>7, <1>8 DEF OwnersAgree
<1>13. Watched'
  BY <1>1, <1>2, <1>4, <1>7, <1>8 DEF Watched, Idle, TypeOK
<1>14. CallsSound'
  <2>1. RootsSound' /\ ReadsSound'
    BY <1>1, <1>4, <1>8 DEF CallsSound, RootsSound, ReadsSound, Rooting, Reading
  <2>2. ClearsSound'
    BY <1>1, <1>2, <1>8 DEF CallsSound, ClearsSound, Clearing
  <2>3. FreeSound'
    BY <1>1, <1>2, <1>4, <1>7 DEF FreeSound, Detached
  <2> QED
    BY <2>1, <2>2, <2>3 DEF CallsSound
<1>15. BusyKept'
  <2>1. \A e : BeingCleared(e) => BeingCleared(e)'
    BY <1>1 DEF BeingCleared, Idle
  <2>2. \A e : BeingRooted(e) => BeingRooted(e)'
    BY <1>1 DEF BeingRooted
  <2> QED
    BY <1>1, <1>7, <1>8, <2>1, <2>2 DEF BusyKept
<1> QED
  BY <1>9, <1>10, <1>11, <1>12, <1>13, <1>14, <1>15

LEMMA FinalizeParserReturnsKeeps ==
  ASSUME IInv, FinalizeParserReturns
  PROVE  IInv'
<1> DEFINE p == finalizing.parser
           after == [parser[p] EXCEPT !.handle = FALSE, !.closed = (parser[p].liveDoc = NoDoc)]
<1> USE DEF IInv, refs, history
<1>1. /\ finalizing.at = "free" /\ finalizing' = Idle
      /\ p \in liveParsers /\ \A e : <<p, e>> \notin held
      /\ liveParsers' = liveParsers \ {p}
      /\ UNCHANGED <<held, spentParsers, spentDocs, doc, pc, refs, faults, history>>
  BY DEF FinalizeParserReturns, Native!FreeParser, Native!Free
<1>2. parser' = [parser EXCEPT ![p] = after]
  BY DEF FinalizeParserReturns
<1>3. Detached(p)
  BY <1>1 DEF CallsSound, FreeSound
<1>4. parser[p] \in ParserObject /\ ~parser[p].finalizer /\ p \in Parsers
  BY <1>3 DEF TypeOK, Detached
<1>5. after \in ParserObject
  BY <1>4, ParserChanges
<1>6. \A q \in Parsers :
        /\ parser'[q].handle = (parser[q].handle /\ q # p)
        /\ q # p => parser'[q].closed = parser[q].closed
        /\ parser'[q].finalizer = parser[q].finalizer
        /\ parser'[q].liveDoc = parser[q].liveDoc
  BY <1>2, <1>4 DEF TypeOK, ParserObject
<1> HIDE DEF p, after
<1>7. TypeOK'
  <2>1. Idle \in Step({"idle", "clear", "free"})
    BY DEF Idle, Step
  <2> QED
    BY <1>1, <1>2, <1>5, <2>1 DEF TypeOK
<1>8. HeldSound' /\ RootsApart'
  BY <1>1 DEF HeldSound, RootsApart
<1>9. Unmade'
  BY <1>1, <1>2, <1>3 DEF Unmade, Detached, TypeOK
<1>10. OwnersAgree'
  BY <1>1, <1>6 DEF OwnersAgree
<1>11. Watched'
  BY <1>1, <1>3, <1>6 DEF Watched, Detached, TypeOK, p
<1>12. CallsSound'
  BY <1>1
  DEF CallsSound, RootsSound, ReadsSound, ClearsSound, FreeSound, Rooting, Reading, Clearing, Idle
<1>13. BusyKept'
  BY <1>1, <1>6 DEF BusyKept, BeingCleared, BeingRooted, Idle
<1> QED
  BY <1>7, <1>8, <1>9, <1>10, <1>11, <1>12, <1>13

LEMMA FinalizeParserFailsKeeps ==
  ASSUME IInv, FinalizeParserFails
  PROVE  IInv'
<1> USE DEF IInv, native, refs
<1>1. /\ finalizing.at = "free" /\ finalizing' = Idle
      /\ abandoned' = abandoned \cup {finalizing.parser}
      /\ UNCHANGED <<native, parser, doc, pc, refs, closeReturned>>
  BY DEF FinalizeParserFails
<1>2. Detached(finalizing.parser)
  BY <1>1 DEF CallsSound, FreeSound
<1>3. TypeOK'
  <2>1. Idle \in Step({"idle", "clear", "free"})
    BY DEF Idle, Step
  <2>2. faults' \in 0 .. MaxFaults
    BY GoAssumption DEF FinalizeParserFails, Fault, TypeOK
  <2> QED
    BY <1>1, <1>2, <2>1, <2>2 DEF TypeOK, Detached
<1>4. HeldSound' /\ Unmade' /\ OwnersAgree' /\ RootsApart'
  BY <1>1 DEF HeldSound, Unmade, OwnersAgree, RootsApart
<1>5. Watched'
  BY <1>1 DEF Watched
<1>6. CallsSound'
  BY <1>1
  DEF CallsSound, RootsSound, ReadsSound, ClearsSound, FreeSound, Rooting, Reading, Clearing, Idle
<1>7. BusyKept'
  BY <1>1 DEF BusyKept, BeingCleared, BeingRooted, Idle
<1> QED
  BY <1>3, <1>4, <1>5, <1>6, <1>7

-----------------------------------------------------------------------------
(* Results *)

LEMMA GoStep == IInv /\ [Next]_vars => IInv'
<1> SUFFICES ASSUME IInv, [Next]_vars
             PROVE  IInv'
  OBVIOUS
<1>1. CASE \E p \in Parsers, config \in Configs : NewParser(p, config)
  BY <1>1, NewParserKeeps
<1>2. CASE \E g \in Goroutines : Continue(g) \/ ParseUndone(g) \/ ParseStrandsDoc(g)
  BY <1>2, ParseReturnsKeeps, CloseDocReturnsKeeps, EndReadKeeps, ParseUndoneKeeps,
     ParseStrandsDocKeeps DEF Continue
<1>3. CASE \E g \in Goroutines, p \in Parsers, d \in Docs : ParseNative(g, p, d)
  BY <1>3, ParseNativeKeeps
<1>4. CASE \E g \in Goroutines, d \in Docs : CloseDoc(g, d) \/ BeginRead(g, d)
  BY <1>4, CloseDocKeeps, BeginReadKeeps
<1>5. CASE \E d \in Docs : CloseDocFails(d) \/ CloseDocAgain(d) \/ DropDoc(d)
  BY <1>5, CloseDocFailsKeeps, RefActionsKeep
<1>6. CASE \E p \in Parsers : CloseParser(p) \/ CloseParserFails(p)
  BY <1>6, CloseParserKeeps, CloseParserFailsKeeps
<1>7. CASE \E p \in Parsers : Put(p) \/ Get(p) \/ Evict(p) \/ DropParser(p)
  BY <1>7, RefActionsKeep
<1>8. CASE Finalize
  BY <1>8, FinalizeDocKeeps, FinalizeDocFailsKeeps, FinalizeParserKeeps,
     FinalizeDocReturnsKeeps, FinalizeParserReturnsKeeps, FinalizeParserFailsKeeps
  DEF Finalize
<1>9. CASE UNCHANGED vars
  <2>1. TypeOK
    BY DEF IInv
  <2> QED
    BY <1>9, <2>1, CountsKeep DEF vars, native, refs, history, TypeOK
<1> QED
  BY <1>1, <1>2, <1>3, <1>4, <1>5, <1>6, <1>7, <1>8, <1>9 DEF Next

LEMMA GoInvariant == Spec => []IInv
BY Initially, GoStep, PTL DEF Spec

\* TypeOK: a closed Parser or Doc holds no handle, no document and no finalizer.
THEOREM GoTypeCorrect == Spec => []TypeOK
<1>1. IInv => TypeOK
  BY DEF IInv
<1> QED
  BY <1>1, GoInvariant, PTL

\* BusyAgrees: Parser.liveDoc and the native registry agree except inside a call.
THEOREM BusyAgreesCorrect == Spec => []BusyAgrees
<1>1. \A d : BeingCleared(d) => \E a \in Agents : a.at = "clear" /\ a.doc = d
  BY DEF BeingCleared, Agents
<1>2. \A d : BeingRooted(d) => \E a \in Agents : a.at = "root" /\ a.doc = d
  BY DEF BeingRooted, Agents
<1>3. IInv => BusyAgrees
  BY <1>1, <1>2 DEF IInv, BusyKept, BusyAgrees
<1> QED
  BY <1>3, GoInvariant, PTL

\* InUseIsLive: no finalizer and no other goroutine takes from the program what it
\* can still reach, nor the document whose borrowed frames are being read.
THEOREM InUseIsLiveCorrect == Spec => []InUseIsLive
<1>1. ASSUME IInv
      PROVE  InUseIsLive
  <2>1. \A d \in userDocs : ~doc[d].closed =>
          doc[d].parser \in liveParsers /\ <<doc[d].parser, d>> \in held
    BY <1>1 DEF IInv, TypeOK, HeldSound, Watched
  <2>2. \A g \in Goroutines : pc[g].at = "read" => <<pc[g].parser, pc[g].doc>> \in held
    BY <1>1 DEF IInv, CallsSound, ReadsSound, Reading
  <2>3. \A p \in userParsers : ~parser[p].closed => p \in liveParsers
    BY <1>1 DEF IInv, TypeOK, Watched
  <2> QED
    BY <2>1, <2>2, <2>3 DEF InUseIsLive
<1> QED
  BY <1>1, GoInvariant, PTL

\* NothingLost: a native parser the program cannot reach has its finalizer to come,
\* unless the last attempt to free it failed.
THEOREM NothingLostCorrect == Spec => []NothingLost
<1>1. IInv => NothingLost
  BY DEF IInv, Watched, NothingLost, ReachableParsers, Agents
<1> QED
  BY <1>1, GoInvariant, PTL

\* The guards of Parser.Parse, Parser.Close and ParserPool.Put decide what the native
\* library would: a parser they let through is live and holds no document, so that no
\* application sees ERR_PARSER_BUSY or an invalid handle from native code, unless an
\* earlier Parse failed to undo itself.
GuardsDecide ==
  \A p \in Parsers : Available(p) /\ p \notin abandoned => p \in liveParsers /\ Native!Free(p)

THEOREM GuardsDecideCorrect == Spec => []GuardsDecide
<1>1. ASSUME IInv, NEW p \in Parsers, Available(p), p \notin abandoned
      PROVE  p \in liveParsers /\ Native!Free(p)
  <2>1. p \in liveParsers
    BY <1>1 DEF Available, IInv, Watched
  <2>2. ASSUME NEW d \in Docs, <<p, d>> \in held
        PROVE  FALSE
    <3>1. PICK g \in Goroutines : pc[g].at = "root" /\ pc[g].doc = d
      BY <1>1, <2>2, GoAssumption DEF Available, IInv, BusyKept, BeingRooted
    <3>2. pc[g].parser = p
      BY <1>1, <2>2, <3>1 DEF IInv, CallsSound, RootsSound, Rooting, HeldSound
    <3> QED
      BY <1>1, <3>1, <3>2 DEF Available, ParserMuFree
  <2>3. \A pair \in held : \E q \in Parsers, d \in Docs : pair = <<q, d>>
    BY <1>1 DEF IInv, TypeOK
  <2> QED
    BY <2>1, <2>2, <2>3 DEF Native!Free
<1>2. IInv => GuardsDecide
  BY <1>1 DEF GuardsDecide
<1> QED
  BY <1>2, GoInvariant, PTL

\* Go frees nothing twice: a handle that a finalizer, or a Close the program may still
\* call, would pass to native code names a live parser or document.
HandlesLive ==
  /\ \A p \in Parsers : parser[p].handle <=> p \in liveParsers
  /\ \A d \in Docs :
       doc[d].finalizer \/ (d \in userDocs /\ ~doc[d].closed) => <<doc[d].parser, d>> \in held

THEOREM HandlesLiveCorrect == Spec => []HandlesLive
<1>1. IInv => HandlesLive
  BY DEF IInv, OwnersAgree, Watched, HandlesLive
<1> QED
  BY <1>1, GoInvariant, PTL

\* Whatever the goroutines and the finalizers do, the registry sees a history that
\* DocumentLifecycle allows: each step of Go is one native operation or none.
THEOREM GoImplementsLifecycle == Spec => Native!Spec
<1>1. Init => Native!Init
  BY DEF Init
<1>2. ASSUME TypeOK, [Next]_vars
      PROVE  [Native!Next]_(Native!lifecycleVars)
  <2> USE DEF Native!lifecycleVars
  <2>1. ASSUME NEW p, NEW d, Native!FreeDoc(p, d)
        PROVE  Native!Next
    <3>1. p \in Parsers /\ d \in Docs
      BY <1>2, <2>1 DEF Native!FreeDoc, TypeOK
    <3> QED
      BY <2>1, <3>1 DEF Native!Next
  <2>2. ASSUME NEW p, Native!FreeParser(p)
        PROVE  Native!Next
    BY <1>2, <2>2 DEF Native!FreeParser, Native!Next, TypeOK
  <2>3. CASE \E p \in Parsers, config \in Configs : NewParser(p, config)
    BY <2>3 DEF NewParser, Native!Next
  <2>4. CASE \E g \in Goroutines : Continue(g) \/ ParseUndone(g) \/ ParseStrandsDoc(g)
    BY <2>1, <2>4 DEF Continue, ParseReturns, CloseDocReturns, EndRead, ParseUndone,
                      ParseStrandsDoc, native
  <2>5. CASE \E g \in Goroutines, p \in Parsers, d \in Docs : ParseNative(g, p, d)
    BY <2>5 DEF ParseNative, Native!Next
  <2>6. CASE \E g \in Goroutines, d \in Docs : CloseDoc(g, d) \/ BeginRead(g, d)
    BY <2>1, <2>6 DEF CloseDoc, BeginRead, native
  <2>7. CASE \E d \in Docs : CloseDocFails(d) \/ CloseDocAgain(d) \/ DropDoc(d)
    BY <2>7 DEF CloseDocFails, CloseDocAgain, DropDoc, native
  <2>8. CASE \E p \in Parsers : CloseParser(p) \/ CloseParserFails(p)
    BY <2>2, <2>8 DEF CloseParser, CloseParserFails, native
  <2>9. CASE \E p \in Parsers : Put(p) \/ Get(p) \/ Evict(p) \/ DropParser(p)
    BY <2>9 DEF Put, Get, Evict, DropParser, native
  <2>10. CASE Finalize
    BY <2>1, <2>2, <2>10
    DEF Finalize, FinalizeDoc, FinalizeDocFails, FinalizeParser, FinalizeDocReturns,
        FinalizeParserReturns, FinalizeParserFails, native
  <2>11. CASE UNCHANGED vars
    BY <2>11 DEF vars, native
  <2> QED
    BY <1>2, <2>3, <2>4, <2>5, <2>6, <2>7, <2>8, <2>9, <2>10, <2>11 DEF Next
<1> QED
  BY <1>1, <1>2, GoTypeCorrect, PTL DEF Spec, Native!Spec

\* Without a failure nothing is abandoned, because what is being finalized holds no
\* document: the one it had was freed first, and nobody can parse with it any more.
FaultFree ==
  faults = 0 =>
    abandoned = {} /\ (finalizing.at = "free" => Native!Free(finalizing.parser))

\* With no failure, every live native parser is reachable or has its finalizer to come.
LostOnlyByFailure ==
  faults = 0 => \A p \in liveParsers : p \in ReachableParsers \/ parser[p].finalizer

LEMMA FinalizedHoldsNothing ==
  ASSUME IInv, NEW p \in Parsers, NEW docFreed \in BOOLEAN, FinalizeParser(p, docFreed),
         faults' = 0, faults = 0, abandoned = {}
  PROVE  Native!Free(p)'
<1>1. parser[p].finalizer /\ p \notin ReachableParsers
  BY DEF FinalizeParser
<1>2. \A g \in Goroutines : pc[g].parser # p
  BY <1>1, UnreachableDetached
<1>3. \A d \in Docs : <<p, d>> \in held => parser[p].liveDoc = d
  <2>1. ASSUME NEW d \in Docs, <<p, d>> \in held, NEW g \in Goroutines,
               pc[g].at = "root", pc[g].doc = d
        PROVE  FALSE
    BY <1>2, <2>1 DEF IInv, HeldSound, CallsSound, RootsSound, Rooting
  <2> QED
    BY <2>1 DEF IInv, BusyKept, BeingRooted
<1>4. held \subseteq Parsers \X Docs
  BY DEF IInv, TypeOK
<1>5. CASE docFreed
  <2>1. held' = held \ {<<p, parser[p].liveDoc>>}
    BY <1>5 DEF FinalizeParser, Native!FreeDoc
  <2> QED
    BY <1>3, <1>4, <2>1 DEF Native!Free
<1>6. CASE ~docFreed
  <2>1. <<p, parser[p].liveDoc>> \notin held /\ held' = held
    BY <1>6 DEF FinalizeParser, Fault, native
  <2> QED
    BY <1>3, <1>4, <2>1 DEF Native!Free
<1> QED
  BY <1>5, <1>6

LEMMA FaultFreeStep == IInv /\ FaultFree /\ [Next]_vars => FaultFree'
<1> DEFINE Goal == /\ abandoned' = {}
                   /\ finalizing'.at = "free" => Native!Free(finalizing.parser)'
<1> SUFFICES ASSUME IInv, FaultFree, [Next]_vars, faults' = 0
             PROVE  Goal
  BY DEF FaultFree
<1> USE DEF native, refs, history
<1>1. faults \in Nat /\ ~Fault
  BY GoAssumption DEF IInv, TypeOK, Fault
<1>2. ASSUME UNCHANGED <<finalizing, faults, abandoned>>, held' \subseteq held
      PROVE  Goal
  BY <1>2 DEF FaultFree, Native!Free
<1>3. CASE \E p \in Parsers, config \in Configs : NewParser(p, config)
  BY <1>2, <1>3 DEF NewParser, Native!NewParser
<1>4. CASE \E g \in Goroutines : Continue(g) \/ ParseUndone(g) \/ ParseStrandsDoc(g)
  <2>1. \E g \in Goroutines : Continue(g) \/ ParseUndone(g)
    BY <1>1, <1>4 DEF ParseStrandsDoc
  <2> QED
    BY <1>2, <2>1 DEF Continue, ParseReturns, CloseDocReturns, EndRead, ParseUndone, Native!FreeDoc
<1>5. ASSUME NEW g \in Goroutines, NEW p \in Parsers, NEW d \in Docs, ParseNative(g, p, d)
      PROVE  Goal
  <2>1. /\ UNCHANGED <<finalizing, faults, abandoned>> /\ held' = held \cup {<<p, d>>}
        /\ p \in userParsers
    BY <1>5 DEF ParseNative, Native!Parse, Available
  <2>2. finalizing.at = "free" => finalizing.parser # p
    BY <2>1 DEF IInv, CallsSound, FreeSound, Detached
  <2> QED
    BY <2>1, <2>2 DEF FaultFree, Native!Free
<1>6. CASE \E g \in Goroutines, d \in Docs : CloseDoc(g, d) \/ BeginRead(g, d)
  BY <1>2, <1>6 DEF CloseDoc, BeginRead, Native!FreeDoc
<1>7. CASE \E d \in Docs : CloseDocFails(d) \/ CloseDocAgain(d) \/ DropDoc(d)
  BY <1>1, <1>2, <1>7 DEF CloseDocFails, CloseDocAgain, DropDoc
<1>8. CASE \E p \in Parsers : CloseParser(p) \/ CloseParserFails(p)
  BY <1>1, <1>2, <1>8 DEF CloseParser, CloseParserFails, Native!FreeParser
<1>9. CASE \E p \in Parsers : Put(p) \/ Get(p) \/ Evict(p) \/ DropParser(p)
  BY <1>2, <1>9 DEF Put, Get, Evict, DropParser
<1>10. CASE Finalize
  <2>1. ASSUME NEW d \in Docs, FinalizeDoc(d) \/ FinalizeDocFails(d)
        PROVE  Goal
    <3>1. CASE FinalizeDoc(d)
      BY <3>1 DEF FinalizeDoc, FaultFree
    <3>2. CASE FinalizeDocFails(d)
      BY <1>1, <1>2, <3>2 DEF FinalizeDocFails
    <3> QED
      BY <2>1, <3>1, <3>2
  <2>2. ASSUME NEW p \in Parsers, NEW docFreed \in BOOLEAN, FinalizeParser(p, docFreed)
        PROVE  Goal
    <3>1. /\ faults = 0 /\ abandoned = {} /\ abandoned' = abandoned
          /\ finalizing'.parser = p
      BY <1>1, <2>2 DEF FinalizeParser, FaultFree
    <3>2. Native!Free(p)'
      BY <2>2, <3>1, FinalizedHoldsNothing
    <3> QED
      BY <3>1, <3>2 DEF Native!Free
  <2>3. CASE FinalizeDocReturns
    BY <2>3 DEF FinalizeDocReturns, FaultFree, Idle
  <2>4. CASE FinalizeParserReturns
    BY <2>4 DEF FinalizeParserReturns, FaultFree, Idle
  <2>5. CASE FinalizeParserFails
    BY <1>1, <2>5 DEF FinalizeParserFails, FaultFree
  <2> QED
    BY <1>10, <2>1, <2>2, <2>3, <2>4, <2>5 DEF Finalize
<1>11. CASE UNCHANGED vars
  BY <1>2, <1>11 DEF vars
<1> QED
  BY <1>3, <1>4, <1>5, <1>6, <1>7, <1>8, <1>9, <1>10, <1>11 DEF Next

THEOREM LostOnlyByFailureCorrect == Spec => []LostOnlyByFailure
<1>1. Init => FaultFree
  BY DEF Init, FaultFree, Idle
<1>2. IInv /\ FaultFree => LostOnlyByFailure
  BY DEF IInv, FaultFree, LostOnlyByFailure, Watched, ReachableParsers, Agents
<1> QED
  BY <1>1, <1>2, GoInvariant, FaultFreeStep, PTL DEF Spec

=============================================================================
