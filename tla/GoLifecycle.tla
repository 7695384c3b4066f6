------------------------------ MODULE GoLifecycle ------------------------------
(***************************************************************************)
(* The Go side of a document's life: Parser, Doc and ParserPool of the     *)
(* root package (parser.go, doc.go, pool.go, finalizer_prod.go), with the  *)
(* garbage collector's finalizers, on top of the native handle registry.   *)
(*                                                                         *)
(* The native side is DocumentLifecycle, the abstraction Registry.tla is   *)
(* shown to implement.  A native call is one of its actions or, when it is *)
(* refused or fails, nothing; a Go step makes at most one of them.         *)
(*                                                                         *)
(* Parser.mu and Doc.mu are not variables: a method whose body has nothing *)
(* between Lock and Unlock that others could observe is one action, and    *)
(* the two that are longer are program counters that hold the mutex:       *)
(*   "root"   Parser.Parse between parser_parse and doc_root (Parser.mu);  *)
(*   "read"   the fast materializer reading borrowed frames (Doc.mu).      *)
(* Doc.Close releases Doc.mu before it takes Parser.mu: it waits, with     *)
(* neither, in "clear".                                                    *)
(***************************************************************************)
EXTENDS Naturals, FiniteSets

CONSTANTS
  Goroutines,
  Parsers,        \* Parser objects, each with the native parser it wraps
  Docs,           \* native documents, each with the Doc object wrapping it
  NoDoc,          \* DocHandle 0
  NoParser,       \* no owner yet
  Configs,        \* normalized parser options
  PoolConfig,     \* those of the pool
  MaxPooled,      \* bound: copies of one parser in the pool
  MaxFaults       \* bound: native cleanup calls that fail

ASSUME GoAssumption ==
  /\ NoDoc \notin Docs
  /\ NoParser \notin Parsers
  /\ PoolConfig \in Configs
  /\ MaxPooled \in Nat /\ MaxFaults \in Nat

VARIABLES
  liveParsers, held, spentParsers, spentDocs,  \* the native registry
  parser,       \* Parser objects: handle, closed, liveDoc, config, finalizer
  doc,          \* Doc objects: parser, handle, closed, finalizer
  pc,           \* goroutines between two steps of a call
  finalizing,   \* the single finalizer goroutine of the Go runtime
  userParsers,  \* parsers the program holds a reference to
  userDocs,     \* documents the program (or an Element of it) refers to
  pool,         \* how often each parser is in the pool
  faults,       \* failures injected so far
  abandoned,    \* history: parsers whose last cleanup attempt failed
  closeReturned \* history: documents for which some Doc.Close returned nil

native == <<liveParsers, held, spentParsers, spentDocs>>
refs == <<userParsers, userDocs, pool>>
history == <<abandoned, closeReturned>>
vars == <<native, parser, doc, pc, finalizing, refs, faults, history>>

Native == INSTANCE DocumentLifecycle WITH ParserIds <- Parsers, DocIds <- Docs

Idle == [at |-> "idle", parser |-> NoParser, doc |-> NoDoc]

NewbornParser(config) ==
  [handle |-> TRUE, closed |-> FALSE, liveDoc |-> NoDoc, config |-> config,
   finalizer |-> TRUE]

\* A parser or document nobody has made yet has no finalizer and no handle.
UnmadeParser ==
  [handle |-> FALSE, closed |-> FALSE, liveDoc |-> NoDoc, config |-> PoolConfig,
   finalizer |-> FALSE]
UnmadeDoc ==
  [parser |-> NoParser, handle |-> FALSE, closed |-> FALSE, finalizer |-> FALSE]

Init ==
  /\ Native!Init
  /\ parser = [p \in Parsers |-> UnmadeParser]
  /\ doc = [d \in Docs |-> UnmadeDoc]
  /\ pc = [g \in Goroutines |-> Idle]
  /\ finalizing = Idle
  /\ userParsers = {} /\ userDocs = {}
  /\ pool = [p \in Parsers |-> 0]
  /\ faults = 0
  /\ abandoned = {} /\ closeReturned = {}

-----------------------------------------------------------------------------
(* Mutexes and reachability *)

ParserMuFree(p) == \A g \in Goroutines : ~(pc[g].at = "root" /\ pc[g].parser = p)
DocMuFree(d) == \A g \in Goroutines : ~(pc[g].at = "read" /\ pc[g].doc = d)

Agents == {pc[g] : g \in Goroutines} \cup {finalizing}

\* Mutated form: the reference of the call in progress (runtime.KeepAlive) does
\* not count.
ReachableDocsNoKeepAlive == userDocs
\* The program's references and the calls in progress (runtime.KeepAlive).
ReachableDocs == userDocs \cup {pc[g].doc : g \in Goroutines}

\* An object with a finalizer keeps what it refers to alive until it has run, so a
\* Doc's finalizer always comes before its Parser's.
ReachableParsers ==
  userParsers \cup {p \in Parsers : pool[p] > 0}
    \cup {a.parser : a \in Agents}
    \cup {doc[d].parser : d \in {e \in Docs : e \in ReachableDocs \/ doc[e].finalizer}}

Fault == faults < MaxFaults /\ faults' = faults + 1

-----------------------------------------------------------------------------
(* Parser *)

\* newParserWithConfig, called by NewParser and by ParserPool.Get on a miss.
NewParser(p, config) ==
  /\ Native!NewParser(p)
  /\ parser' = [parser EXCEPT ![p] = NewbornParser(config)]
  /\ userParsers' = userParsers \cup {p}
  /\ UNCHANGED <<doc, pc, finalizing, userDocs, pool, faults, history>>

\* What Parser.Parse, Parser.Close and ParserPool.Put ask of the parser.
Available(p) ==
  /\ p \in userParsers
  /\ ParserMuFree(p)
  /\ ~parser[p].closed
  /\ parser[p].liveDoc = NoDoc

ParseNative(g, p, d) ==
  /\ pc[g] = Idle
  /\ Available(p)
  /\ Native!Parse(p, d)
  /\ pc' = [pc EXCEPT ![g] = [at |-> "root", parser |-> p, doc |-> d]]
  /\ UNCHANGED <<parser, doc, finalizing, refs, faults, history>>

\* doc_root succeeds: the Doc is made and the parser is marked busy.
ParseReturns(g) ==
  LET p == pc[g].parser  d == pc[g].doc IN
  /\ pc[g].at = "root"
  /\ doc' = [doc EXCEPT ![d] =
               [parser |-> p, handle |-> TRUE, closed |-> FALSE, finalizer |-> TRUE]]
  /\ parser' = [parser EXCEPT ![p].liveDoc = d]
  /\ userDocs' = userDocs \cup {d}
  /\ pc' = [pc EXCEPT ![g] = Idle]
  /\ UNCHANGED <<native, finalizing, userParsers, pool, faults, history>>

\* doc_root fails and the document is freed again.
ParseUndone(g) ==
  /\ pc[g].at = "root"
  /\ Native!FreeDoc(pc[g].parser, pc[g].doc)
  /\ pc' = [pc EXCEPT ![g] = Idle]
  /\ UNCHANGED <<parser, doc, finalizing, refs, faults, history>>

\* doc_root fails and so does freeing: the handle is forgotten.
ParseStrandsDoc(g) ==
  /\ pc[g].at = "root"
  /\ Fault
  /\ abandoned' = abandoned \cup {pc[g].parser}
  /\ pc' = [pc EXCEPT ![g] = Idle]
  /\ UNCHANGED <<native, parser, doc, finalizing, refs, closeReturned>>

\* Mutated form: the handle of the freed parser is kept.
ClosedParserKeepsHandle(p) == [parser[p] EXCEPT !.closed = TRUE, !.finalizer = FALSE]
ClosedParser(p) ==
  [parser[p] EXCEPT !.closed = TRUE, !.handle = FALSE, !.finalizer = FALSE]

\* Mutated form: Close removed the finalizer and does not put it back.
AfterFailedCloseNoFinalizer(object) == [object EXCEPT !.finalizer = FALSE]
AfterFailedClose(object) == [object EXCEPT !.finalizer = TRUE]

CloseParser(p) ==
  /\ Available(p)
  /\ Native!FreeParser(p)
  /\ parser' = [parser EXCEPT ![p] = ClosedParser(p)]
  /\ UNCHANGED <<doc, pc, finalizing, refs, faults, history>>

CloseParserFails(p) ==
  /\ Available(p)
  /\ Fault
  /\ parser' = [parser EXCEPT ![p] = AfterFailedClose(@)]
  /\ UNCHANGED <<native, doc, pc, finalizing, refs, history>>

\* Mutated form: the parser stays busy.
ClearedForgotten(p, d) == parser[p]
\* Parser.clearLiveDoc
Cleared(p, d) ==
  IF parser[p].liveDoc = d THEN [parser[p] EXCEPT !.liveDoc = NoDoc] ELSE parser[p]

-----------------------------------------------------------------------------
(* Doc *)

OpenDoc(d) == d \in userDocs /\ DocMuFree(d) /\ ~doc[d].closed

ClosedDoc(d) == [doc[d] EXCEPT !.closed = TRUE, !.handle = FALSE, !.finalizer = FALSE]

CloseDoc(g, d) ==
  /\ pc[g] = Idle
  /\ OpenDoc(d)
  /\ Native!FreeDoc(doc[d].parser, d)
  /\ doc' = [doc EXCEPT ![d] = ClosedDoc(d)]
  /\ pc' = [pc EXCEPT ![g] = [at |-> "clear", parser |-> doc[d].parser, doc |-> d]]
  /\ UNCHANGED <<parser, finalizing, refs, faults, history>>

CloseDocFails(d) ==
  /\ OpenDoc(d)
  /\ Fault
  /\ doc' = [doc EXCEPT ![d] = AfterFailedClose(@)]
  /\ UNCHANGED <<native, parser, pc, finalizing, refs, history>>

\* The second half of Doc.Close, after Doc.mu is released.
CloseDocReturns(g) ==
  LET p == pc[g].parser  d == pc[g].doc IN
  /\ pc[g].at = "clear"
  /\ ParserMuFree(p)
  /\ parser' = [parser EXCEPT ![p] = Cleared(p, d)]
  /\ closeReturned' = closeReturned \cup {d}
  /\ pc' = [pc EXCEPT ![g] = Idle]
  /\ UNCHANGED <<native, doc, finalizing, refs, faults, abandoned>>

\* Doc.Close of a closed document returns nil at once.
CloseDocAgain(d) ==
  /\ d \in userDocs
  /\ DocMuFree(d)
  /\ doc[d].closed
  /\ closeReturned' = closeReturned \cup {d}
  /\ UNCHANGED <<native, parser, doc, pc, finalizing, refs, faults, abandoned>>

\* fastMaterializeElement: the frames the native call returns are memory of the
\* document, read under Doc.mu after the call.
BeginRead(g, d) ==
  /\ pc[g] = Idle
  /\ OpenDoc(d)
  /\ <<doc[d].parser, d>> \in held
  /\ pc' = [pc EXCEPT ![g] = [at |-> "read", parser |-> doc[d].parser, doc |-> d]]
  /\ UNCHANGED <<native, parser, doc, finalizing, refs, faults, history>>

EndRead(g) ==
  /\ pc[g].at = "read"
  /\ pc' = [pc EXCEPT ![g] = Idle]
  /\ UNCHANGED <<native, parser, doc, finalizing, refs, faults, history>>

-----------------------------------------------------------------------------
(* ParserPool, and the references of the program *)

Put(p) ==
  /\ Available(p)
  /\ parser[p].config = PoolConfig
  /\ pool[p] < MaxPooled
  /\ pool' = [pool EXCEPT ![p] = @ + 1]
  /\ UNCHANGED <<native, parser, doc, pc, finalizing, userParsers, userDocs, faults,
                 history>>

Get(p) ==
  /\ pool[p] > 0
  /\ pool' = [pool EXCEPT ![p] = @ - 1]
  /\ userParsers' = userParsers \cup {p}
  /\ UNCHANGED <<native, parser, doc, pc, finalizing, userDocs, faults, history>>

\* sync.Pool drops what it holds when the garbage collector runs.
Evict(p) ==
  /\ pool[p] > 0
  /\ pool' = [pool EXCEPT ![p] = @ - 1]
  /\ UNCHANGED <<native, parser, doc, pc, finalizing, userParsers, userDocs, faults,
                 history>>

\* The program loses its last reference to a parser or a document.
DropParser(p) ==
  /\ p \in userParsers
  /\ userParsers' = userParsers \ {p}
  /\ UNCHANGED <<native, parser, doc, pc, finalizing, userDocs, pool, faults, history>>

DropDoc(d) ==
  /\ d \in userDocs
  /\ userDocs' = userDocs \ {d}
  /\ UNCHANGED <<native, parser, doc, pc, finalizing, userParsers, pool, faults, history>>

-----------------------------------------------------------------------------
(* Finalizers *)

Collectable(d) == finalizing = Idle /\ doc[d].finalizer /\ d \notin ReachableDocs

FinalizeDoc(d) ==
  /\ Collectable(d)
  /\ Native!FreeDoc(doc[d].parser, d)
  /\ doc' = [doc EXCEPT ![d] = ClosedDoc(d)]
  /\ finalizing' = [at |-> "clear", parser |-> doc[d].parser, doc |-> d]
  /\ UNCHANGED <<parser, pc, refs, faults, history>>

\* A finalizer runs once; a failed doc_free is left to the parser's finalizer.
FinalizeDocFails(d) ==
  /\ Collectable(d)
  /\ IF <<doc[d].parser, d>> \in held THEN Fault ELSE UNCHANGED faults
  /\ doc' = [doc EXCEPT ![d].finalizer = FALSE]
  /\ UNCHANGED <<native, parser, pc, finalizing, refs, history>>

FinalizeDocReturns ==
  LET p == finalizing.parser IN
  /\ finalizing.at = "clear"
  /\ ParserMuFree(p)
  /\ parser' = [parser EXCEPT ![p] = Cleared(p, finalizing.doc)]
  /\ finalizing' = Idle
  /\ UNCHANGED <<native, doc, pc, refs, faults, history>>

\* Parser.finalizeLeaked, first its live document, then the parser itself.
FinalizeParser(p, docFreed) ==
  /\ finalizing = Idle
  /\ parser[p].finalizer
  /\ p \notin ReachableParsers
  /\ IF docFreed
     THEN Native!FreeDoc(p, parser[p].liveDoc) /\ UNCHANGED faults
     ELSE /\ UNCHANGED native
          /\ IF <<p, parser[p].liveDoc>> \in held THEN Fault ELSE UNCHANGED faults
  /\ parser' = [parser EXCEPT ![p] =
                  [@ EXCEPT !.finalizer = FALSE,
                            !.liveDoc = IF docFreed THEN NoDoc ELSE parser[p].liveDoc]]
  /\ finalizing' = [at |-> "free", parser |-> p, doc |-> NoDoc]
  /\ UNCHANGED <<doc, pc, refs, history>>

FinalizeParserReturns ==
  LET p == finalizing.parser IN
  /\ finalizing.at = "free"
  /\ Native!FreeParser(p)
  /\ parser' = [parser EXCEPT ![p] =
                  [@ EXCEPT !.handle = FALSE, !.closed = (parser[p].liveDoc = NoDoc)]]
  /\ finalizing' = Idle
  /\ UNCHANGED <<doc, pc, refs, faults, history>>

FinalizeParserFails ==
  LET p == finalizing.parser IN
  /\ finalizing.at = "free"
  /\ IF Native!Free(p) THEN Fault ELSE UNCHANGED faults
  /\ abandoned' = abandoned \cup {p}
  /\ finalizing' = Idle
  /\ UNCHANGED <<native, parser, doc, pc, refs, closeReturned>>

-----------------------------------------------------------------------------

\* The rest of a call a goroutine is in the middle of.
Continue(g) == ParseReturns(g) \/ CloseDocReturns(g) \/ EndRead(g)

Finalize ==
  \/ \E d \in Docs : FinalizeDoc(d) \/ FinalizeDocFails(d)
  \/ \E p \in Parsers, docFreed \in BOOLEAN : FinalizeParser(p, docFreed)
  \/ FinalizeDocReturns
  \/ FinalizeParserReturns
  \/ FinalizeParserFails

Next ==
  \/ \E p \in Parsers, config \in Configs : NewParser(p, config)
  \/ \E g \in Goroutines : Continue(g) \/ ParseUndone(g) \/ ParseStrandsDoc(g)
  \/ \E g \in Goroutines, p \in Parsers, d \in Docs : ParseNative(g, p, d)
  \/ \E g \in Goroutines, d \in Docs : CloseDoc(g, d) \/ BeginRead(g, d)
  \/ \E d \in Docs : CloseDocFails(d) \/ CloseDocAgain(d) \/ DropDoc(d)
  \/ \E p \in Parsers : CloseParser(p) \/ CloseParserFails(p)
  \/ \E p \in Parsers : Put(p) \/ Get(p) \/ Evict(p) \/ DropParser(p)
  \/ Finalize

\* A goroutine in the middle of a call is scheduled again, and so is the
\* finalizer goroutine; that the garbage collector ever runs is not assumed.
Fairness ==
  /\ \A g \in Goroutines : WF_vars(Continue(g))
  /\ WF_vars(FinalizeDocReturns)

Spec == Init /\ [][Next]_vars
FairSpec == Spec /\ Fairness

-----------------------------------------------------------------------------
(* Properties *)

ParserObject ==
  {o \in [handle : BOOLEAN, closed : BOOLEAN, liveDoc : Docs \cup {NoDoc},
          config : Configs, finalizer : BOOLEAN] :
     o.closed => ~o.handle /\ o.liveDoc = NoDoc /\ ~o.finalizer}

DocObject ==
  {o \in [parser : Parsers \cup {NoParser}, handle : BOOLEAN, closed : BOOLEAN,
          finalizer : BOOLEAN] : o.closed => ~o.handle /\ ~o.finalizer}

Step(at) == [at : at, parser : Parsers \cup {NoParser}, doc : Docs \cup {NoDoc}]

\* Every variable has its type; a closed object holds no handle, no document and
\* no finalizer.
TypeOK ==
  /\ liveParsers \subseteq Parsers /\ spentParsers \subseteq Parsers
  /\ held \subseteq Parsers \X Docs /\ spentDocs \subseteq Docs
  /\ parser \in [Parsers -> ParserObject]
  /\ doc \in [Docs -> DocObject]
  /\ pc \in [Goroutines -> Step({"idle", "root", "clear", "read"})]
  /\ finalizing \in Step({"idle", "clear", "free"})
  /\ userParsers \subseteq Parsers /\ userDocs \subseteq Docs
  /\ pool \in [Parsers -> 0 .. MaxPooled]
  /\ faults \in 0 .. MaxFaults
  /\ abandoned \subseteq Parsers /\ closeReturned \subseteq Docs

\* Parser.liveDoc and the native registry agree except inside a call: a parser
\* marked busy has that live native document, or the Close that freed it is about
\* to clear the mark; a live native document is its parser's liveDoc, or Parse is
\* about to record it, or it was given up after two failures.  So Go's own guards
\* decide every Parse and Close, and the native ERR_PARSER_BUSY is never what an
\* application sees.
BusyAgrees ==
  /\ \A p \in Parsers : parser[p].liveDoc # NoDoc =>
       \/ <<p, parser[p].liveDoc>> \in held
       \/ \E a \in Agents : a.at = "clear" /\ a.doc = parser[p].liveDoc
  /\ \A p \in Parsers, d \in Docs : <<p, d>> \in held =>
       \/ parser[p].liveDoc = d
       \/ \E a \in Agents : a.at = "root" /\ a.doc = d
       \/ p \in abandoned

\* Nothing a program can still reach is taken from it by a finalizer or by another
\* goroutine: an open document it holds is live natively and so is its parser, and
\* the document whose frames a goroutine is reading is not freed under it.
InUseIsLive ==
  /\ \A d \in userDocs : ~doc[d].closed =>
       doc[d].parser \in liveParsers /\ <<doc[d].parser, d>> \in held
  /\ \A g \in Goroutines : pc[g].at = "read" => <<pc[g].parser, pc[g].doc>> \in held
  /\ \A p \in userParsers : ~parser[p].closed => p \in liveParsers

\* No native parser is lost: one the program can no longer reach still has its
\* finalizer to come, unless the last attempt there is (the finalizer, or the undo
\* inside Parse) failed.  A Close that failed, or a document's finalizer that
\* failed, is always made good.
NothingLost ==
  \A p \in liveParsers :
    p \in ReachableParsers \/ parser[p].finalizer \/ p \in abandoned

\* A parser is not stuck busy behind a closed document: however the goroutines
\* interleave, clearLiveDoc gets to run.
CloseReachesParser ==
  \A d \in Docs :
    doc[d].closed ~> (\A p \in Parsers : parser[p].liveDoc # d)

\* What Doc.Close documents: it releases the document and clears the owning
\* parser's busy state, and is idempotent.  Once any call of it has returned nil
\* the parser is no longer busy with that document.
CloseClearsBusy ==
  \A d \in closeReturned : \A p \in Parsers : parser[p].liveDoc # d

=============================================================================
