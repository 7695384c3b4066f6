------------------------------- MODULE FfiProofs -------------------------------
(***************************************************************************)
(* Proofs about the three modules of the C interface that need no tape:    *)
(* Exports, for any programs and objects; Diagnostics, for any goroutines, *)
(* inputs and findings of simdjson; and OwnedBytes, for any callers,       *)
(* addresses and lengths.                                                  *)
(***************************************************************************)
EXTENDS Exports, Diagnostics, OwnedBytes, TLAPS

-----------------------------------------------------------------------------
(* Exports *)

\* An array of matches is held only until its wildcard call has been freed.
ViewsOwed == \A p \in Programs : Holds(p, "views") => p \in owes

ExportsInv == ExportsTypeOK /\ ResultsReachCaller /\ OutputsFreeable /\ ViewsOwed

LEMMA ExportsInitially == ExportsInit => ExportsInv
<1> SUFFICES ASSUME ExportsInit
             PROVE  ExportsInv
  OBVIOUS
<1>1. \A o \in Objects : owner[o] = Unissued
  BY DEF ExportsInit
<1>2. \A p \in Programs, slot \in Slots : ~Holds(p, slot)
  BY <1>1 DEF Holds, Unissued, Nothing, Slots
<1>3. ExportsTypeOK
  BY ExportsAssumption DEF ExportsInit, ExportsTypeOK, NoIterator
<1>4. ResultsReachCaller
  BY <1>1 DEF ExportsInit, ResultsReachCaller, StraysInDocs
<1>5. OutputsFreeable /\ ViewsOwed
  BY <1>2 DEF ExportsInit, OutputsFreeable, ViewsOwed, Slots
<1> QED
  BY <1>3, <1>4, <1>5 DEF ExportsInv

\* A call that gets something, and one that finds its output to be null first of all.
LEMMA GetKeeps ==
  ASSUME ExportsInv, NEW p \in Programs, NEW slot \in Slots \ {"views"}, NEW o \in Objects,
         NEW given \in BOOLEAN, Get(p, slot, o, given)
  PROVE  ExportsInv'
<1>1. given /\ owner[o] = Unissued /\ ~Holds(p, slot)
  BY DEF Get, CheckedFirst
<1>2. /\ owner' = [owner EXCEPT ![o] = [program |-> p, slot |-> slot]]
      /\ memory' = [memory EXCEPT ![p][slot] = o]
      /\ UNCHANGED <<iterator, lease, strays, owes, forced, allowed>>
  BY <1>1 DEF Get, Issue, iterators, environment
<1>3. ExportsTypeOK'
  BY <1>2 DEF ExportsInv, ExportsTypeOK
<1>4. \A q \in Programs, t \in Slots : memory'[q][t] = IF q = p /\ t = slot THEN o ELSE memory[q][t]
  BY <1>2 DEF ExportsInv, ExportsTypeOK
<1>5. \A x \in Objects :
        owner'[x] = IF x = o THEN [program |-> p, slot |-> slot] ELSE owner[x]
  BY <1>2 DEF ExportsInv, ExportsTypeOK
<1>6. \A x \in Objects : owner[x] # Unissued => owner[x].program \in Programs /\ owner[x].slot \in Slots
  BY DEF ExportsInv, ExportsTypeOK
<1>7. \A x \in Objects :
        owner[x] # Unissued => ~(owner[x].program = p /\ owner[x].slot = slot)
  BY <1>1 DEF Holds, ExportsInv, ExportsTypeOK
<1>8. ResultsReachCaller'
  <2>1. iterator' = lease'
    BY <1>2 DEF ExportsInv, ResultsReachCaller
  <2>2. ASSUME NEW x \in Objects, owner'[x] # Unissued
        PROVE  memory'[owner'[x].program][owner'[x].slot] = x
    <3>1. CASE x = o
      BY <3>1, <1>4, <1>5
    <3>2. CASE x # o
      BY <3>2, <2>2, <1>4, <1>5, <1>6, <1>7 DEF ExportsInv, ResultsReachCaller
    <3> QED
      BY <3>1, <3>2
  <2>3. StraysInDocs'
    <3>1. \A x \in Objects : owner[x] # Unissued => owner'[x] = owner[x]
      BY <1>1, <1>5
    <3>2. \A q \in Programs : Holds(q, "doc") => Holds(q, "doc")'
      BY <3>1 DEF Holds, Unissued, Nothing
    <3> QED
      BY <1>2, <3>2 DEF ExportsInv, ResultsReachCaller, StraysInDocs
  <2> QED
    BY <2>1, <2>2, <2>3 DEF ResultsReachCaller
<1>9. \A q \in Programs : Holds(q, "views")' <=> Holds(q, "views")
  BY <1>1, <1>5 DEF Holds, Unissued, Slots, Nothing
<1>10. OutputsFreeable' /\ ViewsOwed'
  <2>1. \A q \in Programs : memory'[q]["views"] = memory[q]["views"]
    BY <1>4 DEF Slots
  <2>2. \A x \in Objects, q \in Programs :
          owner[x] = [program |-> q, slot |-> "views"] => owner'[x] = owner[x]
    BY <1>1, <1>5 DEF Unissued, Nothing
  <2>3. owes' = owes /\ owes \subseteq Programs
    BY <1>2 DEF ExportsInv, ExportsTypeOK
  <2>4. OutputsFreeable'
    <3> SUFFICES ASSUME NEW q \in owes'
                 PROVE  \/ memory'[q]["views"] = Nothing /\ ~Holds(q, "views")'
                        \/ /\ memory'[q]["views"] \in Objects
                           /\ owner'[memory'[q]["views"]] = [program |-> q, slot |-> "views"]
      BY DEF OutputsFreeable
    <3>1. q \in owes /\ q \in Programs
      BY <2>3
    <3>2. memory'[q]["views"] = memory[q]["views"] /\ (Holds(q, "views")' <=> Holds(q, "views"))
      BY <1>9, <2>1, <3>1
    <3>3. \/ memory[q]["views"] = Nothing /\ ~Holds(q, "views")
          \/ /\ memory[q]["views"] \in Objects
             /\ owner[memory[q]["views"]] = [program |-> q, slot |-> "views"]
      BY <3>1 DEF ExportsInv, OutputsFreeable
    <3> QED
      BY <2>2, <3>1, <3>2, <3>3
  <2> QED
    BY <2>3, <2>4, <1>9 DEF ExportsInv, ViewsOwed
<1> QED
  BY <1>3, <1>8, <1>10 DEF ExportsInv

\* A call that gives something back under its own kind, and a document with all its leases.
LEMMA GiveKeeps ==
  ASSUME ExportsInv, NEW p \in Programs, NEW slot \in Slots \ {"views"}, Give(p, slot),
         iterator' = lease', iterator' \in [Programs -> 0 .. NoIterator],
         strays' = IF slot = "doc" THEN [strays EXCEPT ![p] = 0] ELSE strays
  PROVE  ExportsInv'
<1>1. /\ owner' = [owner EXCEPT ![memory[p][slot]] = IF @.slot = slot THEN Unissued ELSE @]
      /\ UNCHANGED <<memory, owes, forced, allowed>>
  BY DEF Give, environment
<1>2. PICK o \in Objects : owner[o] = [program |-> p, slot |-> slot]
  BY DEF Give, Holds
<1>3. memory[p][slot] = o
  BY <1>2 DEF ExportsInv, ResultsReachCaller, Unissued, Slots, Nothing
<1>a. owner' = [owner EXCEPT ![o] = Unissued]
  <2>1. owner' = [owner EXCEPT ![o] = IF owner[o].slot = slot THEN Unissued ELSE owner[o]]
    BY <1>1, <1>3
  <2>2. owner[o].slot = slot
    BY <1>2
  <2> QED
    BY <2>1, <2>2
<1>4. \A x \in Objects : owner'[x] = IF x = o THEN Unissued ELSE owner[x]
  BY <1>a DEF ExportsInv, ExportsTypeOK
<1>5. ExportsTypeOK'
  <2>1. owner' \in [Objects -> [program : Programs, slot : Slots] \cup {Unissued}]
    BY <1>a DEF ExportsInv, ExportsTypeOK
  <2>2. strays' \in [Programs -> 0 .. MaxStrays]
    BY ExportsAssumption DEF ExportsInv, ExportsTypeOK
  <2> QED
    BY <1>1, <2>1, <2>2 DEF ExportsInv, ExportsTypeOK
<1>6. ResultsReachCaller'
  <2>1. \A q \in Programs : Holds(q, "doc") => Holds(q, "doc")' \/ (q = p /\ slot = "doc")
    BY <1>2, <1>4 DEF Holds
  <2>2. StraysInDocs'
    BY <2>1 DEF ExportsInv, ExportsTypeOK, ResultsReachCaller, StraysInDocs
  <2> QED
    BY <1>1, <1>4, <2>2 DEF ExportsInv, ResultsReachCaller
<1>7. \A x \in Objects, q \in Programs :
        owner'[x] = [program |-> q, slot |-> "views"] <=> owner[x] = [program |-> q, slot |-> "views"]
  BY <1>2, <1>4 DEF Unissued, Nothing
<1>8. \A q \in Programs : Holds(q, "views")' <=> Holds(q, "views")
  BY <1>7 DEF Holds
<1>9. OutputsFreeable' /\ ViewsOwed'
  <2>1. owes \subseteq Programs
    BY DEF ExportsInv, ExportsTypeOK
  <2>2. OutputsFreeable'
    <3> SUFFICES ASSUME NEW q \in owes
                 PROVE  \/ memory[q]["views"] = Nothing /\ ~Holds(q, "views")'
                        \/ /\ memory[q]["views"] \in Objects
                           /\ owner'[memory[q]["views"]] = [program |-> q, slot |-> "views"]
      BY <1>1 DEF OutputsFreeable
    <3> QED
      BY <1>7, <1>8, <2>1 DEF ExportsInv, OutputsFreeable
  <2> QED
    BY <1>1, <1>8, <2>2 DEF ExportsInv, ViewsOwed
<1> QED
  BY <1>5, <1>6, <1>9 DEF ExportsInv

LEMMA WildcardKeeps ==
  ASSUME ExportsInv, NEW p \in Programs, Wildcard(p)
  PROVE  ExportsInv'
<1>1. ~Holds(p, "views")
  BY DEF Wildcard, ExportsInv, ViewsOwed
<1>2. owes' = owes \cup {p} /\ UNCHANGED <<iterator, lease, strays, forced, allowed>>
  BY DEF Wildcard, iterators, environment
<1>3. owes \subseteq Programs
  BY DEF ExportsInv, ExportsTypeOK
<1>4. \A x \in Objects : owner[x] # Unissued =>
        /\ owner[x].program \in Programs /\ owner[x].slot \in Slots
        /\ ~(owner[x].program = p /\ owner[x].slot = "views")
  BY <1>1 DEF Holds, ExportsInv, ExportsTypeOK
<1>5. CASE memory' = [memory EXCEPT ![p]["views"] = Cleared(@)] /\ UNCHANGED owner
  <2>1. \A q \in Programs, t \in Slots :
          memory'[q][t] = IF q = p /\ t = "views" THEN Nothing ELSE memory[q][t]
    BY <1>5 DEF Cleared, ExportsInv, ExportsTypeOK, Slots
  <2>2. ExportsTypeOK'
    BY <1>2, <1>3, <1>5 DEF Cleared, ExportsInv, ExportsTypeOK
  <2>3. ResultsReachCaller'
    <3>1. \A q \in Programs : Holds(q, "doc")' <=> Holds(q, "doc")
      BY <1>5 DEF Holds
    <3>2. StraysInDocs'
      BY <3>1, <1>2 DEF ExportsInv, ResultsReachCaller, StraysInDocs
    <3> QED
      BY <3>2, <1>2, <1>4, <1>5, <2>1 DEF ExportsInv, ResultsReachCaller
  <2>4. \A q \in Programs : Holds(q, "views")' <=> Holds(q, "views")
    BY <1>5 DEF Holds
  <2>5. OutputsFreeable'
    <3> SUFFICES ASSUME NEW q \in owes'
                 PROVE  \/ memory'[q]["views"] = Nothing /\ ~Holds(q, "views")'
                        \/ /\ memory'[q]["views"] \in Objects
                           /\ owner'[memory'[q]["views"]] = [program |-> q, slot |-> "views"]
      BY DEF OutputsFreeable
    <3>1. CASE q = p
      BY <3>1, <1>1, <1>5, <2>1, <2>4 DEF Slots
    <3>2. CASE q # p
      BY <3>2, <1>2, <1>3, <1>5, <2>1, <2>4 DEF ExportsInv, OutputsFreeable, Slots
    <3> QED
      BY <3>1, <3>2
  <2>6. ViewsOwed'
    BY <1>2, <2>4 DEF ExportsInv, ViewsOwed
  <2> QED
    BY <2>2, <2>3, <2>5, <2>6 DEF ExportsInv
<1>6. ASSUME NEW o \in Objects, owner[o] = Unissued, Issue(p, "views", o),
             memory' = [memory EXCEPT ![p]["views"] = o]
      PROVE  ExportsInv'
  <2>1. \A q \in Programs, t \in Slots :
          memory'[q][t] = IF q = p /\ t = "views" THEN o ELSE memory[q][t]
    BY <1>6 DEF ExportsInv, ExportsTypeOK, Slots
  <2>2. \A x \in Objects :
          owner'[x] = IF x = o THEN [program |-> p, slot |-> "views"] ELSE owner[x]
    BY <1>6 DEF Issue, ExportsInv, ExportsTypeOK
  <2>3. ExportsTypeOK'
    <3>1. owner' \in [Objects -> [program : Programs, slot : Slots] \cup {Unissued}]
      BY <1>6 DEF Issue, ExportsInv, ExportsTypeOK, Slots
    <3> QED
      BY <1>2, <1>3, <1>6, <3>1 DEF ExportsInv, ExportsTypeOK
  <2>4. ResultsReachCaller'
    <3>1. ASSUME NEW x \in Objects, owner'[x] # Unissued
          PROVE  memory'[owner'[x].program][owner'[x].slot] = x
      <4>1. CASE x = o
        BY <4>1, <2>1, <2>2 DEF Slots
      <4>2. CASE x # o
        BY <4>2, <3>1, <2>1, <2>2, <1>4 DEF ExportsInv, ResultsReachCaller
      <4> QED
        BY <4>1, <4>2
    <3>2. \A q \in Programs : Holds(q, "doc") => Holds(q, "doc")'
      BY <1>6, <2>2 DEF Holds, Unissued, Nothing
    <3>3. StraysInDocs'
      BY <3>2, <1>2 DEF ExportsInv, ResultsReachCaller, StraysInDocs
    <3> QED
      BY <3>1, <3>3, <1>2 DEF ExportsInv, ResultsReachCaller
  <2>5. \A q \in Programs \ {p} : Holds(q, "views")' <=> Holds(q, "views")
    BY <1>6, <2>2 DEF Holds, Unissued, Nothing
  <2>6. \A q \in Programs \ {p}, x \in Objects :
          owner[x] = [program |-> q, slot |-> "views"] => owner'[x] = owner[x]
    BY <1>6, <2>2 DEF Unissued, Nothing
  <2>7. OutputsFreeable'
    <3> SUFFICES ASSUME NEW q \in owes'
                 PROVE  \/ memory'[q]["views"] = Nothing /\ ~Holds(q, "views")'
                        \/ /\ memory'[q]["views"] \in Objects
                           /\ owner'[memory'[q]["views"]] = [program |-> q, slot |-> "views"]
      BY DEF OutputsFreeable
    <3>1. CASE q = p
      BY <3>1, <2>1, <2>2 DEF Slots
    <3>2. CASE q # p
      BY <3>2, <1>2, <1>3, <2>1, <2>5, <2>6 DEF ExportsInv, OutputsFreeable, Slots
    <3> QED
      BY <3>1, <3>2
  <2>8. ViewsOwed'
    BY <1>2, <2>5 DEF ExportsInv, ViewsOwed
  <2> QED
    BY <2>3, <2>4, <2>7, <2>8 DEF ExportsInv
<1> QED
  BY <1>5, <1>6 DEF Wildcard

LEMMA GiveViewsKeeps ==
  ASSUME ExportsInv, NEW p \in Programs, GiveViews(p)
  PROVE  ExportsInv'
<1>1. p \in owes /\ owes' = owes \ {p}
  BY DEF GiveViews
<1>2. UNCHANGED <<memory, iterator, lease, strays, forced, allowed>>
  BY DEF GiveViews, iterators, environment
<1>3. owes \subseteq Programs
  BY DEF ExportsInv, ExportsTypeOK
\* What p holds is what its variable names.
<1>4. \A x \in Objects : owner[x] = [program |-> p, slot |-> "views"] => memory[p]["views"] = x
  BY DEF ExportsInv, ResultsReachCaller, Unissued, Nothing
<1>5. CASE memory[p]["views"] = Nothing
  <2>1. owner' = owner
    BY <1>5 DEF GiveViews
  <2>2. ~Holds(p, "views")
    BY <1>4, <1>5, ExportsAssumption DEF Holds
  <2>3. \A q \in Programs : Holds(q, "views")' <=> Holds(q, "views")
    BY <2>1 DEF Holds
  <2>4. ExportsTypeOK' /\ ResultsReachCaller'
    BY <1>1, <1>2, <2>1 DEF ExportsInv, ExportsTypeOK, ResultsReachCaller, StraysInDocs, Holds
  <2>5. OutputsFreeable'
    BY <1>1, <1>2, <1>3, <2>1, <2>3 DEF ExportsInv, OutputsFreeable
  <2>6. ViewsOwed'
    BY <1>1, <2>2, <2>3 DEF ExportsInv, ViewsOwed
  <2> QED
    BY <2>4, <2>5, <2>6 DEF ExportsInv
<1>6. CASE memory[p]["views"] # Nothing
  <2> DEFINE o == memory[p]["views"]
  <2>1. o \in Objects /\ owner[o] = [program |-> p, slot |-> "views"]
    BY <1>1, <1>6 DEF ExportsInv, OutputsFreeable
  <2>2. owner' = [owner EXCEPT ![o] = Unissued]
    BY <1>6, <2>1 DEF GiveViews
  <2>3. \A x \in Objects : owner'[x] = IF x = o THEN Unissued ELSE owner[x]
    BY <2>1, <2>2 DEF ExportsInv, ExportsTypeOK
  <2>4. ~Holds(p, "views")'
    BY <1>4, <2>3 DEF Holds, Unissued, Nothing
  <2>5. \A q \in Programs \ {p}, x \in Objects :
          owner'[x] = [program |-> q, slot |-> "views"] <=> owner[x] = [program |-> q, slot |-> "views"]
    BY <2>1, <2>3 DEF Unissued, Nothing
  <2>6. \A q \in Programs \ {p} : Holds(q, "views")' <=> Holds(q, "views")
    BY <2>5 DEF Holds
  <2>7. ExportsTypeOK'
    <3>1. owner' \in [Objects -> [program : Programs, slot : Slots] \cup {Unissued}]
      BY <2>2 DEF ExportsInv, ExportsTypeOK
    <3> QED
      BY <1>1, <1>2, <3>1 DEF ExportsInv, ExportsTypeOK
  <2>8. ResultsReachCaller'
    <3>1. \A q \in Programs : Holds(q, "doc") => Holds(q, "doc")'
      BY <2>1, <2>3 DEF Holds
    <3>2. StraysInDocs'
      BY <3>1, <1>2 DEF ExportsInv, ResultsReachCaller, StraysInDocs
    <3> QED
      BY <3>2, <1>2, <2>3 DEF ExportsInv, ResultsReachCaller
  <2>9. OutputsFreeable'
    BY <1>1, <1>2, <1>3, <2>5, <2>6 DEF ExportsInv, OutputsFreeable
  <2>10. ViewsOwed'
    BY <1>1, <2>4, <2>6 DEF ExportsInv, ViewsOwed
  <2> QED
    BY <2>7, <2>8, <2>9, <2>10 DEF ExportsInv
<1> QED
  BY <1>5, <1>6

LEMMA IteratorsKeep ==
  ASSUME ExportsInv, NEW p \in Programs, NEW given \in BOOLEAN,
         IterNew(p, given) \/ IterNext(p, given)
  PROVE  ExportsInv'
<1>1. UNCHANGED <<memory, owner, owes, forced, allowed>>
  BY DEF IterNew, IterNext, environment
<1>2. iterator = lease /\ iterator \in [Programs -> 0 .. NoIterator]
  BY DEF ExportsInv, ExportsTypeOK, ResultsReachCaller
<1>3. iterator' = lease' /\ iterator' \in [Programs -> 0 .. NoIterator]
  <2>1. CASE IterNew(p, given)
    BY <2>1, <1>2, ExportsAssumption DEF IterNew, NoIterator
  <2>2. CASE IterNext(p, given)
    BY <2>2, <1>2, ExportsAssumption DEF IterNext, CheckedFirst, NoIterator
  <2> QED
    BY <2>1, <2>2
<1>4. \A q \in Programs : Holds(q, "views")' <=> Holds(q, "views")
  BY <1>1 DEF Holds
<1>5. ExportsTypeOK' /\ ResultsReachCaller'
  <2>1. strays \in [Programs -> 0 .. MaxStrays] /\ MaxStrays \in Nat
    BY ExportsAssumption DEF ExportsInv, ExportsTypeOK
  <2>2. /\ strays' \in [Programs -> 0 .. MaxStrays]
        /\ \A q \in Programs : strays'[q] = strays[q] \/ (q = p /\ Holds(p, "doc"))
    BY <2>1 DEF IterNew, IterNext
  <2>3. \A q \in Programs : Holds(q, "doc")' <=> Holds(q, "doc")
    BY <1>1 DEF Holds
  <2>4. StraysInDocs'
    BY <2>2, <2>3 DEF ExportsInv, ResultsReachCaller, StraysInDocs
  <2> QED
    BY <1>1, <1>3, <2>2, <2>4 DEF ExportsInv, ExportsTypeOK, ResultsReachCaller
<1>6. owes \subseteq Programs
  BY DEF ExportsInv, ExportsTypeOK
<1>7. OutputsFreeable' /\ ViewsOwed'
  BY <1>1, <1>4, <1>6 DEF ExportsInv, OutputsFreeable, ViewsOwed
<1> QED
  BY <1>5, <1>7 DEF ExportsInv

LEMMA ExportsStep == ExportsInv /\ [ExportsNext]_exportVars => ExportsInv'
<1> SUFFICES ASSUME ExportsInv, [ExportsNext]_exportVars
             PROVE  ExportsInv'
  OBVIOUS
<1>0. CASE UNCHANGED exportVars
  BY <1>0 DEF exportVars, iterators, environment, ExportsInv, ExportsTypeOK,
    ResultsReachCaller, StraysInDocs, OutputsFreeable, ViewsOwed, Holds
<1>1. CASE ParserRefused
  BY <1>0, <1>1 DEF ParserRefused
<1>2. ASSUME NEW p \in Programs, NEW given \in BOOLEAN, NEW o \in Objects,
             ParserNew(p, o, given) \/ ParserParse(p, o, given) \/ GetBytes(p, o, given)
      PROVE  ExportsInv'
  BY <1>2, GetKeeps DEF ParserNew, ParserParse, GetBytes, Slots
<1>3. ASSUME NEW p \in Programs, NEW given \in BOOLEAN, IterNew(p, given) \/ IterNext(p, given)
      PROVE  ExportsInv'
  BY <1>3, IteratorsKeep
<1>4. ASSUME NEW p \in Programs, Wildcard(p)
      PROVE  ExportsInv'
  BY <1>4, WildcardKeeps
<1>5. ASSUME NEW p \in Programs, GiveViews(p)
      PROVE  ExportsInv'
  BY <1>5, GiveViewsKeeps
<1>6. iterator = lease /\ iterator \in [Programs -> 0 .. NoIterator]
  BY DEF ExportsInv, ExportsTypeOK, ResultsReachCaller
<1>7. ASSUME NEW p \in Programs, ParserFree(p) \/ BytesFree(p)
      PROVE  ExportsInv'
  BY <1>6, <1>7, GiveKeeps DEF ParserFree, BytesFree, Slots, iterators
<1>8. ASSUME NEW p \in Programs, DocFree(p)
      PROVE  ExportsInv'
  <2>1. iterator' = lease' /\ iterator' \in [Programs -> 0 .. NoIterator]
    BY <1>6, <1>8, ExportsAssumption DEF DocFree, NoIterator
  <2> QED
    BY <1>8, <2>1, GiveKeeps DEF DocFree, Slots
<1> QED
  BY <1>0, <1>1, <1>2, <1>3, <1>4, <1>5, <1>7, <1>8 DEF ExportsNext

\* Variables of C programs, handles and addresses are well typed, and no iterator is beyond
\* its end, however many programs and objects there are.
THEOREM ExportsTypeCorrect == ExportsSpec => []ExportsTypeOK
BY ExportsInitially, ExportsStep, PTL DEF ExportsSpec, ExportsInv

\* Every object that the library holds for a program is what the program's out variable names,
\* and no refused call moves an iterator behind its struct; leases that no struct names are
\* held only inside a document that its owner can name.
THEOREM ResultsReachCallerCorrect == ExportsSpec => []ResultsReachCaller
BY ExportsInitially, ExportsStep, PTL DEF ExportsSpec, ExportsInv

\* The outputs of pure_simdjson_element_at_path_wildcard can be freed after every call.
THEOREM OutputsFreeableCorrect == ExportsSpec => []OutputsFreeable
BY ExportsInitially, ExportsStep, PTL DEF ExportsSpec, ExportsInv

-----------------------------------------------------------------------------
(* Diagnostics *)

Details == [message : Inputs \cup {NoMessage, ExceptionText}, offset : Int, hasOffset : BOOLEAN]
ReturnCodes == {"ok", "parser_busy", "capacity_limit", "invalid_json", "depth_limit",
                "cpp_exception", "internal"}
Reading == {"message", "copy", "offset", "has_offset"}
Calls == [pc : {"idle", "parse", "root", "returned"} \cup Reading,
          input : Inputs \cup {NoMessage}, rc : ReturnCodes, error : Details]

\* Details d of the parser are those of a failed call.
Diagnoses(d, call) ==
  LET found == Finds[call.input]  own == found.primary  stop == StoppedAt(found)
  IN  /\ call.rc = own => d.message = call.input
      /\ call.rc = "cpp_exception" => d.message \in {call.input, ExceptionText, NoMessage}
      /\ call.rc \notin {own, "cpp_exception"} => d.message = NoMessage /\ ~d.hasOffset
      /\ d.hasOffset <=>
           /\ call.rc = "invalid_json" /\ stop.outcome = "invalid_json"
           /\ stop.location >= 0 /\ stop.location < found.length
      /\ d.hasOffset => d.offset = stop.location

\* How far a call is, and what it has read of the details d so far.
Underway(call, d) ==
  /\ call.pc # "idle" => call.input \in Inputs
  /\ call.pc = "parse" => call.rc = "ok" /\ call.error = WithoutDetails
  /\ call.pc = "root" =>
       /\ call.rc = "ok" /\ call.error = WithoutDetails
       /\ Finds[call.input].primary = "ok" /\ d = NoDetails
  /\ call.pc \in Reading =>
       /\ call.rc # "ok" /\ Diagnoses(d, call)
       /\ call.pc = "message" => call.error = WithoutDetails
       /\ call.pc # "message" => call.error.message = d.message
       /\ call.pc = "has_offset" => call.error.offset = d.offset
  /\ call.pc = "returned" => Faithful(call)

DiagTypes ==
  /\ parses \in [Parsing -> Calls]
  /\ diag \in Details
  /\ nativeBusy \in BOOLEAN /\ liveDoc \in BOOLEAN
  /\ mu \in Parsing \cup {Nobody}

\* Only the goroutine that holds Parser.mu changes the details, and it finds no document;
\* a native parser that has a document has nothing to say.
DiagInv ==
  /\ DiagTypes
  /\ \A g \in Parsing : Inside(g) <=> mu = g
  /\ \A g \in Parsing : Underway(parses[g], diag)
  /\ nativeBusy => diag = NoDetails
  /\ liveDoc => mu = Nobody

\* How a record of details changes.
LEMMA DetailsChange ==
  ASSUME NEW d \in Details
  PROVE  /\ \A text : [d EXCEPT !.message = text]
                        = [message |-> text, offset |-> d.offset, hasOffset |-> d.hasOffset]
         /\ \A place : [d EXCEPT !.offset = place]
                         = [message |-> d.message, offset |-> place, hasOffset |-> d.hasOffset]
         /\ \A place \in Int, has \in BOOLEAN :
              LET e == [d EXCEPT !.offset = place, !.hasOffset = has]
              IN  e \in Details /\ e.message = d.message /\ e.offset = place /\ e.hasOffset = has
<1>1. \A text : [d EXCEPT !.message = text]
                  = [message |-> text, offset |-> d.offset, hasOffset |-> d.hasOffset]
  BY DEF Details
<1>2. \A place : [d EXCEPT !.offset = place]
                   = [message |-> d.message, offset |-> place, hasOffset |-> d.hasOffset]
  BY DEF Details
<1>3. ASSUME NEW place \in Int, NEW has \in BOOLEAN
      PROVE  LET e == [d EXCEPT !.offset = place, !.hasOffset = has]
             IN  e \in Details /\ e.message = d.message /\ e.offset = place /\ e.hasOffset = has
  BY DEF Details
<1> QED
  BY <1>1, <1>2, <1>3

\* The details of Go's nativeDetails{}, and those of a failure before it is located.
LEMMA DetailsOf ==
  /\ NoDetails \in Details
  /\ WithoutDetails = [message |-> NoMessage, offset |-> 0, hasOffset |-> FALSE]
  /\ \A text : [NoDetails EXCEPT !.message = text]
                 = [message |-> text, offset |-> UnknownOffset, hasOffset |-> FALSE]
  /\ UnknownOffset \in Int
<1>1. UnknownOffset \in Int
  BY DEF UnknownOffset
<1>2. /\ NoDetails \in Details
      /\ NoDetails.message = NoMessage /\ NoDetails.offset = UnknownOffset
      /\ NoDetails.hasOffset = FALSE
  BY <1>1 DEF NoDetails, Details
<1>3. \A place : [NoDetails EXCEPT !.offset = place]
                   = [message |-> NoDetails.message, offset |-> place,
                      hasOffset |-> NoDetails.hasOffset]
  BY <1>2, DetailsChange
<1>4. \A text : [NoDetails EXCEPT !.message = text]
                  = [message |-> text, offset |-> NoDetails.offset,
                     hasOffset |-> NoDetails.hasOffset]
  BY <1>2, DetailsChange
<1> QED
  BY <1>1, <1>2, <1>3, <1>4, Zenon DEF WithoutDetails

LEMMA DiagInitially == DiagInit => DiagInv
<1> SUFFICES ASSUME DiagInit
             PROVE  DiagInv
  OBVIOUS
<1>1. NoDetails \in Details /\ WithoutDetails \in Details
  BY DetailsOf DEF NoDetails, Details, UnknownOffset
<1>2. DiagTypes
  BY <1>1 DEF DiagInit, DiagTypes, NotParsing, Calls, ReturnCodes
<1>3. \A g \in Parsing : parses[g].pc = "idle"
  BY DEF DiagInit, NotParsing
<1> QED
  BY <1>2, <1>3, DiagnosticsAssumption DEF DiagInit, DiagInv, Inside, Underway, Reading

\* What the bridge captures diagnoses a failure that is the input's own.
LEMMA CapturedDiagnoses ==
  ASSUME NEW input \in Inputs, Finds[input].primary # "ok",
         NEW call, call.input = input, call.rc = Finds[input].primary
  PROVE  Captured(input) \in Details /\ Diagnoses(Captured(input), call)
<1> DEFINE found == Finds[input]
           failed == [NoDetails EXCEPT !.message = input]
<1>1. /\ found.length \in Nat /\ found.primary \in {"ok", "invalid_json", "depth_limit"}
      /\ found.raw.outcome \in Outcomes /\ found.raw.location \in Int
      /\ found.recursive.outcome \in Outcomes /\ found.recursive.location \in Int
  BY DiagnosticsAssumption
<1>2. failed \in Details /\ failed.message = input /\ ~failed.hasOffset
  BY DetailsOf DEF Details
<1>3. ASSUME NEW pass, pass.outcome \in Outcomes, pass.location \in Int
      PROVE  LET d == Located(input, failed, pass)
             IN  /\ d \in Details /\ d.message = input
                 /\ d.hasOffset <=> /\ pass.outcome = "invalid_json"
                                    /\ pass.location >= 0 /\ pass.location < found.length
                 /\ d.hasOffset => d.offset = pass.location
  <2>1. CASE pass.outcome = "invalid_json" /\ InBounds(input, pass.location)
    <3> HIDE DEF failed
    <3>2. LET d == Located(input, failed, pass)
          IN  d \in Details /\ d.message = input /\ d.offset = pass.location /\ d.hasOffset = TRUE
      BY <1>2, <1>3, <2>1, DetailsChange DEF Located
    <3> QED
      BY <1>1, <1>3, <2>1, <3>2 DEF InBounds
  <2>2. CASE ~(pass.outcome = "invalid_json" /\ InBounds(input, pass.location))
    BY <1>1, <1>2, <1>3, <2>2 DEF Located, InBounds
  <2> QED
    BY <2>1, <2>2
<1>4. CASE found.primary # "invalid_json"
  <2>1. Captured(input) = failed
    BY <1>4 DEF Captured
  <2> QED
    BY <1>1, <1>2, <1>4, <2>1 DEF Diagnoses
<1>5. CASE found.primary = "invalid_json"
  <2>1. Captured(input) = Located(input, failed, StoppedAt(found))
    BY <1>5 DEF Captured, StoppedAt
  <2>2. StoppedAt(found).outcome \in Outcomes /\ StoppedAt(found).location \in Int
    BY <1>1 DEF StoppedAt
  <2> HIDE DEF failed
  <2> QED
    BY <1>3, <1>5, <2>1, <2>2 DEF Diagnoses
<1> QED
  BY <1>4, <1>5

\* A step of one goroutine that holds Parser.mu, or takes or releases it.
LEMMA OneCallMoves ==
  ASSUME DiagInv, NEW g \in Parsing, mu \in {g, Nobody},
         NEW call \in Calls, parses' = [parses EXCEPT ![g] = call],
         mu' = IF call.pc \in {"idle", "returned"} THEN Nobody ELSE g,
         Underway(call, diag'),
         diag' \in Details, nativeBusy' \in BOOLEAN, liveDoc' \in BOOLEAN,
         nativeBusy' => diag' = NoDetails, liveDoc' => mu' = Nobody
  PROVE  DiagInv'
<1>1. DiagTypes'
  BY DEF DiagInv, DiagTypes
<1>2. \A h \in Parsing : parses'[h] = IF h = g THEN call ELSE parses[h]
  BY DEF DiagInv, DiagTypes
<1>3. \A h \in Parsing \ {g} : parses[h].pc \in {"idle", "returned"}
  BY DiagnosticsAssumption DEF DiagInv, Inside
<1>4. \A h \in Parsing : Inside(h)' <=> mu' = h
  BY <1>2, <1>3, DiagnosticsAssumption DEF Inside
<1>5. \A h \in Parsing : Underway(parses[h], diag)'
  <2> SUFFICES ASSUME NEW h \in Parsing
               PROVE  Underway(parses'[h], diag')
    OBVIOUS
  <2>1. CASE h = g
    BY <1>2, <2>1
  <2>2. CASE h # g
    <3>1. Underway(parses[h], diag) /\ parses'[h] = parses[h]
      BY <1>2, <2>2 DEF DiagInv
    <3>2. parses[h].pc \in {"idle", "returned"}
      BY <1>3, <2>2
    <3> QED
      BY <3>1, <3>2 DEF Underway, Reading
  <2> QED
    BY <2>1, <2>2
<1> QED
  BY <1>1, <1>4, <1>5 DEF DiagInv

LEMMA ParseBeginsKeeps ==
  ASSUME DiagInv, NEW g \in Parsing, NEW input \in Inputs, ParseBegins(g, input)
  PROVE  DiagInv'
<1> DEFINE own == Finds[input].primary
           refused == [pc |-> "returned", input |-> input, rc |-> "parser_busy",
                       error |-> WithoutDetails]
           begun == [pc |-> "parse", input |-> input, rc |-> "ok", error |-> WithoutDetails]
<1>1. own \in {"ok", "invalid_json", "depth_limit"}
  BY DiagnosticsAssumption
<1>2. WithoutDetails \in Details /\ WithoutDetails.hasOffset = FALSE /\ WithoutDetails.offset = 0
  BY DetailsOf, DiagnosticsAssumption DEF Details
<1>3. refused \in Calls /\ begun \in Calls
  BY <1>2 DEF Calls, ReturnCodes
<1>4. /\ mu = Nobody /\ diag' = diag /\ nativeBusy' = nativeBusy /\ liveDoc' = liveDoc
      /\ diag \in Details /\ nativeBusy \in BOOLEAN /\ liveDoc \in BOOLEAN
  BY DEF ParseBegins, DiagInv, DiagTypes
<1>5. CASE liveDoc
  <2>1. parses' = [parses EXCEPT ![g] = refused] /\ mu' = Nobody
    BY <1>4, <1>5 DEF ParseBegins, Update
  <2>2. Faithful(refused)
    BY <1>1, <1>2 DEF Faithful
  <2>3. Underway(refused, diag')
    BY <2>2 DEF Underway, Reading
  <2>4. mu' = IF refused.pc \in {"idle", "returned"} THEN Nobody ELSE g
    BY <2>1
  <2> HIDE DEF refused
  <2> QED
    BY <1>3, <1>4, <2>1, <2>3, <2>4, OneCallMoves DEF DiagInv
<1>6. CASE ~liveDoc
  <2>1. parses' = [parses EXCEPT ![g] = begun] /\ mu' = g
    BY <1>6 DEF ParseBegins, Update
  <2>2. Underway(begun, diag')
    BY DEF Underway, Reading
  <2>3. mu' = IF begun.pc \in {"idle", "returned"} THEN Nobody ELSE g
    BY <2>1
  <2> HIDE DEF begun
  <2> QED
    BY <1>3, <1>4, <1>6, <2>1, <2>2, <2>3, OneCallMoves DEF DiagInv
<1> QED
  BY <1>5, <1>6

LEMMA NativeParseKeeps ==
  ASSUME DiagInv, NEW g \in Parsing, NativeParse(g)
  PROVE  DiagInv'
<1> DEFINE call == parses[g]  input == call.input  found == Finds[input]
           After(rc) == [call EXCEPT !.rc = rc, !.pc = IF rc = "ok" THEN "root" ELSE "message"]
           Ends(rc, details) ==
             /\ parses' = [parses EXCEPT ![g] = After(rc)]
             /\ diag' = details
             /\ nativeBusy' = (nativeBusy \/ rc = "ok")
<1>1. call \in Calls /\ call.pc = "parse" /\ mu' = mu /\ liveDoc' = liveDoc
  BY DEF NativeParse, DiagInv, DiagTypes
<1>2. /\ input \in Inputs /\ call.error = WithoutDetails
      /\ mu = g /\ liveDoc = FALSE
      /\ diag \in Details /\ nativeBusy \in BOOLEAN
  BY <1>1, DiagnosticsAssumption DEF DiagInv, DiagTypes, Underway, Inside
<1>3. /\ found.primary \in {"ok", "invalid_json", "depth_limit"}
      /\ found.length \in Nat /\ ParserCapacity \in Nat
  BY <1>2, DiagnosticsAssumption
<1>4. ASSUME NEW rc \in ReturnCodes
      PROVE  /\ After(rc) \in Calls /\ After(rc).rc = rc /\ After(rc).input = input
             /\ After(rc).error = WithoutDetails
             /\ After(rc).pc = IF rc = "ok" THEN "root" ELSE "message"
  BY <1>1, <1>2 DEF Calls, Reading
<1>5. ASSUME NEW rc \in ReturnCodes, NEW d \in Details, Ends(rc, d), nativeBusy => d = NoDetails,
             rc = "ok" => found.primary = "ok" /\ d = NoDetails,
             rc # "ok" => Diagnoses(d, After(rc))
      PROVE  DiagInv'
  <2> HIDE DEF After
  <2>1. Underway(After(rc), diag')
    BY <1>2, <1>4, <1>5 DEF Underway, Reading
  <2>2. mu' = IF After(rc).pc \in {"idle", "returned"} THEN Nobody ELSE g
    BY <1>1, <1>2, <1>4
  <2>3. liveDoc' \in BOOLEAN /\ ~liveDoc' /\ nativeBusy' \in BOOLEAN
    BY <1>1, <1>2, <1>5
  <2>4. nativeBusy' => diag' = NoDetails
    BY <1>2, <1>5
  <2>5. After(rc) \in Calls
    BY <1>4
  <2> QED
    BY <1>2, <1>5, <2>1, <2>2, <2>3, <2>4, <2>5, OneCallMoves
<1>6. \A message \in {ExceptionText, NoMessage, input} :
        LET d == [NoDetails EXCEPT !.message = message]
        IN  d \in Details /\ d.message = message /\ d.hasOffset = FALSE
  BY <1>2, DetailsOf DEF Details
<1>7. NoDetails \in Details /\ NoDetails.message = NoMessage /\ NoDetails.hasOffset = FALSE
  BY DetailsOf DEF NoDetails
<1>8. ASSUME NEW rc \in {"parser_busy", "capacity_limit", "internal"}
      PROVE  rc \in ReturnCodes /\ rc # "ok" /\ Diagnoses(NoDetails, After(rc))
  <2> HIDE DEF After
  <2>1. rc \in ReturnCodes
    BY DEF ReturnCodes
  <2> QED
    BY <1>3, <1>4, <1>7, <2>1 DEF Diagnoses
<1> HIDE DEF After
<1>9. CASE nativeBusy
  <2>1. Ends("parser_busy", diag) /\ diag = NoDetails
    BY <1>9 DEF NativeParse, Update, DiagInv, After
  <2> QED
    BY <1>2, <1>5, <1>7, <1>8, <2>1
<1>10. CASE ~nativeBusy /\ found.length > ParserCapacity
  <2>1. Ends("capacity_limit", NoDetails)
    BY <1>3, <1>10 DEF NativeParse, Update, Reset, After
  <2> QED
    BY <1>5, <1>7, <1>8, <1>10, <2>1
<1>11. CASE ~nativeBusy /\ found.primary = "ok" /\ Ends("ok", NoDetails)
  BY <1>5, <1>7, <1>11 DEF ReturnCodes
<1>12. CASE ~nativeBusy /\ found.primary # "ok" /\ Ends(found.primary, Captured(input))
  <2>1. found.primary \in ReturnCodes
    BY <1>3 DEF ReturnCodes
  <2>2. Captured(input) \in Details /\ Diagnoses(Captured(input), After(found.primary))
    BY <1>2, <1>4, <1>12, <2>1, CapturedDiagnoses
  <2> QED
    BY <1>5, <1>12, <2>1, <2>2
<1>13. ASSUME ~nativeBusy, NEW message \in {ExceptionText, NoMessage, input},
              Ends("cpp_exception", [NoDetails EXCEPT !.message = message])
       PROVE  DiagInv'
  <2> DEFINE d == [NoDetails EXCEPT !.message = message]
  <2>1. d \in Details /\ d.message = message /\ d.hasOffset = FALSE
    BY <1>6
  <2> HIDE DEF d
  <2>2. "cpp_exception" \in ReturnCodes
    BY DEF ReturnCodes
  <2>3. Diagnoses(d, After("cpp_exception"))
    BY <1>3, <1>4, <2>1, <2>2 DEF Diagnoses
  <2>4. Ends("cpp_exception", d)
    BY <1>13 DEF d
  <2> QED
    BY <1>5, <1>13, <2>1, <2>2, <2>3, <2>4
<1>14. CASE ~nativeBusy /\ Ends("internal", NoDetails)
  BY <1>5, <1>7, <1>8, <1>14
<1> QED
  <2>1. CASE ~nativeBusy /\ ~(found.length > ParserCapacity)
    <3>1. \/ found.primary = "ok" /\ Ends("ok", NoDetails)
          \/ found.primary # "ok" /\ Ends(found.primary, Captured(input))
          \/ \E message \in {ExceptionText, NoMessage, input} :
               Ends("cpp_exception", [NoDetails EXCEPT !.message = message])
          \/ Ends("internal", NoDetails)
      BY <2>1 DEF NativeParse, Update, Reset, After
    <3> QED
      BY <2>1, <3>1, <1>11, <1>12, <1>13, <1>14
  <2> QED
    BY <1>9, <1>10, <2>1

\* The four calls that read the details, and the root.
LEMMA ReadingKeeps ==
  ASSUME DiagInv, NEW g \in Parsing,
         ReadMessage(g) \/ CopyMessage(g) \/ ReadOffset(g) \/ ReadHasOffset(g)
  PROVE  DiagInv'
<1> DEFINE call == parses[g]
<1>1. /\ call \in Calls /\ call.pc \in Reading
      /\ diag \in Details /\ diag' = diag
      /\ nativeBusy' = nativeBusy /\ liveDoc' = liveDoc
      /\ nativeBusy \in BOOLEAN /\ liveDoc \in BOOLEAN
  BY DEF ReadMessage, CopyMessage, ReadOffset, ReadHasOffset, DiagInv, DiagTypes, Reading
<1>2. mu = g /\ liveDoc = FALSE
  BY <1>1, DiagnosticsAssumption DEF DiagInv, Inside, Reading
<1>3. /\ call.input \in Inputs /\ call.rc # "ok" /\ Diagnoses(diag, call)
      /\ call.pc = "message" => call.error = WithoutDetails
      /\ call.pc # "message" => call.error.message = diag.message
      /\ call.pc = "has_offset" => call.error.offset = diag.offset
  BY <1>1 DEF DiagInv, Underway, Reading
<1>4. ASSUME NEW e \in Calls, parses' = [parses EXCEPT ![g] = e],
             e.pc \in {"copy", "offset", "has_offset", "returned"},
             mu' = IF e.pc = "returned" THEN Nobody ELSE g,
             e.input = call.input, e.rc = call.rc, e.error.message = diag.message,
             e.pc = "has_offset" => e.error.offset = diag.offset,
             e.pc = "returned" => Faithful(e)
      PROVE  DiagInv'
  <2>1. Underway(e, diag')
    <3>1. Diagnoses(diag, e)
      BY <1>3, <1>4 DEF Diagnoses
    <3> QED
      BY <1>1, <1>3, <1>4, <3>1 DEF Underway, Reading
  <2>2. mu' = IF e.pc \in {"idle", "returned"} THEN Nobody ELSE g
    BY <1>4
  <2>3. (nativeBusy' => diag' = NoDetails) /\ (liveDoc' => mu' = Nobody)
    BY <1>1, <1>2 DEF DiagInv
  <2> QED
    BY <1>1, <1>2, <1>4, <2>1, <2>2, <2>3, OneCallMoves
<1>5. CASE ReadMessage(g)
  <2> DEFINE e == [call EXCEPT !.error.message = diag.message,
                               !.pc = IF diag.message = NoMessage THEN "offset" ELSE "copy"]
  <2>1. parses' = [parses EXCEPT ![g] = e] /\ mu' = g
    BY <1>2, <1>5 DEF ReadMessage, Update
  <2>2. e \in Calls /\ e.pc \in {"copy", "offset"} /\ e.input = call.input /\ e.rc = call.rc
        /\ e.error.message = diag.message
    BY <1>1 DEF Calls, Reading, Details
  <2> HIDE DEF e
  <2> QED
    BY <1>4, <2>1, <2>2
<1>6. CASE CopyMessage(g)
  <2> DEFINE e == [call EXCEPT !.error.message = diag.message, !.pc = "offset"]
  <2>1. call.error.message = diag.message
    BY <1>3, <1>6 DEF CopyMessage
  <2>2. parses' = [parses EXCEPT ![g] = e] /\ mu' = g
    BY <1>2, <1>6, <2>1 DEF CopyMessage, Update
  <2>3. e \in Calls /\ e.pc = "offset" /\ e.input = call.input /\ e.rc = call.rc
        /\ e.error.message = diag.message
    BY <1>1 DEF Calls, Reading, Details
  <2> HIDE DEF e
  <2> QED
    BY <1>4, <2>2, <2>3
<1>7. CASE ReadOffset(g)
  <2> DEFINE e == [call EXCEPT !.error.offset = diag.offset, !.pc = "has_offset"]
  <2>1. call.error.message = diag.message
    BY <1>3, <1>7 DEF ReadOffset
  <2>2. parses' = [parses EXCEPT ![g] = e] /\ mu' = g
    BY <1>2, <1>7 DEF ReadOffset, Update
  <2>3. e \in Calls /\ e.pc = "has_offset" /\ e.input = call.input /\ e.rc = call.rc
        /\ e.error.message = call.error.message /\ e.error.offset = diag.offset
    BY <1>1 DEF Calls, Reading, Details
  <2> HIDE DEF e
  <2> QED
    BY <1>4, <2>1, <2>2, <2>3
<1>8. CASE ReadHasOffset(g)
  <2> DEFINE offset == IF diag.hasOffset THEN call.error.offset ELSE 0
             e == [call EXCEPT !.error.offset = offset,
                               !.error.hasOffset = diag.hasOffset, !.pc = "returned"]
  <2>1. call.error.message = diag.message /\ call.error.offset = diag.offset
    BY <1>3, <1>8 DEF ReadHasOffset
  <2>2. parses' = [parses EXCEPT ![g] = e] /\ mu' = Nobody
    BY <1>8 DEF ReadHasOffset, Update
  <2>3. /\ e \in Calls /\ e.pc = "returned" /\ e.input = call.input /\ e.rc = call.rc
        /\ e.error.message = call.error.message
        /\ e.error.offset = IF diag.hasOffset THEN call.error.offset ELSE 0
        /\ e.error.hasOffset = diag.hasOffset
    <3>1. offset \in Int /\ diag.hasOffset \in BOOLEAN
      BY <1>1 DEF Calls, Details
    <3> HIDE DEF offset
    <3>2. e \in Calls /\ e.pc = "returned" /\ e.input = call.input /\ e.rc = call.rc
      BY <1>1, <3>1 DEF Calls, Details
    <3>3. /\ e.error.message = call.error.message
          /\ e.error.hasOffset = diag.hasOffset
      BY <1>1, <3>1 DEF Calls, Details
    <3>4. e.error.offset = offset
      BY <1>1, <3>1 DEF Calls, Details
    <3> QED
      BY <3>2, <3>3, <3>4 DEF offset
  <2> HIDE DEF e
  <2>4. e.error.message = NoMessage /\ ~diag.hasOffset => e.error = WithoutDetails
    <3>1. e.error \in Details
      BY <2>3 DEF Calls
    <3> QED
      BY <2>3, <3>1, DetailsOf DEF Details
  <2>5. Faithful(e)
    BY <1>3, <2>1, <2>3, <2>4 DEF Diagnoses, Faithful
  <2> QED
    BY <1>4, <2>1, <2>2, <2>3, <2>5
<1> QED
  BY <1>5, <1>6, <1>7, <1>8

LEMMA RootKeeps ==
  ASSUME DiagInv, NEW g \in Parsing, Root(g)
  PROVE  DiagInv'
<1> DEFINE call == parses[g]
           After(rc) == [call EXCEPT !.pc = "returned", !.rc = rc]
<1>1. call \in Calls /\ call.pc = "root" /\ mu' = Nobody /\ diag' = diag /\ diag \in Details
  BY DEF Root, DiagInv, DiagTypes
<1>2. /\ mu = g /\ call.input \in Inputs /\ call.error = WithoutDetails
      /\ Finds[call.input].primary = "ok" /\ diag = NoDetails
  BY <1>1, DiagnosticsAssumption DEF DiagInv, Inside, Underway
<1>3. WithoutDetails.hasOffset = FALSE /\ WithoutDetails.offset = 0
  BY DetailsOf
<1>4. PICK ok \in BOOLEAN, freed \in BOOLEAN :
        /\ liveDoc' = ok /\ nativeBusy' = (ok \/ ~freed)
        /\ parses' = [parses EXCEPT ![g] = After(IF ok THEN "ok" ELSE "internal")]
  BY DEF Root, Update
<1>5. \A rc \in {"ok", "internal"} :
        /\ After(rc) \in Calls /\ After(rc).pc = "returned" /\ After(rc).rc = rc
        /\ After(rc).input = call.input /\ After(rc).error = WithoutDetails
  BY <1>1, <1>2 DEF Calls, ReturnCodes
<1> HIDE DEF After
<1>6. \A rc \in {"ok", "internal"} : Underway(After(rc), diag')
  BY <1>2, <1>3, <1>5 DEF Underway, Reading, Faithful
<1> QED
  BY <1>1, <1>2, <1>4, <1>5, <1>6, OneCallMoves

LEMMA DiagStep == DiagInv /\ [DiagNext]_diagVars => DiagInv'
<1> SUFFICES ASSUME DiagInv, [DiagNext]_diagVars
             PROVE  DiagInv'
  OBVIOUS
<1>1. CASE UNCHANGED <<diag, mu, parses>> /\ nativeBusy' \in {nativeBusy, FALSE}
           /\ liveDoc' \in {liveDoc, FALSE}
  <2>1. DiagTypes'
    BY <1>1 DEF DiagInv, DiagTypes
  <2>2. \A g \in Parsing : Underway(parses'[g], diag')
    BY <1>1 DEF DiagInv
  <2>3. (\A g \in Parsing : Inside(g) <=> mu = g)'
    BY <1>1 DEF DiagInv, Inside
  <2> QED
    BY <1>1, <2>1, <2>2, <2>3 DEF DiagInv, DiagTypes
<1>2. CASE UNCHANGED diagVars
  BY <1>1, <1>2 DEF diagVars
<1>3. CASE CloseFrees \/ CloseClears
  BY <1>1, <1>3 DEF CloseFrees, CloseClears
<1> QED
  BY <1>2, <1>3, ParseBeginsKeeps, NativeParseKeeps, ReadingKeeps, RootKeeps DEF DiagNext

LEMMA DiagInvariant == DiagSpec => []DiagInv
BY DiagInitially, DiagStep, PTL DEF DiagSpec

\* A goroutine is between the begin and the end of a Parse exactly if it holds Parser.mu,
\* for any number of goroutines.
THEOREM DiagTypeCorrect == DiagSpec => []DiagTypeOK
<1>1. DiagInv => DiagTypeOK
  BY DEF DiagInv, DiagTypes, Details, DiagTypeOK
<1> QED
  BY <1>1, DiagInvariant, PTL

\* The message and the offset of every error that Parse returns are about its own input,
\* for any goroutines, any inputs and anything that simdjson may find in them.
THEOREM DetailsMatchCallCorrect == DiagSpec => []DetailsMatchCall
<1>1. DiagInv => DetailsMatchCall
  BY DEF DiagInv, Underway, DetailsMatchCall
<1> QED
  BY <1>1, DiagInvariant, PTL

-----------------------------------------------------------------------------
(* OwnedBytes.  The two invariants need each other: that a fresh block is in no *)
(* table follows from the blocks being accounted for, and that a free takes     *)
(* nobody else's buffer from what is held being registered.                     *)

OwnedInv == TypeOK /\ BlocksAccounted /\ HeldIsRegistered

Buffer(c) == [owner |-> c, kind |-> calls[c].kind, ptr |-> calls[c].ptr, len |-> calls[c].len]

LEMMA OwnedInitially ==
  ASSUME Init
  PROVE  OwnedInv
<1>1. Idle.pc = "idle" /\ Unused \notin [kind : Kinds, len : Lengths]
  BY DEF Idle, Unused, Kinds
<1>2. TypeOK
  BY <1>1 DEF Init, TypeOK
<1>3. BlocksAccounted
  BY <1>1 DEF Init, BlocksAccounted, Carries
<1>4. HeldIsRegistered
  BY <1>1, OwnedBytesAssumption DEF Init, HeldIsRegistered, Callers
<1> QED
  BY <1>2, <1>3, <1>4 DEF OwnedInv

\* A call with a buffer has a proper one.
LEMMA OwnedCallTyped ==
  ASSUME TypeOK, NEW c \in Callers, calls[c] # Idle
  PROVE  /\ calls[c] \in [pc : {"copied", "issued", "removed"}, kind : Kinds,
                          ptr : Address, len : Lengths]
         /\ calls[c].len \in Nat \ {0}
BY OwnedBytesAssumption DEF TypeOK

LEMMA CopyInv ==
  ASSUME OwnedInv, NEW c \in Callers, NEW kind \in Kinds, NEW ptr \in Address, NEW len \in Lengths,
         Copy(c, kind, ptr, len)
  PROVE  OwnedInv'
<1> DEFINE call == [pc |-> "copied", kind |-> kind, ptr |-> ptr, len |-> len]
           block == [kind |-> kind, len |-> len]
<1>1. /\ calls[c] = Idle /\ heap[ptr] = Unused
      /\ heap' = [heap EXCEPT ![ptr] = block]
      /\ calls' = [calls EXCEPT ![c] = call]
      /\ UNCHANGED <<tables, held>>
  BY DEF Copy
<1>2. TypeOK'
  BY <1>1 DEF OwnedInv, TypeOK
<1>3. len # 0 /\ Unused # block /\ Idle.pc = "idle"
  BY OwnedBytesAssumption DEF Unused, Idle, Kinds
<1>4. /\ \A k \in Kinds : tables[k][ptr] = 0
      /\ \A d \in Callers : ~Carries(d, ptr)
  <2>1. ASSUME NEW k \in Kinds, tables[k][ptr] # 0
        PROVE  FALSE
    <3>1. heap[ptr] = [kind |-> k, len |-> tables[k][ptr]]
      BY <2>1 DEF OwnedInv, BlocksAccounted
    <3> QED
      BY <1>1, <3>1 DEF Unused, Kinds
  <2>2. ASSUME NEW d \in Callers, Carries(d, ptr)
        PROVE  FALSE
    <3>1. heap[ptr] = [kind |-> calls[d].kind, len |-> calls[d].len]
      BY <2>2 DEF OwnedInv, BlocksAccounted
    <3>2. calls[d] # Idle
      BY <1>3, <2>2 DEF Carries
    <3>3. calls[d].kind \in Kinds
      BY <3>2, OwnedCallTyped DEF OwnedInv
    <3> QED
      BY <1>1, <3>1, <3>3 DEF Unused, Kinds
  <2> QED
    BY <2>1, <2>2
<1>5. \A d \in Callers, a \in Address : Carries(d, a)' <=> (IF d = c THEN a = ptr ELSE Carries(d, a))
  BY <1>1 DEF Carries, OwnedInv, TypeOK
<1>6. \A a \in Address : heap'[a] = IF a = ptr THEN block ELSE heap[a]
  BY <1>1 DEF OwnedInv, TypeOK
<1>7. ~\E a \in Address : Carries(c, a)
  BY <1>1, <1>3 DEF Carries
<1>8. calls'[c] = call /\ \A d \in Callers \ {c} : calls'[d] = calls[d]
  BY <1>1 DEF OwnedInv, TypeOK
<1>9. BlocksAccounted'
  <2> SUFFICES ASSUME NEW a \in Address
               PROVE  /\ \A k \in Kinds : tables[k][a] # 0 =>
                           heap'[a] = [kind |-> k, len |-> tables[k][a]]
                      /\ \A d \in Callers : Carries(d, a)' =>
                           /\ heap'[a] = [kind |-> calls'[d].kind, len |-> calls'[d].len]
                           /\ \A k \in Kinds : tables[k][a] = 0
                           /\ \A e \in Callers : Carries(e, a)' => e = d
                      /\ heap'[a] # Unused => \/ \E k \in Kinds : tables[k][a] # 0
                                              \/ \E d \in Callers : Carries(d, a)'
    BY <1>1 DEF BlocksAccounted
  <2>1. CASE a = ptr
    BY <2>1, <1>4, <1>5, <1>6, <1>8
  <2>2. CASE a # ptr
    <3>1. heap'[a] = heap[a] /\ \A d \in Callers : Carries(d, a)' <=> Carries(d, a)
      BY <2>2, <1>5, <1>6, <1>7
    <3>2. \A d \in Callers : Carries(d, a) => calls'[d] = calls[d]
      BY <1>7, <1>8
    <3> QED
      BY <3>1, <3>2 DEF OwnedInv, BlocksAccounted
  <2> QED
    BY <2>1, <2>2
<1>10. HeldIsRegistered'
  <2>1. \A d \in Goroutines : calls'[d].pc = "issued" => calls'[d] = calls[d]
    BY <1>8 DEF Callers
  <2> QED
    BY <1>1, <2>1 DEF OwnedInv, HeldIsRegistered
<1> QED
  BY <1>2, <1>9, <1>10 DEF OwnedInv

LEMMA RegisterInv ==
  ASSUME OwnedInv, NEW c \in Callers, Register(c)
  PROVE  OwnedInv'
<1> DEFINE b == calls[c]
           new == [owner |-> c, kind |-> b.kind, ptr |-> b.ptr, len |-> b.len]
<1>1. /\ b.pc = "copied" /\ b # Idle
      /\ b.kind \in Kinds /\ b.ptr \in Address /\ b.len \in Lengths /\ b.len # 0
  <2>1. b.pc = "copied" /\ b # Idle
    BY DEF Register, Idle
  <2> QED
    BY <2>1, OwnedCallTyped DEF OwnedInv
<1>2. /\ heap[b.ptr] = [kind |-> b.kind, len |-> b.len]
      /\ \A k \in Kinds : tables[k][b.ptr] = 0
      /\ \A d \in Callers : Carries(d, b.ptr) => d = c
  <2>1. Carries(c, b.ptr)
    BY <1>1 DEF Carries
  <2> QED
    BY <1>1, <2>1 DEF OwnedInv, BlocksAccounted
<1>3. /\ tables' = [tables EXCEPT ![b.kind][b.ptr] = b.len]
      /\ heap' = heap
      /\ held' = held \cup {new}
      /\ calls' = [calls EXCEPT ![c] = IF c \in Goroutines THEN [b EXCEPT !.pc = "issued"]
                                       ELSE Idle]
  BY <1>1, <1>2 DEF Register, RegisteredLength
<1>4. calls'[c].pc \notin {"copied", "removed"}
  BY <1>1, <1>3 DEF OwnedInv, TypeOK, Idle
<1>5. \A d \in Callers \ {c} : calls'[d] = calls[d]
  BY <1>3 DEF OwnedInv, TypeOK
<1>6. \A k \in Kinds, a \in Address :
        tables'[k][a] = IF k = b.kind /\ a = b.ptr THEN b.len ELSE tables[k][a]
  BY <1>1, <1>3 DEF OwnedInv, TypeOK
<1>7. \A d \in Callers, a \in Address : Carries(d, a)' <=> (d # c /\ Carries(d, a))
  BY <1>4, <1>5 DEF Carries
<1>8. TypeOK'
  <2>1. heap' \in [Address -> [kind : Kinds, len : Lengths] \cup {Unused}]
    BY <1>3 DEF OwnedInv, TypeOK
  <2>2. tables' \in [Kinds -> [Address -> Lengths \cup {0}]]
    BY <1>1, <1>3 DEF OwnedInv, TypeOK
  <2>3. b \in [pc : {"copied", "issued", "removed"}, kind : Kinds, ptr : Address, len : Lengths]
    BY <1>1, OwnedCallTyped DEF OwnedInv
  <2>4. [b EXCEPT !.pc = "issued"]
          \in [pc : {"copied", "issued", "removed"}, kind : Kinds, ptr : Address, len : Lengths]
    BY <2>3
  <2>5. calls' \in [Callers -> [pc : {"copied", "issued", "removed"}, kind : Kinds,
                                ptr : Address, len : Lengths] \cup {Idle}]
    BY <1>3, <2>4 DEF OwnedInv, TypeOK
  <2>6. held' \subseteq [owner : Callers, kind : Kinds, ptr : Address, len : Lengths]
    BY <1>1, <1>3 DEF OwnedInv, TypeOK
  <2> QED
    BY <2>1, <2>2, <2>5, <2>6 DEF TypeOK
<1>9. BlocksAccounted'
  <2> SUFFICES ASSUME NEW a \in Address
               PROVE  /\ \A k \in Kinds : tables'[k][a] # 0 =>
                           heap[a] = [kind |-> k, len |-> tables'[k][a]]
                      /\ \A d \in Callers : Carries(d, a)' =>
                           /\ heap[a] = [kind |-> calls'[d].kind, len |-> calls'[d].len]
                           /\ \A k \in Kinds : tables'[k][a] = 0
                           /\ \A e \in Callers : Carries(e, a)' => e = d
                      /\ heap[a] # Unused => \/ \E k \in Kinds : tables'[k][a] # 0
                                             \/ \E d \in Callers : Carries(d, a)'
    BY <1>3 DEF BlocksAccounted
  <2>1. CASE a = b.ptr
    BY <2>1, <1>1, <1>2, <1>6, <1>7
  <2>2. CASE a # b.ptr
    <3>1. ~Carries(c, a)
      BY <2>2 DEF Carries
    <3>2. \A k \in Kinds : tables'[k][a] = tables[k][a]
      BY <2>2, <1>6
    <3>3. \A d \in Callers : Carries(d, a)' <=> Carries(d, a)
      BY <3>1, <1>7
    <3>4. \A d \in Callers : Carries(d, a) => calls'[d] = calls[d]
      BY <3>1, <1>5
    <3> QED
      BY <3>2, <3>3, <3>4 DEF OwnedInv, BlocksAccounted
  <2> QED
    BY <2>1, <2>2
<1>10. HeldIsRegistered'
  <2>1. \A d \in held : d.ptr # b.ptr
    <3> SUFFICES ASSUME NEW d \in held, d.ptr = b.ptr
                 PROVE  FALSE
      OBVIOUS
    <3>1. d.kind \in Kinds /\ d.len # 0
      BY OwnedBytesAssumption DEF OwnedInv, TypeOK
    <3> QED
      BY <1>2, <3>1 DEF OwnedInv, HeldIsRegistered
  <2>2. \A d \in held' : tables'[d.kind][d.ptr] = d.len
    <3>1. \A d \in held : d.kind \in Kinds /\ d.ptr \in Address
      BY DEF OwnedInv, TypeOK
    <3> QED
      BY <1>1, <1>3, <1>6, <2>1, <3>1 DEF OwnedInv, HeldIsRegistered
  <2>3. \A d, e \in held' : d.ptr = e.ptr => d = e
    BY <1>3, <2>1 DEF OwnedInv, HeldIsRegistered
  <2>4. ASSUME NEW d \in Goroutines, calls'[d].pc = "issued"
        PROVE  Buffer(d)' \in held'
    <3>1. CASE d = c
      BY <3>1, <1>1, <1>3, OwnedCallTyped DEF OwnedInv, TypeOK, Buffer
    <3>2. CASE d # c
      BY <3>2, <1>3, <1>5, <2>4 DEF OwnedInv, HeldIsRegistered, Buffer, Callers
    <3> QED
      BY <3>1, <3>2
  <2> QED
    BY <2>2, <2>3, <2>4 DEF HeldIsRegistered, Buffer
<1> QED
  BY <1>8, <1>9, <1>10 DEF OwnedInv

\* A call may free what it was issued, or what some client was.
LEMMA FreeInv ==
  ASSUME OwnedInv, NEW c \in Callers, NEW kind \in Kinds, NEW ptr \in Address, NEW len \in Lengths,
         Free(c, kind, ptr, len), calls[c].pc \notin {"copied", "removed"},
         \A d \in Goroutines \ {c} : calls[d].pc = "issued" => calls[d].ptr # ptr
  PROVE  OwnedInv'
<1>1. CASE ~Matches(tables[kind][ptr], len)
  <2>1. /\ UNCHANGED <<heap, tables, held>>
        /\ calls' = [calls EXCEPT ![c] = Idle]
    BY <1>1 DEF Free, AfterFree, OwnedInv, TypeOK
  <2>2. TypeOK'
    BY <2>1 DEF OwnedInv, TypeOK
  <2>3. \A d \in Callers : calls'[d] = IF d = c THEN Idle ELSE calls[d]
    BY <2>1 DEF OwnedInv, TypeOK
  <2>4. \A d \in Callers, a \in Address : Carries(d, a)' <=> Carries(d, a)
    <3>1. Idle.pc \notin {"copied", "removed"}
      BY DEF Idle
    <3> QED
      BY <2>3, <3>1 DEF Carries
  <2>5. \A d \in Callers, a \in Address : Carries(d, a) => calls'[d] = calls[d]
    BY <2>3 DEF Carries
  <2>6. BlocksAccounted'
    BY <2>1, <2>4, <2>5 DEF OwnedInv, BlocksAccounted
  <2>7. HeldIsRegistered'
    BY <2>1, <2>3 DEF OwnedInv, HeldIsRegistered, Idle, Callers
  <2> QED
    BY <2>2, <2>6, <2>7 DEF OwnedInv
<1>2. CASE Matches(tables[kind][ptr], len)
  <2> DEFINE call == [pc |-> "removed", kind |-> kind, ptr |-> ptr, len |-> len]
  <2>1. /\ tables' = [tables EXCEPT ![kind][ptr] = 0]
        /\ held' = {b \in held : b.ptr # ptr}
        /\ calls' = [calls EXCEPT ![c] = call]
        /\ heap' = heap
    BY <1>2 DEF Free, AfterFree
  <2>2. /\ tables[kind][ptr] = len /\ len # 0
        /\ heap[ptr] = [kind |-> kind, len |-> len]
        /\ \A k \in Kinds \ {kind} : tables[k][ptr] = 0
        /\ \A d \in Callers : ~Carries(d, ptr)
    <3>1. tables[kind][ptr] = len /\ len # 0
      BY <1>2, OwnedBytesAssumption DEF Matches
    <3>2. heap[ptr] = [kind |-> kind, len |-> len]
      BY <3>1 DEF OwnedInv, BlocksAccounted
    <3>3. ASSUME NEW k \in Kinds, tables[k][ptr] # 0
          PROVE  k = kind
      <4>1. heap[ptr] = [kind |-> k, len |-> tables[k][ptr]]
        BY <3>3 DEF OwnedInv, BlocksAccounted
      <4> QED
        BY <3>2, <4>1
    <3>4. \A d \in Callers : ~Carries(d, ptr)
      BY <3>1 DEF OwnedInv, BlocksAccounted
    <3> QED
      BY <3>1, <3>2, <3>3, <3>4
  <2>3. TypeOK'
    BY <2>1 DEF OwnedInv, TypeOK
  <2>4. \A d \in Callers : calls'[d] = IF d = c THEN call ELSE calls[d]
    BY <2>1 DEF OwnedInv, TypeOK
  <2>5. \A k \in Kinds, a \in Address :
          tables'[k][a] = IF k = kind /\ a = ptr THEN 0 ELSE tables[k][a]
    BY <2>1 DEF OwnedInv, TypeOK
  <2>6. \A d \in Callers, a \in Address :
          Carries(d, a)' <=> (IF d = c THEN a = ptr ELSE Carries(d, a))
    BY <2>4 DEF Carries
  <2>7. \A a \in Address : ~Carries(c, a)
    BY DEF Carries
  <2>8. BlocksAccounted'
    <3> SUFFICES ASSUME NEW a \in Address
                 PROVE  /\ \A k \in Kinds : tables'[k][a] # 0 =>
                             heap[a] = [kind |-> k, len |-> tables'[k][a]]
                        /\ \A d \in Callers : Carries(d, a)' =>
                             /\ heap[a] = [kind |-> calls'[d].kind, len |-> calls'[d].len]
                             /\ \A k \in Kinds : tables'[k][a] = 0
                             /\ \A e \in Callers : Carries(e, a)' => e = d
                        /\ heap[a] # Unused => \/ \E k \in Kinds : tables'[k][a] # 0
                                               \/ \E d \in Callers : Carries(d, a)'
      BY <2>1 DEF BlocksAccounted
    <3>1. CASE a = ptr
      BY <3>1, <2>2, <2>4, <2>5, <2>6
    <3>2. CASE a # ptr
      <4>1. \A k \in Kinds : tables'[k][a] = tables[k][a]
        BY <3>2, <2>5
      <4>2. \A d \in Callers : Carries(d, a)' <=> Carries(d, a)
        BY <3>2, <2>6, <2>7
      <4>3. \A d \in Callers : Carries(d, a) => calls'[d] = calls[d]
        BY <2>4, <2>7
      <4> QED
        BY <4>1, <4>2, <4>3 DEF OwnedInv, BlocksAccounted
    <3> QED
      BY <3>1, <3>2
  <2>9. HeldIsRegistered'
    <3>1. \A b \in held' : b \in held /\ b.ptr # ptr /\ b.kind \in Kinds /\ b.ptr \in Address
      BY <2>1 DEF OwnedInv, TypeOK
    <3>2. \A b \in held' : tables'[b.kind][b.ptr] = b.len
      BY <2>5, <3>1 DEF OwnedInv, HeldIsRegistered
    <3>3. \A b, d \in held' : b.ptr = d.ptr => b = d
      BY <3>1 DEF OwnedInv, HeldIsRegistered
    <3>4. ASSUME NEW d \in Goroutines, calls'[d].pc = "issued"
          PROVE  Buffer(d)' \in held'
      <4>1. d # c /\ calls'[d] = calls[d]
        BY <2>4, <3>4 DEF Callers
      <4>2. Buffer(d) \in held /\ calls[d].ptr # ptr
        BY <3>4, <4>1 DEF OwnedInv, HeldIsRegistered, Buffer
      <4> QED
        BY <2>1, <4>1, <4>2 DEF Buffer
    <3> QED
      BY <3>2, <3>3, <3>4 DEF HeldIsRegistered, Buffer
  <2> QED
    BY <2>3, <2>8, <2>9 DEF OwnedInv
<1> QED
  BY <1>1, <1>2

LEMMA GoFreeInv ==
  ASSUME OwnedInv, NEW c \in Goroutines, GoFree(c)
  PROVE  OwnedInv'
<1>1. calls[c].pc = "issued" /\ Free(c, calls[c].kind, calls[c].ptr, calls[c].len)
  BY DEF GoFree
<1>2. c \in Callers /\ calls[c] # Idle
  BY <1>1 DEF Callers, Idle
<1>3. calls[c].kind \in Kinds /\ calls[c].ptr \in Address /\ calls[c].len \in Lengths
  BY <1>2, OwnedCallTyped DEF OwnedInv
<1>4. ASSUME NEW d \in Goroutines \ {c}, calls[d].pc = "issued"
      PROVE  calls[d].ptr # calls[c].ptr
  <2>1. Buffer(c) \in held /\ Buffer(d) \in held
    BY <1>1, <1>4 DEF OwnedInv, HeldIsRegistered, Buffer
  <2>2. Buffer(c).ptr # Buffer(d).ptr
    <3>1. Buffer(c).owner # Buffer(d).owner
      BY <1>4 DEF Buffer
    <3> QED
      BY <2>1, <3>1 DEF OwnedInv, HeldIsRegistered
  <2> QED
    BY <2>2 DEF Buffer
<1> QED
  BY <1>1, <1>2, <1>3, <1>4, FreeInv

LEMMA ClientFreeInv ==
  ASSUME OwnedInv, NEW c \in Clients, NEW kind \in Kinds, NEW ptr \in Address, NEW len \in Lengths,
         ClientFree(c, kind, ptr, len)
  PROVE  OwnedInv'
<1>1. calls[c] = Idle /\ Free(c, kind, ptr, len)
  BY DEF ClientFree
<1>2. calls[c].pc \notin {"copied", "removed"}
  BY <1>1 DEF Idle
<1>3. PICK b \in held : b.owner \in Clients /\ b.ptr = ptr
  BY DEF ClientFree
<1>4. ASSUME NEW d \in Goroutines, calls[d].pc = "issued"
      PROVE  calls[d].ptr # ptr
  <2>1. Buffer(d) \in held
    BY <1>4 DEF OwnedInv, HeldIsRegistered, Buffer
  <2>2. Buffer(d).owner # b.owner
    BY <1>3, OwnedBytesAssumption DEF Buffer
  <2>3. Buffer(d).ptr # b.ptr
    BY <2>1, <2>2 DEF OwnedInv, HeldIsRegistered
  <2> QED
    BY <1>3, <2>3 DEF Buffer
<1> QED
  BY <1>1, <1>2, <1>4, FreeInv DEF Callers

LEMMA DropInv ==
  ASSUME OwnedInv, NEW c \in Callers, Drop(c)
  PROVE  OwnedInv'
<1> DEFINE ptr == calls[c].ptr
<1>1. /\ calls[c].pc = "removed" /\ calls[c] # Idle
      /\ heap' = [heap EXCEPT ![ptr] = Unused]
      /\ calls' = [calls EXCEPT ![c] = Idle]
      /\ UNCHANGED <<tables, held>>
  BY DEF Drop, Idle
<1>2. ptr \in Address
  BY <1>1, OwnedCallTyped DEF OwnedInv
<1>3. /\ Carries(c, ptr)
      /\ \A k \in Kinds : tables[k][ptr] = 0
      /\ \A d \in Callers : Carries(d, ptr) => d = c
  <2>1. Carries(c, ptr)
    BY <1>1 DEF Carries
  <2> QED
    BY <1>2, <2>1 DEF OwnedInv, BlocksAccounted
<1>4. TypeOK'
  BY <1>1 DEF OwnedInv, TypeOK
<1>5. Idle.pc = "idle"
  BY DEF Idle
<1>6. \A d \in Callers : calls'[d] = IF d = c THEN Idle ELSE calls[d]
  BY <1>1 DEF OwnedInv, TypeOK
<1>7. \A d \in Callers, a \in Address : Carries(d, a)' <=> (d # c /\ Carries(d, a))
  BY <1>5, <1>6 DEF Carries
<1>8. \A a \in Address : heap'[a] = IF a = ptr THEN Unused ELSE heap[a]
  BY <1>1 DEF OwnedInv, TypeOK
<1>9. BlocksAccounted'
  <2> SUFFICES ASSUME NEW a \in Address
               PROVE  /\ \A k \in Kinds : tables[k][a] # 0 =>
                           heap'[a] = [kind |-> k, len |-> tables[k][a]]
                      /\ \A d \in Callers : Carries(d, a)' =>
                           /\ heap'[a] = [kind |-> calls'[d].kind, len |-> calls'[d].len]
                           /\ \A k \in Kinds : tables[k][a] = 0
                           /\ \A e \in Callers : Carries(e, a)' => e = d
                      /\ heap'[a] # Unused => \/ \E k \in Kinds : tables[k][a] # 0
                                              \/ \E d \in Callers : Carries(d, a)'
    BY <1>1 DEF BlocksAccounted
  <2>1. CASE a = ptr
    BY <2>1, <1>3, <1>7, <1>8
  <2>2. CASE a # ptr
    <3>1. ~Carries(c, a)
      BY <2>2 DEF Carries
    <3>2. heap'[a] = heap[a] /\ \A d \in Callers : Carries(d, a)' <=> Carries(d, a)
      BY <2>2, <3>1, <1>7, <1>8
    <3>3. \A d \in Callers : Carries(d, a) => calls'[d] = calls[d]
      BY <3>1, <1>6
    <3> QED
      BY <3>2, <3>3 DEF OwnedInv, BlocksAccounted
  <2> QED
    BY <2>1, <2>2
<1>10. HeldIsRegistered'
  BY <1>1, <1>5, <1>6 DEF OwnedInv, HeldIsRegistered, Callers
<1> QED
  BY <1>4, <1>9, <1>10 DEF OwnedInv

LEMMA OwnedInvariant == Spec => []OwnedInv
<1>1. Init => OwnedInv
  BY OwnedInitially
<1>2. OwnedInv /\ [Next]_vars => OwnedInv'
  <2> SUFFICES ASSUME OwnedInv, [Next]_vars
               PROVE  OwnedInv'
    OBVIOUS
  <2>1. ASSUME NEW c \in Callers, NEW kind \in Kinds, NEW ptr \in Address, NEW len \in Lengths,
               Copy(c, kind, ptr, len)
        PROVE  OwnedInv'
    BY <2>1, CopyInv
  <2>2. ASSUME NEW c \in Callers, Register(c) PROVE OwnedInv'
    BY <2>2, RegisterInv
  <2>3. ASSUME NEW c \in Callers, Drop(c) PROVE OwnedInv'
    BY <2>3, DropInv
  <2>4. ASSUME NEW c \in Goroutines, GoFree(c) PROVE OwnedInv'
    BY <2>4, GoFreeInv
  <2>5. ASSUME NEW c \in Clients, NEW kind \in Kinds, NEW ptr \in Address, NEW len \in Lengths,
               ClientFree(c, kind, ptr, len)
        PROVE  OwnedInv'
    BY <2>5, ClientFreeInv
  <2>6. CASE UNCHANGED vars
    BY <2>6 DEF vars, OwnedInv, TypeOK, BlocksAccounted, Carries, HeldIsRegistered
  <2> QED
    BY <2>1, <2>2, <2>3, <2>4, <2>5, <2>6 DEF Next
<1> QED
  BY <1>1, <1>2, PTL DEF Spec

\* Addresses, lengths and the stages of every call stay what they should be.
THEOREM OwnedBytesTypeCorrect == Spec => []TypeOK
BY OwnedInvariant, PTL DEF OwnedInv

\* Every block has one owner, a table or a call, that knows its kind and its length.
THEOREM BlocksAccountedCorrect == Spec => []BlocksAccounted
BY OwnedInvariant, PTL DEF OwnedInv

\* What a caller has been given stays registered as it was given, until it is freed.
THEOREM HeldIsRegisteredCorrect == Spec => []HeldIsRegistered
BY OwnedInvariant, PTL DEF OwnedInv

\* A free that the Go bindings owe is accepted: they never warn that one has failed.
THEOREM GoFreeAccepted ==
  Spec => [](\A c \in Goroutines : calls[c].pc = "issued" =>
               Matches(tables[calls[c].kind][calls[c].ptr], calls[c].len))
<1>1. OwnedInv => \A c \in Goroutines : calls[c].pc = "issued" =>
               Matches(tables[calls[c].kind][calls[c].ptr], calls[c].len)
  BY DEF OwnedInv, HeldIsRegistered, Matches
<1> QED
  BY <1>1, OwnedInvariant, PTL

=============================================================================
