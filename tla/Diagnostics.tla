------------------------------ MODULE Diagnostics ------------------------------
(***************************************************************************)
(* What a parser remembers of its last failure, and how it gets into a Go  *)
(* error.  The native parser has one message and one offset.  A parse      *)
(* clears them, sets them, and may replay the input to find the offset;    *)
(* Parser.Parse then reads them with four more native calls, each a turn   *)
(* of its own at the registry's mutex (errors.go: wrapParserStatus).  Only *)
(* Parser.mu holds these calls together.                                   *)
(*                                                                         *)
(* The goroutines share one Parser.  What simdjson finds in an input is a  *)
(* property of the input; an exception may come at any time.  Closing the  *)
(* parser is in GoLifecycle.                                               *)
(***************************************************************************)
EXTENDS Integers

CONSTANTS
  Parsing,       \* goroutines
  Inputs,
  Finds,         \* what simdjson finds in each input
  ParserCapacity

Nobody == "nobody"
\* A message is named by the input it is about.
NoMessage == "no message"
ExceptionText == "exception"
UnknownOffset == -1

Outcomes == {"valid", "invalid_json", "stopped"}

ASSUME DiagnosticsAssumption ==
  /\ ParserCapacity \in Nat
  /\ {NoMessage, ExceptionText} \cap Inputs = {}
  /\ Nobody \notin Parsing
  /\ Finds \in
       [Inputs ->
          [length : Nat,
           \* what parsing it comes to
           primary : {"ok", "invalid_json", "depth_limit"},
           \* what the two replays come to, and where On-Demand says it has stopped
           raw : [outcome : Outcomes, location : Int],
           recursive : [outcome : Outcomes, location : Int]]]

VARIABLES
  diag,        \* last_error, last_error_offset, last_error_has_offset
  nativeBusy,  \* the native parser has a document
  liveDoc,     \* Parser.liveDoc is not 0
  mu,          \* who holds Parser.mu
  parses       \* parses[g]: the call of Parse that g is in or has last returned from

diagVars == <<diag, nativeBusy, liveDoc, mu, parses>>

NoDetails == [message |-> NoMessage, offset |-> UnknownOffset, hasOffset |-> FALSE]
\* nativeDetails{}
WithoutDetails == [NoDetails EXCEPT !.offset = 0]
NotParsing == [pc |-> "idle", input |-> NoMessage, rc |-> "ok", error |-> WithoutDetails]

DiagInit ==
  /\ diag = NoDetails
  /\ nativeBusy = FALSE /\ liveDoc = FALSE
  /\ mu = Nobody
  /\ parses = [g \in Parsing |-> NotParsing]

-----------------------------------------------------------------------------
(* The bridge *)

\* Mutated form: the byte behind the last one is a byte of the input.
InBoundsOrAtEnd(input, location) == location \in 0 .. Finds[input].length
\* checked_diagnostic_offset: known only for a location before the end.
InBounds(input, location) == location \in 0 .. Finds[input].length - 1

\* record_replay_failure, with the message set before.
Located(input, failed, pass) ==
  IF pass.outcome = "invalid_json" /\ InBounds(input, pass.location)
  THEN [failed EXCEPT !.offset = pass.location, !.hasOffset = TRUE]
  ELSE failed

\* set_last_error and capture_diagnostic_location: only a syntax error is replayed, and
\* recursively only if skipping over the values has found nothing.
Captured(input) ==
  LET failed == [NoDetails EXCEPT !.message = input]
      found == Finds[input]
  IN  CASE found.primary # "invalid_json" -> failed
        [] found.primary = "invalid_json" /\ found.raw.outcome # "valid" ->
             Located(input, failed, found.raw)
        [] OTHER -> Located(input, failed, found.recursive)

\* Mutated form: a parse leaves clearing to its success.
NotReset(d) == d
\* psimdjson_parser_reset_diagnostics
Reset(d) == NoDetails

-----------------------------------------------------------------------------
(* Parser.Parse *)

Update(g, changes) == parses' = [parses EXCEPT ![g] = changes]

\* p.mu is taken; a live document ends the call without a word from the parser.
ParseBegins(g, input) ==
  /\ parses[g].pc \in {"idle", "returned"}
  /\ mu = Nobody
  /\ IF liveDoc
     THEN /\ Update(g, [pc |-> "returned", input |-> input, rc |-> "parser_busy",
                        error |-> WithoutDetails])
          /\ UNCHANGED mu
     ELSE /\ Update(g, [pc |-> "parse", input |-> input, rc |-> "ok", error |-> WithoutDetails])
          /\ mu' = g
  /\ UNCHANGED <<diag, nativeBusy, liveDoc>>

\* registry.rs: parser_parse, which resets before it compares lengths, but not a busy parser.
NativeParse(g) ==
  LET call == parses[g]  input == call.input  found == Finds[input]
      Ends(rc, details) ==
        /\ Update(g, [call EXCEPT !.rc = rc, !.pc = IF rc = "ok" THEN "root" ELSE "message"])
        /\ diag' = details
        /\ nativeBusy' = (nativeBusy \/ rc = "ok")
  IN  /\ call.pc = "parse"
      /\ \/ nativeBusy /\ Ends("parser_busy", diag)
         \/ ~nativeBusy /\ found.length > ParserCapacity /\ Ends("capacity_limit", Reset(diag))
         \/ ~nativeBusy /\ found.length <= ParserCapacity
            /\ \/ IF found.primary = "ok" THEN Ends("ok", NoDetails)
                  ELSE Ends(found.primary, Captured(input))
               \* thrown before or after the message was set; the exception's own text
               \* may in turn not fit in memory
               \/ \E message \in {ExceptionText, NoMessage, input} :
                    /\ message = input => found.primary # "ok"
                    /\ Ends("cpp_exception", [Reset(diag) EXCEPT !.message = message])
               \* the document could not be entered and was freed again
               \/ found.primary = "ok" /\ Ends("internal", NoDetails)
      /\ UNCHANGED <<liveDoc, mu>>

\* ParserLastError: the length, then a copy of as many bytes.
ReadMessage(g) ==
  /\ parses[g].pc = "message"
  /\ Update(g, [parses[g] EXCEPT !.error.message = diag.message,
                                 !.pc = IF diag.message = NoMessage THEN "offset" ELSE "copy"])
  /\ UNCHANGED <<diag, nativeBusy, liveDoc, mu>>

\* Too small a buffer, and the error goes without.
CopyMessage(g) ==
  /\ parses[g].pc = "copy"
  /\ \E fits \in BOOLEAN :
       /\ diag.message = parses[g].error.message => fits
       /\ Update(g, [parses[g] EXCEPT !.error.message = IF fits THEN diag.message ELSE NoMessage,
                                      !.pc = "offset"])
  /\ UNCHANGED <<diag, nativeBusy, liveDoc, mu>>

ReadOffset(g) ==
  /\ parses[g].pc = "offset"
  /\ Update(g, [parses[g] EXCEPT !.error.offset = diag.offset, !.pc = "has_offset"])
  /\ UNCHANGED <<diag, nativeBusy, liveDoc, mu>>

\* ParserLastErrorHasOffset, and the return with the error.
ReadHasOffset(g) ==
  /\ parses[g].pc = "has_offset"
  /\ Update(g, [parses[g] EXCEPT !.error.offset = IF diag.hasOffset THEN @ ELSE 0,
                                 !.error.hasOffset = diag.hasOffset, !.pc = "returned"])
  /\ mu' = Nobody
  /\ UNCHANGED <<diag, nativeBusy, liveDoc>>

\* DocRoot; if that fails the document is freed, which may fail too.
Root(g) ==
  /\ parses[g].pc = "root"
  /\ \E ok, freed \in BOOLEAN :
       /\ liveDoc' = ok
       /\ nativeBusy' = (ok \/ ~freed)
       /\ Update(g, [parses[g] EXCEPT !.pc = "returned", !.rc = IF ok THEN "ok" ELSE "internal"])
  /\ mu' = Nobody
  /\ UNCHANGED diag

-----------------------------------------------------------------------------
(* Doc.Close, by anybody *)

CloseFrees ==
  /\ liveDoc /\ nativeBusy
  /\ nativeBusy' = FALSE
  /\ UNCHANGED <<diag, liveDoc, mu, parses>>

CloseClears ==
  /\ liveDoc /\ ~nativeBusy /\ mu = Nobody
  /\ liveDoc' = FALSE
  /\ UNCHANGED <<diag, nativeBusy, mu, parses>>

DiagNext ==
  \/ \E g \in Parsing, input \in Inputs : ParseBegins(g, input)
  \/ \E g \in Parsing :
       \/ NativeParse(g) \/ Root(g)
       \/ ReadMessage(g) \/ CopyMessage(g) \/ ReadOffset(g) \/ ReadHasOffset(g)
  \/ CloseFrees
  \/ CloseClears

DiagSpec == DiagInit /\ [][DiagNext]_diagVars

-----------------------------------------------------------------------------
(* Properties *)

\* The goroutine that holds Parser.mu.
Inside(g) == parses[g].pc \notin {"idle", "returned"}

DiagTypeOK ==
  /\ diag \in [message : Inputs \cup {NoMessage, ExceptionText}, offset : Int, hasOffset : BOOLEAN]
  /\ nativeBusy \in BOOLEAN /\ liveDoc \in BOOLEAN
  /\ mu \in Parsing \cup {Nobody}
  /\ \A g \in Parsing : Inside(g) <=> mu = g

\* Where simdjson stopped in an input with a syntax error.
StoppedAt(found) == IF found.raw.outcome # "valid" THEN found.raw ELSE found.recursive

\* A syntax error has its message, and an offset exactly if the place where simdjson stopped
\* is proven to be inside the input; an error that is no diagnosis of the input (too long,
\* busy, not entered) has neither.
Faithful(call) ==
  LET error == call.error  found == Finds[call.input]
      own == found.primary  stop == StoppedAt(found)
  IN  /\ call.rc = own /\ own # "ok" => error.message = call.input
      /\ call.rc = "cpp_exception" => error.message \in {call.input, ExceptionText, NoMessage}
      /\ call.rc \notin {own, "cpp_exception"} => error = WithoutDetails
      /\ error.hasOffset <=>
           /\ call.rc = "invalid_json" /\ stop.outcome = "invalid_json"
           /\ stop.location >= 0 /\ stop.location < found.length
      /\ error.offset = IF error.hasOffset THEN stop.location ELSE 0

\* The message and the offset of an error that Parse returns are about its own input, however
\* the calls of other goroutines, closings and earlier failures lie around it.
DetailsMatchCall ==
  \A g \in Parsing : parses[g].pc = "returned" => Faithful(parses[g])
=============================================================================
