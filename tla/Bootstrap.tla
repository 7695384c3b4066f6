-------------------------------- MODULE Bootstrap --------------------------------
(***************************************************************************)
(* How the native library gets on the disk: BootstrapSync of               *)
(* internal/bootstrap, and resolveLibraryPath, which loading the library   *)
(* calls.  Goroutines of several processes share a cache directory.  Each  *)
(* process remembers failures for a while; a file lock beside the artifact *)
(* lets one goroutine at a time resolve the checksum, download and install.*)
(*                                                                         *)
(* Time is not modelled: a memo may have expired whenever it is looked at, *)
(* a call may be cancelled and a wait for the lock may time out whenever   *)
(* it lasts.  Digests stand for contents.  A call that returns at once     *)
(* (context already done, bad configuration, PURE_SIMDJSON_LIB_PATH set,   *)
(* artifact found by resolveLibraryPath) changes nothing and is no action. *)
(***************************************************************************)
EXTENDS Naturals

CONSTANTS
  Procs, Callers,
  ProcOf,        \* the process of each goroutine that calls
  EnvConfig,     \* what each process resolves from its environment: a record
                 \* [mirrorURL, disableGH, dir]
  ConfigsOf,     \* what its own calls of BootstrapSync resolve to, with their options
  Published,     \* the digest SHA256SUMS gives for the version and platform
  Corrupt,       \* the digest of anything else a server may send
  Partial,       \* a temporary file that is not written to its end
  None,          \* no file, no lock holder
  RetryAttempt,  \* bootstrapRetryAttempt, 3 in the code
  MaxCrashes     \* bound of the model

ASSUME BootstrapAssumption ==
  /\ ProcOf \in [Callers -> Procs]
  /\ \A p \in Procs : \A k \in {EnvConfig[p]} \cup ConfigsOf[p] : k.disableGH \in BOOLEAN
  /\ None \notin Callers \cup {Published, Corrupt, Partial}
  /\ Published \notin {Corrupt, Partial}
  /\ RetryAttempt \in Nat \ {0}
  /\ MaxCrashes \in Nat

VARIABLES
  call,       \* what each goroutine does
  memo,       \* globalBootstrapFailureCache of each process: the keys in it
  artifact,   \* what is at the cache path in each directory
  lock,       \* who holds the .lock file of each directory
  orphaned,   \* there is a temporary file that belongs to no call
  succeeded,  \* history: keys for which BootstrapSync has returned nil in a process
  crashes     \* history: processes that died so far

vars == <<call, memo, artifact, lock, orphaned, succeeded, crashes>>

Configs == UNION {{EnvConfig[p]} \cup ConfigsOf[p] : p \in Procs}
Dirs == {k.dir : k \in Configs}

\* failureKey: the directory is no part of it.
Key(k) == [mirrorURL |-> k.mirrorURL, disableGH |-> k.disableGH]
Keys == {Key(k) : k \in Configs}

\* The mirror or R2 first, GitHub Releases second.
Urls(k) == IF k.disableGH THEN {1} ELSE {1, 2}
NotAsked == [u \in {1, 2} |-> 0]
NothingSaid == [u \in {1, 2} |-> "none"]

\* The answers that markPermanentBootstrapError marks: a status that is not worth a retry
\* or anything else that makes no sense, a SHA256SUMS without the key, a redirect from
\* HTTPS to HTTP, an artifact over the limit.
Permanent == {"refused", "missing", "downgrade", "too_large"}

\* at is the next step; done says that the context is; url is where a ladder is, asked
\* how many requests it made to each URL, its attempt loop's counter, and said how each
\* of them last failed; tmp is the content of the temporary file; err is what ends the
\* call: one of LadderEnds when a ladder ran out of URLs, "failed" for every other error.
At(at, op, k, err) ==
  [at |-> at, op |-> op, config |-> k, done |-> FALSE, url |-> 1,
   asked |-> NotAsked, said |-> NothingSaid, tmp |-> None, err |-> err]
Idle(c) == At("idle", "sync", EnvConfig[ProcOf[c]], "none")

Init ==
  /\ call = [c \in Callers |-> Idle(c)]
  /\ memo = [p \in Procs |-> {}]
  /\ artifact = [d \in Dirs |-> None]
  /\ lock = [d \in Dirs |-> None]
  /\ orphaned = FALSE
  /\ succeeded = [p \in Procs |-> {}]
  /\ crashes = 0

DirOf(c) == call[c].config.dir
KeyOf(c) == Key(call[c].config)

Become(c, r) == call' = [call EXCEPT ![c] = r]
Goto(c, at) == Become(c, [call[c] EXCEPT !.at = at])

\* ensureArtifact returns; only whether it failed counts from here on.
Settle(c, err) == At("settle", call[c].op, call[c].config, err)

\* What is left of calls that return or die: whatever temporary file they still have.
Leave(S) ==
  /\ call' = [c \in Callers |-> IF c \in S THEN Idle(c) ELSE call[c]]
  /\ orphaned' = (orphaned \/ \E c \in S : call[c].tmp # None)

-----------------------------------------------------------------------------
(* BootstrapSync up to the lock *)

BootstrapSync(c, k) ==
  /\ call[c].at = "idle"
  /\ k \in ConfigsOf[ProcOf[c]]
  /\ Become(c, At("peek", "sync", k, "none"))
  /\ UNCHANGED <<memo, artifact, lock, orphaned, succeeded, crashes>>

\* Stages 2 and 3: the library is not in the cache yet.
ResolveLibraryPath(c) ==
  /\ call[c].at = "idle"
  /\ artifact[DirOf(c)] = None
  /\ Become(c, At("peek", "resolve", call[c].config, "none"))
  /\ UNCHANGED <<memo, artifact, lock, orphaned, succeeded, crashes>>

\* A remembered failure that has not expired ends the call.
PeekHit(c) ==
  /\ call[c].at = "peek"
  /\ KeyOf(c) \in memo[ProcOf[c]]
  /\ Leave({c})
  /\ UNCHANGED <<memo, artifact, lock, succeeded, crashes>>

PeekMiss(c) ==
  /\ call[c].at = "peek"
  /\ Goto(c, "stat")
  /\ memo' = [memo EXCEPT ![ProcOf[c]] = @ \ {KeyOf(c)}]
  /\ UNCHANGED <<artifact, lock, orphaned, succeeded, crashes>>

\* The artifact is there, or its directory and the lock file are made ready, or that
\* fails.
Stat(c, ok) ==
  /\ call[c].at = "stat"
  /\ IF artifact[DirOf(c)] # None THEN Become(c, Settle(c, "none"))
     ELSE IF ok THEN Goto(c, "lock") ELSE Become(c, Settle(c, "failed"))
  /\ UNCHANGED <<memo, artifact, lock, orphaned, succeeded, crashes>>

\* Mutated form: the lock is taken although it is held.
AnyLock(d) == TRUE
LockFree(d) == lock[d] = None

LockFile(c) ==
  /\ call[c].at = "lock"
  /\ LockFree(DirOf(c))
  /\ lock' = [lock EXCEPT ![DirOf(c)] = c]
  /\ Goto(c, "restat")
  /\ UNCHANGED <<memo, artifact, orphaned, succeeded, crashes>>

\* Mutated form: a goroutine waits for the lock as long as it takes.
WaitOn(c) == FALSE
\* Somebody else holds the lock when lockAcquireTimeout has passed or the context ends; or
\* the lock call fails with an error of its own, which is not waited out.
GiveUpLock(c) ==
  /\ call[c].at = "lock"
  /\ Become(c, Settle(c, "failed"))
  /\ UNCHANGED <<memo, artifact, lock, orphaned, succeeded, crashes>>

\* Mutated form: the artifact is not looked for again once the lock is held.
RestatNothing(d) == FALSE
Present(d) == artifact[d] # None

Restat(c) ==
  /\ call[c].at = "restat"
  /\ Goto(c, IF Present(DirOf(c)) THEN "unlock" ELSE "sums")
  /\ UNCHANGED <<memo, artifact, lock, orphaned, succeeded, crashes>>

-----------------------------------------------------------------------------
(* The two ladders, of SHA256SUMS and of the artifact: up to RetryAttempt    *)
(* requests to a URL, then the next one.                                     *)

\* Mutated forms: the error is lost; the temporary file is kept.
FailQuietly(c) == [call[c] EXCEPT !.at = "unlock", !.tmp = None]
FailUntidily(c) == [call[c] EXCEPT !.at = "unlock", !.err = "failed"]
Fail(c) == [call[c] EXCEPT !.at = "unlock", !.err = "failed", !.tmp = None]

\* The context is looked at after the sleep between attempts and before every request.
Attempt(c) ==
  /\ call[c].at \in {"sums", "fetch"}
  /\ IF call[c].done THEN Become(c, Fail(c))
     ELSE Become(c, [call[c] EXCEPT
                       !.at = IF @ = "sums" THEN "sumsGet" ELSE "fetchGet",
                       !.asked[call[c].url] = @ + 1])
  /\ UNCHANGED <<memo, artifact, lock, orphaned, succeeded, crashes>>

\* Mutated form: an answer that is permanent for its URL ends the ladder.
NextUrlNever(r) == {}
NextUrl(r) == {r.url + 1} \cap Urls(r.config)

\* Mutated form: a permanent answer is asked for again.
AgainAlways(r) == r.asked[r.url] < RetryAttempt
Again(r) == r.said[r.url] = "transient" /\ r.asked[r.url] < RetryAttempt

\* What the end of a ladder returns: downloadWithRetry ErrAllSourcesFailed, the ladder of
\* SHA256SUMS ErrNoChecksum when the key was missing from the last answer, and else its
\* last error as it is.
LadderEnds == {"all_sources_failed", "no_checksum", "last_error"}
LadderEnd(r, at) ==
  CASE at = "fetch" -> "all_sources_failed"
    [] at = "sums" /\ r.said[r.url] = "missing" -> "no_checksum"
    [] OTHER -> "last_error"

\* The loops after a failed attempt.
Retry(c, at, answer) ==
  LET r == [call[c] EXCEPT !.tmp = None, !.said[call[c].url] = answer]
  IN  IF Again(r) THEN [r EXCEPT !.at = at]
      ELSE IF NextUrl(r) # {} THEN [r EXCEPT !.at = at, !.url = 2]
      ELSE [r EXCEPT !.at = "unlock", !.err = LadderEnd(r, at)]

\* A digest starts the second ladder.  Here no answer is worse than permanent for its URL,
\* not even a missing key or a redirect from HTTPS to HTTP.
SumsAnswer(c, answer) ==
  /\ call[c].at = "sumsGet"
  /\ Become(c,
       IF answer = "digest"
       THEN [call[c] EXCEPT !.at = "fetch", !.url = 1, !.asked = NotAsked,
                            !.said = NothingSaid]
       ELSE Retry(c, "sums", answer))
  /\ UNCHANGED <<memo, artifact, lock, orphaned, succeeded, crashes>>

\* Status and headers.  A redirect from HTTPS to HTTP ends this ladder
\* (isLadderFatalError), an advertised length over the limit does not; with a body to
\* come a temporary file is made, unless that fails ("refused").
FetchAnswer(c, answer) ==
  /\ call[c].at = "fetchGet"
  /\ Become(c,
       CASE answer = "body" -> [call[c] EXCEPT !.at = "copy", !.tmp = Partial]
         [] answer = "downgrade" -> Fail(c)
         [] OTHER -> Retry(c, "fetch", answer))
  /\ UNCHANGED <<memo, artifact, lock, orphaned, succeeded, crashes>>

\* Read to its end, synced and made readable: digest is what was hashed on the way.
Copied(c, digest) ==
  /\ call[c].at = "copy"
  /\ Become(c, [call[c] EXCEPT !.at = "install", !.tmp = digest])
  /\ UNCHANGED <<memo, artifact, lock, orphaned, succeeded, crashes>>

\* A read or write that fails, the context's end included, may be retried; a body over
\* the limit may not, but the next URL is asked.  The temporary file is removed.
CopyFails(c, answer) ==
  /\ call[c].at = "copy"
  /\ Become(c, Retry(c, "fetch", answer))
  /\ UNCHANGED <<memo, artifact, lock, orphaned, succeeded, crashes>>

\* Mutated form: any digest is good.
MatchesAny(r) == TRUE
Matches(r) == r.tmp = Published

Install(c) ==
  /\ call[c].at = "install"
  /\ Matches(call[c])
  /\ artifact' = [artifact EXCEPT ![DirOf(c)] = call[c].tmp]
  /\ Become(c, [call[c] EXCEPT !.at = "unlock", !.tmp = None])
  /\ UNCHANGED <<memo, lock, orphaned, succeeded, crashes>>

\* The digest is another one, or the rename fails: the temporary file is removed.  Its
\* directory is the artifact's, so making that one ready cannot fail any more.
InstallFails(c) ==
  /\ call[c].at = "install"
  /\ Become(c, Fail(c))
  /\ UNCHANGED <<memo, artifact, lock, orphaned, succeeded, crashes>>

-----------------------------------------------------------------------------
(* The end of a call, and of a process *)

\* The error of fn is joined with those of unlocking and closing; the lock is gone in any
\* case.
Unlock(c, ok) ==
  /\ call[c].at = "unlock"
  /\ lock' = [lock EXCEPT ![DirOf(c)] = None]
  /\ Become(c, [Settle(c, IF ok /\ call[c].err = "none" THEN "none" ELSE "failed")
                 EXCEPT !.tmp = call[c].tmp])
  /\ UNCHANGED <<memo, artifact, orphaned, succeeded, crashes>>

\* ensureArtifact has failed with whatever error: remember it, without the lock.
Record(c) ==
  /\ call[c].at = "settle" /\ call[c].err # "none"
  /\ memo' = [memo EXCEPT ![ProcOf[c]] = @ \cup {KeyOf(c)}]
  /\ Leave({c})
  /\ UNCHANGED <<artifact, lock, succeeded, crashes>>

Forget(c) ==
  /\ call[c].at = "settle" /\ call[c].err = "none"
  /\ memo' = [memo EXCEPT ![ProcOf[c]] = @ \ {KeyOf(c)}]
  /\ succeeded' = [succeeded EXCEPT ![ProcOf[c]] = @ \cup {KeyOf(c)}]
  /\ IF call[c].op = "resolve"
     THEN Goto(c, "stage4") /\ UNCHANGED orphaned
     ELSE Leave({c})
  /\ UNCHANGED <<artifact, lock, crashes>>

\* resolveLibraryPath looks for the artifact once more and returns.
Stage4(c) ==
  /\ call[c].at = "stage4"
  /\ Leave({c})
  /\ UNCHANGED <<memo, artifact, lock, succeeded, crashes>>

\* The context of a call ends: cancelled, or its deadline passes.  Until the first request
\* only the wait for the lock looks at it, and GiveUpLock stands for that.
CtxDone(c) ==
  /\ call[c].at \in {"sums", "sumsGet", "fetch", "fetchGet", "copy"} /\ ~call[c].done
  /\ Become(c, [call[c] EXCEPT !.done = TRUE])
  /\ UNCHANGED <<memo, artifact, lock, orphaned, succeeded, crashes>>

\* The process dies; the kernel drops its locks, its files stay.
Crash(p) ==
  LET dead == {c \in Callers : ProcOf[c] = p} IN
  /\ crashes < MaxCrashes
  /\ Leave(dead)
  /\ lock' = [d \in Dirs |-> IF lock[d] \in dead THEN None ELSE lock[d]]
  /\ memo' = [memo EXCEPT ![p] = {}]
  /\ succeeded' = [succeeded EXCEPT ![p] = {}]
  /\ crashes' = crashes + 1
  /\ UNCHANGED artifact

-----------------------------------------------------------------------------

Begin(c) == ResolveLibraryPath(c) \/ \E k \in Configs : BootstrapSync(c, k)

\* The steps of a call under way.
Run(c) ==
  \/ PeekHit(c) \/ PeekMiss(c) \/ (\E ok \in BOOLEAN : Stat(c, ok))
  \/ LockFile(c) \/ GiveUpLock(c) \/ Restat(c) \/ Attempt(c)
  \/ \E answer \in {"digest", "transient", "refused", "missing", "downgrade"} :
       SumsAnswer(c, answer)
  \/ \E answer \in {"body", "transient", "refused", "too_large", "downgrade"} :
       FetchAnswer(c, answer)
  \/ \E digest \in {Published, Corrupt} : Copied(c, digest)
  \/ \E answer \in {"transient", "too_large"} : CopyFails(c, answer)
  \/ Install(c) \/ InstallFails(c)
  \/ (\E ok \in BOOLEAN : Unlock(c, ok)) \/ Record(c) \/ Forget(c) \/ Stage4(c)

Next ==
  \/ \E c \in Callers : Begin(c) \/ Run(c) \/ CtxDone(c)
  \/ \E p \in Procs : Crash(p)

Spec == Init /\ [][Next]_vars

\* A goroutine inside a call keeps running: a request ends (httpOverallTimeout), so do a
\* sleep and a wait for the lock (lockAcquireTimeout).  Nothing makes a program call,
\* cancel or die.
FairSpec == Spec /\ \A c \in Callers : WF_vars(Run(c))

-----------------------------------------------------------------------------
(* Properties *)

Locked == {"restat", "sums", "sumsGet", "fetch", "fetchGet", "copy", "install", "unlock"}
Fetching == {"sums", "sumsGet", "fetch", "fetchGet", "copy", "install"}
Files == {None, Partial, Published, Corrupt}

Call ==
  [at : Locked \cup {"idle", "peek", "stat", "lock", "settle", "stage4"},
   op : {"sync", "resolve"}, config : Configs, done : BOOLEAN,
   url : {1, 2}, asked : [{1, 2} -> 0 .. RetryAttempt],
   said : [{1, 2} -> {"none", "transient"} \cup Permanent],
   tmp : Files, err : {"none", "failed"} \cup LadderEnds]

\* Every variable has its type; in particular no URL gets more than RetryAttempt
\* requests of a ladder, and GitHub none that was ruled out.
TypeOK ==
  /\ call \in [Callers -> Call]
  /\ \A c \in Callers : call[c].url \in Urls(call[c].config)
  /\ memo \in [Procs -> SUBSET Keys]
  /\ artifact \in [Dirs -> Files]
  /\ lock \in [Dirs -> Callers \cup {None}]
  /\ orphaned \in BOOLEAN
  /\ succeeded \in [Procs -> SUBSET Keys]
  /\ crashes \in 0 .. MaxCrashes

\* Concurrent callers collapse into one download: of all goroutines of all processes at
\* most one fetches for a directory, and none when the artifact is already there.
OneDownload ==
  \A c \in Callers : call[c].at \in Fetching =>
    /\ artifact[DirOf(c)] = None
    /\ \A b \in Callers \ {c} : call[b].at \in Fetching => DirOf(b) # DirOf(c)

\* Whatever crashed, was cut short or was corrupted on its way, the cache path shows
\* nothing or the published artifact.
VerifiedOnly == \A d \in Dirs : artifact[d] \in {None, Published}

\* An artifact is never taken away or replaced under a process that has loaded it:
\* nobody renames onto the cache path twice.
InstalledOnce ==
  [][\A d \in Dirs : artifact[d] # None =>
       /\ artifact'[d] = artifact[d]
       /\ \A c \in Callers : call[c].at = "install" => DirOf(c) # d]_vars

\* A call succeeds only with the artifact in place, so stage 4 of resolveLibraryPath
\* finds it, whoever installed it.
SuccessMeansInstalled ==
  \A c \in Callers :
    call[c].at \in {"unlock", "settle", "stage4"} /\ call[c].err = "none"
      => artifact[DirOf(c)] # None

\* No request too few and none too many: a ladder runs out of URLs only when each of them,
\* GitHub included unless it is disabled, has been asked RetryAttempt times or has answered
\* for good, and a URL that has answered for good is not asked again.
LadderExhausted ==
  \A c \in Callers :
    /\ call[c].err \in LadderEnds =>
         \A u \in Urls(call[c].config) :
           call[c].said[u] \in Permanent \/ call[c].asked[u] = RetryAttempt
    /\ call[c].at \in {"sumsGet", "fetchGet", "copy"} =>
         call[c].said[call[c].url] \notin Permanent

\* No way to return, cancelled, mismatched or failed, leaves a temporary file behind: only
\* a process that dies does.
NoOrphans == crashes = 0 => ~orphaned

\* Every call returns, however many goroutines and processes want the same lock.
CallReturns ==
  \A c \in Callers : call[c].at # "idle" ~> call[c].at = "idle"

\* What docs/bootstrap.md says: a successful bootstrap clears the memoized failure.
SuccessClearsMemo == \A p \in Procs : memo[p] \cap succeeded[p] = {}

\* What docs/bootstrap.md says: BootstrapSync returns ErrAllSourcesFailed if every URL fails.
\* An answer that the same page calls fatal for the ladder is no case of it.
AllSourcesReported ==
  \A c \in Callers :
    /\ call[c].err \in LadderEnds /\ ~call[c].done
    /\ \A u \in Urls(call[c].config) : call[c].said[u] \in {"transient", "refused"}
    => call[c].err = "all_sources_failed"

\* What docs/bootstrap.md says of a missing checksum and a downgrade, and the comment of
\* downloadWithRetry of an oversized body: no other URL is asked after them.
FatalEndsLadder ==
  \A c \in Callers :
    call[c].said[1] \in {"missing", "downgrade", "too_large"} => call[c].asked[2] = 0

=============================================================================
