----------------------------- MODULE BootstrapProofs -----------------------------
(***************************************************************************)
(* Proofs about Bootstrap, for any number of processes, goroutines,        *)
(* directories and configurations, any RetryAttempt and any MaxCrashes.    *)
(*                                                                         *)
(* The inductive invariant IInv says of each call, on its own, how far its *)
(* ladders are (Local), and how it stands to the lock and the artifact of  *)
(* its directory (Fits).  Nearly every step changes one call only, for     *)
(* which CallStep and LeaveStep say what is left to show.                  *)
(***************************************************************************)
EXTENDS Bootstrap, TLAPS

GivenUp(r, u) == r.said[u] \in Permanent \/ r.asked[u] = RetryAttempt

Ladder == {"sums", "sumsGet", "fetch", "fetchGet", "copy"}

\* What a call knows of itself: URLs before the present one are given up, that one has not
\* answered for good, and those after it have not been asked yet; only a copy in progress or
\* just made has a temporary file.
Local(r) ==
  /\ r \in Call
  /\ r.url \in Urls(r.config)
  /\ r.at \in {"sums", "fetch"} => r.asked[r.url] < RetryAttempt
  /\ r.at \in Ladder => /\ r.said[r.url] \notin Permanent
                        /\ r.url = 2 => GivenUp(r, 1)
                        /\ r.url = 1 => r.asked[2] = 0 /\ r.said[2] = "none"
  /\ r.at \in {"peek", "stat", "lock", "restat"} =>
       /\ r.url = 1 /\ r.asked[1] = 0 /\ r.asked[2] = 0
       /\ r.said[1] = "none" /\ r.said[2] = "none"
  /\ r.tmp # None => r.at \in {"copy", "install"}
  /\ r.err \in LadderEnds => r.at = "unlock" /\ \A u \in Urls(r.config) : GivenUp(r, u)

\* How a call of c stands to the locks l and the artifacts a.
Fits(c, r, l, a) ==
  /\ r.at \in Locked => l[r.config.dir] = c
  /\ r.at \in Fetching => a[r.config.dir] = None
  /\ r.at \in {"unlock", "settle", "stage4"} /\ r.err = "none" => a[r.config.dir] # None

Types ==
  /\ call \in [Callers -> Call]
  /\ memo \in [Procs -> SUBSET Keys]
  /\ artifact \in [Dirs -> Files]
  /\ lock \in [Dirs -> Callers \cup {None}]
  /\ orphaned \in BOOLEAN
  /\ succeeded \in [Procs -> SUBSET Keys]
  /\ crashes \in 0 .. MaxCrashes

Calls == \A c \in Callers : Local(call[c]) /\ Fits(c, call[c], lock, artifact)

IInv == Types /\ Calls /\ VerifiedOnly /\ NoOrphans

-----------------------------------------------------------------------------

LEMMA ConfigFacts ==
  /\ \A k \in Configs : /\ k.disableGH \in BOOLEAN /\ k.dir \in Dirs /\ Key(k) \in Keys
                        /\ Urls(k) \in {{1}, {1, 2}}
  /\ \A c \in Callers : /\ ProcOf[c] \in Procs /\ EnvConfig[ProcOf[c]] \in Configs
                        /\ ConfigsOf[ProcOf[c]] \subseteq Configs
<1>1. ASSUME NEW c \in Callers
      PROVE  /\ ProcOf[c] \in Procs /\ EnvConfig[ProcOf[c]] \in Configs
             /\ ConfigsOf[ProcOf[c]] \subseteq Configs
  BY BootstrapAssumption DEF BootstrapAssumption, Configs
<1>2. ASSUME NEW k \in Configs PROVE k.disableGH \in BOOLEAN
  BY BootstrapAssumption DEF BootstrapAssumption, Configs
<1>3. ASSUME NEW k \in Configs PROVE k.dir \in Dirs /\ Key(k) \in Keys
  BY DEF Dirs, Keys
<1>4. ASSUME NEW k \in Configs PROVE Urls(k) \in {{1}, {1, 2}}
  BY DEF Urls
<1> QED
  BY <1>1, <1>2, <1>3, <1>4

\* A call at none of the steps that Local and Fits restrict.
LEMMA AtLocal ==
  ASSUME NEW k \in Configs,
         NEW at \in {"idle", "peek", "settle"}, NEW op \in {"sync", "resolve"},
         NEW err \in {"none", "failed"}
  PROVE  Local(At(at, op, k, err))
<1> DEFINE r == At(at, op, k, err)
<1> SUFFICES Local(r)
  OBVIOUS
<1>1. /\ r.at = at /\ r.op = op /\ r.config = k /\ r.done = FALSE /\ r.url = 1
      /\ r.asked = NotAsked /\ r.said = NothingSaid /\ r.tmp = None /\ r.err = err
  BY DEF At
<1>2. NotAsked \in [{1, 2} -> 0 .. RetryAttempt] /\ NotAsked[1] = 0 /\ NotAsked[2] = 0
  BY BootstrapAssumption DEF BootstrapAssumption, NotAsked
<1>a. /\ NothingSaid \in [{1, 2} -> {"none", "transient"} \cup Permanent]
      /\ NothingSaid[1] = "none" /\ NothingSaid[2] = "none"
  BY DEF NothingSaid
<1>3. r \in Call
  BY <1>2, <1>a DEF At, Call, Files, Locked
<1>4. 1 \in Urls(k)
  BY DEF Urls
<1> HIDE DEF r
<1> QED
  BY <1>1, <1>2, <1>a, <1>3, <1>4 DEF Local, Ladder, LadderEnds

LEMMA IdleFits ==
  ASSUME NEW c \in Callers, NEW l, NEW a
  PROVE  Local(Idle(c)) /\ Fits(c, Idle(c), l, a)
<1>1. Local(Idle(c))
  BY ConfigFacts, AtLocal DEF Idle
<1>2. Idle(c).at = "idle"
  BY DEF Idle, At
<1> QED
  BY <1>1, <1>2 DEF Fits, Locked, Fetching

\* A step that gives c's call the value r, and leaves the locks and artifacts of all
\* other calls' directories as they are.
LEMMA CallStep ==
  ASSUME IInv, NEW c \in Callers, NEW r, Become(c, r), Local(r),
         Fits(c, r, lock', artifact'),
         \A b \in Callers \ {c} : Fits(b, call[b], lock', artifact')
  PROVE  call' \in [Callers -> Call] /\ Calls'
<1>1. r \in Call
  BY DEF Local
<1>2. /\ call' \in [Callers -> Call] /\ call'[c] = r
      /\ \A b \in Callers \ {c} : call'[b] = call[b]
  BY <1>1 DEF IInv, Types, Become
<1>3. ASSUME NEW b \in Callers PROVE Local(call'[b]) /\ Fits(b, call'[b], lock', artifact')
  BY <1>2 DEF IInv, Calls
<1> QED
  BY <1>2, <1>3 DEF Calls

\* Calls end without their temporary files unless a process dies.
LEMMA LeaveStep ==
  ASSUME IInv, NEW S \in SUBSET Callers, Leave(S),
         \A b \in Callers \ S : Fits(b, call[b], lock', artifact')
  PROVE  /\ call' \in [Callers -> Call] /\ Calls' /\ orphaned' \in BOOLEAN
         /\ (\A c \in S : call[c].at \notin {"copy", "install"}) => orphaned' = orphaned
<1>1. \A b \in Callers : /\ b \in S => call'[b] = Idle(b)
                         /\ b \notin S => call'[b] = call[b]
  BY DEF Leave
<1>2. ASSUME NEW b \in Callers PROVE Local(call'[b]) /\ Fits(b, call'[b], lock', artifact')
  BY <1>1, IdleFits DEF IInv, Calls
<1>3. call' \in [Callers -> Call]
  BY <1>2 DEF Leave, Local
<1>4. \A c \in S : call[c].at \notin {"copy", "install"} => call[c].tmp = None
  BY DEF IInv, Calls, Local
<1>5. orphaned' \in BOOLEAN /\ orphaned \in BOOLEAN
  BY DEF Leave, IInv, Types
<1>6. (\A c \in S : call[c].at \notin {"copy", "install"}) => orphaned' = orphaned
  BY <1>4, <1>5 DEF Leave
<1> QED
  BY <1>2, <1>3, <1>5, <1>6 DEF Calls


LEMMA InitIInv == Init => IInv
<1> SUFFICES ASSUME Init PROVE IInv
  OBVIOUS
<1>1. \A c \in Callers : call[c] = Idle(c)
  BY DEF Init
<1>2. Calls
  BY <1>1, IdleFits DEF Calls
<1>3. call \in [Callers -> Call]
  BY <1>2, <1>1 DEF Init, Calls, Local
<1>4. Types
  <2>1. memo \in [Procs -> SUBSET Keys] /\ succeeded \in [Procs -> SUBSET Keys]
    BY DEF Init
  <2>2. artifact \in [Dirs -> Files] /\ lock \in [Dirs -> Callers \cup {None}]
    BY DEF Init, Files
  <2>3. orphaned \in BOOLEAN
    BY DEF Init
  <2>4. crashes \in 0 .. MaxCrashes
    BY BootstrapAssumption DEF BootstrapAssumption, Init
  <2> QED
    BY <1>3, <2>1, <2>2, <2>3, <2>4 DEF Types
<1>5. VerifiedOnly
  BY DEF Init, VerifiedOnly
<1>6. NoOrphans
  BY DEF Init, NoOrphans
<1> QED
  BY <1>2, <1>4, <1>5, <1>6 DEF IInv

\* What the invariant says of the call that takes a step, and of everything else.
LEMMA Mine ==
  ASSUME IInv, NEW c \in Callers
  PROVE  /\ call[c] \in Call /\ Local(call[c]) /\ Fits(c, call[c], lock, artifact)
         /\ call[c].config \in Configs /\ DirOf(c) \in Dirs /\ KeyOf(c) \in Keys
         /\ ProcOf[c] \in Procs
  BY ConfigFacts DEF IInv, Types, Calls, Local, Call, DirOf, KeyOf

\* A step of c that touches its own call and, at most, its process's memo.
LEMMA QuietStep ==
  ASSUME IInv, NEW c \in Callers, NEW r, Become(c, r), Local(r),
         Fits(c, r, lock, artifact),
         memo' = memo \/ memo' = [memo EXCEPT ![ProcOf[c]] = @ \ {KeyOf(c)}],
         UNCHANGED <<artifact, lock, orphaned, succeeded, crashes>>
  PROVE  IInv'
<1>1. call' \in [Callers -> Call] /\ Calls'
  BY CallStep DEF IInv, Calls
<1>2. memo' \in [Procs -> SUBSET Keys]
  BY DEF IInv, Types
<1> QED
  BY <1>1, <1>2 DEF IInv, Types, VerifiedOnly, NoOrphans

\* The new values that the actions give to a call, when it is fit for them.
LEMMA GotoLocal ==
  ASSUME IInv, NEW c \in Callers, NEW at,
         \/ call[c].at = "peek" /\ at = "stat"
         \/ call[c].at = "stat" /\ at = "lock"
         \/ call[c].at = "lock" /\ at = "restat"
         \/ call[c].at = "restat" /\ at \in {"sums", "unlock"}
  PROVE  Local([call[c] EXCEPT !.at = at])
<1> DEFINE o == call[c]
           r == [o EXCEPT !.at = at]
<1>1. o \in Call /\ Local(o)
  BY Mine
<1> SUFFICES Local(r)
  OBVIOUS
<1> HIDE DEF o
<1>2. /\ r \in Call /\ r.at = at /\ r.config = o.config /\ r.url = o.url
      /\ r.asked = o.asked /\ r.said = o.said /\ r.tmp = o.tmp /\ r.err = o.err
  BY <1>1 DEF Call, Locked, o
<1> HIDE DEF r
<1> QED
  BY <1>1, <1>2, BootstrapAssumption
  DEF BootstrapAssumption, Local, Ladder, GivenUp, Permanent, LadderEnds, o


LEMMA SettleFits ==
  ASSUME IInv, NEW c \in Callers, NEW err \in {"none", "failed"}, NEW l, NEW a,
         err = "none" => a[DirOf(c)] # None
  PROVE  Local(Settle(c, err)) /\ Fits(c, Settle(c, err), l, a)
<1>1. call[c].config \in Configs /\ call[c].op \in {"sync", "resolve"}
  BY Mine DEF Call
<1>2. Local(Settle(c, err))
  BY <1>1, AtLocal DEF Settle
<1>3. /\ Settle(c, err).at = "settle" /\ Settle(c, err).config = call[c].config
      /\ Settle(c, err).err = err
  BY DEF Settle, At
<1> QED
  BY <1>2, <1>3 DEF Fits, Locked, Fetching, DirOf

LEMMA FailFits ==
  ASSUME IInv, NEW c \in Callers, call[c].at \in Locked
  PROVE  Local(Fail(c)) /\ Fits(c, Fail(c), lock, artifact)
<1> DEFINE o == call[c]
           r == Fail(c)
<1>1. o \in Call /\ Local(o) /\ Fits(c, o, lock, artifact)
  BY Mine
<1> HIDE DEF o
<1>2. /\ r \in Call /\ r.at = "unlock" /\ r.config = o.config /\ r.url = o.url
      /\ r.tmp = None /\ r.err = "failed"
  BY <1>1 DEF Call, Locked, Fail, Files, o
<1> USE DEF o
<1>3. Local(r)
  BY <1>1, <1>2 DEF Local, Ladder, LadderEnds
<1>4. Fits(c, r, lock, artifact)
  BY <1>1, <1>2 DEF Fits, Locked, Fetching
<1> QED
  BY <1>3, <1>4

\* The heart of both ladders.
LEMMA RetryFits ==
  ASSUME IInv, NEW c \in Callers, NEW at \in {"sums", "fetch"},
         NEW answer \in {"transient"} \cup Permanent, call[c].at \in Ladder
  PROVE  /\ Local(Retry(c, at, answer))
         /\ Fits(c, Retry(c, at, answer), lock, artifact)
<1> DEFINE o == call[c]
           r == [o EXCEPT !.tmp = None, !.said[o.url] = answer]
<1>1. /\ o \in Call /\ Local(o) /\ Fits(c, o, lock, artifact)
      /\ Urls(o.config) \in {{1}, {1, 2}}
  BY Mine, ConfigFacts
<1> HIDE DEF o
<1>a. /\ o.said \in [{1, 2} -> {"none", "transient"} \cup Permanent] /\ o.url \in {1, 2}
      /\ [o.said EXCEPT ![o.url] = answer] \in [{1, 2} -> {"none", "transient"} \cup Permanent]
  BY <1>1 DEF Call
<1>2. /\ r \in Call /\ r.at = o.at /\ r.config = o.config /\ r.url = o.url
      /\ r.asked = o.asked /\ r.tmp = None /\ r.err = o.err
      /\ r.said = [o.said EXCEPT ![o.url] = answer]
  BY <1>1, <1>a DEF Call, Files
<1>b. /\ r.said[r.url] = answer
      /\ r.url = 2 => r.said[1] = o.said[1]
      /\ r.url = 1 => r.said[2] = o.said[2]
  BY <1>a, <1>2
<1>3. /\ r.asked[1] \in 0 .. RetryAttempt /\ r.asked[2] \in 0 .. RetryAttempt
      /\ r.url \in {1, 2} /\ r.url \in Urls(r.config)
  BY <1>1, <1>2 DEF Call, Local
<1>4. o.at \in Ladder
  BY DEF o
<1>5. r.url = 2 => GivenUp(r, 1)
  BY <1>1, <1>2, <1>b, <1>4 DEF Local, GivenUp
<1>6. r.url = 1 => r.asked[2] = 0 /\ r.said[2] = "none"
  BY <1>1, <1>2, <1>b, <1>4 DEF Local
<1>7. ~Again(r) => GivenUp(r, r.url)
  BY <1>b, <1>3, BootstrapAssumption DEF BootstrapAssumption, Again, GivenUp
<1>8. r.err \notin LadderEnds
  BY <1>1, <1>2, <1>4 DEF Local, Ladder
<1>9. /\ lock[r.config.dir] = c
      /\ r.at \in Fetching => artifact[r.config.dir] = None
      /\ r.at \in Fetching
  BY <1>1, <1>2, <1>4 DEF Fits, Ladder, Locked, Fetching
<1> HIDE DEF r
<1>10. CASE Again(r)
  <2> DEFINE n == [r EXCEPT !.at = at]
  <2>1. /\ n \in Call /\ n.at = at /\ n.config = r.config /\ n.url = r.url
        /\ n.asked = r.asked /\ n.said = r.said /\ n.tmp = None /\ n.err = r.err
    BY <1>2 DEF Call, Locked
  <2>2. n.asked[n.url] < RetryAttempt /\ n.said[n.url] \notin Permanent
    BY <1>10, <2>1 DEF Again, Permanent
  <2> HIDE DEF n
  <2>3. Local(n)
    BY <1>3, <1>5, <1>6, <1>8, <2>1, <2>2 DEF Local, Ladder, GivenUp
  <2>4. Fits(c, n, lock, artifact)
    BY <1>9, <2>1 DEF Fits, Locked, Fetching
  <2>5. Retry(c, at, answer) = n
    BY <1>10 DEF Retry, r, o, n
  <2> QED
    BY <2>3, <2>4, <2>5
<1>11. CASE ~Again(r) /\ NextUrl(r) # {}
  <2> DEFINE n == [r EXCEPT !.at = at, !.url = 2]
  <2>1. /\ n \in Call /\ n.at = at /\ n.config = r.config /\ n.url = 2
        /\ n.asked = r.asked /\ n.said = r.said /\ n.tmp = None /\ n.err = r.err
    BY <1>2 DEF Call, Locked
  <2>2. r.url = 1 /\ 2 \in Urls(r.config)
    BY <1>1, <1>2, <1>3, <1>11 DEF NextUrl
  <2> HIDE DEF n
  <2>3. Local(n)
    BY <1>6, <1>7, <1>8, <1>11, <2>1, <2>2, BootstrapAssumption
    DEF BootstrapAssumption, Local, Ladder, GivenUp, Permanent
  <2>4. Fits(c, n, lock, artifact)
    BY <1>9, <2>1 DEF Fits, Locked, Fetching
  <2>5. Retry(c, at, answer) = n
    BY <1>11 DEF Retry, r, o, n
  <2> QED
    BY <2>3, <2>4, <2>5
<1>12. CASE ~Again(r) /\ NextUrl(r) = {}
  <2> DEFINE n == [r EXCEPT !.at = "unlock", !.err = LadderEnd(r, at)]
  <2>a. LadderEnd(r, at) \in LadderEnds
    BY DEF LadderEnd, LadderEnds
  <2>1. /\ n \in Call /\ n.at = "unlock" /\ n.config = r.config /\ n.url = r.url
        /\ n.asked = r.asked /\ n.said = r.said /\ n.tmp = None /\ n.err \in LadderEnds
    BY <1>2, <2>a DEF Call, Locked
  <2>2. r.url = 2 \/ Urls(r.config) = {1}
    BY <1>1, <1>2, <1>3, <1>12 DEF NextUrl
  <2>3. \A u \in Urls(r.config) : GivenUp(r, u)
    BY <1>1, <1>2, <1>3, <1>5, <1>7, <1>12, <2>2
  <2> HIDE DEF n
  <2>4. Local(n)
    BY <1>3, <2>1, <2>3 DEF Local, Ladder, GivenUp
  <2>5. Fits(c, n, lock, artifact)
    BY <1>9, <2>1 DEF Fits, Locked, Fetching, LadderEnds
  <2>6. Retry(c, at, answer) = n
    BY <1>12 DEF Retry, r, o, n
  <2> QED
    BY <2>4, <2>5, <2>6
<1> QED
  BY <1>10, <1>11, <1>12


LEMMA BeginStep ==
  ASSUME IInv, NEW c \in Callers, Begin(c) PROVE IInv'
<1>1. PICK k \in Configs, op \in {"sync", "resolve"} :
        /\ Become(c, At("peek", op, k, "none"))
        /\ UNCHANGED <<memo, artifact, lock, orphaned, succeeded, crashes>>
  BY Mine, ConfigFacts DEF Begin, BootstrapSync, ResolveLibraryPath
<1> DEFINE r == At("peek", op, k, "none")
<1>2. Local(r)
  BY AtLocal
<1>3. r.at = "peek"
  BY DEF At
<1>4. Fits(c, r, lock, artifact)
  BY <1>3 DEF Fits, Locked, Fetching
<1> HIDE DEF r
<1> QED
  BY <1>1, <1>2, <1>4, QuietStep DEF r

\* The steps that follow one another without touching anything but the call.
LEMMA GotoStep ==
  ASSUME IInv, NEW c \in Callers, NEW at, Goto(c, at),
         \/ call[c].at = "peek" /\ at = "stat"
         \/ call[c].at = "stat" /\ at = "lock"
         \/ call[c].at = "restat" /\ at = "sums" /\ artifact[DirOf(c)] = None
         \/ call[c].at = "restat" /\ at = "unlock" /\ artifact[DirOf(c)] # None,
         memo' = memo \/ memo' = [memo EXCEPT ![ProcOf[c]] = @ \ {KeyOf(c)}],
         UNCHANGED <<artifact, lock, orphaned, succeeded, crashes>>
  PROVE  IInv'
<1> DEFINE r == [call[c] EXCEPT !.at = at]
<1>1. Local(r)
  BY GotoLocal
<1>2. Become(c, r)
  BY DEF Goto
<1>3. r.at = at /\ r.config = call[c].config
  BY Mine DEF Call
<1>4. Fits(c, call[c], lock, artifact)
  BY Mine
<1> HIDE DEF r
<1>5. Fits(c, r, lock, artifact)
  BY <1>3, <1>4 DEF Fits, Locked, Fetching, DirOf
<1> QED
  BY <1>1, <1>2, <1>5, QuietStep

LEMMA PeekStatStep ==
  ASSUME IInv, NEW c \in Callers,
         PeekMiss(c) \/ (\E ok \in BOOLEAN : Stat(c, ok)) \/ GiveUpLock(c) \/ Restat(c)
  PROVE  IInv'
<1>1. CASE PeekMiss(c)
  BY <1>1, GotoStep DEF PeekMiss
<1>2. CASE \E ok \in BOOLEAN : Stat(c, ok)
  <2>1. CASE Goto(c, "lock")
    BY <1>2, <2>1, GotoStep DEF Stat
  <2>2. CASE \E err \in {"none", "failed"} :
               /\ Become(c, Settle(c, err))
               /\ err = "none" => artifact[DirOf(c)] # None
    BY <1>2, <2>2, SettleFits, QuietStep DEF Stat
  <2> QED
    BY <1>2, <2>1, <2>2 DEF Stat
<1>3. CASE GiveUpLock(c)
  BY <1>3, SettleFits, QuietStep DEF GiveUpLock
<1>4. CASE Restat(c)
  BY <1>4, GotoStep DEF Restat, Present
<1> QED
  BY <1>1, <1>2, <1>3, <1>4

LEMMA LockFileStep == ASSUME IInv, NEW c \in Callers, LockFile(c) PROVE IInv'
<1> DEFINE r == [call[c] EXCEPT !.at = "restat"]
<1>1. Local(r)
  BY GotoLocal DEF LockFile
<1>2. r.at = "restat" /\ r.config = call[c].config
  BY Mine DEF Call
<1>3. Become(c, r)
  BY DEF LockFile, Goto
<1> HIDE DEF r
<1>4. /\ lock' \in [Dirs -> Callers \cup {None}] /\ lock'[DirOf(c)] = c
      /\ \A d \in Dirs \ {DirOf(c)} : lock'[d] = lock[d]
      /\ lock[DirOf(c)] = None
  BY Mine DEF LockFile, LockFree, IInv, Types
<1>5. Fits(c, r, lock', artifact')
  BY <1>2, <1>4 DEF Fits, Fetching, DirOf
<1>6. \A b \in Callers \ {c} : Fits(b, call[b], lock', artifact')
  <2> TAKE b \in Callers \ {c}
  <2>1. Fits(b, call[b], lock, artifact) /\ DirOf(b) \in Dirs
    BY Mine
  <2>2. call[b].at \in Locked => DirOf(b) # DirOf(c)
    BY <1>4, <2>1, BootstrapAssumption DEF BootstrapAssumption, Fits, DirOf
  <2> QED
    BY <1>4, <2>1, <2>2 DEF Fits, DirOf, LockFile
<1>7. call' \in [Callers -> Call] /\ Calls'
  BY <1>1, <1>3, <1>5, <1>6, CallStep
<1> QED
  BY <1>4, <1>7 DEF LockFile, IInv, Types, VerifiedOnly, NoOrphans

LEMMA AttemptStep == ASSUME IInv, NEW c \in Callers, Attempt(c) PROVE IInv'
<1>1. CASE call[c].done
  <2>1. call[c].at \in Locked
    BY DEF Attempt, Locked
  <2> QED
    BY <1>1, <2>1, FailFits, QuietStep DEF Attempt
<1>2. CASE ~call[c].done
  <2> DEFINE o == call[c]
             r == [o EXCEPT !.at = IF @ = "sums" THEN "sumsGet" ELSE "fetchGet",
                            !.asked[o.url] = @ + 1]
  <2>1. /\ o \in Call /\ Local(o) /\ Fits(c, o, lock, artifact)
        /\ o.at \in {"sums", "fetch"}
    BY Mine DEF Attempt
  <2>2. Become(c, r)
    BY <1>2 DEF Attempt
  <2> HIDE DEF o
  <2>3. /\ o.asked \in [{1, 2} -> 0 .. RetryAttempt] /\ o.url \in {1, 2}
        /\ o.asked[o.url] < RetryAttempt
    BY <2>1 DEF Call, Local
  <2>4. [o.asked EXCEPT ![o.url] = @ + 1] \in [{1, 2} -> 0 .. RetryAttempt]
    BY <2>3, BootstrapAssumption DEF BootstrapAssumption
  <2>5. /\ r.at \in {"sumsGet", "fetchGet"} /\ r.config = o.config /\ r.url = o.url
        /\ r.asked = [o.asked EXCEPT ![o.url] = @ + 1] /\ r.said = o.said
        /\ r.tmp = o.tmp /\ r.err = o.err /\ r \in Call
    BY <2>1, <2>4 DEF Call, Locked
  <2> HIDE DEF r
  <2>6. Local(r)
    BY <2>1, <2>3, <2>5 DEF Local, Ladder, GivenUp
  <2>7. Fits(c, r, lock, artifact)
    BY <2>1, <2>5 DEF Fits, Locked, Fetching
  <2> QED
    BY <2>2, <2>6, <2>7, QuietStep DEF Attempt
<1> QED
  BY <1>1, <1>2


LEMMA AnswerStep ==
  ASSUME IInv, NEW c \in Callers, NEW answer \in {"digest", "body", "transient"} \cup Permanent,
         \/ SumsAnswer(c, answer) /\ answer # "body"
         \/ FetchAnswer(c, answer) /\ answer # "digest"
  PROVE  IInv'
<1> DEFINE o == call[c]
<1>1. o \in Call /\ Local(o) /\ Fits(c, o, lock, artifact)
  BY Mine
<1>2. CASE \E at \in {"sums", "fetch"} : /\ answer \in {"transient"} \cup Permanent
                                        /\ Become(c, Retry(c, at, answer))
  <2>1. call[c].at \in Ladder
    BY DEF SumsAnswer, FetchAnswer, Ladder
  <2> QED
    BY <1>2, <2>1, RetryFits, QuietStep DEF SumsAnswer, FetchAnswer
<1>3. CASE Become(c, Fail(c))
  <2>1. call[c].at \in Locked
    BY DEF SumsAnswer, FetchAnswer, Locked
  <2> QED
    BY <1>3, <2>1, FailFits, QuietStep DEF SumsAnswer, FetchAnswer
<1>4. CASE /\ o.at = "sumsGet"
           /\ Become(c, [o EXCEPT !.at = "fetch", !.url = 1, !.asked = NotAsked,
                                  !.said = NothingSaid])
  <2> DEFINE r == [o EXCEPT !.at = "fetch", !.url = 1, !.asked = NotAsked,
                            !.said = NothingSaid]
  <2>1. NotAsked \in [{1, 2} -> 0 .. RetryAttempt] /\ NotAsked[1] = 0 /\ NotAsked[2] = 0
    BY BootstrapAssumption DEF BootstrapAssumption, NotAsked
  <2>a. /\ NothingSaid \in [{1, 2} -> {"none", "transient"} \cup Permanent]
        /\ NothingSaid[1] = "none" /\ NothingSaid[2] = "none"
    BY DEF NothingSaid
  <2>2. Become(c, r) /\ o.at = "sumsGet"
    BY <1>4
  <2> HIDE DEF o
  <2>3. /\ r \in Call /\ r.at = "fetch" /\ r.config = o.config /\ r.url = 1
        /\ r.asked = NotAsked /\ r.said = NothingSaid /\ r.tmp = o.tmp /\ r.err = o.err
    BY <1>1, <2>1, <2>a DEF Call, Locked
  <2>4. 1 \in Urls(o.config)
    BY DEF Urls
  <2> HIDE DEF r
  <2>5. Local(r)
    BY <1>1, <2>1, <2>a, <2>2, <2>3, <2>4, BootstrapAssumption
    DEF BootstrapAssumption, Local, Ladder, Permanent
  <2>6. Fits(c, r, lock, artifact)
    BY <1>1, <2>2, <2>3 DEF Fits, Locked, Fetching
  <2> QED
    BY <2>2, <2>5, <2>6, QuietStep DEF SumsAnswer, FetchAnswer
<1>5. CASE /\ o.at = "fetchGet"
           /\ Become(c, [o EXCEPT !.at = "copy", !.tmp = Partial])
  <2> DEFINE r == [o EXCEPT !.at = "copy", !.tmp = Partial]
  <2>1. Become(c, r) /\ o.at = "fetchGet"
    BY <1>5
  <2> HIDE DEF o
  <2>2. /\ r \in Call /\ r.at = "copy" /\ r.config = o.config /\ r.url = o.url
        /\ r.asked = o.asked /\ r.said = o.said /\ r.err = o.err
    BY <1>1 DEF Call, Locked, Files
  <2> HIDE DEF r
  <2>3. Local(r)
    BY <1>1, <2>1, <2>2 DEF Local, Ladder, GivenUp
  <2>4. Fits(c, r, lock, artifact)
    BY <1>1, <2>1, <2>2 DEF Fits, Locked, Fetching
  <2> QED
    BY <2>1, <2>3, <2>4, QuietStep DEF SumsAnswer, FetchAnswer
<1> QED
  BY <1>2, <1>3, <1>4, <1>5 DEF SumsAnswer, FetchAnswer

LEMMA CopyStep ==
  ASSUME IInv, NEW c \in Callers,
         \/ \E digest \in {Published, Corrupt} : Copied(c, digest)
         \/ \E answer \in {"transient", "too_large"} : CopyFails(c, answer)
  PROVE  IInv'
<1>1. ASSUME NEW answer \in {"transient", "too_large"}, CopyFails(c, answer) PROVE IInv'
  <2>1. call[c].at \in Ladder /\ answer \in {"transient"} \cup Permanent
    BY <1>1 DEF CopyFails, Ladder, Permanent
  <2> QED
    BY <1>1, <2>1, RetryFits, QuietStep DEF CopyFails
<1>2. ASSUME NEW digest \in {Published, Corrupt}, Copied(c, digest) PROVE IInv'
  <2> DEFINE o == call[c]
             r == [o EXCEPT !.at = "install", !.tmp = digest]
  <2>1. o \in Call /\ Local(o) /\ Fits(c, o, lock, artifact)
    BY Mine
  <2>2. Become(c, r) /\ o.at = "copy"
    BY <1>2 DEF Copied
  <2> HIDE DEF o
  <2>3. /\ r \in Call /\ r.at = "install" /\ r.config = o.config /\ r.url = o.url
        /\ r.err = o.err
    BY <2>1 DEF Call, Locked, Files
  <2> HIDE DEF r
  <2>4. Local(r)
    BY <2>1, <2>2, <2>3 DEF Local, Ladder
  <2>5. Fits(c, r, lock, artifact)
    BY <2>1, <2>2, <2>3 DEF Fits, Locked, Fetching
  <2> QED
    BY <1>2, <2>2, <2>4, <2>5, QuietStep DEF Copied
<1> QED
  BY <1>1, <1>2

\* Nobody else is fetching for the directory, so the artifact may appear.
LEMMA InstallStep ==
  ASSUME IInv, NEW c \in Callers, Install(c) \/ InstallFails(c) PROVE IInv'
<1>1. CASE InstallFails(c)
  <2>1. call[c].at \in Locked
    BY <1>1 DEF InstallFails, Locked
  <2> QED
    BY <1>1, <2>1, FailFits, QuietStep DEF InstallFails
<1>2. CASE Install(c)
  <2> DEFINE o == call[c]
             r == [o EXCEPT !.at = "unlock", !.tmp = None]
  <2>1. o \in Call /\ Local(o) /\ Fits(c, o, lock, artifact) /\ o.config.dir \in Dirs
    BY Mine DEF DirOf
  <2>2. Become(c, r) /\ o.at = "install" /\ o.tmp = Published
    BY <1>2 DEF Install, Matches
  <2>3. /\ artifact' \in [Dirs -> Files] /\ artifact'[o.config.dir] = Published
        /\ \A d \in Dirs \ {o.config.dir} : artifact'[d] = artifact[d]
    BY <1>2, <2>1, <2>2 DEF Install, DirOf, IInv, Types, Files
  <2> HIDE DEF o
  <2>4. /\ r \in Call /\ r.at = "unlock" /\ r.config = o.config /\ r.url = o.url
        /\ r.tmp = None /\ r.err = o.err
    BY <2>1 DEF Call, Locked, Files
  <2> HIDE DEF r
  <2>5. Local(r)
    BY <2>1, <2>2, <2>4 DEF Local, Ladder
  <2>6. lock' = lock
    BY <1>2 DEF Install
  <2>7. Fits(c, r, lock', artifact')
    BY <2>1, <2>2, <2>3, <2>4, <2>6, BootstrapAssumption
    DEF BootstrapAssumption, Fits, Locked, Fetching
  <2>8. \A b \in Callers \ {c} : Fits(b, call[b], lock', artifact')
    <3> TAKE b \in Callers \ {c}
    <3>1. Fits(b, call[b], lock, artifact) /\ call[b].config.dir \in Dirs
      BY Mine DEF DirOf
    <3>2. lock[o.config.dir] = c
      BY <2>1, <2>2 DEF Fits, Locked
    <3>3. call[b].at \in Fetching => call[b].config.dir # o.config.dir
      BY <3>1, <3>2 DEF Fits, Fetching, Locked
    <3> QED
      BY <2>3, <2>6, <3>1, <3>3, BootstrapAssumption DEF BootstrapAssumption, Fits
  <2>9. call' \in [Callers -> Call] /\ Calls'
    BY <2>2, <2>5, <2>7, <2>8, CallStep
  <2>10. VerifiedOnly'
    BY <2>1, <2>3 DEF IInv, VerifiedOnly, Dirs
  <2> QED
    BY <1>2, <2>3, <2>9, <2>10 DEF Install, IInv, Types, NoOrphans
<1> QED
  BY <1>1, <1>2

LEMMA UnlockStep ==
  ASSUME IInv, NEW c \in Callers, NEW ok \in BOOLEAN, Unlock(c, ok) PROVE IInv'
<1> DEFINE err == IF ok /\ call[c].err = "none" THEN "none" ELSE "failed"
           s == Settle(c, err)
           r == [s EXCEPT !.tmp = None]
<1>1. /\ call[c] \in Call /\ Local(call[c]) /\ Fits(c, call[c], lock, artifact)
      /\ call[c].at = "unlock" /\ DirOf(c) \in Dirs
  BY Mine DEF Unlock
<1>2. call[c].tmp = None
  BY <1>1 DEF Local
<1>3. err \in {"none", "failed"} /\ (err = "none" => artifact[DirOf(c)] # None)
  BY <1>1 DEF Fits, DirOf
<1>4. /\ artifact' = artifact /\ lock' \in [Dirs -> Callers \cup {None}]
      /\ \A d \in Dirs \ {DirOf(c)} : lock'[d] = lock[d]
  BY <1>1 DEF Unlock, IInv, Types
<1>5. Local(s) /\ Fits(c, s, lock', artifact') /\ s.at = "settle"
  BY <1>3, <1>4, SettleFits DEF Settle, At
<1>6. Become(c, r)
  BY <1>2 DEF Unlock
<1> HIDE DEF s
<1>7. Local(r) /\ Fits(c, r, lock', artifact')
  <2>1. /\ r \in Call /\ r.at = s.at /\ r.config = s.config /\ r.url = s.url
        /\ r.asked = s.asked /\ r.said = s.said /\ r.tmp = None /\ r.err = s.err
    BY <1>5 DEF Local, Call, Files
  <2> HIDE DEF r
  <2> QED
    BY <1>5, <2>1 DEF Local, Ladder, Fits, Locked, Fetching
<1> HIDE DEF r
<1>8. \A b \in Callers \ {c} : Fits(b, call[b], lock', artifact')
  <2> TAKE b \in Callers \ {c}
  <2>1. Fits(b, call[b], lock, artifact) /\ DirOf(b) \in Dirs
    BY Mine
  <2>2. call[b].at \in Locked => DirOf(b) # DirOf(c)
    BY <1>1, <2>1 DEF Fits, Locked, DirOf
  <2> QED
    BY <1>4, <2>1, <2>2 DEF Fits, DirOf
<1>9. call' \in [Callers -> Call] /\ Calls'
  BY <1>6, <1>7, <1>8, CallStep
<1> QED
  BY <1>4, <1>9 DEF Unlock, IInv, Types, VerifiedOnly, NoOrphans


\* A call returns: PeekHit, Record, Forget of BootstrapSync itself, Stage4.
LEMMA ReturnStep ==
  ASSUME IInv, NEW c \in Callers, Leave({c}),
         call[c].at \in {"peek", "settle", "stage4"},
         memo' \in [Procs -> SUBSET Keys], succeeded' \in [Procs -> SUBSET Keys],
         UNCHANGED <<artifact, lock, crashes>>
  PROVE  IInv'
<1>1. \A b \in Callers \ {c} : Fits(b, call[b], lock', artifact')
  BY DEF IInv, Calls
<1>2. /\ call' \in [Callers -> Call] /\ Calls' /\ orphaned' \in BOOLEAN
      /\ (\A b \in {c} : call[b].at \notin {"copy", "install"}) => orphaned' = orphaned
  BY <1>1, LeaveStep
<1>3. orphaned' = orphaned
  BY <1>2
<1> QED
  BY <1>2, <1>3 DEF IInv, Types, VerifiedOnly, NoOrphans

LEMMA EndStep ==
  ASSUME IInv, NEW c \in Callers, PeekHit(c) \/ Record(c) \/ Forget(c) \/ Stage4(c)
  PROVE  IInv'
<1>1. memo' \in [Procs -> SUBSET Keys] /\ succeeded' \in [Procs -> SUBSET Keys]
  BY Mine DEF PeekHit, Record, Forget, Stage4, IInv, Types
<1>2. CASE Leave({c})
  BY <1>1, <1>2, ReturnStep DEF PeekHit, Record, Forget, Stage4
<1>3. CASE Forget(c) /\ Goto(c, "stage4") /\ UNCHANGED orphaned
  <2> DEFINE o == call[c]
             r == [o EXCEPT !.at = "stage4"]
  <2>1. o \in Call /\ Local(o) /\ Fits(c, o, lock, artifact)
    BY Mine
  <2>2. Become(c, r) /\ o.at = "settle" /\ o.err = "none"
    BY <1>3 DEF Forget, Goto
  <2> HIDE DEF o
  <2>3. /\ r \in Call /\ r.at = "stage4" /\ r.config = o.config /\ r.url = o.url
        /\ r.tmp = o.tmp /\ r.err = o.err
    BY <2>1 DEF Call
  <2> HIDE DEF r
  <2>4. Local(r)
    BY <2>1, <2>2, <2>3 DEF Local, Ladder
  <2>5. Fits(c, r, lock, artifact)
    BY <2>1, <2>2, <2>3 DEF Fits, Locked, Fetching
  <2>6. UNCHANGED <<artifact, lock, orphaned, crashes>>
    BY <1>3 DEF Forget
  <2>7. call' \in [Callers -> Call] /\ Calls'
    BY <2>2, <2>4, <2>5, <2>6, CallStep DEF IInv, Calls
  <2> QED
    BY <1>1, <2>6, <2>7 DEF IInv, Types, VerifiedOnly, NoOrphans
<1> QED
  BY <1>2, <1>3 DEF PeekHit, Record, Forget, Stage4

LEMMA CtxDoneStep == ASSUME IInv, NEW c \in Callers, CtxDone(c) PROVE IInv'
<1> DEFINE o == call[c]
           r == [o EXCEPT !.done = TRUE]
<1>1. o \in Call /\ Local(o) /\ Fits(c, o, lock, artifact)
  BY Mine
<1>2. Become(c, r)
  BY DEF CtxDone
<1> HIDE DEF o
<1>3. /\ r \in Call /\ r.at = o.at /\ r.config = o.config /\ r.url = o.url
      /\ r.asked = o.asked /\ r.said = o.said /\ r.tmp = o.tmp /\ r.err = o.err
  BY <1>1 DEF Call
<1> HIDE DEF r
<1>4. Local(r) /\ Fits(c, r, lock, artifact)
  BY <1>1, <1>3 DEF Local, Fits, GivenUp
<1> QED
  BY <1>2, <1>4, QuietStep DEF CtxDone

\* Only locks of the dead are dropped.
LEMMA CrashStep == ASSUME IInv, NEW p \in Procs, Crash(p) PROVE IInv'
<1> DEFINE dead == {c \in Callers : ProcOf[c] = p}
<1>1. /\ Leave(dead) /\ artifact' = artifact /\ crashes' = crashes + 1
      /\ lock' = [d \in Dirs |-> IF lock[d] \in dead THEN None ELSE lock[d]]
      /\ crashes < MaxCrashes
  BY DEF Crash
<1>2. memo' \in [Procs -> SUBSET Keys] /\ succeeded' \in [Procs -> SUBSET Keys]
  BY DEF Crash, IInv, Types
<1> HIDE DEF dead
<1>3. lock' \in [Dirs -> Callers \cup {None}]
  BY <1>1 DEF IInv, Types
<1>4. crashes' \in 0 .. MaxCrashes /\ crashes' # 0
  BY <1>1, BootstrapAssumption DEF BootstrapAssumption, IInv, Types
<1>5. \A b \in Callers \ dead : Fits(b, call[b], lock', artifact')
  <2> TAKE b \in Callers \ dead
  <2>1. Fits(b, call[b], lock, artifact) /\ call[b].config.dir \in Dirs
    BY Mine DEF DirOf
  <2> QED
    BY <1>1, <2>1 DEF Fits
<1>6. dead \in SUBSET Callers
  BY DEF dead
<1>7. call' \in [Callers -> Call] /\ Calls' /\ orphaned' \in BOOLEAN
  BY <1>1, <1>5, <1>6, LeaveStep
<1> QED
  BY <1>1, <1>2, <1>3, <1>4, <1>7 DEF IInv, Types, VerifiedOnly, NoOrphans

LEMMA StutterStep == ASSUME IInv, UNCHANGED vars PROVE IInv'
<1>1. Calls'
  BY DEF IInv, Calls, vars
<1> QED
  BY <1>1 DEF IInv, Types, VerifiedOnly, NoOrphans, vars

LEMMA NextIInv == IInv /\ [Next]_vars => IInv'
<1> SUFFICES ASSUME IInv, [Next]_vars PROVE IInv'
  OBVIOUS
<1>1. ASSUME NEW c \in Callers, Run(c) PROVE IInv'
  <2>1. CASE PeekHit(c) \/ Record(c) \/ Forget(c) \/ Stage4(c)
    BY <2>1, EndStep
  <2>2. CASE PeekMiss(c) \/ (\E ok \in BOOLEAN : Stat(c, ok)) \/ GiveUpLock(c) \/ Restat(c)
    BY <2>2, PeekStatStep
  <2>3. CASE LockFile(c)
    BY <2>3, LockFileStep
  <2>4. CASE Attempt(c)
    BY <2>4, AttemptStep
  <2>5. CASE \/ \E answer \in {"digest", "transient", "refused", "missing", "downgrade"} :
                   SumsAnswer(c, answer)
             \/ \E answer \in {"body", "transient", "refused", "too_large", "downgrade"} :
                   FetchAnswer(c, answer)
    BY <2>5, AnswerStep DEF Permanent
  <2>6. CASE \/ \E digest \in {Published, Corrupt} : Copied(c, digest)
             \/ \E answer \in {"transient", "too_large"} : CopyFails(c, answer)
    BY <2>6, CopyStep
  <2>7. CASE Install(c) \/ InstallFails(c)
    BY <2>7, InstallStep
  <2>8. CASE \E ok \in BOOLEAN : Unlock(c, ok)
    BY <2>8, UnlockStep
  <2> QED
    BY <1>1, <2>1, <2>2, <2>3, <2>4, <2>5, <2>6, <2>7, <2>8 DEF Run
<1>2. ASSUME NEW c \in Callers, Begin(c) PROVE IInv'
  BY <1>2, BeginStep
<1>3. ASSUME NEW c \in Callers, CtxDone(c) PROVE IInv'
  BY <1>3, CtxDoneStep
<1>4. ASSUME NEW p \in Procs, Crash(p) PROVE IInv'
  BY <1>4, CrashStep
<1>5. CASE UNCHANGED vars
  BY <1>5, StutterStep
<1> QED
  BY <1>1, <1>2, <1>3, <1>4, <1>5 DEF Next

-----------------------------------------------------------------------------
(* The theorems *)

THEOREM Inductive == Spec => []IInv
  BY InitIInv, NextIInv, PTL DEF Spec

\* Every variable keeps its type, and no URL is asked more than RetryAttempt times.
THEOREM TypeCorrect == Spec => []TypeOK
<1>1. IInv => TypeOK
  BY DEF IInv, Types, Calls, Local, TypeOK
<1> QED
  BY <1>1, Inductive, PTL

\* Two fetching calls would both hold the lock of their directory.
THEOREM FetchesAlone == Spec => []OneDownload
<1>1. IInv => OneDownload
  BY Mine DEF OneDownload, Fits, Fetching, Locked, DirOf
<1> QED
  BY <1>1, Inductive, PTL

\* The cache path never shows anything but the published artifact.
THEOREM CacheVerified == Spec => []VerifiedOnly
<1>1. IInv => VerifiedOnly
  BY DEF IInv
<1> QED
  BY <1>1, Inductive, PTL

\* A success means that the artifact is there, even when another process installed it.
THEOREM SuccessInstalled == Spec => []SuccessMeansInstalled
<1>1. IInv => SuccessMeansInstalled
  BY Mine DEF SuccessMeansInstalled, Fits, DirOf
<1> QED
  BY <1>1, Inductive, PTL

\* No ladder stops before its last URL is given up, and none asks a URL that is.
THEOREM LaddersExhausted == Spec => []LadderExhausted
<1>1. ASSUME IInv, NEW c \in Callers
      PROVE  /\ call[c].err \in LadderEnds =>
                  \A u \in Urls(call[c].config) : GivenUp(call[c], u)
             /\ call[c].at \in Ladder => call[c].said[call[c].url] \notin Permanent
  <2>1. Local(call[c])
    BY <1>1, Mine
  <2> QED
    BY <2>1 DEF Local
<1>2. IInv => LadderExhausted
  BY <1>1 DEF LadderExhausted, GivenUp, Ladder
<1> QED
  BY <1>2, Inductive, PTL

\* While no process has died, every temporary file belongs to a call under way.
THEOREM TidyDirectories == Spec => []NoOrphans
<1>1. IInv => NoOrphans
  BY DEF IInv
<1> QED
  BY <1>1, Inductive, PTL

\* Nothing renames onto an artifact that is there.
LEMMA ArtifactStays ==
  ASSUME IInv, [Next]_vars, NEW d \in Dirs, artifact[d] # None
  PROVE  /\ artifact'[d] = artifact[d]
         /\ \A c \in Callers : call[c].at = "install" => DirOf(c) # d
<1>1. \A c \in Callers : call[c].at = "install" => DirOf(c) # d
  BY Mine DEF Fits, Fetching, DirOf
<1>2. ASSUME NEW c \in Callers, Install(c) PROVE artifact'[d] = artifact[d]
  BY <1>1, <1>2 DEF Install, IInv, Types
<1>3. CASE artifact' = artifact
  BY <1>1, <1>3
<1>4. \/ artifact' = artifact
      \/ \E c \in Callers : Install(c)
  BY DEF Next, Begin, Run, BootstrapSync, ResolveLibraryPath, PeekHit, PeekMiss, Stat,
         LockFile, GiveUpLock, Restat, Attempt, SumsAnswer, FetchAnswer, Copied, CopyFails,
         InstallFails, Unlock, Record, Forget, Stage4, CtxDone, Crash, vars
<1> QED
  BY <1>1, <1>2, <1>3, <1>4

THEOREM ArtifactInstalledOnce == Spec => InstalledOnce
<1>1. IInv /\ [Next]_vars =>
        [\A d \in Dirs : artifact[d] # None =>
           /\ artifact'[d] = artifact[d]
           /\ \A c \in Callers : call[c].at = "install" => DirOf(c) # d]_vars
  BY ArtifactStays
<1> QED
  BY <1>1, Inductive, PTL DEF Spec, InstalledOnce

=============================================================================
