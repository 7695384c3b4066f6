# A verification project for pure-simdjson

pure-simdjson is a Go package that parses JSON with simdjson, through a shared library
written in Rust and C++ and loaded without cgo. This directory holds TLA+ models of
its stateful parts, TLC configurations that check them on small instances, and theorems
about them checked by TLAPS. `PROJECT.json` maps every definition to the lines it models.

## 1. Inventory

| Layer | Files | State | Operations |
|---|---|---|---|
| Go API | `parser.go`, `doc.go`, `pool.go`, `finalizer_*.go`, `materializer_fastpath.go` | `Parser` (handle, closed, liveDoc), `Doc` (handle, closed), `sync.Pool` | NewParser, Parse, Close, Put, Get, finalizers |
| Kernel selection | `kernel.go`, `minify.go`, `utf8.go` | `kernelMu`, selection lock, reservations | SetKernel, Kernel, Minify, ValidateUTF8 |
| Library loading | `library_loading.go`, `library_*.go` | `cachedLibrary` | activeLibrary, resolveLibraryPath |
| Bootstrap | `internal/bootstrap/*` | cache directory, lock file, memo of a failure | BootstrapSync: ladder of downloads, checksum, rename |
| FFI bindings | `internal/ffi/bindings.go` | none | one native call each; copies of strings |
| C ABI | `src/lib.rs` | none | argument checks, panic containment |
| Handle registry | `src/runtime/registry.rs` | parser and document tables, generations, views and iterator leases, byte allocations; one global mutex | parser/doc create and free, parse, getters, iterators, paths |
| C++ bridge | `src/native/simdjson_bridge.cpp` | C++ parsers and documents, selection lock, materializer frames | thin wrapper of simdjson, tape walking |
| Allocator telemetry | `src/native/native_alloc_telemetry.cpp` | table of live allocations, counters, epoch | operator new/delete, reset, snapshot |
| Values and errors | `element.go`, `iterator.go`, `parser_options.go`, `errors.go` | none (structs held by callers) | accessors, number conversions, option checks, error details |
| Tools | `cmd/`, `scripts/`, `build.rs` | none at run time | build, fetch, verify |

(Paths are relative to the repository's root.)

Who calls whom: an application calls the Go API from many goroutines; `Parser` and `Doc`
call the registry through the bindings; the registry owns the C++ objects and calls the
bridge under its mutex. Every entry point may trigger library loading, and that the
bootstrap. The garbage collector calls finalizers, which call the registry.

Where it is hard, and what makes it correct:

- **Registry**: handles are packed integers without a type tag whose slots and
  generations are reused; C++ cleanups may fail halfway; a parser is built outside the
  mutex. Correct means: no leak, no double free, no use after free; a released handle
  stays dead; a parser is busy exactly while its document lives.
- **Go lifecycle**: `Doc.Close` takes two mutexes one after the other; finalizers run
  in their own goroutine; a Close may fail and be made good later. Correct means: Go's
  idea of busy is the registry's, nothing reachable is freed, nothing unreachable lost.
- **Views and iterators**: structs in the caller's memory, copied and mixed at will.
  Correct means: only elements are given out, and iterators yield each entry once.
- **Kernel selection and loading**: a mutex held over a download, a condition variable,
  reservations of calls that may fail, two locks that must agree. Correct means: nobody
  computes with an implementation that changes, a locked selection stays, no lost wake-up.
- **Telemetry**: malloc, free and the epoch are touched outside the mutex that guards the
  table. Correct means: the table is the heap, the counters are those of the epoch.
- **Bootstrap**: processes race for a cache file and may crash or time out at any step.
  Correct means: only a verified artifact is ever seen, one caller downloads, nobody replaces a
  file that may be mapped, and a ladder gives up only when the sources are used up.
- **Byte and view allocations**: made, registered, taken out and dropped under different
  acquisitions of one mutex, and freed with what the caller says. Correct means: no block is
  lost or dropped twice, and a wrong free harms nobody.
- **C ABI and errors**: a result reaches a C program only through what a call writes, whether
  it checks its outputs before or after it acts; a Go error is put together from five native
  calls. Correct means: whatever is held for a program is named by its out variables, except
  leases of iterators, which then go with a document it can name; outputs can be freed after
  any return code; an error's message and offset are about the input that failed.
- **Lookups, numbers and limits**: the same check made in two or three languages. Correct
  means: the layers agree with each other and with the definition, up to the last boundary.

The full list, with lines and the properties that answer each, is `hazards` in
`PROJECT.json`.

## 2. Modules

| Module | What it is |
|---|---|
| `DocumentLifecycle` | abstract specification: parsers and documents with identities used once |
| `Registry` | the handle registry; implements `DocumentLifecycle` |
| `RegistryProofs` | theorems about it |
| `GoLifecycle`, `GoLifecycleProofs` | Parser, Doc, ParserPool, finalizers, on top of an INSTANCE of `DocumentLifecycle`, and theorems |
| `Cursors` | views and iterators of one document |
| `Materializer` | the two materializers, as functions of a document of `Cursors` |
| `Navigation` | lookups by key, position, pointer, path and wildcard, as functions of a document of `Cursors` |
| `Arithmetic` | exact floats, overlapping buffers, limits of a parser, in each layer's version |
| `Reads`, `ReadsProofs` | `Cursors`, `Materializer`, `Navigation` and `Arithmetic` together, and theorems about them |
| `SetInduction` | lemmas: induction over numbers, intervals and sequences, recursive functions, folds |
| `Exports` | the C functions and the out variables of the programs that call them |
| `Diagnostics` | a parser's last error and the calls of `Parser.Parse` that read it |
| `OwnedBytes` | byte copies and view arrays handed out and freed |
| `FfiProofs` | theorems about `Exports`, `Diagnostics` and `OwnedBytes` |
| `Kernel`, `KernelProofs` | kernel selection, library loading, utilities, and theorems |
| `Bootstrap`, `BootstrapProofs` | getting the library on the disk: memo, lock, ladders, installation, and theorems |
| `AllocTelemetry`, `TelemetryProofs` | operator new, delete, reset, and theorems |
| `MC*` | TLC instances: model values, small constants, symmetry |

Composition: `GoLifecycle` does not repeat the registry. Its native calls are actions of
`DocumentLifecycle`, and `Registry` is shown (by TLC and by proof) to implement that.
`Kernel`'s `Load` and `LoadFails` stand for what `Bootstrap` describes in detail: the path of
the library is resolved, or is not. `Exports` gives out what `Registry` and `OwnedBytes`
describe from the inside, and keeps of them only who was given what.

### Registry

One slot of a table is a record (occupied, generation, C++ object, and the busy state,
arena, capacity or owner). The vectors of the code grow only at the end, so a slot never
pushed is modelled as vacant at its start generation. Two error exits are not modelled: with the
input buffer taken, `parser_parse` returns early, and loses it, when the padding is 0 or the padded
length overflows a `usize` (registry.rs:502-506). The padding is a constant of simdjson, and the
capacity limit of 2^32-1 bytes keeps a 64-bit build from an overflow. Every exported function holds the
registry mutex throughout and is one action; creating a parser is two, because the C++
parser is built before the mutex is taken (`NativeParserNew`, `RegisterParser`). Failing
C++ cleanups are branches (`freed`). `parserHandles` and `docHandles` are history: the
generations each slot has given out.

### GoLifecycle

`Parser.mu` and `Doc.mu` are not variables. A method with nothing observable between Lock
and Unlock is one action; the long ones are program counters: `root` (Parse between
`parser_parse` and `doc_root`), `read` (materializer reading borrowed frames), `clear`
(Close between the two mutexes). Reachability is explicit: what the program refers to,
calls under way (`runtime.KeepAlive`), the pool, and objects whose finalizer has yet to run.

### Cursors

The tape is a constant of the run: words with a kind and an end index, and two things the
code cannot see, whether an element starts there and what it contains. Every call may be
given *any* struct; what the registry's checks let through is all the model trusts. Calls
that are refused, or read only, change nothing and are not written down.

### Materializer

Both ways from an element to a Go value are pure, so they are functions over the tape of
`Cursors`: the bridge's preorder frames with keys and child counts (`AppendFrame`), the tree that
Go rebuilds from them (`BuildAny`), and the walk with iterators (`ViaAccessors`), against a
reference that reads the tape's contents and not its layout (`JsonValue`). A loop over a container
is told by where its iterator stands after n increments (`Iterator`), its rounds (`Turns`) by the
first n at which it is at the end; what is appended in a loop to a vector is `Concatenated`. A
function of several arguments is a function to functions, and one that walks the tape is defined
at the places where an element starts. Strings and scalars are carried along. The two ways differ
in code in every respect that can go wrong: how children are found, where the keys are kept, what
counts as too deep. For the last, `MaterializerAssumption` says what the parser lets through:
nothing with `MaxSupportedDepth` or more containers around it (`Around`). A container of 2^32
entries, which the bridge refuses, is larger than any document simdjson takes. How long the frames
may be read is `GoLifecycle`'s matter (`read`).

### Navigation

The calls that look something up keep no state: each walks from an element's index over the tape
to another, and checks what it found. They are functions of the tape of `Cursors`, one per
exported call, against references that read contents. A path is the sequence of its segments
(the wildcard scanner cuts it; `Tokens`, and `Position` of those that are decimal numbers);
strings are values. A key that reads like the wildcard is not the wildcard, so `Wildcard` is not
one of the `Tokens`. The loops of simdjson over an array or an object are told as in `Materializer`,
and an answer by the first n at which the loop ends. Child counts saturate at `MaxCount` (2^24-1 in
simdjson) and are then counted by walking. The wildcard expansion of one level is simdjson's and
external; cutting a path at its wildcards, applying the literal pieces and skipping failing branches
is the bridge's.

### Arithmetic

What the layers compute twice: whether an integer is exactly a float (in Rust and in Go, which
take the magnitude of a negative one differently), `MinifyInto`'s overlap test in Go and the
bridge's in C++, and the limits of a parser in Go, Rust and C++. Words have `WordBits` bits (64),
mantissas `MantissaBits` (53), addresses end at `AddressMax`, so that wrap-around is part of the
model.

### Exports

One out variable per program and kind of result: what the library owns for the program is known
to it only through that variable. Calls check for a null output before they act (`CheckedFirst`).
The constructors of iterators do not: they make a lease, then find the output to be null. `strays`
counts the leases that no struct names, those of overwritten structs included; the library
drops them with the document, and `ResultsReachCaller` says so. The wildcard clears its outputs
first, because its caller may free them after any return code. `Gate` is the refusal of the
fallback implementation, with the environment variables that the process reads once.

### Diagnostics

The native parser has one message and one offset. A parse resets them and sets them, possibly
replaying the input to locate the error; `Parser.Parse` then asks for the length, the copy, the
offset and whether there is one, in four calls. Goroutines share the parser; only `Parser.mu`
holds the five calls together, and `Doc.Close` comes in between. What simdjson finds in an input
is a constant (`Finds`).

### OwnedBytes

Getting a buffer is two steps and freeing one is two, because the mutex is released between
copying and registering, and before dropping. The tables are total functions with 0 for no
entry, as an empty result never gets one. Goroutines follow the discipline of the bindings
(copy, then free what was returned); C threads keep buffers, free each other's and may name any
kind or length. Excluded is the second free of a pair that has meanwhile been issued to
somebody else: no table of addresses and lengths can tell that from a first one.

### Kernel

Whether a goroutine holds `kernelMu` follows from its call and how far it is. `waiting`,
`woken`, `relock` are the stages of `kernelCond.Wait`. Waiting writers keep new readers
out, as `sync.RWMutex` does. The CPU's best implementation is chosen at the start; the
fallback implementation on a CPU without SIMD is one of the cases. The library file is
assumed to be the same image whoever opens it.

### Bootstrap

A caller's record is the control state of `BootstrapSync`: where it is, its configuration, and
within a ladder the URL, the requests made so far and the content of its temporary file. Steps
that others can see or get in between are actions of their own: looking at the memo, at the cache
path, taking and releasing the lock, each request, each body, the rename, writing the memo. Time
is abstracted: a memo may have expired whenever it is looked at (`PeekMiss` is always possible),
the lock call may fail or its wait time out, a context may end at any time. The two ladders
(SHA256SUMS, then the artifact) share `Attempt` and `Retry`, as the two loops of the code are the
same but for the redirect to HTTP that ends the second one altogether and for what they return in
the end (`LadderEnd`: `ErrNoChecksum`, the bare last error, or `ErrAllSourcesFailed`). An answer
is transient or one of those the code marks as permanent (`Permanent`); `said` keeps the last one
of each URL, so that `LadderExhausted` can say that no request is left out and none is made in
vain. Any other error is `failed`. A server may send anything: `Corrupt` is every digest that is
not the published one. `orphaned`, `succeeded` and `crashes` are history.

Not modelled: validation of options; the table `Checksums`, which ships empty and, where a
test fills it, replaces the first ladder; the loss of power (the directory is not synced, so
what a file system keeps of a rename is outside the program's control).

### AllocTelemetry

operator new is three steps (malloc, reading the epoch without the mutex, recording) and
operator delete two. `straddled` is history: allocations stamped before a reset and
recorded after it.

## 3. Runs

| Run | Shows | Bounds, and why they are enough |
|---|---|---|
| `registry` | busy/document agreement, ownership of C++ objects, handles disjoint and reused late, arenas, refinement of `DocumentLifecycle` | 2 slots, so that one object is in the way of another; 2 creating threads; 3+2 addresses, reused and exhausted; generations mod 6, so that a slot wraps within its 3 uses; capacities 2..3 |
| `go_lifecycle` | busy marks agree, in use is live, nothing lost, a closed document's parser becomes free | 2 goroutines, 2 parsers, 2 documents: both parsers busy, or one that parses again; 2 failures: a Close and then its finalizer may both fail; no symmetry, because of the liveness property |
| `go_close_busy` | violation, see Findings | the same |
| `cursors` | indices name elements, iterators yield in order, are never stuck, leases only advance; both materializers agree; lookups and wildcards find what the tape contains, in order; no rounded number, no overwritten buffer, the same limits | three tapes with nesting, empty containers, equal and empty keys and a number whose raw word looks like an array; 3 leases, so that the counter wraps and runs out; a depth limit of 3, which the deepest of them just meets; paths of up to 3 segments; counts that saturate at 2; every word of 8 bits with a mantissa of 4, every pair of buffers in 15 addresses |
| `kernel` | reservations, stable implementation, locks agree, fresh cached name, frozen selection | 3 goroutines: two utilities overlap while a SetKernel waits; a CPU with and one without SIMD; the state space is complete, no counter is bounded |
| `kernel_live` | SetKernel returns | the same with one CPU and one request |
| `bootstrap` | one download at a time, only verified artifacts, success means installed, ladders tried to the end, no orphaned files, every call returns | 2 goroutines of one process and 1 of another, hence contention within and across processes; one directory; one process with the GitHub fallback and one without; 2 attempts per URL, so that a retry and the limit both occur; 1 death |
| `bootstrap_memo`, `bootstrap_sources`, `bootstrap_fatal` | violations, see Findings | the same |
| `exports` | `OwnedBytes`: blocks accounted for, what is held stays registered; `Exports`: results reach the caller, outputs can be freed; `Diagnostics`: an error's details match its call; `AllocTelemetry`: table mirrors heap, counters accounted for | 2 goroutines, 2 C threads, 3 addresses, hence reuse and exhaustion; 2 lengths, hence a right and a wrong one; 2 programs and 3 objects, so that what one released the other gets; iterators of one element, hence one step and the end; 2 leases without a struct (`MaxStrays`), as one refused constructor leaves one and the next another; 2 goroutines on one parser; 7 inputs: valid, located inside, at the end, before the beginning, too deep, without location, and longer than the capacity; 2 threads, 3 addresses, 2 resets, 3 allocations per epoch: both threads inside operator new while a third allocation is live |
| `telemetry_epoch` | violation, see Findings | `AllocTelemetry` alone, the same |

`MCExports` explores its four modules in one run, each of them while the other three are in
their initial states: they share no variable and no property spans two of them, so the product
of their states would show nothing more. The type invariants are theorems (section 5) and are
not run again, except that of `GoLifecycle`.

Deadlock is checked except in the Go runs, `exports` and `telemetry_epoch`: there the supply of
documents, failures or allocations is bounded, and when it is used up the model stops.

Fairness. `GoLifecycle!FairSpec`: a goroutine in the middle of a call and the finalizer
goroutine that has begun are scheduled again. That the garbage collector ever runs, or that
anybody calls Close, is not assumed. `Kernel!FairSpec`: a goroutine inside a call keeps
running, because native calls return and loading gives up after `bootstrapResolveTimeout`
(weak fairness), and whoever waits for `kernelMu` gets it eventually, as Go's mutexes leave
their normal mode for a waiter that starves (strong fairness). `Bootstrap!FairSpec`: a
goroutine inside a call keeps running, since a request ends after `httpOverallTimeout`, a sleep
after `maxRetrySleep` and a wait for the lock after `lockAcquireTimeout`; it is not assumed that
anybody ever gets the lock. No call is ever assumed to be made.

Every property of a passing run has a mutant in `PROJECT.json`: an operator of the module
in a form a plausible bug would give it (named "Mutated form" where it is defined), under
which TLC finds the property violated.

## 4. Findings

- `telemetry_epoch` (code bug): `record_allocation` reads `current_epoch` before it takes
  the mutex. With a reset in between the allocation is added to the new epoch's counters
  and its delete is not subtracted, so `live_bytes` stays too high.
- `go_close_busy` (documentation): a second, concurrent `Doc.Close` returns nil before the
  first has cleared the parser's busy mark.
- `bootstrap_memo` (documentation): a failure is recorded after the lock is released, so a call
  that failed early may record it after another one of the same process has succeeded, and later
  calls fail for 30 seconds although the artifact is installed.
- `bootstrap_sources` (documentation): when every source is unreachable, the ladder of SHA256SUMS,
  which comes first, ends the call with its bare last error. The documented
  `ErrAllSourcesFailed`, with its hint, is only what the second ladder returns.
- `bootstrap_fatal` (documentation): the documentation calls a missing checksum and a redirect to
  HTTP fatal for the whole ladder, and a comment an oversized body as well. The ladder of SHA256SUMS
  goes on to GitHub after the first two, that of the artifact after the third.

Three observations without a run. A `SetKernel` that waits for utilities (kernel.go:55) does not
notice that the selection is locked meanwhile: it waits on for later utilities, for an answer that
is decided. No document promises otherwise; kernel_test.go:317 asks that a selection locked
*before* the call is refused without a wait, and it is. `NewParser` holds `kernelMu` over
`activeLibrary` (parser.go:41), so concurrent calls are serialized on the first one's download,
although the comment of `activeLibrary` says that path resolution runs outside the lock for the
sake of other callers. And `pure_simdjson_parser_copy_last_error` sets `*out_written` even when it
then returns `ERR_INVALID_ARGUMENT` for a null buffer of sufficient capacity (`copy_bytes` in the
bridge), while docs/ffi-contract.md:26-27 promises outputs only with `OK` or `BUFFER_TOO_SMALL`.

## 5. Proofs

All theorems hold for every value of the constants that satisfies the module's assumption.

- **RegistryProofs**: `TypeCorrect`, `BusyMatchesDocCorrect`, `DocOwnershipCorrect`,
  `ParserOwnershipCorrect`. `BusyMatchesDoc` is inductive with the type invariant. The two
  ownership properties are proved together with it: a slot is vacated only through a handle
  that resolves, and a fresh address is one not in the set of allocated objects.
  Further: `HandlesDisjointCorrect` (parser generations are odd and document
  generations even, `Parity`, which survives the wrap because the modulus is even; and no
  generation is 0, so that no handle is the null handle),
  `HandleReuseDistanceCorrect` (`Spaced`: of any two generations of a slot less than one round
  apart, the later is the earlier one plus twice their distance, wrapped),
  `DocSlotsSufficeCorrect` (the map from documents to their owners is injective, so were every
  slot taken it would be onto, and every parser busy),
  `CapacityRespectedCorrect`, `ArenaSurvivesCorrect` (a live document holds a filled buffer),
  `ImplementsLifecycleCorrect` (the k-th use of a slot is an identity; each action maps to a
  lifecycle step or a stutter; the invariant needed is that a slot's number of uses counts
  its current one). They share the lemmas that a parse, a release or a restored buffer changes one
  parser's `busy` and `arena` and leaves what every parser is (`SameParsers`, `OneBusy`, `LentParsers`,
  `ReleasedParsers`, `RestoredParsers`).
- **GoLifecycleProofs**: all four invariants of `GoLifecycle`, that it implements
  `DocumentLifecycle` (`GoImplementsLifecycle`), and three conclusions. The inductive invariant says
  what every reference implies: nobody refers to what was never made (`Unmade`), the objects and the
  registry name the same owners (`OwnersAgree`), who has a finalizer is live natively and who is
  reachable is closed or has one (`Watched`); then, for each stage of a call and of the finalizer,
  what it has done and what it relies on (`RootsSound`, `ReadsSound`, `ClearsSound`, `FreeSound`).
  `Detached` is the strengthening for the finalizer: the parser it is about to free is in nobody's
  hands and no reachable document leads back to it. `GuardsDecideCorrect` says what the Go guards are
  for: a parser that `closed` and `liveDoc` let through is live and free in the registry.
  `LostOnlyByFailureCorrect` says that without a failing native call nothing is lost.
- **ReadsProofs** has five parts. *Cursors*: the invariant adds `OnTrack`, that an iterator which
  has yielded n entries stands at the position behind the n-th child. Order, progress and the end
  mark follow from it and from the tape being well formed. *Lookups*: a scan of simdjson stands
  after n increments where that iterator does, hence what one token leads to, and by induction on
  the length, a path (`PathsNameOneElement`, for paths of any length, of which
  `LookupsAgreeCorrect` needs those of up to 3). *Wildcards*: an answer is a fold over the path
  whose state is related, segment by segment, to the set of elements named so far (`FoldFollows`);
  the order is kept because each element of the list is replaced by elements inside its own range
  of the tape, and ranges in order stay in order (`WildcardsNameInOrder`,
  `WildcardInOrderCorrect`). *Materializers*: recursion from the end of the tape and from the end
  of the frames defines the functions, as containers lie before their contents. An element's
  frames are rebuilt to its value wherever in a longer span they stand, and the building goes on
  behind them (`Rebuilds`): this is what carries from the children, whose spans lie one behind the
  other, to the container (`SiblingsRebuilt`, `FrameRebuilt`). Each container around an element
  adds one to the depth, so the limit is never met. With the walk's agreement,
  `MaterializersAgreeCorrect`. *Numbers and buffers*: by induction on the bits, a word without its
  trailing zeros is at most as long as a mantissa exactly if it is a number below 2^`MantissaBits`
  times a power of two; the magnitudes that Rust and Go take are the same, and so
  `FloatsExactEverywhere` holds for every width of words and mantissas;
  `OverlapsRefusedEverywhere` and `LimitsAgree` do the same for buffers and options.
- **SetInduction**: the lemmas on induction, recursion and folds that the previous item rests on.
  The induction theorems of the library take an operator, which the installed provers cannot
  instantiate. Here induction is over a *set* of numbers (0 is in it, and with n also n+1),
  recursion over a *function* that is the body of the definition; both are proved from the
  well-foundedness of `<` on the naturals.
- **BootstrapProofs**: seven properties of the bootstrap. The invariant says of each caller's
  record what its control state implies for itself and for its directory (`Local`: who is
  between lock and unlock holds the lock, who fetches has seen no artifact, a temporary file
  exists only from the request's body to the rename, a URL behind the ladder has answered for good
or been asked often enough, a call that ended well has its artifact)
  and that all callers agree (`Fits`). Since only the holder of the lock installs, what it saw
  after taking it stays true until it renames.
- **TelemetryProofs**: `TableMirrorsHeap` and `NoUntrackedFree` with types, for any number of
  threads and addresses. `CountersAccountedCorrect` has a hypothesis, `NoWrap`: the threads are
  finitely many, no allocation is larger than some `maxSize`, and as many of that size as an epoch
  can have stay below the end of a word. Without it the counters wrap, in the code as in the
  model, and are no totals.
- **KernelProofs**: all five safety properties of `kernel`, for any number of goroutines. The
  invariant says which control states hold `kernelMu`, that a `SetKernel` past its wait is alone
  (`SetKernelAlone`), that a reservation is a utility between its two critical sections, and that
  once the bridge's selection is locked, Go has recorded it, a utility is about to, or the
  construction of a parser has failed (`GateRecorded`). Every action moves one goroutine;
  `OneMoves` reduces a step to that one.
- **FfiProofs**: `Exports`, where an array of matches is held only while its wildcard call has yet
  to be freed, and leases without a struct only while their document is (`StraysInDocs`);
  `Diagnostics`, where each control state of `Parse` says how much of the error has been read
  (`DiagInv`) and that no one else can have changed the rest; and `OwnedBytes`, where
  `BlocksAccounted` and `HeldIsRegistered` are inductive together: that a fresh block's address is
  in no table follows from the first, and that a free takes nobody else's buffer from the second.
  `GoFreeAccepted` draws the conclusion for the Go bindings.

Only model-checked: liveness (`CloseReachesParser`, `SetKernelReturnsEventually`, `CallReturns`),
which is out of the prover's reach. Every safety property of a passing run is stated by a theorem.

## 6. Not modelled

- What simdjson computes: parsing, minifying, UTF-8 validation, the token-by-token walk of the
  diagnostic replays. It is vendored; the models take its outcomes as inputs.
- The text of paths below segments (quotes, brackets, escapes), the table from status codes to
  sentinel errors, and all wording: tables and formatting without state.
- Getters of scalars, and `snapshot` of the telemetry, which read one value; panic containment
  of the C ABI except where a call relies on it (`Gate`).
- Poisoning of the registry mutex: the code recovers the guard and goes on.
- Validation of the bootstrap's options, `ResolveChecksum` and checksum overrides, which are for
  tests and keep no state.
- Hooks for tests, the command line tools, the build script and the benchmarks.
- Effects of weak memory. The one shared variable read without a mutex or an atomic access is
  the telemetry's epoch; it is an aligned word, and the model reads its old or its new value.
