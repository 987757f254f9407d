# A verification project for EACL

EACL is an authorization library: relationships between objects and a permission
schema are stored as datoms of the application's own database (Datomic, Datahike,
DataScript or Datalevin), and `can?`, `lookup-*` and `read-relationships` evaluate
permissions over an immutable value of it. Its decision functions are verified in Dafny
and shipped as generated Java and JavaScript, the latter on a runtime whose collections
the repository replaces with its own. This directory holds TLA+ models of EACL's stateful
core and of that JavaScript, the TLC runs that check them, and TLAPS proofs of the results
that must hold for any number of requests, writers, keys and revisions.

Paths below are relative to `src/modules/eacl/src/eacl/` unless they name another
module (`datomic:` is `src/modules/eacl-datomic/src/eacl/datomic/`, and likewise for
the other backends).

## The system

| component | state it keeps | operations | what makes it correct |
|---|---|---|---|
| stamped store (`backend/writer.cljc`, every backend) | the database history: schema, relationships, a generation per relation and one of the schema | atomic transactions | equal generations mean equal content |
| answer cache (`cache.cljc`, `proof_frame.cljc`, `subproblem_cache.cljc`, `cache/standard_lru.cljc`, `client/orchestration.cljc`) | runtime cache lifecycle (bounded stores, content revision, proof health, source incarnation) | resolve, publish, clear, expire, export, restore | every served answer is what evaluation yields on the selected value |
| writers (`relationships/*.cljc`, `client/orchestration.cljc`, `*/qualifiers`, `*/schema`, `*/impl`) | no state of their own between calls, prepared handles apart; guards in the transactions | write, prepare, discard, compose, delete object, write schema, safe retraction, orphan sweep | no race leaves an incoherent database; every change is stamped |
| basis selection (`backend/source.cljc`, `consistency.cljc`, `causal_token.cljc`, `request/context.cljc`, the `backend` of every adapter) | ownership of an acquired basis: open, releasing, released; synchronisations a provider works on | select, retry, recover, read, keep, release, time out | a basis is released once and never leaks; a token is honoured or refused; every call ends |
| speculation (`client/orchestration.cljc`) | none: a prospective value and its effects | `with`-style snapshots | never pollutes the stores of committed answers |
| keyring and retention (`security/*.cljc`) | generation, active and retired keys, the last claimed epoch | add, activate, retire, replace, prune | retired is permanent; no update is lost; no cleanup is claimed twice |
| continuations and cursors (`continuation.cljc`, `cursor.cljc`, `relay.cljc`) | bounded store of walk checkpoints; cursors in the hands of hosts | put-latest, lookup, accept, recover, mint | a resumed walk continues the answer it began |
| page engine (`engine/*.cljc`) | request-local | route, reduce, page, replay | pages concatenate to the reference enumeration |
| operators (`operator/*.cljc`) | request-local | union, intersection, exclusion, recursion | agrees with the stratified denotation |
| temporal qualification (`authorization/*.cljc`) | qualifier cache, clock | evaluate at a time, reuse on an interval | an interval answer is valid throughout its interval |
| execution control (`execution.cljc`) | a contract per request | check deadlines and budgets | nothing is published after the deadline |
| JavaScript runtime of the kernel (`src/formal/runtime/js/*.js`) | a graph of views behind the sequences; inner maps shared by sets and maps | concat, slice, select, update, force; union, intersect, difference, subsets, merge | sharing and forcing in place are invisible: persistent values |
| source closure (`src/bin/public-source-closure.mjs`) | definitions, usage graph, search per root | read rows, attribute, search, publish | nothing reached is omitted; contradictory input fails |
| proof effort summary (`src/bin/summarize-dafny-verification.mjs`) | parser, totals | read, judge, aggregate, publish | what passes was written and is within the limit |
| storage upgrade (`relationships/upgrade.cljc`, `datomic:schema.clj`) | storage version | migrate | resumable, refuses a mixed store |
| verified kernel, SpiceDB schema validation, caveat languages, secure format, reports | none | pure functions | outside this project: see below |

Requests run on the threads of their callers. They share the cache lifecycle of their
client, an atom swapped by compare-and-set, and its stores; writers share nothing but
the database. A commit is the only synchronisation between writers, and its stamps are
the only thing that tells a cached answer that it is out of date. The difficult
behaviour is accordingly in five places: what a request read before something else
happened and uses after it (lifecycle, basis, proof, resident answer, checkpoint, keyring);
what a writer planned on one value and commits on another; what a host does to the whole
cache, to a Snapshot it shares or to the keys meanwhile; who gives a native basis back when
a call fails half way; and, in JavaScript, what happens to a value others hold when a
shared structure is rewritten in place. PROJECT.json lists these hazards at the lines where they bite.

## Modules

```
StampedHistory         database values, commits, what stamps promise (no variables)
  StampedStore         one history with a life of its own: the backend contract
  AuthCache            many histories, the answer cache and its requests
RelationshipWriters    --implements-->  StampedStore
BasisSelection         acquiring, certifying, keeping and releasing a basis
SecurityKeyring        rotation by compare-and-set
  PagedWalks           walks over pages, checkpoints, cleanups after rotations
DafnySeq               --implements-->  PersistentSequence
DafnyCollections       --implements-->  PersistentCollections
SourceClosure          the public source closure
ProofEffort            the summary of proof efforts
Loops                  loops over numbered turns: that their outcome exists, what it keeps
*_proofs               theorems about the module they are named after
DafnyRuntime_proofs    theorems about DafnySeq and DafnyCollections
Scripts_proofs         theorems about SourceClosure and ProofEffort
MC*                    instances for TLC
```

### StampedHistory and StampedStore

A `Database` is the schema, the schema generation, a generation per relation and the
relationships of each relation; all else is left out. `RelationshipCommit` is the
value a relationship transaction leaves (`stamp-relation-versions`: the generation of
a touched relation is the revision of the transaction), `ReferenceCommit` the one a
Datomic transaction leaves that adds a reference to a caveat (the schema generation
moves too, `datomic:qualifiers.clj` `schema-fence`), `SchemaCommit` the one a schema
replacement leaves. `NoGeneration` is the generation of a relation that was created
before stamps existed. `ProofContract` is what `complete-result` relies on: a stamp is
never from the future, and equal stamps of any two values of one history mean equal
content.

The models take the position of a commit in the history for its revision and for the
stamp it writes, where the code has the transaction entity or an opaque value that
`resolved-generation` maps to one.

### AuthCache

`logs` holds one history per source lifecycle: expiring the cache with a new source
lifecycle is how a host says that history was replaced (a restored backup), so the new
history is a prefix of the old one. `lifecycles` keeps every runtime cache lifecycle
ever installed with its answers; the last one is installed, the others are detached and
still reachable by requests that captured them. `contentRevision`, `disabled` (proof
health, shared between answer-store generations), `saved` (an exported snapshot) and
`restoring` complete the state.

A request goes `captured` (`capture-cache-lifecycle`), `acquired` (`acquire!`), then
through `select-request-basis`, which starts over if the incarnation or the source
changed; then `exact`, `proof`, `managed`, `evaluate`, `publishManaged`, `publishExact`
and `done` in the order of `resolve-basis*`. Each is an action of its own, so anything
may happen between any two. `Bypass` and `SkipPublication` stand for every reason to
leave a cache stage out (no cache, deadline, budget, `:populate-cache?`). `Notify` is the
content-change hook that runs after an insertion. Speculative requests are read-only and
consult the managed tier only if their effects are disjoint from the query. An answer is
all it may depend on: the schema's rules for the query and the data of the relations it
reaches; evaluation itself is not modelled here. Nor are qualified queries, whose answers hold at a
time: the code never lifts them (`MayLift` is for the others), and reuses them at other times by
an interval, as PagedWalks models it for pages.

### RelationshipWriters

`log` is the history with what the writers' guards look at: the schema generation and the
separate write fence, relation generations, a pair per relationship (plain, or naming its
qualifier entity), the qualifier entities, the live objects. `op[w]` is one call of a
client; `sweep` is the certificate of a running orphan sweep. An operation keeps the
revision it planned on, never the transaction, because its plan is a function of that
revision.

| action | code |
|---|---|
| `Resolve`, `Prepare`, `AllocateQualifiers`, `AllocationLost`, `Plan`, `ReplyUnchanged`, `Commit`, `CommitLost`, `FactsLost` | `writer-write-qualified-relationships!` with `qualified-publication-entries`, `prepare-batch!`, `plan-batch` |
| `Prepare` .. `AllocateQualifiers` of kind `prepare`; `Compose`; `PlanDiscard`, `CommitDiscard`, `DiscardLost` | `prepare-relationship!`, `snapshot-tx-relationships`, `discard-prepared-relationship!` |
| `PlanDeletion`, `CommitDeletion`, `DeletionLost` | `writer-delete-object!`, `largest-fitting-prepared-batch`, `plan-native-retractions` |
| `AdmitSchema`, `PlanSchema`, `CommitSchema`, `SchemaLost`, `RelationInUse` | `write-schema-through!` and the schema writer of the backend |
| `SafeRetract`, `CaptureSweep`, `SweepChunk` | the safe-retraction function, `capture-sweep`, `sweep-chunk!` |

`Backend` selects what the adapters differ in: qualifiers prepared in a transaction of
their own (DataScript, Datahike) or allocated in the publishing one; a schema fence that
is the schema generation (Datomic) or separate from it; which lost guards the adapter
recognises as contention (`Retried`: `prepared-contention?` of `staged.cljc` on DataScript and
Datahike, `datomic-cas-failure?` on Datomic, `stale-connection-contention?` on Datalevin). `plan-batch`
lists the guards of a batch (`GuardsHold`); each adapter's `qualifiers` makes the schema and relation
fences, its `impl` the guard of an endpoint's identity. `Contents` and `Abstract` map the detailed database
to the one of StampedStore.

### BasisSelection

A call goes `select` (capture, `authenticate`), `acquire`, possibly `wait` (a Datomic
synchronisation), `identify` (`adapter-semantic-identity`, which reads the lifecycle of now),
`certify` (`select-source-at-least!`, `source-selected-adapter!`, `select-request-basis`),
`read`, `release`, `native`. `handle[h]` is a selected basis with the thread that opened it,
the history it really is of, the identity captured for it, and its state; `held` are the bases
a call has to give back, two when a cursor is recovered. `Unwound` is every exit path:
whatever a call holds is released before it fails, retries or ends. `WinsRelease` is the
compare-and-set `:open` to `:releasing`; a failed native release opens a Snapshot again.

`lifecycle` numbers source lifecycles and the histories they stand for: `ReplaceHistory` is
the host that restores a database and expires the cache in one step. Its revisions may start
over. `backend` selects Datalevin (owned by one thread, returns what it finds below a
floor), Datomic (borrowed, synchronises, exact and authoritative bases) or DataScript
(borrowed, polls). `ReleaseKept` is also a read that finds its Snapshot too old. Only
threads in `Caller` select; the others meet them through a Snapshot, which is all that two
selections share. Validation of a candidate and the comparison of its lifecycle are one step.
Left out: the first of Datalevin's two candidates below a floor, which the adapter closes
itself; a transient basis whose failed release was reported to its caller; child snapshots
of speculation; Datahike's exact commits.

### SecurityKeyring and PagedWalks

A ring is one immutable value with its generation. `BeginUpdate` and `BeginReplacement`
read it and decide; `Install` swaps where the generation is still the one read; `Conflict`
tries again, at most `MaxAttempts` times, or reports.

A page call captures basis, time, ring and consistency descriptor in `Begin`: a client selects the
newest basis, or the one an exact token names, a Snapshot keeps its own and refuses a descriptor it
does not satisfy (`MayAsk`, `Requestable`). It observes retirements (`Observe`,
`Claim`: one winner per epoch prunes the checkpoints under retired keys), accepts or refuses
its cursor, and may recover the basis of the cursor (`Recover`). `Authentic` is what a cursor is bound
to: a key the call captured, the mode of the descriptor and, in a qualified query only, the kind of
target, client or Snapshot; the page size is not part of it. `Satisfies` compares the cursor's revision
with the floor or the exact token of the call, and its interval with the time of a qualified one.
`Current` is the same basis or an equal frame, but the frame of a qualified query is its basis. The
call then serves a page (`Serve` after an edge, `ServeBefore` before one) and leaves a
checkpoint (`Peek`, `Swap`: compared, then swapped only in place of what was compared) before
`Deliver` hands out cursors. The engine is a sequence of candidates per frame, of which those
whose deadline has passed are not results: the order in which the reducer visits candidates
is the engine's own Dafny theorem. `RunEnd`, `RunResults` and `RunUntil` are a run of the
reducer from a position: where it stops, what it found, the earliest deadline it met.
`Evict` and the full store of `Stored` lose checkpoints at any time. Left out: rendered
pages, range reuse, pages filtered on authorization or a relationship, raw-candidate and last-window pages, incomplete certificates, expiry of
cursor tokens by age, the stand-alone `page` token, frames that are unavailable, and keys as
bytes. Range reuse is a tier of its own, not an optimisation of scans: it keeps delivered pages of one
walk and basis as merged segments, serves any window inside them, and composes one that runs past a
segment with a continuation from it. Pages here come from a checkpoint or from evaluation only. There is
one controller, and pruning is one step.

### DafnySeq and DafnyCollections

`node[h]` is the proxy target behind a handle: a leaf, a concatenation or a slice. Calls are
functions of handles; where one needs a flat value, `ForceDemand` pushes an activation and
`FlattenLeaf`, `FlattenConcat`, `FlattenSlice` are turns of the loop of `_forceValues`, which
calls itself on the base of a slice, until `Materialize` rewrites the node. `Meaning` is the
refinement mapping to `PersistentSequence`, where a handle simply holds a sequence and each
call has the answer mathematics gives it.

A Set or Map is a handle to an inner map of the `immutable` package, which is modelled from
its use: up to `LinearLimit` entries a list searched with `equals`, beyond that a trie that
looks at the hash first. A node of the trie compares only the bits of the hash on its way; `Matches` takes
all of them, so the model denies an element wherever the package may, and in some cases where it
does not. Elements are atoms and sets of atoms, the latter with the order they
were built in, because `hashCode` hashes `toString`. A loop that adds or removes in place is a function
from the number of its turns (`PutAll`, `RemoveAll`, `Chosen`). `PersistentCollections` has sets and
functions in their place; `Represented` and `Abstraction` are the refinement mapping. Left out: strings as sequences, rendering, `push` and the index and
length setters, and `updateUnsafe` outside of `of`; generated code does not use them.

### SourceClosure and ProofEffort

`ReadDefinition` takes a row, merges it with the definition known under its name or fails on
a contradiction; `ReadUsage` attributes a usage to the definition the analyzer names or to
the record whose span contains it; `StartRoot`, `Visit` and `CloseRoot` are the search from
each root; `Publish` scans the sources for forbidden tokens. A record and the constructors
defined with it have one span; a usage in it belongs to the one that is met first, in the code
(`Attributed`) as in the reference (`Owners`). The reference is a function of what the analyzer
delivered: `Reached` is the least set of definitions that holds the root and what it uses.

`ProofEffort` reads a log character by character (`ReadQuoted`, `ReadPlain`, `EndOfText`),
drops blank rows (`Kept`), judges the others (`JudgeEffort`) and adds up (`Total`). `FileText` is
what Dafny's logger writes, quoted where it must be, with either line ending, possibly cut off.
Texts are sequences over `Character`, of which the model names only those the code names.
A log cut off between two rows passes with the efforts before the cut: the script knows
no number of efforts to expect. Numbers are exact: the code requires limit and costs to be safe
integers, and a total beyond 2^53 would take more efforts than a directory has.

## Runs

| run | instance | question | result |
|---|---|---|---|
| `cache_requests` | 1 request at a time over 2 relations, 2 schemas and all kinds of value; 2 concurrent ones over 2 source lifecycles, clears and expiries; 2 revisions, contract violations, stores of 1 | is reuse over time sound, across schema changes, missing stamps and speculation; does expiry ever mix sources; what gets resident; does reuse run forward | holds |
| `cache_checkpoint` | export, restore and retained snapshots, 2 sources, 3 lifecycles, stores of 1 | are restored answers committed truth; is a retained snapshot still right after expiry; is the dirty hint right | holds |
| `cache_sticky` | violation, export, restore | is disabled lifting sticky until expiry | violated |
| `writers_clients` | DataScript, 2 fair writers, 2 relations, 2 schemas, 2 attempts | batches against batches, deletions and schema replacements: coherent, atomic, complete, retried, ending, and an implementation of StampedStore | holds |
| `writers_hosts` | Datomic, 3 operations, handles, sweeps, retraction, schemas | host transactions against writers | holds |
| `writers_deletion_batches`, `writers_deletion_contention` | Datomic | is a deletion complete; is it retried | violated |
| `basis_selection` | 3 backends, 2 threads, one of which selects, 3 bases, 1 Snapshot, 2 histories of 2 revisions, 2 failures | does a basis leak, get released twice or read while closed; is a token answered from elsewhere; does every call end | holds |
| `paged_walks` | 3 candidates, 3 frames, 2 times, 2 page sizes, 2 revisions, all consistency descriptors, 3 keys, stores of 1 | is every page the next one of a fresh answer; do checkpoints and cleanups only advance; do keys return | holds |
| `page_sizes` | the `Walks` part of `paged_walks` | is a cursor refused with another page size | violated |
| `kernel_javascript` | sequences of length 4 behind 4 handles; 3 sets and maps of atoms and a set, 2 hash codes, lists of 2; 4 definitions in up to 5 rows of 2 languages, the plain ones in either order; logs of up to 2 efforts, cut off at every place of the last one | do the collections implement persistent ones and their calls return; is the closure exact; does the summary count what was written | holds |
| `kernel_keys` | one set of nine elements, the package's list of eight | is a set found by an equal set | violated |

Why the bounds are enough. Reuse compares two revisions and a proof has one entry per
relation, so two contents, two relations and two schemas distinguish every way a
comparison can go wrong; mixing needs two sources, two lifecycles (three where a clear, an
expiry and a restore interact) and two requests. A race of guarded transactions needs a
winner and a loser, two attempts show both a retry and its exhaustion, and a third
operation lets a handle be prepared, used and used again. `MaxRevision` of the writers
is above what the operations of an instance can commit, sweeps excepted; it does not cut
a race short. Two of three operations in `writers_hosts` suffice to prepare and to use; the
third one is the rival. In AuthCache `Open` stops new work at `MaxContent` and lets what runs
finish. `CHECK_DEADLOCK FALSE` is set because these instances come to rest when their
bounded work is done.

In `basis_selection` a call holds two bases at most (`Handle` has those and a Snapshot), one
replaced history lets revisions start over once between any two steps of a call, and one
token lies ahead of the first history while the other names the second. `MaxFailures` lets a
release fail and its retry fail. `cache_requests` explores two scopes: one request at a time meets
every change of the data (`Reuse`); two requests meet everything hosts do to the stores, over the
changes of one relation (`Concurrent`). Both at once is beyond TLC, and is what the proofs cover.
Installed lifecycles and content revisions are bounded together (`changes`, `MaxChanges`): in
`Concurrent` an expiry leaves room for one counted insertion; in `cache_checkpoint` one install leaves
room for two of them, and two installs for insertions into stores that were detached before the hook
ran, which do not count: enough to export, expire, restore and read. Relations hold the same at first, and only the first lifecycle of
`cache_requests` meets a contract violation.
`paged_walks` explores six, each deep where its question lies: one caller walking in
every way on two revisions (`Walks`), one whose calls carry every consistency descriptor and every
token that can be on two revisions (`Tokens`), two callers racing
to leave checkpoints (`Races`), a caller and a rotation (`RotatedWalks`), two callers and two
retirements (`Cleanups`), and two rotating threads (`Rotations`). Three candidates, one that
expires, make a page, a lookahead and a rest; `MaxEntries` 1 makes every second checkpoint an
eviction; `Never` 2 gives a time before and after the deadline; `MaxCursors` 1 is enough
because a call brings one. `MaxAttempts` is 2 (32 in the code), `MaxKeys` 3, `MaxRetired` 2,
`MaxGeneration` 2. In `kernel_javascript` `HashModulus` is 2 (2^32 in the code) so that
distinct keys collide, and `LinearLimit` 2 (8 in the package) so that small collections become
tries; `kernel_keys` has the real limit. Four handles nest a view in a view in a view
(`MaxHandles`), with sequences of up to four elements (`MaxLength`); `MaxObjects` 3 is two
operands and a result. Two rows of definitions beyond the plain ones are enough for a second
language, a contradiction and a constructor, alone or in pairs. The four parts of the run share
nothing and one of them is chosen at the start. These instances stop when the supply of handles is used up, a report is published, or the host
has nothing more to ask within the bounds.

Symmetry is used in invariant runs only, over relations' contents, requests and writers,
which the modules compare for equality and never order.

Fairness. `RelationshipWriters!FairSpec` keeps the loop of an operation running (`WF` of
`Step(w)`): it is the thread that called. It says nothing of when clients call, hosts retract
or sweep. `kernel_javascript` is fair to `Work`, a call on the stack of its caller.
`BasisSelection!Fairness` keeps each thread running its call and lets each caller's deadline
pass; it promises no commit, no synchronisation that catches up and no host that releases.
AuthCache has safety properties only: `select-request-basis` starts over whenever an
expiry wins, without a bound, so it ends only because expiries are an operator's occasional
action, which is not the code's to guarantee.

Each property of a passing run has a mutant in PROJECT.json, an operator beside the definition
it replaces that says in a comment which mistake it is.

## What the runs found

* **Lifting comes back with a restore** (`cache_sticky`). The operations guide says that
  after a contract violation managed lifting is "sticky-disabled until lifecycle expiry"
  (`docs/v8-consistency-cache-operations.md:60`). `restore-cache-with!` installs a restored
  lifecycle with fresh proof health.
* **A deletion may answer with a revision that still holds relationships**
  (`writers_deletion_batches`). If another client removes the rest between two batches,
  `writer-delete-object!` answers with its last own batch. A reader at least as fresh as that
  token may still see them, where `README.md:837` says every relationship touching the object is
  removed.
* **A Datomic deletion does not retry** (`writers_deletion_contention`). Its basis guard throws
  `:eacl.storage/upgrade-failed`, which `datomic-cas-failure?` does not recognise as contention,
  although `writer-delete-object!` is documented to replan on each contention retry.
* **An equal set may not be found in a set of more than eight elements** (`kernel_keys`).
  `DafnyKey.hashCode` hashes the text of a value, and the text of a Set lists its elements in
  insertion order; beyond eight entries `Immutable.Map` looks at the hash first. The module's
  header says the keys are Dafny's structural ones. Nothing here shows that the kernel builds
  such sets.
* **A cursor is accepted with another page size** (`page_sizes`). `README.md:859` says "a page size
  change is rejected as an incompatible cursor rather than silently re-windowed", and
  `docs/release-notes-v8.0.md:330-331` says the same. `cursor-transport-keys` leaves `:first` and `:last`
  out of what a lookup cursor is bound to, and a test
  (`continuation_reuse_test.cljc`, `page-size-change-continues-from-the-checkpoint-test`) expects the
  walk to go on. The code keeps no record of the size a cursor came with; MCPageSizes does, beside
  the state. What the code does is sound: `WalksAreOneAnswer` holds across page sizes, so
  re-windowing loses and repeats nothing. Only pages filtered on authorization or a relationship,
  which are not modelled, are bound to their size.

## Proofs

`StampedStore_proofs` begins with the facts about commits of StampedHistory: `Follows` describes
how one value extends a history (what keeps its stamp keeps its content, a new stamp is the new
revision), `FollowsKeepsContract` is the inductive step of `Certified`, and one lemma per kind
of commit shows that it follows. It concludes `ContractHolds`; the proofs about the cache and the
writers cite the same lemmas.

`AuthCache_proofs` proves `AnswersFresh`, `NoBackwardReuse`, `NoCrossSource`,
`ResidentsCommitted` and `TypeOK` for every number of requests, queries, relations, sources and
lifecycles, from the assumptions on the constants alone. None of them is inductive. The
invariant `IInv` adds that every history is certified, that a request past selection holds a
value of its source's history (or a prospective value one commit ahead of it), that the answer in
its hands and the key it will publish under belong to that value, and that saved and restoring
snapshots hold committed answers. The heart is `SameDescriptorSameAnswer`: two values of one
certified history with the same complete descriptor give a query the same answer;
`DisjointSpeculation` extends it to prospective values, and `GrowthKeepsCommitted` says that
commits never invalidate what is resident. Each action has a lemma; `NextIInv` assembles them.
`UnchangedRevisionMeansUnchangedExport` is what a checkpointing host relies on, with the
invariant `ExportInv`: a publisher that inserted owes the host one notification and does nothing
else before it, so an unchanged count leaves no insertion unaccounted for.

`DafnyRuntime_proofs` proves every safety property of DafnySeq and the refinement of
`PersistentSequence` (`TypeCorrect`, `LooksBack`, `MaterializesEachOnce`, `Implements`), for any
elements, calls, numbers of handles and lengths. In a heap whose views refer to older handles
(`HeapOK`) exactly one assignment of sequences to handles agrees with every node: two would differ at a
least handle, whose parts are older. `Meaning` is that assignment; making a node extends it and
flattening a node keeps it (`Grown`, `Flattened`), so no step changes what a handle denotes.
`FrameOK` is the invariant of the loop of `_forceValues`: what an activation has flattened, followed by
what its stack still denotes, is what the node it forces denotes. `FramesOK` adds that an activation
forces a node older than its caller's, so none is forced twice.

The same module proves the refinement of `PersistentCollections` (`CollectionsImplement`), for any
keys, literals, hash width, list limit and number of objects, under one hypothesis. `OneText`
says that equal keys have one text; it is what the `kernel_keys` finding violates, and
MCJavaScript assumes it, so that TLC evaluates it on the instance of `kernel_javascript`. Under it
`CollectionsMembership` proves `StructuralMembership`, the statement that finding refutes without it.
The invariant says that behind every handle is an inner map with one entry for each value of a key
(`Typed`, `Distinct`), that the call running is one of those handles, and what the subset generator has
done (`Generates`). `FoundMeans` is the heart: a search stops at an entry exactly where that value is
represented, in the list and in the trie, because equal keys have equal hashes. Then setting
and removing an entry are what they are of a set or function (`SetEntryHolds`, `RemoveEntryHolds`, the
latter with the list's gap filled by its last entry), and sizes are cardinalities (`SizeIsCardinality`), so
that the code may compare lengths first and start from either operand. Loops over entries are
functions defined by recursion: `LoopExists` and `LoopKeeps` of `Loops` replace the induction theorems
of the library, from the least element of a set of numbers. There is one lemma for each of the nineteen
operations; starting the generator and yielding from it are stutters. `NextInOrder` shows that the
next selection is the next binary number, so that the subsets yielded are those of the selections before
the present one, each once, and all of them at the end.

`PagedWalks_proofs` proves every property of its module (`KeysNeverReturn`, `CleanupsAdvance`,
`CheckpointsOnlyAdvance`, `TypeOK`, `WalksAreOneAnswer`) for any number of threads, revisions,
candidates, deadlines, times and page sizes, any finite set of keys and any size of the store. `KeyringInv`
is the argument of every compare-and-set by generation: who finds the generation it has read
still holds the ring it has read, and disjoint `keys` and `retired` then stay disjoint.
`CallsInv` says what a call between two steps has established: one that may claim has captured
a later epoch than it compared with, one that may swap has got further than the entry it
compared with. Both are conjuncts of `IInv`; each action has a lemma.

`WalksInv` is the invariant behind the pages. `Stable` says what a certificate covers: no deadline of
the candidates looked at lies between its start and its end, so that the two times count the same
results up to there (`Agreement`), and `GoodCarries` concludes that the answers agree as far as the
cursor. `Stands` says what a checkpoint is: a position, what was found beyond the boundary, and a time
until which both are good. A fresh walk, a replay that ends on the boundary and a checkpoint at a
time its interval covers all stand (`FreshStands`, `ReplayStands`, `CheckpointStands`), and from
wherever a walk stands the run continues with what comes next (`RunGoesOn`, `PageComesNext`), whatever
the page size was before. A walk of an unqualified query is read at time 0, so the client and a
Snapshot may continue each other's; one of a qualified query goes on on its own basis only. Below it is counting: `Found` rises by at most one with each candidate
(`Counts`), so that a run stops at the first position that has enough (`RunEnds`). `BoundsInv` adds
the bounds. `AcceptedCursorsAreReplayed` says that an accepted cursor is never found invalid
afterwards: whoever loses its checkpoint pays with a replay. tlapm does not know `SelectSeq` or
functions of two arguments; `Answer` and `Found` are therefore functions of functions, and
`Answer` is defined from `Found`. MCPagedWalks assumes, and TLC evaluates, that it selects the
candidates that have not expired (`AnswerIsSelection`).

`BasisSelection_proofs` proves every invariant of its module (`TypeOK`, `ReleasedOnce`,
`ReadsAreOpen`, `NothingLeaks`, `TokensHonoured`) for any number of threads, bases, Snapshots,
histories and failures, on each of the three backends. Ownership is exclusive: `HeldOK` says that
a basis the host does not keep is held once, by a call of the thread that selected it, and open
until that call's own native release; `NativeInv` that of the calls releasing one Snapshot only
one is in the native step. A leak, a second release or a read of a closed basis would each need
two owners. `ChainOK` orders what is behind a token: the lifecycle it names, the one the call
captured, the history of its candidate and the identity read for it are compared one after the other,
each no later than the lifecycle of now, so that the last comparison closes the chain. `SyncInv` pairs
synchronisations with the calls that wait for them, and `CapacityInv` counts Snapshots, so that there
is a free basis to select; for that the callers must be finitely many (`CallerAssumption`).

`RelationshipWriters_proofs` proves every safety property of its module for any number of writers,
edges, relations, caveats, schemas, attempts and revisions, on the four backends. A transaction
knows the value it planned on and the value it is applied to only by their stamps, so the
argument is about what an equal stamp says: `Later(old, new, r)` relates any value of the history to any
later one (equal fences: the same schema and no new reference to a caveat; then equal generations
of a relation: the same relationships; and qualifiers never change). `HistInv` keeps `Later`
between all values of the history and `Sound` in each: what is stored is admitted, lies between live
entities, and each qualified relationship names the qualifier allocated for it. `OpInv` says what
a running operation has established on the value it names by its basis, and what the commit it
acknowledged did. The heart is one lemma per kind of transaction (`BatchCommits`,
`DeletionCommits`, `DiscardCommits`, `ReplaceCommits`, `SafeRetractCommits`, `SweepCommits`):
guards that hold carry over what was established on the plan, so the commit is `Sound`,
`Follows` the history and is `Stamped`. `AllocateCommits` alone needs no plan. On Datomic the schema
writer compares a generation read before its plan; `SchemaFence` shows that the plan's own is
then the same.

From `IInv` follow `TypeOK`, `QualifiersOwned`, `SchemaCoherent` and
`AcknowledgedBatchesAreAtomic` without further hypotheses. Two properties that some instances
violate are theorems with the hypothesis that excludes the finding: `DeletionsComplete` where all
relationships fit one transaction, `DeletionsRetry` outside Datomic. `DeletionsAnswer` has no hypothesis
and delimits the first finding: an answer that is incomplete is the revision of an earlier batch.
`Implements` is the refinement of StampedStore, from `Stamped` of every commit; with
`ContractHolds` it gives `StampsProveContent`, so what the cache reads from two stamps is true of every
history the writers can make. `RequestAssumption` states what requests are (they name edges,
values and schemas there are, and a preparation is of one qualified relationship), which the
model needs to be typed; `MadeFor` is the check of `prepared-value` that a handle is used for what it
was prepared for, without which a composed batch would not carry its values.

`Scripts_proofs` proves both properties of SourceClosure, for any rows, usages and roots. While
rows are read the definitions summarise exactly the rows so far (`Known`), so they attribute a usage
to the same owner as the rows (`Attribution`) and a row contradicts its definition only if it
contradicts an earlier row. The search holds what it found between the root and every closed set
with the root (`Search`); with nothing pending it is closed itself (`SearchEnds`). The assumption
`AnalysesAgree` says of the analyzer that a name has one file and is a record in every language
or in none (the analyzed directories have no two files of one namespace), and that between the branches
of a record in two languages nothing is used outside of a named definition; without the latter the
merged span claims such a usage for the record.

The second half of `Scripts_proofs` proves `EffortsJudged` (`EffortsAreJudged`), for any texts, any numbers
of files and efforts, either line ending, quoted or not, and any cut. Three things are assumed of the
constants: the characters the code names are among those of texts, the header has five columns, and its
last name is neither empty nor ends with a carriage return (the script's own header is such a one).
Everything a file holds is a flattening of flattenings; `FlattenOffsets` says where its parts are, once for
the characters of a text, the cells of a line and the lines of a file, so that `Layout` gives the
place of every column. `ReadOf` says what the parser holds within one column that was written and
`ReadFurther` that one more step holds what it should, a doubled quote included. `Reading` puts the two
together: the parser is in column c of line i and holds the columns and lines before it (`PlainReads`,
`QuotedReads`), or it took the first half of a doubled quote for a closing one because the file was cut
there (`CutOff`). At the end of the text `EndReads` concludes `Parsed`: the rows are the lines, except
that the last row of a file cut off may be a beginning of its line, whose last text may be anything; blank rows are dropped and none of
the others is blank (`KeptIs`). The invariant `EffortsInv` adds for the judge that the rows left follow
the efforts counted (`Remaining`), that the summary tallies those and that all of them are
good; `AddedTallies` and `AggregatedTallies` extend `Tallies` by an effort and by a file, the first of
the costliest included. The recursive functions `Number`, `CostOf`, `Kept` and `Total` are loops again, and
a flattening is unrolled in the same way (`FlattenTurns`).

Only model-checked: liveness (`EveryOperationEnds`, `EveryRequestEnds`, `CallsReturn`), which is out of the
prover's reach along with ENABLED. What the texts of keys are is not computed either: the proofs of
DafnyCollections use only that they are functions of the key. Every other property of a passing run is
stated by a theorem.

## What is left out

* The ordinary writer path of clients with qualified authorization switched off
  (`writer-write-ordinary-relationships!`); the switch is on by default.
* Half pairs and their repair: a relationship is one `Edge` and both its halves are written
  by one transaction. Application datoms, identity rows, caveat parameters and source
  identity checks are abstracted from; so are Datalevin's stale connections.
* Evaluation: schema compilation, routes, operators. The cache models take it as a function of
  the schema and of the relations reached, PagedWalks as a sequence of candidates. The range
  reuse tier (`client/range_reuse.cljc`), which serves windows out of merged segments of
  delivered pages, has the same properties to answer for and is not modelled; nor is prefetching.
  Subproblem denotations have the publication rule of the answer tiers. Operator evaluation is sequential
  and compared with a reference by the tests.
* Validity intervals of cached answers (those of pages and cursors are in PagedWalks), budgets of
  work, and the qualifier cache.
* Storage upgrade: an offline migration by one operator.
* The revision watermark of Datalevin: a commit whose watermark fails is reported as committed,
  with its revision, and the writers take every commit as acknowledged.
* The verified kernel (it has its own Dafny proofs under `formal/`), the SpiceDB schema parser,
  caveat languages and the secure format: pure functions, cryptography or layout. The formal
  assurance summary renders tables; the smoke test and the externs of the generated runtime have
  no behaviour of their own.

## Plan

All modules are written, and every safety property that is in the prover's reach is proved. Of what
is left out, the range reuse tier would be the next module: its segments are resident state that
walks share, like the checkpoints of PagedWalks.
