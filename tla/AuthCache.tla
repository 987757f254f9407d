------------------------------ MODULE AuthCache ------------------------------
(***************************************************************************)
(* The completed-answer cache of one EACL client, shared by concurrent     *)
(* requests over a database that keeps changing.  A request captures the   *)
(* runtime cache lifecycle, selects an immutable database value, checks    *)
(* that the two belong together, and resolves its answer exact-first, then *)
(* by one complete managed proof, then by evaluation; what it computed it  *)
(* publishes into the lifecycle it CAPTURED, which by then may be detached.*)
(* Meanwhile writers commit, hosts clear, expire, export and restore the   *)
(* cache, and the source's history may be replaced.                        *)
(*                                                                         *)
(* An answer is abstracted to everything it may depend on: the schema      *)
(* rules of the query's closure and the data of the closure's relations.   *)
(***************************************************************************)
EXTENDS StampedHistory, FiniteSets

CONSTANTS
    Request,         \* concurrent requests
    Query,           \* normalized semantic keys
    Rules,           \* what the schema says about one query
    Closure,         \* [Query -> [SchemaText -> rules and relations it reaches]]
    Null,            \* no key, no answer, no snapshot
    MaxEntries,      \* answer-max-entries of a store
    MaxSources,      \* bound on source lifecycles (expire-cache!)
    MaxLifecycles,   \* bound on runtime cache lifecycles
    MaxContent,      \* bound on the content revision: nothing starts beyond it
    Kind,            \* the kinds of values requests select
    Behaviour        \* optional behaviours explored: schema replacement, broken
                     \* adapter contracts, retained snapshots, checkpoints

ASSUME ClosureAssumption ==
    Closure \in [Query -> [SchemaText -> [rules : Rules, relations : SUBSET Relation]]]

ASSUME KindAssumption == Kind \subseteq {"ordinary", "historical", "speculative"}
ASSUME BehaviourAssumption ==
    Behaviour \subseteq {"schema", "violation", "retained", "checkpoint"}

VARIABLES
    logs,            \* logs[n] is the history read under the n-th source lifecycle
    lifecycles,      \* every runtime cache lifecycle; the last one is installed
    contentRevision, \* :content-revision of the installed lifecycle
    disabled,        \* incarnations whose managed lifting is disabled
    req,             \* req[p] is the request p is serving
    saved,           \* the last portable snapshot a host exported, or Null
    restoring        \* the candidate of a restore in progress, or Null

vars == <<logs, lifecycles, contentRevision, disabled, req, saved, restoring>>

Open      == contentRevision < MaxContent
History   == logs[Len(logs)]
Current   == Len(lifecycles)
Installed == lifecycles[Current]

-----------------------------------------------------------------------------
(* What an answer may depend on, and the proof that it has not changed.    *)

Reach(q, db) == Closure[q][db.schema].relations

Answer(q, db) ==
    [ rules |-> Closure[q][db.schema].rules,
      data  |-> [r \in Reach(q, db) |-> db.data[r]] ]

\* complete-result: one missing generation makes the whole frame unavailable.
Complete(q, db) == \A r \in Reach(q, db) : db.generation[r] # NoGeneration

\* Mutant: a key that names the schema proof and forgets the relations.
SchemaOnlyDescriptor(q, db) ==
    [ schemaGen |-> db.schemaGen, dependency |-> [r \in {} |-> db.generation[r]] ]

\* The :dependency-stamp of the code is the maximum of the dependency identity
\* and adds nothing to the identity of a key.
Descriptor(q, db) ==
    [ schemaGen  |-> db.schemaGen,
      dependency |-> [r \in Reach(q, db) |-> db.generation[r]] ]

ExactKey(p)   == [ tier |-> "exact", query |-> req[p].query,
                   basis |-> <<req[p].kind, req[p].revision>> ]
ManagedKey(p) == [ tier |-> "managed", query |-> req[p].query,
                   basis |-> Descriptor(req[p].query, req[p].db) ]

Entry(key, value, computed) == [ key |-> key, value |-> value, computed |-> computed ]

\* Portable exact entries are direct computations for their own basis;
\* process-local managed promotions stay behind.
Exportable(answers) ==
    { e \in answers : e.key.tier = "exact" => e.computed = e.key.basis[2] }

-----------------------------------------------------------------------------
Stage == {"idle", "captured", "acquired", "exact", "proof", "managed", "evaluate",
          "publishManaged", "publishExact", "done"}

\* What the idle request carries is never read.
Idle ==
    [ pc |-> "idle", query |-> Null, kind |-> "ordinary", lifecycle |-> 0,
      source |-> 0, db |-> Null, revision |-> 0, disjoint |-> FALSE,
      key |-> Null, answer |-> Null, computed |-> 0, dirty |-> FALSE ]

Lifecycle(incarnation, source, answers) ==
    [ incarnation |-> incarnation, source |-> source, answers |-> answers ]

Init ==
    /\ \E db \in Genesis : logs = <<<<db>>>>
    /\ lifecycles = <<Lifecycle(1, 1, {})>>
    /\ contentRevision = 0
    /\ disabled = {}
    /\ req = [p \in Request |-> Idle]
    /\ saved = Null
    /\ restoring = Null

-----------------------------------------------------------------------------
(* The database.                                                           *)

WriteRelationships ==
    /\ Open /\ Len(History) < MaxRevision
    /\ \E touched \in SUBSET Relation : \E data \in [touched -> Datum] :
         logs' = [logs EXCEPT ![Len(logs)] = ExtendWithRelationships(History, touched, data)]
    /\ UNCHANGED <<lifecycles, contentRevision, disabled, req, saved, restoring>>

WriteReferences ==
    /\ "schema" \in Behaviour
    /\ Open /\ Len(History) < MaxRevision
    /\ \E touched \in SUBSET Relation : \E data \in [touched -> Datum] :
         logs' = [logs EXCEPT ![Len(logs)] = ExtendWithReferences(History, touched, data)]
    /\ UNCHANGED <<lifecycles, contentRevision, disabled, req, saved, restoring>>

WriteSchema ==
    /\ "schema" \in Behaviour
    /\ Open /\ Len(History) < MaxRevision
    /\ \E schema \in SchemaText, added, removed \in SUBSET Relation :
         logs' = [logs EXCEPT ![Len(logs)] = ExtendWithSchema(History, schema, added, removed)]
    /\ UNCHANGED <<lifecycles, contentRevision, disabled, req, saved, restoring>>

-----------------------------------------------------------------------------
(* Selecting a basis.                                                      *)

\* Mutant: the request starts without having captured a lifecycle.
CaptureNothing(p) ==
    /\ req[p].pc = "idle"
    /\ Open
    /\ \E q \in Query, kind \in Kind :
         req' = [req EXCEPT ![p] = [Idle EXCEPT !.pc = "captured", !.query = q, !.kind = kind]]
    /\ UNCHANGED <<logs, lifecycles, contentRevision, disabled, saved, restoring>>

\* The request captures the installed lifecycle before it selects a basis.
Capture(p) ==
    /\ req[p].pc = "idle"
    /\ Open
    /\ \E q \in Query, kind \in Kind :
         req' = [req EXCEPT ![p] = [Idle EXCEPT !.pc = "captured", !.query = q,
                                                !.kind = kind, !.lifecycle = Current]]
    /\ UNCHANGED <<logs, lifecycles, contentRevision, disabled, saved, restoring>>

Select(p, db, revision, disjoint) ==
    req' = [req EXCEPT ![p].pc = "acquired", ![p].source = Len(logs), ![p].db = db,
                       ![p].revision = revision, ![p].disjoint = disjoint]

\* An ordinary request may select any committed value (the local current one,
\* one at least as fresh as a token, one by exact locator); an as-of value is
\* historical.  Which history the value came from is known to the model only:
\* the code reads the source lifecycle after it has the value.
Acquire(p) ==
    /\ req[p].pc = "captured"
    /\ req[p].kind # "speculative"
    /\ \E i \in 1 .. Len(History) : Select(p, History[i], i, FALSE)
    /\ UNCHANGED <<logs, lifecycles, contentRevision, disabled, saved, restoring>>

\* The prospective value over a committed one.  Its revision and its stamps
\* are those the next real commit will use; the schema generation that proofs
\* see stays the parent's.
Prospective(parent, revision, touched, data, schema) ==
    [RelationshipCommit(parent, revision, touched, data) EXCEPT !.schema = schema]

\* Mutant: speculative effects on the query's own relations go unnoticed.
DisjointSchemaOnly(q, parent, next, touched) ==
    Closure[q][next.schema] = Closure[q][parent.schema]

\* The effects are disjoint from everything the query reaches.
Disjoint(q, parent, next, touched) ==
    /\ Reach(q, next) \cap touched = {}
    /\ Closure[q][next.schema] = Closure[q][parent.schema]

AcquireSpeculative(p) ==
    /\ req[p].pc = "captured"
    /\ req[p].kind = "speculative"
    /\ \E i \in 1 .. Len(History), schema \in SchemaText, touched \in SUBSET Relation :
       \E data \in [touched -> Datum] :
         LET next == Prospective(History[i], i + 1, touched, data, schema)
         IN  Select(p, next, i + 1, Disjoint(req[p].query, History[i], next, touched))
    /\ UNCHANGED <<logs, lifecycles, contentRevision, disabled, saved, restoring>>

SourceReplaced(p) ==
    \/ lifecycles[req[p].lifecycle].incarnation # Installed.incarnation
    \/ lifecycles[req[p].lifecycle].source # Installed.source

\* Never pair the cache of one lifecycle with the basis of another: release the
\* candidate and start over from one newly captured lifecycle.
RetrySelection(p) ==
    /\ req[p].pc = "acquired"
    /\ SourceReplaced(p)
    /\ req' = [req EXCEPT ![p] = [Idle EXCEPT !.pc = "captured", !.query = req[p].query,
                                              !.kind = req[p].kind, !.lifecycle = Current]]
    /\ UNCHANGED <<logs, lifecycles, contentRevision, disabled, saved, restoring>>

\* Mutant: the pair of lifecycle and basis is accepted unchecked.
AcceptUnchecked(p) ==
    /\ req[p].pc = "acquired"
    /\ req' = [req EXCEPT ![p].pc = IF req[p].kind = "speculative" THEN "proof" ELSE "exact"]
    /\ UNCHANGED <<logs, lifecycles, contentRevision, disabled, saved, restoring>>

AcceptSelection(p) ==
    /\ req[p].pc = "acquired"
    /\ ~ SourceReplaced(p)
    /\ req' = [req EXCEPT ![p].pc = IF req[p].kind = "speculative" THEN "proof" ELSE "exact"]
    /\ UNCHANGED <<logs, lifecycles, contentRevision, disabled, saved, restoring>>

-----------------------------------------------------------------------------
(* Resolving an answer.                                                    *)

Answers(p) == lifecycles[req[p].lifecycle].answers

\* What evaluating the query on the selected value yields.
Fresh(p) == Answer(req[p].query, req[p].db)

Settle(p, stage, value, computed) ==
    req' = [req EXCEPT ![p].pc = stage, ![p].answer = value, ![p].computed = computed]

\* cache-stage-available? is false (no cache, no budget left), or the request
\* is read-only: evaluate and answer without populating anything.
Bypass(p) ==
    /\ req[p].pc \in {"exact", "proof", "managed", "evaluate"}
    /\ Settle(p, "done", Fresh(p), req[p].revision)
    /\ UNCHANGED <<logs, lifecycles, contentRevision, disabled, saved, restoring>>

ExactHit(p) ==
    /\ req[p].pc = "exact"
    /\ \E e \in Answers(p) : e.key = ExactKey(p) /\ Settle(p, "done", e.value, e.computed)
    /\ UNCHANGED <<logs, lifecycles, contentRevision, disabled, saved, restoring>>

ExactMiss(p) ==
    /\ req[p].pc = "exact"
    /\ \A e \in Answers(p) : e.key # ExactKey(p)
    /\ req' = [req EXCEPT ![p].pc = "proof"]
    /\ UNCHANGED <<logs, lifecycles, contentRevision, disabled, saved, restoring>>

\* Ordinary values, prospective ones with disjoint effects, and healthy proofs only.
\* The code also demands that no qualification is bound: queries here have none.
MayLift(p) ==
    /\ \/ req[p].kind = "ordinary"
       \/ req[p].kind = "speculative" /\ req[p].disjoint
    /\ lifecycles[req[p].lifecycle].incarnation \notin disabled

\* The proof-health flag is read here; the lookup it admits comes later.
Prove(p) ==
    /\ req[p].pc = "proof"
    /\ req' = IF MayLift(p) /\ Complete(req[p].query, req[p].db)
              THEN [req EXCEPT ![p].pc = "managed", ![p].key = ManagedKey(p)]
              ELSE [req EXCEPT ![p].pc = "evaluate"]
    /\ UNCHANGED <<logs, lifecycles, contentRevision, disabled, saved, restoring>>

\* The provider returned a frame that contradicts its contract: no proof for
\* this request, and no managed reuse for anyone sharing its proof health.
ContractViolation(p) ==
    /\ "violation" \in Behaviour
    /\ req[p].pc = "proof"
    /\ MayLift(p)
    /\ disabled' = disabled \cup {lifecycles[req[p].lifecycle].incarnation}
    /\ req' = [req EXCEPT ![p].pc = "evaluate"]
    /\ UNCHANGED <<logs, lifecycles, contentRevision, saved, restoring>>

\* Mutant: the answer of a later value is served to an earlier one.
EligibleAtAnyRevision(p, e) == e.key = req[p].key

\* managed-answer-causally-eligible?
Eligible(p, e) == e.key = req[p].key /\ e.computed <= req[p].revision

\* A hit of a populating ordinary request is promoted under its exact key.
ManagedHit(p) ==
    /\ req[p].pc = "managed"
    /\ \E e \in Answers(p) :
         /\ Eligible(p, e)
         /\ Settle(p, IF req[p].kind = "ordinary" THEN "publishExact" ELSE "done",
                   e.value, e.computed)
    /\ UNCHANGED <<logs, lifecycles, contentRevision, disabled, saved, restoring>>

ManagedMiss(p) ==
    /\ req[p].pc = "managed"
    /\ \A e \in Answers(p) : ~ Eligible(p, e)
    /\ req' = [req EXCEPT ![p].pc = "evaluate"]
    /\ UNCHANGED <<logs, lifecycles, contentRevision, disabled, saved, restoring>>

Evaluate(p) ==
    /\ req[p].pc = "evaluate"
    /\ req[p].kind # "speculative"
    /\ Settle(p, IF req[p].key = Null THEN "publishExact" ELSE "publishManaged",
              Fresh(p), req[p].revision)
    /\ UNCHANGED <<logs, lifecycles, contentRevision, disabled, saved, restoring>>

\* The bounded store chooses what it keeps of an overfull house.
Bounded(answers) ==
    IF Cardinality(answers) <= MaxEntries THEN {answers}
    ELSE { kept \in SUBSET answers : Cardinality(kept) = MaxEntries }

\* put-if-absent!: a resident value wins, and only an insertion owes the
\* content-change notification.
Publish(p, key, stage) ==
    IF \E e \in Answers(p) : e.key = key
    THEN /\ req' = [req EXCEPT ![p].pc = stage]
         /\ UNCHANGED lifecycles
    ELSE /\ \E kept \in Bounded(Answers(p) \cup {Entry(key, req[p].answer, req[p].computed)}) :
              lifecycles' = [lifecycles EXCEPT ![req[p].lifecycle].answers = kept]
         /\ req' = [req EXCEPT ![p].pc = stage, ![p].dirty = TRUE]

PublishManaged(p) ==
    /\ req[p].pc = "publishManaged"
    /\ ~ req[p].dirty
    /\ Publish(p, req[p].key, "publishExact")
    /\ UNCHANGED <<logs, contentRevision, disabled, saved, restoring>>

PublishExact(p) ==
    /\ req[p].pc = "publishExact"
    /\ ~ req[p].dirty
    /\ Publish(p, ExactKey(p), "done")
    /\ UNCHANGED <<logs, contentRevision, disabled, saved, restoring>>

\* The deadline passed, :populate-cache? or :populate-exact? is false, or the
\* value may not be retained.
SkipPublication(p) ==
    /\ req[p].pc \in {"publishManaged", "publishExact"}
    /\ ~ req[p].dirty
    /\ req' = [req EXCEPT ![p].pc = IF @ = "publishManaged" THEN "publishExact" ELSE "done"]
    /\ UNCHANGED <<logs, lifecycles, contentRevision, disabled, saved, restoring>>

\* Mutant: the hook of the installed store does not count.
NotifyNobody(p) ==
    /\ req[p].dirty
    /\ req' = [req EXCEPT ![p].dirty = FALSE]
    /\ UNCHANGED <<logs, lifecycles, contentRevision, disabled, saved, restoring>>

\* runtime-content-change-fn: the hook of a detached store finds another token
\* installed and leaves the revision alone.
Notify(p) ==
    /\ req[p].dirty
    /\ req' = [req EXCEPT ![p].dirty = FALSE]
    /\ contentRevision' = IF req[p].lifecycle = Current THEN contentRevision + 1
                          ELSE contentRevision
    /\ UNCHANGED <<logs, lifecycles, disabled, saved, restoring>>

Finish(p) ==
    /\ req[p].pc = "done"
    /\ ~ req[p].dirty
    /\ req' = [req EXCEPT ![p] = Idle]
    /\ UNCHANGED <<logs, lifecycles, contentRevision, disabled, saved, restoring>>

\* A retained Snapshot reads again on the value it holds: through the installed
\* stores while its source incarnation is the installed one, and with no cache
\* at all once it is retired.
Retained(p) ==
    /\ "retained" \in Behaviour
    /\ req[p].pc = "done"
    /\ ~ req[p].dirty
    /\ req[p].kind # "speculative"
    /\ Open

\* Mutant: a retained snapshot of a retired source reads through the stores.
ReadAgainAfterExpiry(p) ==
    /\ Retained(p)
    /\ \E q \in Query :
         req' = [req EXCEPT ![p].pc = "exact", ![p].query = q, ![p].key = Null,
                            ![p].lifecycle = Current, ![p].answer = Null, ![p].computed = 0]
    /\ UNCHANGED <<logs, lifecycles, contentRevision, disabled, saved, restoring>>

ReadAgain(p) ==
    /\ Retained(p)
    /\ ~ SourceReplaced(p)
    /\ \E q \in Query :
         req' = [req EXCEPT ![p].pc = "exact", ![p].query = q, ![p].key = Null,
                            ![p].lifecycle = Current, ![p].answer = Null, ![p].computed = 0]
    /\ UNCHANGED <<logs, lifecycles, contentRevision, disabled, saved, restoring>>

ReadRetired(p) ==
    /\ Retained(p)
    /\ SourceReplaced(p)
    /\ \E q \in Query :
         req' = [req EXCEPT ![p].query = q, ![p].key = Null,
                            ![p].answer = Answer(q, req[p].db), ![p].computed = req[p].revision]
    /\ UNCHANGED <<logs, lifecycles, contentRevision, disabled, saved, restoring>>

-----------------------------------------------------------------------------
(* Host operations on the whole cache.  Each install is one compare-and-set. *)

Install(lifecycle) ==
    /\ Open /\ Current < MaxLifecycles
    /\ lifecycles' = Append(lifecycles, lifecycle)
    /\ contentRevision' = contentRevision + 1

\* clear-answer-cache!: new answer stores, same source incarnation, shared
\* proof health.
ClearAnswerCache ==
    /\ Install(Lifecycle(Installed.incarnation, Installed.source, {}))
    /\ UNCHANGED <<logs, disabled, req, saved, restoring>>

\* expire-cache!: a new incarnation, and with a new source lifecycle a history
\* that is a prefix of the old one (all of it, unless a backup was restored).
\* Replacing history without expiring is outside the supported procedure.
ExpireCache ==
    /\ \/ /\ Len(logs) < MaxSources
          /\ \E i \in 1 .. Len(History) : logs' = Append(logs, SubSeq(History, 1, i))
          /\ Install(Lifecycle(Current + 1, Len(logs) + 1, {}))
       \/ /\ logs' = logs
          /\ Install(Lifecycle(Current + 1, Installed.source, {}))
    /\ UNCHANGED <<disabled, req, saved, restoring>>

ExportSnapshot ==
    /\ Open /\ "checkpoint" \in Behaviour
    /\ saved' = [ source   |-> Installed.source,
                  entries  |-> Exportable(Installed.answers),
                  revision |-> contentRevision ]
    /\ UNCHANGED <<logs, lifecycles, contentRevision, disabled, req, restoring>>

\* The candidate is validated off-side against the captured source lifecycle,
\* entry by entry: an empty snapshot has no entry to disagree.
BeginRestore ==
    /\ Open /\ restoring = Null
    /\ saved # Null
    /\ saved.entries # {} => saved.source = Installed.source
    /\ restoring' = [ captured |-> Current, entries |-> saved.entries ]
    /\ UNCHANGED <<logs, lifecycles, contentRevision, disabled, req, saved>>

\* Mutant: a restore installs whatever happened to the source meanwhile.
AnySource(l) == TRUE

SameSource(l) ==
    /\ lifecycles[l].source = Installed.source
    /\ lifecycles[l].incarnation = Installed.incarnation

\* The captured lifecycle still names the installed source: install the
\* candidate, over whatever answer-store generation is there by now.
InstallRestored ==
    /\ restoring # Null
    /\ SameSource(restoring.captured)
    /\ Install(Lifecycle(Current + 1, Installed.source, restoring.entries))
    /\ restoring' = Null
    /\ UNCHANGED <<logs, disabled, req, saved>>

RestoreConflict ==
    /\ restoring # Null
    /\ ~ SameSource(restoring.captured)
    /\ restoring' = Null
    /\ UNCHANGED <<logs, lifecycles, contentRevision, disabled, req, saved>>

-----------------------------------------------------------------------------
Serve(p) ==
    \/ Acquire(p) \/ AcquireSpeculative(p) \/ RetrySelection(p) \/ AcceptSelection(p)
    \/ Bypass(p) \/ ExactHit(p) \/ ExactMiss(p) \/ Prove(p) \/ ContractViolation(p)
    \/ ManagedHit(p) \/ ManagedMiss(p) \/ Evaluate(p)
    \/ PublishManaged(p) \/ PublishExact(p) \/ SkipPublication(p) \/ Notify(p)

Host ==
    \/ ClearAnswerCache \/ ExpireCache \/ ExportSnapshot
    \/ BeginRestore \/ InstallRestored \/ RestoreConflict

Next ==
    \/ WriteRelationships
    \/ WriteReferences
    \/ WriteSchema
    \/ \E p \in Request : Capture(p) \/ Serve(p) \/ Finish(p) \/ ReadAgain(p) \/ ReadRetired(p)
    \/ Host

Spec == Init /\ [][Next]_vars

-----------------------------------------------------------------------------
TypeOK ==
    /\ logs \in Seq(Seq(Database)) /\ logs # <<>>
    /\ \A n \in 1 .. Len(logs) : logs[n] # <<>>
    /\ \A l \in 1 .. Current :
         /\ lifecycles[l].incarnation \in 1 .. Current
         /\ lifecycles[l].source \in 1 .. Len(logs)
    /\ Installed.source = Len(logs)
    /\ contentRevision \in Nat
    /\ disabled \subseteq 1 .. Current
    /\ \A p \in Request :
         /\ req[p].pc \in Stage
         /\ req[p].pc # "idle" => req[p].query \in Query /\ req[p].lifecycle \in 1 .. Current
         /\ req[p].pc \notin {"idle", "captured"} => req[p].source \in 1 .. Len(logs)

Served(p) == req[p].pc \notin {"idle", "captured", "acquired"}

\* Every answer is the one evaluation gives on the request's own selected
\* value: whatever was committed, cleared, expired, restored, speculated or
\* published by others between any two of its steps (resolve-basis*).
AnswersFresh ==
    \A p \in Request : req[p].pc = "done" => req[p].answer = Fresh(p)

\* A resident answer was evaluated on the committed value it names, of the
\* source lifecycle that owns the store, and still under its own key.  No
\* prospective value, other source or half-finished selection ever leaves a
\* trace in a store, detached ones included (publish!, restore-basis-snapshot*).
Committed(e, history) ==
    /\ e.computed \in 1 .. Len(history)
    /\ LET db == history[e.computed] IN
       /\ e.value = Answer(e.key.query, db)
       /\ e.key.tier = "managed" => e.key.basis = Descriptor(e.key.query, db)
       /\ e.key.tier = "exact" =>
            /\ e.key.basis[2] \in e.computed .. Len(history)
            /\ e.value = Answer(e.key.query, history[e.key.basis[2]])

ResidentsCommitted ==
    \A l \in 1 .. Current : \A e \in lifecycles[l].answers :
        Committed(e, logs[lifecycles[l].source])

\* Reuse runs forward only: what a request is served was computed no later than
\* the value it selected, so the basis it reports never overstates what it saw
\* (managed-answer-causally-eligible?).
NoBackwardReuse ==
    \A p \in Request : req[p].pc = "done" => req[p].computed <= req[p].revision

\* A request never resolves one source lifecycle's value against another's
\* store, even if expiry won the interval between its two captures
\* (select-request-basis).
NoCrossSource ==
    \A p \in Request : Served(p) => lifecycles[req[p].lifecycle].source = req[p].source

\* The dirty hint a checkpointing host relies on: once publishers have
\* delivered their notifications, an unchanged content revision means an
\* unchanged export (cache-content-revision).
UnchangedRevisionUnchangedExport ==
    /\ saved # Null
    /\ saved.revision = contentRevision
    /\ \A p \in Request : req[p].dirty => req[p].lifecycle # Current
    => saved.entries = Exportable(Installed.answers)

\* A proof contract violation stays in force until the source lifecycle is
\* expired, as the operations guide promises.
StickyUntilExpiry ==
    [][ /\ Installed.incarnation \in disabled
        /\ ~ ExpireCache
        => Installed'.incarnation \in disabled' ]_vars
=============================================================================
