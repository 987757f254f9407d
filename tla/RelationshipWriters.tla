------------------------- MODULE RelationshipWriters -------------------------
(***************************************************************************)
(* The writers of one EACL database: relationship batches, object          *)
(* deletions and schema replacements submitted by clients, and the native  *)
(* transactions hosts compose with them (prepared qualifiers, safe entity  *)
(* retraction, orphan sweeps).  No lock protects a writer between the      *)
(* snapshot it plans on and the transaction that publishes the plan, so    *)
(* every transaction carries guards - a schema write fence, a version per  *)
(* relation, the endpoints' identities, the qualifiers' facts, sometimes   *)
(* the whole head - and a lost guard is retried from a fresh basis or not, *)
(* as the backend classifies it.                                           *)
(*                                                                         *)
(* A plan is a function of the snapshot it was made on: an operation keeps *)
(* that revision (basis), never the transaction data.  Both halves of a    *)
(* relationship are written by one transaction and form one Edge.          *)
(***************************************************************************)
EXTENDS Integers, Sequences, FiniteSets

CONSTANTS
    Writer,          \* operations in flight
    Object, Edge,    \* entities, and the relationships there can be
    Ends,            \* [Edge -> its subject and resource]
    Relation, RelationOf,
    Value,           \* stored qualifiers: an expiration, a caveat and its context
    Caveat, CaveatOf,\* the caveat a value references, or NoCaveat
    SchemaText,
    Declared,        \* [SchemaText -> relations, caveats, and what they admit]
    Plain,           \* the value of an unqualified relationship
    Absent, NoCaveat, NoGeneration,
    Inherited,       \* relation stamps at the start
    Backend,         \* which adapter
    Requests,        \* what clients and hosts ask for
    BatchLimit,      \* relationships one deletion transaction can retract
    MaxAttempts,     \* writer-max-attempts
    MaxRevision      \* bound on committed revisions

ASSUME BackendAssumption == Backend \in {"datascript", "datahike", "datomic", "datalevin"}
ASSUME EdgeAssumption ==
    /\ RelationOf \in [Edge -> Relation]
    /\ Ends \in [Edge -> SUBSET Object]
ASSUME ValueAssumption ==
    /\ Plain \notin Value /\ Absent \notin Value /\ Absent # Plain
    /\ {Plain, Absent} \cap (Nat \X Edge) = {}
    /\ NoCaveat \notin Caveat
    /\ CaveatOf \in [Value \cup {Plain} -> Caveat \cup {NoCaveat}]
    /\ CaveatOf[Plain] = NoCaveat
\* admits[e] are the alternatives of the branch of e's relation that the form
\* of e's subject (concrete or wildcard) selects; a schema names what it uses.
ASSUME DeclaredAssumption ==
    /\ Declared \in [SchemaText -> [ relations : SUBSET Relation,
                                     caveats   : SUBSET Caveat,
                                     admits    : [Edge -> SUBSET (Caveat \cup {NoCaveat})] ]]
    /\ \A s \in SchemaText, e \in Edge :
         /\ Declared[s].admits[e] \subseteq Declared[s].caveats \cup {NoCaveat}
         /\ RelationOf[e] \notin Declared[s].relations => Declared[s].admits[e] = {}
ASSUME BoundsAssumption ==
    /\ BatchLimit \in Nat \ {0} /\ MaxAttempts \in Nat \ {0} /\ MaxRevision \in Nat \ {0}
    /\ NoGeneration \notin Nat /\ Inherited \subseteq {1, NoGeneration}
\* Requests name what there is; a host prepares one qualified relationship.
ASSUME RequestAssumption ==
    \A r \in Requests :
        /\ r.kind \in {"write", "prepare", "compose"} =>
             \A e \in DOMAIN r.updates :
                e \in Edge /\ r.updates[e] \in [ operation : {"create", "touch", "delete"},
                                                value     : Value \cup {Plain} ]
        /\ r.kind = "prepare" =>
             \E e \in Edge, v \in Value :
                r.updates = [f \in {e} |-> [operation |-> "touch", value |-> v]]
        /\ r.kind \in {"compose", "discard"} => r.handle \in Writer
        /\ r.kind = "schema" => r.schema \in SchemaText

VARIABLES
    log,             \* log[r] is the immutable database value at revision r
    op,              \* op[w] is the operation w is running or has finished
    sweep            \* revision certified by an orphan sweep's capture, or 0

vars == <<log, op, sweep>>

Latest == log[Len(log)]
Now  == Len(log)

-----------------------------------------------------------------------------
(* What the adapters differ in.                                            *)

\* Whether a qualifier must exist before the transaction that refers to it.
Prepares == Backend \in {"datascript", "datahike"}

\* Datomic fences schema writers with the schema generation itself; the others
\* keep a separate write fence so that references do not invalidate caches.
GenerationFence == Backend = "datomic"

\* Mutant of Retried: the classifier knows failed compare-and-set only.
RetriesCasOnly == {"cas"}

\* The lost guards :contention? recognises: prepared-contention? on DataScript and
\* Datahike, datomic-cas-failure? on Datomic, stale-connection-contention? on Datalevin.
Retried ==
    CASE Backend = "datomic"   -> {"cas"}
      [] Backend = "datalevin" -> {"head"}
      [] OTHER                 -> {"cas", "head"}

-----------------------------------------------------------------------------
(* Database values.                                                        *)

\* A qualifier entity is named by the transaction that allocated it and the
\* relationship it was allocated for; entity ids are never reused.
Qualifier == Nat \X Edge

\* fence: the schema write fence; edge: what each stored relationship carries
\* (Plain, or the id of its qualifier); qualifier: the entities there are.
IsDatabase(db) ==
    /\ db.schema \in SchemaText /\ db.schemaGen \in Nat /\ db.fence \in Nat
    /\ db.generation \in [Relation -> Nat \cup {NoGeneration}]
    /\ db.edge \in [Edge -> Qualifier \cup {Plain, Absent}]
    /\ DOMAIN db.qualifier \subseteq Qualifier
    /\ \A q \in DOMAIN db.qualifier : db.qualifier[q] \in Value
    /\ db.objects \subseteq Object

Stored(db)     == { e \in Edge : db.edge[e] # Absent }
Qualified(db)  == { e \in Stored(db) : db.edge[e] # Plain }
Attached(db)   == { db.edge[e] : e \in Qualified(db) }
Orphans(db)    == DOMAIN db.qualifier \ Attached(db)
ValueAt(db, e) == IF e \in Qualified(db) THEN db.qualifier[db.edge[e]] ELSE db.edge[e]
Touching(db, o) == { e \in Stored(db) : o \in Ends[e] }

\* Mutant of Fence: transactions compare nothing of the schema.
NoFence(db) == 0

Fence(db) == IF GenerationFence THEN db.schemaGen ELSE db.fence

\* Mutant of Stamp: the touched relations stay unstamped.
StampsNothing(generation, relations, revision) == generation

Stamp(generation, relations, revision) ==
    [r \in Relation |-> IF r \in relations THEN revision ELSE generation[r]]

\* A new reference to a caveat advances the fence schema writers depend on: what
\* publishes one asks schema-fence of the backend to move it.
Reference(db, revision, values) ==
    LET advance == \E v \in values : CaveatOf[v] # NoCaveat
    IN  [db EXCEPT !.fence     = IF advance /\ ~ GenerationFence THEN revision ELSE @,
                   !.schemaGen = IF advance /\ GenerationFence THEN revision ELSE @]

\* Allocates one qualifier entity per edge of the function values.
Allocate(db, revision, values) ==
    LET new == { <<revision, e>> : e \in DOMAIN values }
    IN  [Reference(db, revision, { values[e] : e \in DOMAIN values }) EXCEPT
            !.qualifier = [q \in DOMAIN @ \cup new |->
                             IF q \in new THEN values[q[2]] ELSE @[q]]]

\* Swaps the pairs of the edges of the function pairs, retracts the qualifiers
\* they had, and stamps the relations.
Swap(db, revision, pairs, relations) ==
    LET old == { db.edge[e] : e \in DOMAIN pairs \cap Qualified(db) }
    IN  [db EXCEPT !.edge       = [e \in Edge |-> IF e \in DOMAIN pairs THEN pairs[e] ELSE @[e]],
                   !.qualifier  = [q \in DOMAIN @ \ old |-> @[q]],
                   !.generation = Stamp(@, relations, revision)]

Publish(db) == Now < MaxRevision /\ log' = Append(log, db)

-----------------------------------------------------------------------------
(* Operations.                                                             *)

Pc == {"idle", "resolve", "prepare", "allocate", "plan", "unchanged", "commit",
       "compose", "planDiscard", "commitDiscard", "planDeletion", "commitDeletion",
       "admitSchema", "planSchema", "commitSchema", "done"}

Outcome == {"pending", "committed", "unchanged", "refused", "contention", "aborted"}

First == [ write |-> "resolve", prepare |-> "resolve", compose |-> "compose",
           discard |-> "planDiscard", delete |-> "planDeletion", schema |-> "admitSchema" ]

\* generation: the schema generation the operation is bound to; basis: the
\* revision it planned on; allocated: the revision of its prepared qualifiers;
\* last: the revision of its last deletion batch; reply: the one it answers.
Idle ==
    [ pc |-> "idle", request |-> [kind |-> "write", updates |-> <<>>], attempt |-> 1,
      generation |-> 0, basis |-> 0, allocated |-> 0, last |-> 0,
      reply |-> 0, outcome |-> "pending" ]

\* The values there can be at the start: coherent and without orphans.
Genesis(schema, value, generation, objects) ==
    LET qualified == { e \in Edge : value[e] \in Value }
    IN  [ schema |-> schema, schemaGen |-> 1, fence |-> 1, generation |-> generation,
          edge |-> [e \in Edge |-> IF e \in qualified THEN <<1, e>> ELSE value[e]],
          qualifier |-> [q \in { <<1, e>> : e \in qualified } |-> value[q[2]]],
          objects |-> objects ]

\* Every stored relationship is one the schema in force admits, between live
\* entities, and every qualifier - attached or not - decodes under it.
Coherent(db) ==
    /\ \A e \in Stored(db) :
         /\ RelationOf[e] \in Declared[db.schema].relations
         /\ CaveatOf[ValueAt(db, e)] \in Declared[db.schema].admits[e]
         /\ Ends[e] \subseteq db.objects
    /\ \A q \in DOMAIN db.qualifier :
         CaveatOf[db.qualifier[q]] \in Declared[db.schema].caveats \cup {NoCaveat}

Init ==
    /\ \E schema \in SchemaText, value \in [Edge -> Value \cup {Plain, Absent}],
          generation \in [Relation -> Inherited] :
         /\ Coherent(Genesis(schema, value, generation, Object))
         /\ log = << Genesis(schema, value, generation, Object) >>
    /\ op = [w \in Writer |-> Idle]
    /\ sweep = 0

Kind(w)    == op[w].request.kind
Updates(w) == op[w].request.updates
Batch(w)   == DOMAIN Updates(w)

End(w, outcome, revision) ==
    op' = [op EXCEPT ![w].pc = "done", ![w].outcome = outcome, ![w].reply = revision]

\* Mutants of Retry: one never runs out of attempts, one submits again the
\* transaction that was lost.
RetryForever(w) ==
    op' = [op EXCEPT ![w].pc = First[Kind(w)], ![w].attempt = @ + 1, ![w].allocated = 0]

Resubmit(w) == UNCHANGED op

\* recur with the next attempt, or relationship-contention!.
Retry(w) ==
    IF op[w].attempt < MaxAttempts
    THEN op' = [op EXCEPT ![w].pc = First[Kind(w)], ![w].attempt = @ + 1, ![w].allocated = 0]
    ELSE End(w, "contention", 0)

\* A transaction lost a guard.  Only the client's own loops retry.
Contend(w, guard) ==
    /\ IF guard \in Retried /\ Kind(w) \in {"write", "delete", "schema"}
       THEN Retry(w) ELSE End(w, "aborted", 0)
    /\ UNCHANGED <<log, sweep>>

\* A composed or discarding host names the operation that prepared its handle.
Begin(w) ==
    /\ op[w].pc = "idle"
    /\ \E request \in { r \in Requests : r.kind \in DOMAIN First } :
         /\ request.kind \in {"compose", "discard"} =>
              /\ op[request.handle].request.kind = "prepare"
              /\ op[request.handle].outcome = "committed"
         /\ op' = [op EXCEPT ![w].pc = First[request.kind], ![w].request = request]
    /\ UNCHANGED <<log, sweep>>

-----------------------------------------------------------------------------
(* Relationship batches.                                                   *)

\* qualified-publication-entries: relation, subject form, endpoints, caveat.
Resolvable(db, updates) ==
    \A e \in DOMAIN updates :
        /\ RelationOf[e] \in Declared[db.schema].relations
        /\ Declared[db.schema].admits[e] # {}
        /\ Ends[e] \subseteq db.objects
        /\ updates[e].operation # "delete" =>
             CaveatOf[updates[e].value] \in Declared[db.schema].caveats \cup {NoCaveat}

\* What prepare-batch! and plan-entry check of every entry on their snapshot.
Admissible(db, updates) ==
    \A e \in DOMAIN updates :
        /\ RelationOf[e] \in Declared[db.schema].relations
        /\ Ends[e] \subseteq db.objects
        /\ updates[e].operation = "create" => e \notin Stored(db)
        /\ updates[e].operation # "delete" =>
             CaveatOf[updates[e].value] \in Declared[db.schema].admits[e]

\* Entries whose value is stored as a qualifier entity.
ToQualify(updates) ==
    { e \in DOMAIN updates : updates[e].operation # "delete" /\ updates[e].value # Plain }

Values(updates) == [e \in ToQualify(updates) |-> updates[e].value]

\* A plain relationship replaced by a plain one keeps its pair; deleting an
\* absent one plans nothing.
Changed(db, updates) ==
    { e \in DOMAIN updates :
        IF updates[e].operation = "delete" THEN e \in Stored(db)
        ELSE e \in ToQualify(updates) \/ db.edge[e] # Plain }

Resolve(w) ==
    /\ op[w].pc = "resolve"
    /\ IF Resolvable(Latest, Updates(w))
       THEN op' = [op EXCEPT ![w].pc = "prepare", ![w].generation = Latest.schemaGen]
       ELSE End(w, "refused", 0)
    /\ UNCHANGED <<log, sweep>>

\* prepare-relationship! forces preparation whatever the backend's strategy,
\* and does not retry.
Prepare(w) ==
    /\ op[w].pc = "prepare"
    /\ CASE op[w].generation # Latest.schemaGen ->
              IF Kind(w) = "write" THEN Retry(w) ELSE End(w, "aborted", 0)
         [] op[w].generation = Latest.schemaGen /\ ~ Admissible(Latest, Updates(w)) ->
              End(w, "refused", 0)
         [] OTHER ->
              op' = [op EXCEPT ![w].basis = Now, ![w].pc =
                        IF ToQualify(Updates(w)) # {} /\ (Prepares \/ Kind(w) = "prepare")
                        THEN "allocate" ELSE "plan"]
    /\ UNCHANGED <<log, sweep>>

\* The preparing transaction: one schema fence and the inert qualifiers.  What
\* the code reads back afterwards never changes until it is retracted, and a
\* retracted preparation is refused by the plan.
AllocateQualifiers(w) ==
    /\ op[w].pc = "allocate"
    /\ Fence(Latest) = Fence(log[op[w].basis])
    /\ LET next == Allocate(Latest, Now + 1, Values(Updates(w)))
           mine == [op EXCEPT ![w].allocated = Now + 1, ![w].generation =
                       IF GenerationFence THEN next.schemaGen ELSE @]
       IN  /\ Publish(next)
           /\ op' = IF Kind(w) = "prepare"
                    THEN [mine EXCEPT ![w].pc = "done", ![w].outcome = "committed",
                                      ![w].reply = Now + 1]
                    ELSE [mine EXCEPT ![w].pc = "plan"]
    /\ UNCHANGED sweep

AllocationLost(w) ==
    /\ op[w].pc = "allocate"
    /\ Fence(Latest) # Fence(log[op[w].basis])
    /\ Contend(w, "cas")

\* The handle of a composed update is the one its request names.
Allocated(w) ==
    IF Kind(w) = "compose" THEN op[op[w].request.handle].allocated ELSE op[w].allocated

Prepared(w) ==
    IF Allocated(w) = 0 THEN {} ELSE { <<Allocated(w), e>> : e \in ToQualify(Updates(w)) }

Plan(w) ==
    /\ op[w].pc = "plan"
    /\ CASE op[w].generation # Latest.schemaGen -> Retry(w)
         [] /\ op[w].generation = Latest.schemaGen
            /\ ~ Admissible(Latest, Updates(w)) \/ ~ Prepared(w) \subseteq Orphans(Latest) ->
              End(w, "refused", 0)
         [] OTHER ->
              op' = [op EXCEPT ![w].basis = Now, ![w].pc =
                        IF Changed(Latest, Updates(w)) = {} THEN "unchanged" ELSE "commit"]
    /\ UNCHANGED <<log, sweep>>

\* Nothing to publish: the reply names a basis selected anew.
ReplyUnchanged(w) ==
    /\ op[w].pc = "unchanged"
    /\ End(w, "unchanged", Now)
    /\ UNCHANGED <<log, sweep>>

\* :prepared-owner-mismatch and :prepared-value-mismatch: a handle is good for
\* the relationship and the value it was prepared for.
MadeFor(w) ==
    LET prepared == Updates(op[w].request.handle) IN
    \A e \in ToQualify(Updates(w)) :
        e \in DOMAIN prepared /\ prepared[e].value = Updates(w)[e].value

\* tx-relationships plans on whatever snapshot the host still holds, and
\* refuses a handle that is attached there already (:qualifier-reuse).
Compose(w) ==
    /\ op[w].pc = "compose"
    /\ \E r \in 1 .. Now :
         IF /\ Resolvable(log[r], Updates(w))
            /\ Admissible(log[r], Updates(w))
            /\ MadeFor(w)
            /\ op[op[w].request.handle].generation = log[r].schemaGen
            /\ Prepared(w) \subseteq Orphans(log[r])
         THEN op' = [op EXCEPT ![w].basis = r, ![w].pc =
                        IF Changed(log[r], Updates(w)) = {} THEN "unchanged" ELSE "commit"]
         ELSE End(w, "refused", 0)
    /\ UNCHANGED <<log, sweep>>

\* Mutants of GuardsHold: without the relation versions, without the endpoints.
IgnoresRelations(w) ==
    /\ Fence(Latest) = Fence(log[op[w].basis])
    /\ \A e \in Batch(w) : Ends[e] \subseteq Latest.objects

IgnoresEndpoints(w) ==
    LET planned == log[op[w].basis] IN
    /\ Fence(Latest) = Fence(planned)
    /\ \A e \in Batch(w) :
         Latest.generation[RelationOf[e]] = planned.generation[RelationOf[e]]

\* One schema-fence, one relation-fence per relation of the batch, and the
\* endpoint-identity-guard of each endpoint.
GuardsHold(w) ==
    LET planned == log[op[w].basis] IN
    /\ Fence(Latest) = Fence(planned)
    /\ \A e \in Batch(w) :
         /\ Latest.generation[RelationOf[e]] = planned.generation[RelationOf[e]]
         /\ Ends[e] \subseteq Latest.objects

\* The facts of the qualifiers the plan attaches and of those it replaces.
FactsHold(w) ==
    LET planned == log[op[w].basis]
        old     == { planned.edge[e] : e \in Batch(w) \cap Qualified(planned) }
    IN  Prepared(w) \cup old \subseteq DOMAIN Latest.qualifier

\* Mutant of Pairs: a relationship shares the qualifier of another that
\* already holds the same value.
InternsQualifiers(w, revision) ==
    [e \in Changed(log[op[w].basis], Updates(w)) |->
        LET equal == { f \in Qualified(Latest) : ValueAt(Latest, f) = Updates(w)[e].value }
        IN  CASE Updates(w)[e].operation = "delete" -> Absent
              [] e \in ToQualify(Updates(w)) ->
                   IF equal # {} THEN Latest.edge[CHOOSE f \in equal : TRUE]
                   ELSE << IF Allocated(w) = 0 THEN revision ELSE Allocated(w), e >>
              [] OTHER -> Plain]

Pairs(w, revision) ==
    [e \in Changed(log[op[w].basis], Updates(w)) |->
        CASE Updates(w)[e].operation = "delete" -> Absent
          [] e \in ToQualify(Updates(w)) ->
               << IF Allocated(w) = 0 THEN revision ELSE Allocated(w), e >>
          [] OTHER -> Plain]

Commit(w) ==
    /\ op[w].pc = "commit"
    /\ GuardsHold(w)
    /\ FactsHold(w)
    /\ LET source == IF Allocated(w) = 0 THEN Allocate(Latest, Now + 1, Values(Updates(w)))
                     ELSE Latest
       IN  Publish(Swap(source, Now + 1, Pairs(w, Now + 1), { RelationOf[e] : e \in Batch(w) }))
    /\ End(w, "committed", Now + 1)
    /\ UNCHANGED sweep

CommitLost(w) ==
    /\ op[w].pc = "commit"
    /\ ~ GuardsHold(w)
    /\ Contend(w, "cas")

\* :qualifier-changed-at-commit is terminal.
FactsLost(w) ==
    /\ op[w].pc = "commit"
    /\ GuardsHold(w)
    /\ ~ FactsHold(w)
    /\ End(w, "aborted", 0)
    /\ UNCHANGED <<log, sweep>>

-----------------------------------------------------------------------------
(* Preparations that are given up.                                         *)

Handle(w) == LET h == op[w].request.handle
             IN  [ edge |-> CHOOSE e \in Batch(h) : TRUE, allocated |-> op[h].allocated ]

HandleQualifier(w) == <<Handle(w).allocated, Handle(w).edge>>

\* The relations whose version a discard fences and stamps: none once the
\* relation is gone from the schema.
Discarded(w, db) ==
    { r \in { RelationOf[Handle(w).edge] } : r \in Declared[db.schema].relations }

PlanDiscard(w) ==
    /\ op[w].pc = "planDiscard"
    /\ IF HandleQualifier(w) \in Orphans(Latest)
       THEN op' = [op EXCEPT ![w].pc = "commitDiscard", ![w].basis = Now]
       ELSE End(w, "refused", 0)
    /\ UNCHANGED <<log, sweep>>

DiscardGuardsHold(w) ==
    LET planned == log[op[w].basis] IN
    /\ Fence(Latest) = Fence(planned)
    /\ \A r \in Discarded(w, planned) : Latest.generation[r] = planned.generation[r]

CommitDiscard(w) ==
    /\ op[w].pc = "commitDiscard"
    /\ DiscardGuardsHold(w)
    /\ HandleQualifier(w) \in DOMAIN Latest.qualifier
    /\ LET planned == log[op[w].basis]
       IN  Publish([Latest EXCEPT
              !.qualifier  = [q \in DOMAIN @ \ {HandleQualifier(w)} |-> @[q]],
              !.generation = Stamp(@, Discarded(w, planned), Now + 1)])
    /\ End(w, "committed", Now + 1)
    /\ UNCHANGED sweep

DiscardLost(w) ==
    /\ op[w].pc = "commitDiscard"
    /\ ~ DiscardGuardsHold(w) \/ HandleQualifier(w) \notin DOMAIN Latest.qualifier
    /\ End(w, "aborted", 0)
    /\ UNCHANGED <<log, sweep>>

-----------------------------------------------------------------------------
(* Object deletion: batches bounded by the transaction limit, each planned *)
(* afresh and guarded by the whole head.                                   *)

Target(w) == op[w].request.object

\* Mutant of HeadUnchanged: the transaction does not compare its basis.
HeadIgnored(revision) == TRUE

HeadUnchanged(revision) == Now = revision

\* Nothing left to retract: answer with the last batch, or with the basis.
PlanDeletion(w) ==
    /\ op[w].pc = "planDeletion"
    /\ IF Touching(Latest, Target(w)) = {}
       THEN End(w, "committed", IF op[w].last = 0 THEN Now ELSE op[w].last)
       ELSE op' = [op EXCEPT ![w].pc = "commitDeletion", ![w].basis = Now]
    /\ UNCHANGED <<log, sweep>>

\* largest-fitting-prepared-batch.
Fitting(edges) ==
    IF Cardinality(edges) <= BatchLimit THEN {edges}
    ELSE { batch \in SUBSET edges : Cardinality(batch) = BatchLimit }

\* A batch that exhausts its basis ends the deletion; the next one starts over
\* with all its attempts.
CommitDeletion(w) ==
    /\ op[w].pc = "commitDeletion"
    /\ HeadUnchanged(op[w].basis)
    /\ LET planned == Touching(log[op[w].basis], Target(w)) IN
       \E batch \in Fitting(planned) :
         /\ Publish(Swap(Latest, Now + 1, [e \in batch |-> Absent], { RelationOf[e] : e \in batch }))
         /\ IF batch = planned
            THEN End(w, "committed", Now + 1)
            ELSE op' = [op EXCEPT ![w].pc = "planDeletion", ![w].attempt = 1, ![w].last = Now + 1]
    /\ UNCHANGED sweep

DeletionLost(w) ==
    /\ op[w].pc = "commitDeletion"
    /\ ~ HeadUnchanged(op[w].basis)
    /\ Contend(w, "head")

-----------------------------------------------------------------------------
(* Schema replacement.                                                     *)

Removed(old, new) == Declared[old].relations \ Declared[new].relations
Added(old, new)   == Declared[new].relations \ Declared[old].relations

\* Relations both schemas declare whose alternatives differ.
Altered(old, new) ==
    { r \in Declared[old].relations \cap Declared[new].relations :
        \E e \in Edge : RelationOf[e] = r /\ Declared[old].admits[e] # Declared[new].admits[e] }

InUse(db, relations) == \E e \in Stored(db) : RelationOf[e] \in relations

\* relation-in-use, validate-existing!, validate-replacements!, and outside
\* Datomic the generations that guard a removal or an alteration.
Replaceable(db, new) ==
    LET removed == Removed(db.schema, new)
        altered == Altered(db.schema, new)
    IN  /\ ~ InUse(db, removed)
        /\ \A e \in Stored(db) : RelationOf[e] \in altered =>
              CaveatOf[ValueAt(db, e)] \in Declared[new].admits[e]
        /\ \A q \in DOMAIN db.qualifier :
              CaveatOf[db.qualifier[q]] \notin Declared[db.schema].caveats \ Declared[new].caveats
        /\ GenerationFence \/ \A r \in removed \cup altered : db.generation[r] # NoGeneration

AdmitSchema(w) ==
    /\ op[w].pc = "admitSchema"
    /\ op' = [op EXCEPT ![w].pc = "planSchema", ![w].generation = Latest.schemaGen]
    /\ UNCHANGED <<log, sweep>>

PlanSchema(w) ==
    /\ op[w].pc = "planSchema"
    /\ LET new == op[w].request.schema IN
       CASE ~ Replaceable(Latest, new) -> End(w, "refused", 0)
         [] Replaceable(Latest, new) /\ new = Latest.schema -> End(w, "unchanged", Now)
         [] OTHER -> op' = [op EXCEPT ![w].pc = "commitSchema", ![w].basis = Now]
    /\ UNCHANGED <<log, sweep>>

\* Datomic compares the generation read when the operation began and asserts
\* at commit that removed relations are unused; the others compare the fence
\* and the versions of the relations that go or change.
Unused(w) ==
    GenerationFence =>
        ~ InUse(Latest, Removed(log[op[w].basis].schema, op[w].request.schema))

SchemaGuardsHold(w) ==
    LET planned == log[op[w].basis]
        new     == op[w].request.schema
        guarded == Altered(planned.schema, new)
                     \cup IF GenerationFence THEN {} ELSE Removed(planned.schema, new)
    IN  /\ IF GenerationFence THEN Latest.schemaGen = op[w].generation
           ELSE Latest.fence = planned.fence
        /\ \A r \in guarded : Latest.generation[r] = planned.generation[r]

Replace(db, revision, new) ==
    LET removed == Removed(db.schema, new)
        stamped == Added(db.schema, new) \cup Altered(db.schema, new)
    IN  [db EXCEPT !.schema = new, !.schemaGen = revision,
                   !.fence = IF GenerationFence THEN @ ELSE revision,
                   !.generation = [r \in Relation |-> IF r \in removed THEN NoGeneration
                                                      ELSE Stamp(@, stamped, revision)[r]]]

CommitSchema(w) ==
    /\ op[w].pc = "commitSchema"
    /\ Unused(w)
    /\ SchemaGuardsHold(w)
    /\ Publish(Replace(Latest, Now + 1, op[w].request.schema))
    /\ End(w, "committed", Now + 1)
    /\ UNCHANGED sweep

SchemaLost(w) ==
    /\ op[w].pc = "commitSchema"
    /\ Unused(w)
    /\ ~ SchemaGuardsHold(w)
    /\ Contend(w, "cas")

\* :eacl.schema/relation-in-use, found by the transactor.
RelationInUse(w) ==
    /\ op[w].pc = "commitSchema"
    /\ ~ Unused(w)
    /\ End(w, "refused", 0)
    /\ UNCHANGED <<log, sweep>>

-----------------------------------------------------------------------------
(* Host transactions without a plan.                                       *)

\* The safe-retraction function reads the database of its own transaction: the
\* pairs touching the entity go, their relations are stamped, their qualifiers
\* stay behind as orphans.
SafeRetract(o) ==
    LET touching == Touching(Latest, o) IN
    /\ [kind |-> "retract", object |-> o] \in Requests
    /\ o \in Latest.objects
    /\ Publish([Latest EXCEPT
          !.edge       = [e \in Edge |-> IF e \in touching THEN Absent ELSE @[e]],
          !.generation = Stamp(@, { RelationOf[e] : e \in touching }, Now + 1),
          !.objects    = @ \ {o}])
    /\ UNCHANGED <<op, sweep>>

CaptureSweep ==
    /\ [kind |-> "sweep"] \in Requests
    /\ Orphans(Latest) # {} /\ sweep # Now
    /\ sweep' = Now
    /\ UNCHANGED <<log, op>>

\* One chunk of the captured orphans.  A chunk whose certificate is stale
\* commits nothing and the host captures again.
SweepChunk ==
    /\ sweep # 0
    /\ HeadUnchanged(sweep)
    /\ \E chunk \in SUBSET Orphans(log[sweep]) \ {{}} :
         /\ chunk \subseteq DOMAIN Latest.qualifier
         /\ Publish([Latest EXCEPT !.qualifier = [q \in DOMAIN @ \ chunk |-> @[q]]])
         /\ sweep' = IF chunk = Orphans(log[sweep]) THEN 0 ELSE Now + 1
    /\ UNCHANGED op

-----------------------------------------------------------------------------
Step(w) ==
    \/ Resolve(w) \/ Prepare(w) \/ AllocateQualifiers(w) \/ AllocationLost(w)
    \/ Plan(w) \/ ReplyUnchanged(w) \/ Compose(w) \/ Commit(w) \/ CommitLost(w) \/ FactsLost(w)
    \/ PlanDiscard(w) \/ CommitDiscard(w) \/ DiscardLost(w)
    \/ PlanDeletion(w) \/ CommitDeletion(w) \/ DeletionLost(w)
    \/ AdmitSchema(w) \/ PlanSchema(w) \/ CommitSchema(w) \/ SchemaLost(w) \/ RelationInUse(w)

Next ==
    \/ \E w \in Writer : Begin(w) \/ Step(w)
    \/ \E o \in Object : SafeRetract(o)
    \/ CaptureSweep \/ SweepChunk

Spec == Init /\ [][Next]_vars

\* A client that called keeps running its loop.
FairSpec == Spec /\ \A w \in Writer : WF_vars(Step(w))

-----------------------------------------------------------------------------
TypeOK ==
    /\ log # <<>>
    /\ \A r \in 1 .. Len(log) : IsDatabase(log[r])
    /\ sweep \in 0 .. Len(log)
    /\ \A w \in Writer :
         /\ op[w].pc \in Pc /\ op[w].outcome \in Outcome
         /\ op[w].attempt \in 1 .. MaxAttempts
         /\ op[w].basis \in 0 .. Len(log) /\ op[w].allocated \in 0 .. Len(log)
         /\ op[w].last \in 0 .. Len(log) /\ op[w].reply \in 0 .. Len(log)

\* Every qualified relationship has its own qualifier entity: whatever sweeps,
\* discards, losing attempts and deletions retract, none takes a qualifier that
\* a relationship still names, and no two relationships ever share one.
QualifiersOwned ==
    /\ Attached(Latest) \subseteq DOMAIN Latest.qualifier
    /\ \A e, f \in Qualified(Latest) : Latest.edge[e] = Latest.edge[f] => e = f

\* No race between relationship writers, preparations, schema replacements and
\* entity retraction leaves a relationship the schema does not admit, a
\* relationship of a deleted entity (a ghost), or a qualifier whose caveat is
\* gone.
SchemaCoherent == Coherent(Latest)

\* What a reader of db finds stored for e.
Carries(db, e, value) ==
    IF value = Plain THEN db.edge[e] = Plain
    ELSE /\ db.edge[e] \in DOMAIN db.qualifier
         /\ db.qualifier[db.edge[e]] = value

\* An acknowledged batch took effect as one step, on exactly the relationships
\* it names: a create on an absent one, with nothing committed by others lost.
AcknowledgedBatchesAreAtomic ==
    \A w \in Writer :
        op[w].outcome = "committed" /\ Kind(w) \in {"write", "compose"} =>
            LET before == log[op[w].reply - 1]
                after  == log[op[w].reply]
            IN  \A e \in Edge :
                  IF e \notin Batch(w) THEN after.edge[e] = before.edge[e]
                  ELSE CASE Updates(w)[e].operation = "delete" -> e \notin Stored(after)
                         [] Updates(w)[e].operation = "create" ->
                              e \notin Stored(before) /\ Carries(after, e, Updates(w)[e].value)
                         [] OTHER -> Carries(after, e, Updates(w)[e].value)

\* The revision a deletion answers with holds no relationship of the object:
\* a reader at least as fresh as the reply never sees one that was there.
DeletionsAreComplete ==
    \A w \in Writer :
        op[w].outcome = "committed" /\ Kind(w) = "delete" =>
            Touching(log[op[w].reply], Target(w)) = {}

\* A deletion that loses its basis to another transaction tries again from a
\* fresh one while it has attempts left.
DeletionsRetryContention ==
    \A w \in Writer : Kind(w) = "delete" => op[w].outcome # "aborted"

\* Every operation ends, whatever the others commit: each retry is paid for by
\* an attempt.
EveryOperationEnds == \A w \in Writer : op[w].pc # "idle" ~> op[w].pc = "done"

-----------------------------------------------------------------------------
(* What a backend promises the engine: one history of stamped commits.     *)

EdgesOf(r) == { e \in Edge : RelationOf[e] = r }

Contents(db, r) == [e \in EdgesOf(r) |-> ValueAt(db, e)]

Abstract(db) ==
    [ schema |-> db.schema, schemaGen |-> db.schemaGen, generation |-> db.generation,
      data |-> [r \in Relation |-> Contents(db, r)] ]

Store == INSTANCE StampedStore WITH
    log   <- [r \in 1 .. Len(log) |-> Abstract(log[r])],
    Datum <- UNION { [EdgesOf(r) -> Value \cup {Plain, Absent}] : r \in Relation }

\* Every committed change of a relation's relationships stamps that relation
\* and every change of the schema its generation, in the same commit, for all
\* the writers together (writer-obligations).
ImplementsStampedStore == Store!StoreSpec
=============================================================================
