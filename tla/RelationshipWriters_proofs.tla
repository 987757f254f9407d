--------------------- MODULE RelationshipWriters_proofs ---------------------
(***************************************************************************)
(* Proofs about RelationshipWriters, for every number of writers, edges,   *)
(* relations, schemas and revisions.  A transaction compares stamps, and   *)
(* the argument is about what an equal stamp says: Later relates the value *)
(* an operation planned on to any later one, HistInv keeps that relation   *)
(* between all the values of the history, and OpInv says what each         *)
(* operation has established so far on the value it names by its basis.    *)
(***************************************************************************)
EXTENDS RelationshipWriters, FiniteSetTheorems, SequenceTheorems, TLAPS

Version == Nat \cup {NoGeneration}

Database ==
    [ schema     : SchemaText,
      schemaGen  : Nat,
      fence      : Nat,
      generation : [Relation -> Version],
      edge       : [Edge -> Qualifier \cup {Plain, Absent}],
      qualifier  : UNION { [ids -> Value] : ids \in SUBSET Qualifier },
      objects    : SUBSET Object ]

\* A qualifier is attached to the relationship it was allocated for only.
Owned(db) ==
    \A e \in Qualified(db) : db.edge[e][2] = e /\ db.edge[e] \in DOMAIN db.qualifier

Sound(db) == Owned(db) /\ Coherent(db)

\* Nothing in the value of revision r carries a later revision.
InPast(db, r) ==
    /\ db.schemaGen <= r /\ db.fence <= r
    /\ \A n \in Relation : db.generation[n] # NoGeneration => db.generation[n] <= r
    /\ \A q \in DOMAIN db.qualifier : q[1] <= r

\* What a guard on the stamps of old, of revision r, says of a later value:
\* the same fence the same schema and no new reference to a caveat, and then
\* the same generation of a relation the same relationships.
Later(old, new, r) ==
    /\ old.schemaGen <= new.schemaGen
    /\ \A q \in DOMAIN new.qualifier :
         q[1] <= r => q \in DOMAIN old.qualifier /\ new.qualifier[q] = old.qualifier[q]
    /\ Fence(old) = Fence(new) =>
         /\ old.schema = new.schema
         /\ \A q \in DOMAIN new.qualifier :
              q \in DOMAIN old.qualifier \/ CaveatOf[new.qualifier[q]] = NoCaveat
         /\ \A e \in Edge :
              old.generation[RelationOf[e]] = new.generation[RelationOf[e]] =>
                 old.edge[e] = new.edge[e]

HistInv ==
    /\ log \in Seq(Database) /\ log # <<>>
    /\ \A r \in 1 .. Now : Sound(log[r]) /\ InPast(log[r], r)
    /\ \A r, s \in 1 .. Now : r <= s => Later(log[r], log[s], r)

-----------------------------------------------------------------------------
Operation ==
    [ pc : Pc, request : Requests \cup {Idle.request}, attempt : 1 .. MaxAttempts,
      generation : Nat, basis : Nat, allocated : Nat, last : Nat, reply : Nat,
      outcome : Outcome ]

\* Where an operation of each kind can be.
Stages ==
    [ write   |-> {"resolve", "prepare", "allocate", "plan", "unchanged", "commit", "done"},
      prepare |-> {"resolve", "prepare", "allocate", "done"},
      compose |-> {"compose", "unchanged", "commit", "done"},
      discard |-> {"planDiscard", "commitDiscard", "done"},
      delete  |-> {"planDeletion", "commitDeletion", "done"},
      schema  |-> {"admitSchema", "planSchema", "commitSchema", "done"} ]

StageOK(w) ==
    /\ op[w].pc # "idle" => /\ op[w].request \in Requests
                            /\ Kind(w) \in DOMAIN Stages
                            /\ op[w].pc \in Stages[Kind(w)]
    /\ op[w].outcome = "pending" <=> op[w].pc # "done"
    /\ op[w].pc \in {"idle", "resolve", "prepare", "allocate"} => op[w].allocated = 0

BoundsOK(w) ==
    /\ op[w].basis <= Now /\ op[w].allocated <= Now /\ op[w].last <= Now /\ op[w].reply <= Now

\* What an operation prepared carried its values when it was committed.
AllocatedOK(w) ==
    op[w].allocated # 0 =>
        /\ Kind(w) \in {"write", "prepare"}
        /\ \A e \in ToQualify(Updates(w)) :
             /\ <<op[w].allocated, e>> \in DOMAIN log[op[w].allocated].qualifier
             /\ log[op[w].allocated].qualifier[<<op[w].allocated, e>>] = Updates(w)[e].value

HandleOK(w) ==
    op[w].pc # "idle" /\ Kind(w) \in {"compose", "discard"} =>
        /\ op[op[w].request.handle].request.kind = "prepare"
        /\ op[op[w].request.handle].outcome = "committed"

PreparedOK(w) ==
    op[w].outcome = "committed" /\ Kind(w) = "prepare" => op[w].allocated # 0

\* What a plan has established on the snapshot it was made on.
PlanOK(w) ==
    /\ op[w].pc \in {"allocate", "commit", "commitDiscard", "commitDeletion", "commitSchema"} =>
         op[w].basis # 0
    /\ op[w].pc \in {"allocate", "commit"} => Admissible(log[op[w].basis], Updates(w))
    /\ op[w].pc = "commit" =>
         /\ Prepared(w) \subseteq Orphans(log[op[w].basis])
         /\ Kind(w) = "compose" => MadeFor(w)
    /\ op[w].pc = "commitDiscard" => HandleQualifier(w) \in Orphans(log[op[w].basis])
    /\ op[w].pc = "planSchema" => \E a \in 1 .. Now : op[w].generation = log[a].schemaGen
    /\ op[w].pc = "commitSchema" =>
         /\ \E a \in 1 .. op[w].basis : op[w].generation = log[a].schemaGen
         /\ Replaceable(log[op[w].basis], op[w].request.schema)

\* The commit an operation answers with did what it was asked to.
Took(before, after, updates) ==
    \A e \in Edge :
        IF e \notin DOMAIN updates THEN after.edge[e] = before.edge[e]
        ELSE CASE updates[e].operation = "delete" -> e \notin Stored(after)
               [] updates[e].operation = "create" ->
                    e \notin Stored(before) /\ Carries(after, e, updates[e].value)
               [] OTHER -> Carries(after, e, updates[e].value)

AckOK(w) ==
    op[w].outcome = "committed" /\ Kind(w) \in {"write", "compose"} =>
        op[w].reply >= 2 /\ Took(log[op[w].reply - 1], log[op[w].reply], Updates(w))

OpInv(w) ==
    /\ StageOK(w) /\ BoundsOK(w) /\ AllocatedOK(w) /\ HandleOK(w)
    /\ PreparedOK(w) /\ PlanOK(w) /\ AckOK(w)

IInv ==
    /\ HistInv
    /\ op \in [Writer -> Operation]
    /\ \A w \in Writer : OpInv(w)
    /\ sweep \in 0 .. Now

-----------------------------------------------------------------------------
(* Fields of the values the operators on databases return.                 *)

\* A reference to a caveat moves the fence, or on Datomic the generation.
LEMMA ReferenceFields ==
    ASSUME NEW db \in Database, NEW rev \in Nat, NEW values
    PROVE  LET next == Reference(db, rev, values) IN
           /\ next \in Database
           /\ next.schema = db.schema /\ next.generation = db.generation
           /\ next.edge = db.edge /\ next.qualifier = db.qualifier /\ next.objects = db.objects
           /\ next.schemaGen \in {db.schemaGen, rev} /\ next.fence \in {db.fence, rev}
           /\ (\E v \in values : CaveatOf[v] # NoCaveat) => Fence(next) = rev
BY DEF Reference, Database, Fence

\* Allocation adds the new qualifier entities and changes no relationship.
LEMMA AllocateFields ==
    ASSUME NEW db \in Database, NEW rev \in Nat, NEW values,
           DOMAIN values \subseteq Edge, \A e \in DOMAIN values : values[e] \in Value
    PROVE  LET next == Allocate(db, rev, values)
               new  == { <<rev, e>> : e \in DOMAIN values }
           IN
           /\ next \in Database
           /\ next.schema = db.schema /\ next.generation = db.generation
           /\ next.edge = db.edge /\ next.objects = db.objects
           /\ next.schemaGen \in {db.schemaGen, rev} /\ next.fence \in {db.fence, rev}
           /\ (\E e \in DOMAIN values : CaveatOf[values[e]] # NoCaveat) => Fence(next) = rev
           /\ DOMAIN next.qualifier = DOMAIN db.qualifier \cup new
           /\ \A q \in DOMAIN next.qualifier :
                next.qualifier[q] = IF q \in new THEN values[q[2]] ELSE db.qualifier[q]
<1> DEFINE vs   == { values[e] : e \in DOMAIN values }
           ref  == Reference(db, rev, vs)
           new  == { <<rev, e>> : e \in DOMAIN values }
           quals == [q \in DOMAIN ref.qualifier \cup new |->
                             IF q \in new THEN values[q[2]] ELSE ref.qualifier[q]]
           next == Allocate(db, rev, values)
<1>1. /\ ref \in Database
      /\ ref.schema = db.schema /\ ref.generation = db.generation
      /\ ref.edge = db.edge /\ ref.qualifier = db.qualifier /\ ref.objects = db.objects
      /\ ref.schemaGen \in {db.schemaGen, rev} /\ ref.fence \in {db.fence, rev}
      /\ (\E v \in vs : CaveatOf[v] # NoCaveat) => Fence(ref) = rev
  BY ReferenceFields
<1>2. next = [ref EXCEPT !.qualifier = quals]
  BY DEF Allocate
<1>3. quals \in [DOMAIN db.qualifier \cup new -> Value]
  <2>1. db.qualifier \in [DOMAIN db.qualifier -> Value]
    BY DEF Database
  <2>2. \A q \in new : values[q[2]] \in Value
    OBVIOUS
  <2> QED BY <1>1, <2>1, <2>2
<1>4. DOMAIN db.qualifier \cup new \in SUBSET Qualifier
  <2>1. DOMAIN db.qualifier \subseteq Qualifier
    BY DEF Database
  <2>2. new \subseteq Qualifier
    BY DEF Qualifier
  <2> QED BY <2>1, <2>2
<1>5. quals \in UNION { [ids -> Value] : ids \in SUBSET Qualifier }
  BY <1>3, <1>4
<1> HIDE DEF ref, quals, next, new, vs
<1>6. /\ next \in Database /\ next.qualifier = quals
      /\ next.schema = ref.schema /\ next.generation = ref.generation
      /\ next.edge = ref.edge /\ next.objects = ref.objects
      /\ next.schemaGen = ref.schemaGen /\ next.fence = ref.fence
  BY <1>1, <1>2, <1>5 DEF Database
<1>7. Fence(next) = Fence(ref)
  BY <1>6 DEF Fence
<1>8. (\E e \in DOMAIN values : CaveatOf[values[e]] # NoCaveat) => Fence(next) = rev
  BY <1>1, <1>7 DEF vs
<1>9. /\ DOMAIN next.qualifier = DOMAIN db.qualifier \cup new
      /\ \A q \in DOMAIN next.qualifier :
                next.qualifier[q] = IF q \in new THEN values[q[2]] ELSE db.qualifier[q]
  BY <1>1, <1>6 DEF quals
<1> QED BY <1>1, <1>6, <1>8, <1>9 DEF next, new

\* Swapped pairs take their old qualifiers along.
LEMMA SwapFields ==
    ASSUME NEW db \in Database, NEW rev \in Nat, NEW pairs, NEW relations,
           DOMAIN pairs \subseteq Edge,
           \A e \in DOMAIN pairs : pairs[e] \in Qualifier \cup {Plain, Absent}
    PROVE  LET next == Swap(db, rev, pairs, relations)
               old  == { db.edge[e] : e \in DOMAIN pairs \cap Qualified(db) }
           IN
           /\ next \in Database
           /\ next.schema = db.schema /\ next.objects = db.objects
           /\ next.schemaGen = db.schemaGen /\ next.fence = db.fence
           /\ next.generation = Stamp(db.generation, relations, rev)
           /\ \A e \in Edge : next.edge[e] = IF e \in DOMAIN pairs THEN pairs[e] ELSE db.edge[e]
           /\ DOMAIN next.qualifier = DOMAIN db.qualifier \ old
           /\ \A q \in DOMAIN next.qualifier : next.qualifier[q] = db.qualifier[q]
<1> DEFINE old   == { db.edge[e] : e \in DOMAIN pairs \cap Qualified(db) }
           edges == [e \in Edge |-> IF e \in DOMAIN pairs THEN pairs[e] ELSE db.edge[e]]
           quals == [q \in DOMAIN db.qualifier \ old |-> db.qualifier[q]]
           gens  == Stamp(db.generation, relations, rev)
           next  == Swap(db, rev, pairs, relations)
<1>1. next = [db EXCEPT !.edge = edges, !.qualifier = quals, !.generation = gens]
  BY DEF Swap
<1>2. edges \in [Edge -> Qualifier \cup {Plain, Absent}]
  BY DEF Database
<1>3. quals \in UNION { [ids -> Value] : ids \in SUBSET Qualifier }
  <2>1. db.qualifier \in [DOMAIN db.qualifier -> Value] /\ DOMAIN db.qualifier \subseteq Qualifier
    BY DEF Database
  <2>2. quals \in [DOMAIN db.qualifier \ old -> Value]
    BY <2>1
  <2>3. DOMAIN db.qualifier \ old \in SUBSET Qualifier
    BY <2>1
  <2> HIDE DEF quals, old
  <2> QED BY <2>2, <2>3
<1>4. gens \in [Relation -> Version]
  BY DEF Stamp, Version, Database
<1> HIDE DEF old, edges, quals, gens, next
<1>5. /\ next \in Database
      /\ next.schema = db.schema /\ next.objects = db.objects
      /\ next.schemaGen = db.schemaGen /\ next.fence = db.fence
      /\ next.generation = gens /\ next.edge = edges /\ next.qualifier = quals
  BY <1>1, <1>2, <1>3, <1>4 DEF Database
<1> QED BY <1>5 DEF next, old, edges, quals, gens

\* A replaced schema: the text, its stamps, and no relationship.
LEMMA ReplaceFields ==
    ASSUME NEW db \in Database, NEW rev \in Nat, NEW new \in SchemaText
    PROVE  LET next    == Replace(db, rev, new)
               removed == Removed(db.schema, new)
               stamped == Added(db.schema, new) \cup Altered(db.schema, new)
           IN
           /\ next \in Database
           /\ next.schema = new /\ next.schemaGen = rev /\ next.objects = db.objects
           /\ next.fence = IF GenerationFence THEN db.fence ELSE rev
           /\ next.edge = db.edge /\ next.qualifier = db.qualifier
           /\ \A r \in Relation : next.generation[r] =
                IF r \in removed THEN NoGeneration
                ELSE IF r \in stamped THEN rev ELSE db.generation[r]
<1> DEFINE removed == Removed(db.schema, new)
           stamped == Added(db.schema, new) \cup Altered(db.schema, new)
           gens == [r \in Relation |-> IF r \in removed THEN NoGeneration
                                       ELSE Stamp(db.generation, stamped, rev)[r]]
           fences == IF GenerationFence THEN db.fence ELSE rev
           next == Replace(db, rev, new)
<1>1. next = [db EXCEPT !.schema = new, !.schemaGen = rev, !.fence = fences, !.generation = gens]
  BY DEF Replace
<1>2. gens \in [Relation -> Version]
  BY DEF Stamp, Version, Database
<1>3. fences \in Nat
  BY DEF Database
<1>4. \A r \in Relation : gens[r] = IF r \in removed THEN NoGeneration
                                    ELSE IF r \in stamped THEN rev ELSE db.generation[r]
  BY DEF Stamp
<1> HIDE DEF removed, stamped, gens, fences, next
<1>5. /\ next \in Database
      /\ next.schema = new /\ next.schemaGen = rev /\ next.objects = db.objects
      /\ next.edge = db.edge /\ next.qualifier = db.qualifier
      /\ next.generation = gens /\ next.fence = fences
  BY <1>1, <1>2, <1>3 DEF Database
<1> QED BY <1>4, <1>5 DEF next, removed, stamped, fences

\* What discards, sweeps and safe retractions leave behind.
Discarding(db, rev, ids, relations) ==
    [db EXCEPT !.qualifier  = [q \in DOMAIN @ \ ids |-> @[q]],
               !.generation = Stamp(@, relations, rev)]

Sweeping(db, ids) == [db EXCEPT !.qualifier = [q \in DOMAIN @ \ ids |-> @[q]]]

Retracting(db, rev, edges, relations, o) ==
    [db EXCEPT !.edge       = [e \in Edge |-> IF e \in edges THEN Absent ELSE @[e]],
               !.generation = Stamp(@, relations, rev),
               !.objects    = @ \ {o}]

\* A discard retracts qualifiers and stamps relations.
LEMMA RetractFields ==
    ASSUME NEW db \in Database, NEW rev \in Nat, NEW ids, NEW relations
    PROVE  LET next == Discarding(db, rev, ids, relations) IN
           /\ next \in Database
           /\ next.schema = db.schema /\ next.objects = db.objects
           /\ next.schemaGen = db.schemaGen /\ next.fence = db.fence
           /\ next.generation = Stamp(db.generation, relations, rev)
           /\ next.edge = db.edge
           /\ DOMAIN next.qualifier = DOMAIN db.qualifier \ ids
           /\ \A q \in DOMAIN next.qualifier : next.qualifier[q] = db.qualifier[q]
<1> DEFINE quals == [q \in DOMAIN db.qualifier \ ids |-> db.qualifier[q]]
           gens  == Stamp(db.generation, relations, rev)
           next  == [db EXCEPT !.qualifier = quals, !.generation = gens]
<1>1. quals \in UNION { [s -> Value] : s \in SUBSET Qualifier }
  <2>1. db.qualifier \in [DOMAIN db.qualifier -> Value] /\ DOMAIN db.qualifier \subseteq Qualifier
    BY DEF Database
  <2>2. quals \in [DOMAIN db.qualifier \ ids -> Value]
    BY <2>1
  <2>3. DOMAIN db.qualifier \ ids \in SUBSET Qualifier
    BY <2>1
  <2> HIDE DEF quals
  <2> QED BY <2>2, <2>3
<1>2. gens \in [Relation -> Version]
  BY DEF Stamp, Version, Database
<1>3. next = Discarding(db, rev, ids, relations)
  BY DEF Discarding
<1> HIDE DEF quals, gens, next
<1>4. /\ next \in Database
      /\ next.schema = db.schema /\ next.objects = db.objects
      /\ next.schemaGen = db.schemaGen /\ next.fence = db.fence
      /\ next.generation = gens /\ next.edge = db.edge /\ next.qualifier = quals
  BY <1>1, <1>2 DEF Database, next
<1>5. /\ DOMAIN next.qualifier = DOMAIN db.qualifier \ ids
      /\ \A q \in DOMAIN next.qualifier : next.qualifier[q] = db.qualifier[q]
  BY <1>4 DEF quals
<1>6. next.generation = Stamp(db.generation, relations, rev)
  BY <1>4 DEF gens
<1> QED BY <1>3, <1>4, <1>5, <1>6

\* One chunk of a sweep retracts qualifiers only.
LEMMA ChunkFields ==
    ASSUME NEW db \in Database, NEW ids
    PROVE  LET next == Sweeping(db, ids) IN
           /\ next \in Database
           /\ next.schema = db.schema /\ next.objects = db.objects
           /\ next.schemaGen = db.schemaGen /\ next.fence = db.fence
           /\ next.generation = db.generation /\ next.edge = db.edge
           /\ DOMAIN next.qualifier = DOMAIN db.qualifier \ ids
           /\ \A q \in DOMAIN next.qualifier : next.qualifier[q] = db.qualifier[q]
<1> DEFINE quals == [q \in DOMAIN db.qualifier \ ids |-> db.qualifier[q]]
           next  == [db EXCEPT !.qualifier = quals]
<1>1. quals \in UNION { [s -> Value] : s \in SUBSET Qualifier }
  <2>1. db.qualifier \in [DOMAIN db.qualifier -> Value] /\ DOMAIN db.qualifier \subseteq Qualifier
    BY DEF Database
  <2>2. quals \in [DOMAIN db.qualifier \ ids -> Value]
    BY <2>1
  <2>3. DOMAIN db.qualifier \ ids \in SUBSET Qualifier
    BY <2>1
  <2> HIDE DEF quals
  <2> QED BY <2>2, <2>3
<1>2. next = Sweeping(db, ids)
  BY DEF Sweeping
<1> HIDE DEF quals, next
<1>3. /\ next \in Database
      /\ next.schema = db.schema /\ next.objects = db.objects
      /\ next.schemaGen = db.schemaGen /\ next.fence = db.fence
      /\ next.generation = db.generation /\ next.edge = db.edge /\ next.qualifier = quals
  BY <1>1 DEF Database, next
<1>4. /\ DOMAIN next.qualifier = DOMAIN db.qualifier \ ids
      /\ \A q \in DOMAIN next.qualifier : next.qualifier[q] = db.qualifier[q]
  BY <1>3 DEF quals
<1> QED BY <1>2, <1>3, <1>4

\* A safe retraction takes the pairs of an entity and the entity.
LEMMA SafeRetractFields ==
    ASSUME NEW db \in Database, NEW rev \in Nat, NEW edges, NEW relations, NEW o
    PROVE  LET next == Retracting(db, rev, edges, relations, o) IN
           /\ next \in Database
           /\ next.schema = db.schema /\ next.objects = db.objects \ {o}
           /\ next.schemaGen = db.schemaGen /\ next.fence = db.fence
           /\ next.generation = Stamp(db.generation, relations, rev)
           /\ \A e \in Edge : next.edge[e] = IF e \in edges THEN Absent ELSE db.edge[e]
           /\ next.qualifier = db.qualifier
<1> DEFINE pairs == [e \in Edge |-> IF e \in edges THEN Absent ELSE db.edge[e]]
           gens  == Stamp(db.generation, relations, rev)
           next  == [db EXCEPT !.edge = pairs, !.generation = gens, !.objects = db.objects \ {o}]
<1>1. pairs \in [Edge -> Qualifier \cup {Plain, Absent}]
  BY DEF Database
<1>2. gens \in [Relation -> Version]
  BY DEF Stamp, Version, Database
<1>3. next = Retracting(db, rev, edges, relations, o)
  BY DEF Retracting
<1>4. \A e \in Edge : pairs[e] = IF e \in edges THEN Absent ELSE db.edge[e]
  OBVIOUS
<1> HIDE DEF pairs, gens, next
<1>5. /\ next \in Database
      /\ next.schema = db.schema /\ next.objects = db.objects \ {o}
      /\ next.schemaGen = db.schemaGen /\ next.fence = db.fence
      /\ next.generation = gens /\ next.edge = pairs /\ next.qualifier = db.qualifier
  BY <1>1, <1>2 DEF Database, next
<1>6. next.generation = Stamp(db.generation, relations, rev)
  BY <1>5 DEF gens
<1> QED BY <1>3, <1>4, <1>5, <1>6

-----------------------------------------------------------------------------
(* How one commit extends the history.                                     *)

\* The transaction of revision rev turns db into next: what keeps its stamps
\* keeps its content, and a new stamp is the new revision.
Follows(db, next, rev) ==
    /\ next.schemaGen \in {db.schemaGen, rev} /\ next.fence \in {db.fence, rev}
    /\ \A q \in DOMAIN next.qualifier :
         q[1] # rev => q \in DOMAIN db.qualifier /\ next.qualifier[q] = db.qualifier[q]
    /\ Fence(next) # rev =>
         /\ next.schema = db.schema
         /\ \A q \in DOMAIN next.qualifier :
              q \in DOMAIN db.qualifier \/ CaveatOf[next.qualifier[q]] = NoCaveat
         /\ \A e \in Edge :
              next.generation[RelationOf[e]] # rev =>
                 /\ next.generation[RelationOf[e]] = db.generation[RelationOf[e]]
                 /\ next.edge[e] = db.edge[e]

\* What the store's contract sees of a commit that writes relationships.
WritesData(db, next, rev, touched) ==
    /\ next.schema = db.schema /\ next.schemaGen \in {db.schemaGen, rev}
    /\ \A r \in Relation :
         next.generation[r] = IF r \in touched THEN rev ELSE db.generation[r]
    /\ \A e \in Edge : RelationOf[e] \notin touched => ValueAt(next, e) = ValueAt(db, e)

\* The same of a commit that replaces the schema.
WritesSchema(db, next, rev, added, removed) ==
    /\ next.schema \in SchemaText /\ next.schemaGen = rev
    /\ \A r \in Relation :
         next.generation[r] = IF r \in added THEN rev
                              ELSE IF r \in removed THEN NoGeneration ELSE db.generation[r]
    /\ \A e \in Edge : ValueAt(next, e) = ValueAt(db, e)

Stamped(db, next, rev) ==
    \/ \E touched \in SUBSET Relation : WritesData(db, next, rev, touched)
    \/ \E added, removed \in SUBSET Relation : WritesSchema(db, next, rev, added, removed)

Commits(db, next, rev) ==
    /\ next \in Database /\ Sound(next) /\ InPast(next, rev)
    /\ Follows(db, next, rev)
    /\ Stamped(db, next, rev)

\* A value is its own first successor.
LEMMA LaterRefl ==
    ASSUME NEW db \in Database, NEW r \in Nat
    PROVE  Later(db, db, r)
BY DEF Later, Database

\* What later values keep, one more commit keeps.
LEMMA LaterStep ==
    ASSUME NEW old \in Database, NEW db \in Database, NEW next \in Database,
           NEW r \in Nat, NEW s \in Nat, r <= s,
           InPast(old, r), InPast(db, s), Later(old, db, r), Follows(db, next, s + 1)
    PROVE  Later(old, next, r)
<1>1. old.schemaGen <= next.schemaGen
  <2>1. old.schemaGen \in Nat /\ db.schemaGen \in Nat /\ next.schemaGen \in Nat
    BY DEF Database
  <2>2. old.schemaGen <= db.schemaGen /\ db.schemaGen <= s
    BY DEF Later, InPast
  <2> QED BY <2>1, <2>2 DEF Follows
<1>2. ASSUME NEW q \in DOMAIN next.qualifier, q[1] <= r
      PROVE  q \in DOMAIN old.qualifier /\ next.qualifier[q] = old.qualifier[q]
  <2>1. q \in Nat \X Edge
    BY DEF Database, Qualifier
  <2>2. q[1] # s + 1
    BY <1>2, <2>1
  <2>3. q \in DOMAIN db.qualifier /\ next.qualifier[q] = db.qualifier[q]
    BY <2>2 DEF Follows
  <2> QED BY <1>2, <2>3 DEF Later
<1>3. ASSUME Fence(old) = Fence(next)
      PROVE  /\ old.schema = next.schema
             /\ \A q \in DOMAIN next.qualifier :
                  q \in DOMAIN old.qualifier \/ CaveatOf[next.qualifier[q]] = NoCaveat
             /\ \A e \in Edge :
                  old.generation[RelationOf[e]] = next.generation[RelationOf[e]] =>
                     old.edge[e] = next.edge[e]
  <2>1. Fence(old) \in Nat /\ Fence(old) <= r
    BY DEF Fence, Database, InPast
  <2>2. Fence(next) # s + 1
    BY <1>3, <2>1
  <2>3. Fence(next) = Fence(db)
    BY <2>2 DEF Follows, Fence
  <2>4. Fence(old) = Fence(db)
    BY <1>3, <2>3
  <2>5. old.schema = next.schema
    BY <2>2, <2>4 DEF Follows, Later
  <2>6. ASSUME NEW q \in DOMAIN next.qualifier, q \notin DOMAIN old.qualifier
        PROVE  CaveatOf[next.qualifier[q]] = NoCaveat
    <3>1. CASE q \in DOMAIN db.qualifier
      <4>1. q \in Nat \X Edge /\ q[1] <= s
        BY <3>1 DEF InPast, Database, Qualifier
      <4>2. q[1] # s + 1
        BY <4>1
      <4>3. next.qualifier[q] = db.qualifier[q]
        BY <4>2 DEF Follows
      <4> QED BY <2>4, <2>6, <3>1, <4>3 DEF Later
    <3> QED BY <2>2, <3>1 DEF Follows
  <2>7. ASSUME NEW e \in Edge, old.generation[RelationOf[e]] = next.generation[RelationOf[e]]
        PROVE  old.edge[e] = next.edge[e]
    <3>1. RelationOf[e] \in Relation
      BY EdgeAssumption
    <3>2. old.generation[RelationOf[e]] # s + 1
      <4>1. old.generation[RelationOf[e]] \in Nat \cup {NoGeneration}
        BY <3>1 DEF Database, Version
      <4> QED BY <3>1, <4>1, BoundsAssumption DEF InPast
    <3>3. next.generation[RelationOf[e]] = db.generation[RelationOf[e]] /\ next.edge[e] = db.edge[e]
      BY <2>2, <2>7, <3>2 DEF Follows
    <3> QED BY <2>4, <2>7, <3>3 DEF Later
  <2> QED BY <2>5, <2>6, <2>7
<1> QED BY <1>1, <1>2, <1>3 DEF Later

\* A transaction on relationships: it swaps pairs of edges, whose relations it
\* stamps, retracts qualifiers nothing else names, and leaves what it writes
\* admitted by the schema and between live entities.
Effect(db, next, rev, edges, relations) ==
    /\ next \in Database
    /\ next.schema = db.schema
    /\ next.schemaGen \in {db.schemaGen, rev} /\ next.fence \in {db.fence, rev}
    /\ next.generation = Stamp(db.generation, relations, rev)
    /\ \A e \in edges : RelationOf[e] \in relations
    /\ \A e \in Edge \ edges : next.edge[e] = db.edge[e]
    /\ \A e \in Qualified(db) \ edges : db.edge[e] \in DOMAIN next.qualifier
    /\ \A e \in edges : e \in Qualified(next) =>
         next.edge[e][2] = e /\ next.edge[e] \in DOMAIN next.qualifier
    /\ \A e \in edges : e \in Stored(next) =>
         /\ RelationOf[e] \in Declared[next.schema].relations
         /\ CaveatOf[ValueAt(next, e)] \in Declared[next.schema].admits[e]
    /\ \A e \in Stored(next) : Ends[e] \subseteq next.objects
    /\ \A q \in DOMAIN next.qualifier :
         \/ q \in DOMAIN db.qualifier /\ next.qualifier[q] = db.qualifier[q]
         \/ /\ q[1] = rev
            /\ CaveatOf[next.qualifier[q]] \in Declared[next.schema].caveats \cup {NoCaveat}
            /\ CaveatOf[next.qualifier[q]] = NoCaveat \/ Fence(next) = rev

\* Edges that a transaction leaves alone keep their values.
LEMMA EffectKeepsValues ==
    ASSUME NEW db \in Database, NEW next, NEW s \in Nat, NEW edges, NEW relations,
           Sound(db), InPast(db, s), Effect(db, next, s + 1, edges, relations),
           NEW e \in Edge \ edges
    PROVE  ValueAt(next, e) = ValueAt(db, e) /\ (e \in Stored(next) <=> e \in Stored(db))
<1>1. next.edge[e] = db.edge[e]
  BY DEF Effect
<1>2. e \in Stored(next) <=> e \in Stored(db)
  BY <1>1 DEF Stored
<1>3. e \in Qualified(next) <=> e \in Qualified(db)
  BY <1>1, <1>2 DEF Qualified
<1>4. CASE e \in Qualified(db)
  <2>1. db.edge[e] \in DOMAIN next.qualifier /\ db.edge[e] \in DOMAIN db.qualifier
    BY <1>4 DEF Effect, Sound, Owned
  <2>2. db.edge[e] \in Nat \X Edge /\ db.edge[e][1] <= s
    BY <2>1 DEF InPast, Database, Qualifier
  <2>3. db.edge[e][1] # s + 1
    BY <2>2
  <2>4. next.qualifier[db.edge[e]] = db.qualifier[db.edge[e]]
    BY <2>1, <2>3 DEF Effect
  <2> QED BY <1>1, <1>2, <1>3, <1>4, <2>4 DEF ValueAt
<1>5. CASE e \notin Qualified(db)
  BY <1>1, <1>2, <1>3, <1>5 DEF ValueAt
<1> QED BY <1>2, <1>4, <1>5

\* Such a transaction commits a sound value that follows the history.
LEMMA EffectCommits ==
    ASSUME NEW db \in Database, NEW next, NEW s \in Nat, NEW edges, NEW relations,
           Sound(db), InPast(db, s), edges \subseteq Edge, relations \subseteq Relation,
           Effect(db, next, s + 1, edges, relations)
    PROVE  Commits(db, next, s + 1)
<1>1. next \in Database
  BY DEF Effect
<1>2. \A e \in Edge \ edges :
         ValueAt(next, e) = ValueAt(db, e) /\ (e \in Stored(next) <=> e \in Stored(db))
  BY EffectKeepsValues
<1>3. Owned(next)
  <2> SUFFICES ASSUME NEW e \in Qualified(next)
               PROVE  next.edge[e][2] = e /\ next.edge[e] \in DOMAIN next.qualifier
    BY DEF Owned
  <2>1. e \in Edge
    BY DEF Qualified, Stored
  <2>2. CASE e \in edges
    BY <2>2 DEF Effect
  <2>3. CASE e \notin edges
    <3>1. next.edge[e] = db.edge[e]
      BY <2>1, <2>3 DEF Effect
    <3>2. e \in Qualified(db)
      BY <2>1, <3>1 DEF Qualified, Stored
    <3> QED BY <2>3, <3>1, <3>2 DEF Effect, Sound, Owned
  <2> QED BY <2>2, <2>3
<1>4. Coherent(next)
  <2>1. ASSUME NEW e \in Stored(next)
        PROVE  /\ RelationOf[e] \in Declared[next.schema].relations
               /\ CaveatOf[ValueAt(next, e)] \in Declared[next.schema].admits[e]
               /\ Ends[e] \subseteq next.objects
    <3>1. e \in Edge /\ Ends[e] \subseteq next.objects
      BY DEF Stored, Effect
    <3>2. CASE e \in edges
      BY <3>1, <3>2 DEF Effect
    <3>3. CASE e \notin edges
      <4>1. e \in Stored(db) /\ ValueAt(next, e) = ValueAt(db, e)
        BY <1>2, <3>1, <3>3
      <4>2. next.schema = db.schema
        BY DEF Effect
      <4> QED BY <3>1, <4>1, <4>2 DEF Sound, Coherent
    <3> QED BY <3>2, <3>3
  <2>2. ASSUME NEW q \in DOMAIN next.qualifier
        PROVE  CaveatOf[next.qualifier[q]] \in Declared[next.schema].caveats \cup {NoCaveat}
    BY DEF Effect, Sound, Coherent
  <2> QED BY <2>1, <2>2 DEF Coherent
<1>5. InPast(next, s + 1)
  <2>1. db.schemaGen <= s /\ db.fence <= s /\ db.schemaGen \in Nat /\ db.fence \in Nat
    BY DEF InPast, Database
  <2>2. next.schemaGen <= s + 1 /\ next.fence <= s + 1
    BY <2>1 DEF Effect
  <2>3. ASSUME NEW n \in Relation, next.generation[n] # NoGeneration
        PROVE  next.generation[n] <= s + 1
    <3>1. next.generation[n] \in {s + 1, db.generation[n]}
      BY DEF Effect, Stamp
    <3>2. CASE next.generation[n] = s + 1
      BY <3>2
    <3>3. CASE next.generation[n] = db.generation[n]
      <4>1. db.generation[n] \in Nat /\ db.generation[n] <= s
        BY <2>3, <3>3 DEF InPast, Database, Version
      <4> QED BY <3>3, <4>1
    <3> QED BY <3>1, <3>2, <3>3
  <2>4. ASSUME NEW q \in DOMAIN next.qualifier
        PROVE  q[1] <= s + 1
    <3>1. q \in Nat \X Edge
      BY <1>1 DEF Database, Qualifier
    <3>2. q[1] = s + 1 \/ q[1] <= s
      BY DEF Effect, InPast
    <3> QED BY <3>1, <3>2
  <2> QED BY <2>2, <2>3, <2>4 DEF InPast
<1>6. Follows(db, next, s + 1)
  <2>1. next.schemaGen \in {db.schemaGen, s + 1} /\ next.fence \in {db.fence, s + 1}
    BY DEF Effect
  <2>2. \A q \in DOMAIN next.qualifier :
         q[1] # s + 1 => q \in DOMAIN db.qualifier /\ next.qualifier[q] = db.qualifier[q]
    BY DEF Effect
  <2>3. ASSUME Fence(next) # s + 1
        PROVE  /\ next.schema = db.schema
               /\ \A q \in DOMAIN next.qualifier :
                    q \in DOMAIN db.qualifier \/ CaveatOf[next.qualifier[q]] = NoCaveat
    BY <2>3 DEF Effect
  <2>4. ASSUME NEW e \in Edge, next.generation[RelationOf[e]] # s + 1
        PROVE  /\ next.generation[RelationOf[e]] = db.generation[RelationOf[e]]
               /\ next.edge[e] = db.edge[e]
    <3>1. RelationOf[e] \in Relation
      BY EdgeAssumption
    <3>2. /\ RelationOf[e] \notin relations
          /\ next.generation[RelationOf[e]] = db.generation[RelationOf[e]]
      BY <2>4, <3>1 DEF Effect, Stamp
    <3> QED BY <3>2 DEF Effect
  <2> QED BY <2>1, <2>2, <2>3, <2>4 DEF Follows
<1>7. WritesData(db, next, s + 1, relations)
  <2>1. next.schema = db.schema /\ next.schemaGen \in {db.schemaGen, s + 1}
    BY DEF Effect
  <2>2. \A r \in Relation :
         next.generation[r] = IF r \in relations THEN s + 1 ELSE db.generation[r]
    BY DEF Effect, Stamp
  <2>3. \A e \in Edge : RelationOf[e] \notin relations => ValueAt(next, e) = ValueAt(db, e)
    BY <1>2 DEF Effect
  <2> QED BY <2>1, <2>2, <2>3 DEF WritesData
<1> QED BY <1>1, <1>3, <1>4, <1>5, <1>6, <1>7 DEF Commits, Sound, Stamped

-----------------------------------------------------------------------------
(* The transactions that retract or only allocate.                         *)

\* In a sound value no two relationships name one qualifier.
LEMMA OwnedDistinct ==
    ASSUME NEW db, Owned(db), NEW e \in Qualified(db), NEW f \in Qualified(db),
           db.edge[e] = db.edge[f]
    PROVE  e = f
BY DEF Owned

\* An orphan is a qualifier no relationship names.
LEMMA OrphansUnnamed ==
    ASSUME NEW db, NEW q \in Orphans(db)
    PROVE  q \in DOMAIN db.qualifier /\ \A e \in Qualified(db) : db.edge[e] # q
BY DEF Orphans, Attached

\* Allocation of qualifiers the schema in force decodes.
LEMMA AllocateCommits ==
    ASSUME NEW db \in Database, NEW s \in Nat, NEW values,
           Sound(db), InPast(db, s),
           DOMAIN values \subseteq Edge, \A e \in DOMAIN values : values[e] \in Value,
           \A e \in DOMAIN values : CaveatOf[values[e]] \in Declared[db.schema].caveats \cup {NoCaveat}
    PROVE  Commits(db, Allocate(db, s + 1, values), s + 1)
<1> DEFINE next == Allocate(db, s + 1, values)
           new  == { <<s + 1, e>> : e \in DOMAIN values }
<1>0. s + 1 \in Nat
  OBVIOUS
<1>1. /\ next \in Database
      /\ next.schema = db.schema /\ next.generation = db.generation
      /\ next.edge = db.edge /\ next.objects = db.objects
      /\ next.schemaGen \in {db.schemaGen, s + 1} /\ next.fence \in {db.fence, s + 1}
      /\ (\E e \in DOMAIN values : CaveatOf[values[e]] # NoCaveat) => Fence(next) = s + 1
      /\ DOMAIN next.qualifier = DOMAIN db.qualifier \cup new
      /\ \A q \in DOMAIN next.qualifier :
           next.qualifier[q] = IF q \in new THEN values[q[2]] ELSE db.qualifier[q]
  BY <1>0, AllocateFields
<1> HIDE DEF next
<1>2. next.generation = Stamp(db.generation, {}, s + 1)
  BY <1>1 DEF Stamp, Database
<1>3. Stored(next) = Stored(db)
  BY <1>1 DEF Stored
<1>4. \A e \in Stored(next) : Ends[e] \subseteq next.objects
  BY <1>1, <1>3 DEF Sound, Coherent
<1>5. \A e \in Qualified(db) : db.edge[e] \in DOMAIN next.qualifier
  BY <1>1 DEF Sound, Owned
<1>6. ASSUME NEW q \in DOMAIN next.qualifier
      PROVE  \/ q \in DOMAIN db.qualifier /\ next.qualifier[q] = db.qualifier[q]
             \/ /\ q[1] = s + 1
                /\ CaveatOf[next.qualifier[q]] \in Declared[next.schema].caveats \cup {NoCaveat}
                /\ CaveatOf[next.qualifier[q]] = NoCaveat \/ Fence(next) = s + 1
  <2>1. CASE q \in new
    <3>1. PICK e \in DOMAIN values : q = <<s + 1, e>>
      BY <2>1
    <3>2. next.qualifier[q] = values[e]
      BY <1>1, <2>1, <3>1
    <3> QED BY <1>1, <3>1, <3>2
  <2>2. CASE q \notin new
    BY <1>1, <2>2
  <2> QED BY <2>1, <2>2
<1>7. Effect(db, next, s + 1, {}, {})
  BY <1>1, <1>2, <1>4, <1>5, <1>6 DEF Effect
<1>8. Commits(db, next, s + 1)
  <2>1. PICK edges, relations : edges = {} /\ relations = {}
    OBVIOUS
  <2>2. edges \subseteq Edge /\ relations \subseteq Relation
    BY <2>1
  <2>3. Effect(db, next, s + 1, edges, relations)
    BY <1>7, <2>1
  <2> HIDE DEF new
  <2> QED BY <2>2, <2>3, EffectCommits
<1> QED BY <1>8 DEF next

\* A deletion takes relationships and their qualifiers, and nothing else's.
LEMMA DeletionCommits ==
    ASSUME NEW db \in Database, NEW s \in Nat, NEW batch \in SUBSET Stored(db),
           Sound(db), InPast(db, s)
    PROVE  LET next == Swap(db, s + 1, [e \in batch |-> Absent], { RelationOf[e] : e \in batch })
           IN  /\ Commits(db, next, s + 1)
               /\ \A e \in Edge : next.edge[e] = IF e \in batch THEN Absent ELSE db.edge[e]
<1> DEFINE pairs     == [e \in batch |-> Absent]
           relations == { RelationOf[e] : e \in batch }
           next == Swap(db, s + 1, pairs, relations)
           old  == { db.edge[e] : e \in batch \cap Qualified(db) }
<1>0. s + 1 \in Nat
  OBVIOUS
<1>a. batch \subseteq Edge
  BY DEF Stored
<1>b. relations \subseteq Relation
  BY <1>a, EdgeAssumption
<1>c. DOMAIN pairs = batch /\ \A e \in batch : pairs[e] = Absent
  OBVIOUS
<1> HIDE DEF pairs, relations
<1>1. /\ next \in Database
      /\ next.schema = db.schema /\ next.objects = db.objects
      /\ next.schemaGen = db.schemaGen /\ next.fence = db.fence
      /\ next.generation = Stamp(db.generation, relations, s + 1)
      /\ \A e \in Edge : next.edge[e] = IF e \in DOMAIN pairs THEN pairs[e] ELSE db.edge[e]
      /\ DOMAIN next.qualifier = DOMAIN db.qualifier \ { db.edge[e] : e \in DOMAIN pairs \cap Qualified(db) }
      /\ \A q \in DOMAIN next.qualifier : next.qualifier[q] = db.qualifier[q]
  <2>1. /\ DOMAIN pairs \subseteq Edge
        /\ \A e \in DOMAIN pairs : pairs[e] \in Qualifier \cup {Plain, Absent}
    BY <1>a, <1>c
  <2> QED BY <1>0, <2>1, SwapFields
<1> HIDE DEF next
<1>2. \A e \in Edge : next.edge[e] = IF e \in batch THEN Absent ELSE db.edge[e]
  BY <1>1, <1>c
<1>3. \A e \in Stored(next) : Ends[e] \subseteq next.objects
  <2>1. Stored(next) \subseteq Stored(db)
    BY <1>2 DEF Stored
  <2> QED BY <1>1, <2>1 DEF Sound, Coherent
<1>4. ASSUME NEW e \in Qualified(db) \ batch
      PROVE  db.edge[e] \in DOMAIN next.qualifier
  <2>1. db.edge[e] \in DOMAIN db.qualifier
    BY DEF Sound, Owned
  <2>2. \A f \in batch \cap Qualified(db) : db.edge[f] # db.edge[e]
    BY OwnedDistinct DEF Sound
  <2> QED BY <1>1, <1>c, <2>1, <2>2
<1>5. \A e \in batch : e \notin Stored(next) /\ e \notin Qualified(next)
  BY <1>2, <1>a DEF Stored, Qualified
<1>6. \A e \in batch : RelationOf[e] \in relations
  BY DEF relations
<1>7. Effect(db, next, s + 1, batch, relations)
  BY <1>1, <1>2, <1>3, <1>4, <1>5, <1>6, <1>a DEF Effect
<1>8. Commits(db, next, s + 1)
  BY <1>7, <1>a, <1>b, EffectCommits
<1> QED BY <1>2, <1>8 DEF next, pairs, relations

\* Orphans can be retracted, with or without a stamp.
LEMMA OrphansRetracted ==
    ASSUME NEW db \in Database, NEW s \in Nat, NEW next \in Database,
           NEW ids \in SUBSET Orphans(db), NEW relations \in SUBSET Relation,
           Sound(db), InPast(db, s),
           next.schema = db.schema, next.objects = db.objects,
           next.schemaGen = db.schemaGen, next.fence = db.fence,
           next.generation = Stamp(db.generation, relations, s + 1),
           next.edge = db.edge,
           DOMAIN next.qualifier = DOMAIN db.qualifier \ ids,
           \A q \in DOMAIN next.qualifier : next.qualifier[q] = db.qualifier[q]
    PROVE  Commits(db, next, s + 1)
<1>1. Stored(next) = Stored(db)
  BY DEF Stored
<1>2. \A e \in Stored(next) : Ends[e] \subseteq next.objects
  BY <1>1 DEF Sound, Coherent
<1>3. ASSUME NEW e \in Qualified(db)
      PROVE  db.edge[e] \in DOMAIN next.qualifier
  <2>1. db.edge[e] \in DOMAIN db.qualifier
    BY DEF Sound, Owned
  <2>2. db.edge[e] \notin ids
    BY OrphansUnnamed
  <2> QED BY <2>1, <2>2
<1>4. Effect(db, next, s + 1, {}, relations)
  BY <1>2, <1>3 DEF Effect
<1>5. {} \subseteq Edge
  OBVIOUS
<1> QED BY <1>4, <1>5, EffectCommits

\* A safe retraction leaves the qualifiers behind.
LEMMA SafeRetractCommits ==
    ASSUME NEW db \in Database, NEW s \in Nat, NEW o,
           Sound(db), InPast(db, s)
    PROVE  LET touching == Touching(db, o) IN
           Commits(db,
                   Retracting(db, s + 1, touching, { RelationOf[e] : e \in touching }, o),
                   s + 1)
<1> DEFINE edges     == Touching(db, o)
           relations == { RelationOf[e] : e \in Touching(db, o) }
           next == Retracting(db, s + 1, edges, relations, o)
<1>0. s + 1 \in Nat
  OBVIOUS
<1>a. edges \subseteq Edge
  BY DEF Touching, Stored
<1>b. relations \subseteq Relation
  BY <1>a, EdgeAssumption
<1>c. \A e \in edges : RelationOf[e] \in relations
  OBVIOUS
<1>1. /\ next \in Database
      /\ next.schema = db.schema /\ next.objects = db.objects \ {o}
      /\ next.schemaGen = db.schemaGen /\ next.fence = db.fence
      /\ next.generation = Stamp(db.generation, relations, s + 1)
      /\ \A e \in Edge : next.edge[e] = IF e \in edges THEN Absent ELSE db.edge[e]
      /\ next.qualifier = db.qualifier
  <2> HIDE DEF edges, relations
  <2> QED BY <1>0, SafeRetractFields
<1> HIDE DEF next, relations
<1>2. ASSUME NEW e \in Stored(next)
      PROVE  Ends[e] \subseteq next.objects
  <2>1. e \in Edge /\ e \notin edges /\ e \in Stored(db)
    BY <1>1 DEF Stored
  <2>2. Ends[e] \subseteq db.objects /\ o \notin Ends[e]
    BY <2>1 DEF Sound, Coherent, Touching
  <2> QED BY <1>1, <2>2
<1>3. \A e \in edges : e \notin Stored(next) /\ e \notin Qualified(next)
  BY <1>1, <1>a DEF Stored, Qualified
<1> HIDE DEF edges
<1>4. \A e \in Qualified(db) : db.edge[e] \in DOMAIN next.qualifier
  BY <1>1 DEF Sound, Owned
<1>5. Effect(db, next, s + 1, edges, relations)
  BY <1>1, <1>2, <1>3, <1>4, <1>a, <1>c DEF Effect
<1>6. Commits(db, next, s + 1)
  BY <1>5, <1>a, <1>b, EffectCommits
<1> QED BY <1>6 DEF next, edges, relations

-----------------------------------------------------------------------------
(* Batches.                                                                *)

\* The entries of a batch name edges, operations and values there are.
WellFormed(updates) ==
    \A e \in DOMAIN updates :
        e \in Edge /\ updates[e] \in [ operation : {"create", "touch", "delete"},
                                       value     : Value \cup {Plain} ]

\* The values a batch allocates or has prepared.
LEMMA ValuesFields ==
    ASSUME NEW updates, WellFormed(updates)
    PROVE  /\ DOMAIN Values(updates) = ToQualify(updates)
           /\ ToQualify(updates) \subseteq DOMAIN updates
           /\ DOMAIN updates \subseteq Edge
           /\ \A e \in ToQualify(updates) :
                Values(updates)[e] = updates[e].value /\ updates[e].value \in Value
           /\ \A e \in DOMAIN updates : updates[e].value \in Value \cup {Plain}
BY DEF WellFormed, Values, ToQualify

\* Identities of the qualifiers a batch attaches: prepared in revision a, or
\* allocated by the transaction of revision rev itself.
Identity(a, rev, e) == << IF a = 0 THEN rev ELSE a, e >>

Source(db, rev, updates, a) ==
    IF a = 0 THEN Allocate(db, rev, Values(updates)) ELSE db

PairsOf(planned, updates, a, rev) ==
    [e \in Changed(planned, updates) |->
        CASE updates[e].operation = "delete" -> Absent
          [] e \in ToQualify(updates) -> Identity(a, rev, e)
          [] OTHER -> Plain]

PreparedOf(updates, a) == IF a = 0 THEN {} ELSE { <<a, e>> : e \in ToQualify(updates) }

\* The value whose pairs the transaction swaps has the qualifiers to attach.
LEMMA SourceFields ==
    ASSUME NEW db \in Database, NEW s \in Nat, NEW updates, NEW a \in Nat,
           Sound(db), InPast(db, s), WellFormed(updates),
           PreparedOf(updates, a) \subseteq DOMAIN db.qualifier,
           \A e \in ToQualify(updates) : a # 0 => db.qualifier[<<a, e>>] = updates[e].value
    PROVE  LET source == Source(db, s + 1, updates, a)
               id(e)  == Identity(a, s + 1, e)
           IN
           /\ source \in Database
           /\ source.schema = db.schema /\ source.generation = db.generation
           /\ source.edge = db.edge /\ source.objects = db.objects
           /\ source.schemaGen \in {db.schemaGen, s + 1} /\ source.fence \in {db.fence, s + 1}
           /\ \A q \in DOMAIN db.qualifier :
                q \in DOMAIN source.qualifier /\ source.qualifier[q] = db.qualifier[q]
           /\ \A e \in ToQualify(updates) :
                id(e) \in DOMAIN source.qualifier /\ source.qualifier[id(e)] = updates[e].value
           /\ \A q \in DOMAIN source.qualifier : q \notin DOMAIN db.qualifier =>
                \E e \in ToQualify(updates) :
                   /\ a = 0 /\ q = <<s + 1, e>> /\ source.qualifier[q] = updates[e].value
                   /\ CaveatOf[updates[e].value] # NoCaveat => Fence(source) = s + 1
<1> DEFINE source == Source(db, s + 1, updates, a)
<1>a. s + 1 \in Nat
  OBVIOUS
<1>b. /\ DOMAIN Values(updates) = ToQualify(updates)
      /\ ToQualify(updates) \subseteq Edge
      /\ \A e \in ToQualify(updates) :
           Values(updates)[e] = updates[e].value /\ updates[e].value \in Value
  BY ValuesFields
<1>1. CASE a # 0
  <2>1. source = db
    BY <1>1 DEF Source
  <2>2. \A e \in ToQualify(updates) : Identity(a, s + 1, e) = <<a, e>>
    BY <1>1 DEF Identity
  <2>3. \A e \in ToQualify(updates) : <<a, e>> \in DOMAIN db.qualifier
    BY <1>1 DEF PreparedOf
  <2> HIDE DEF source
  <2>4. \A e \in ToQualify(updates) :
          /\ Identity(a, s + 1, e) \in DOMAIN source.qualifier
          /\ source.qualifier[Identity(a, s + 1, e)] = updates[e].value
    BY <1>1, <2>1, <2>2, <2>3
  <2>5. source.schemaGen \in {db.schemaGen, s + 1} /\ source.fence \in {db.fence, s + 1}
    BY <2>1
  <2> QED BY <2>1, <2>4, <2>5 DEF source
<1>2. CASE a = 0
  <2> DEFINE values == Values(updates)
             new == { <<s + 1, e>> : e \in DOMAIN values }
  <2>1. source = Allocate(db, s + 1, values)
    BY <1>2 DEF Source
  <2> HIDE DEF values
  <2>2. DOMAIN values = ToQualify(updates) /\ \A e \in DOMAIN values : values[e] = updates[e].value
    BY <1>b DEF values
  <2>3. DOMAIN values \subseteq Edge /\ \A e \in DOMAIN values : values[e] \in Value
    BY <1>b, <2>2
  <2> HIDE DEF source
  <2>4. /\ source \in Database
        /\ source.schema = db.schema /\ source.generation = db.generation
        /\ source.edge = db.edge /\ source.objects = db.objects
        /\ source.schemaGen \in {db.schemaGen, s + 1} /\ source.fence \in {db.fence, s + 1}
        /\ (\E e \in DOMAIN values : CaveatOf[values[e]] # NoCaveat) => Fence(source) = s + 1
        /\ DOMAIN source.qualifier = DOMAIN db.qualifier \cup new
        /\ \A q \in DOMAIN source.qualifier :
             source.qualifier[q] = IF q \in new THEN values[q[2]] ELSE db.qualifier[q]
    BY <1>a, <2>1, <2>3, AllocateFields
  <2>5. ASSUME NEW q \in DOMAIN db.qualifier
        PROVE  q \in DOMAIN source.qualifier /\ source.qualifier[q] = db.qualifier[q]
    <3>1. q \in Nat \X Edge /\ q[1] <= s
      BY DEF InPast, Database, Qualifier
    <3>2. q[1] # s + 1
      BY <3>1
    <3>3. q \notin new
      BY <3>2
    <3> QED BY <2>4, <3>3
  <2>6. ASSUME NEW e \in ToQualify(updates)
        PROVE  /\ Identity(a, s + 1, e) \in DOMAIN source.qualifier
               /\ source.qualifier[Identity(a, s + 1, e)] = updates[e].value
    <3>1. Identity(a, s + 1, e) = <<s + 1, e>>
      BY <1>2 DEF Identity
    <3>2. <<s + 1, e>> \in new
      BY <2>2
    <3>3. source.qualifier[<<s + 1, e>>] = values[e]
      BY <2>4, <3>2
    <3> QED BY <2>2, <2>4, <3>1, <3>2, <3>3
  <2>7. ASSUME NEW q \in DOMAIN source.qualifier, q \notin DOMAIN db.qualifier
        PROVE  \E e \in ToQualify(updates) :
                 /\ a = 0 /\ q = <<s + 1, e>> /\ source.qualifier[q] = updates[e].value
                 /\ CaveatOf[updates[e].value] # NoCaveat => Fence(source) = s + 1
    <3>1. q \in new
      BY <2>4, <2>7
    <3>2. PICK e \in DOMAIN values : q = <<s + 1, e>>
      BY <3>1
    <3>3. source.qualifier[q] = values[e]
      BY <2>4, <3>1, <3>2
    <3> QED BY <1>2, <2>2, <2>4, <3>2, <3>3
  <2> QED BY <2>4, <2>5, <2>6, <2>7 DEF source
<1> QED BY <1>1, <1>2

\* A batch that finds its stamps unchanged commits what it planned: the edges
\* it writes carry what it asks for, whoever committed in between.
LEMMA BatchCommits ==
    ASSUME NEW p \in Database, NEW db \in Database, NEW b \in Nat, NEW s \in Nat,
           Sound(p), InPast(p, b), Sound(db), InPast(db, s), Later(p, db, b),
           NEW updates, NEW a \in Nat, WellFormed(updates), Admissible(p, updates),
           Fence(db) = Fence(p),
           \A e \in DOMAIN updates :
              db.generation[RelationOf[e]] = p.generation[RelationOf[e]] /\ Ends[e] \subseteq db.objects,
           PreparedOf(updates, a) \subseteq Orphans(p),
           PreparedOf(updates, a) \subseteq DOMAIN db.qualifier,
           \A e \in ToQualify(updates) : a # 0 => db.qualifier[<<a, e>>] = updates[e].value
    PROVE  LET next == Swap(Source(db, s + 1, updates, a), s + 1,
                            PairsOf(p, updates, a, s + 1), { RelationOf[e] : e \in DOMAIN updates })
           IN  Commits(db, next, s + 1) /\ Took(db, next, updates)
<1> DEFINE source    == Source(db, s + 1, updates, a)
           pairs     == PairsOf(p, updates, a, s + 1)
           relations == { RelationOf[e] : e \in DOMAIN updates }
           next      == Swap(source, s + 1, pairs, relations)
           edges     == Changed(p, updates)
           id(e)     == Identity(a, s + 1, e)
<1>a. s + 1 \in Nat
  OBVIOUS
<1>b. /\ ToQualify(updates) \subseteq DOMAIN updates
      /\ DOMAIN updates \subseteq Edge
      /\ \A e \in DOMAIN updates : updates[e].value \in Value \cup {Plain}
  BY ValuesFields
<1>c. relations \subseteq Relation /\ \A e \in DOMAIN updates : RelationOf[e] \in relations
  BY <1>b, EdgeAssumption
<1>d. edges \subseteq DOMAIN updates
  BY DEF Changed
<1>e. DOMAIN pairs = edges
  BY DEF PairsOf
<1>f. \A e \in edges : pairs[e] =
         IF updates[e].operation = "delete" THEN Absent
         ELSE IF e \in ToQualify(updates) THEN id(e) ELSE Plain
  BY DEF PairsOf, ToQualify
<1>g. \A e \in ToQualify(updates) : id(e) \in Qualifier /\ id(e)[2] = e /\ id(e) \notin {Plain, Absent}
  BY <1>b, ValueAssumption DEF Identity, Qualifier
<1>h. p.schema = db.schema /\ \A e \in DOMAIN updates : p.edge[e] = db.edge[e]
  BY <1>b DEF Later
<1> HIDE DEF source, pairs, relations, next, edges, id
<1>1. /\ source \in Database
      /\ source.schema = db.schema /\ source.generation = db.generation
      /\ source.edge = db.edge /\ source.objects = db.objects
      /\ source.schemaGen \in {db.schemaGen, s + 1} /\ source.fence \in {db.fence, s + 1}
      /\ \A q \in DOMAIN db.qualifier :
           q \in DOMAIN source.qualifier /\ source.qualifier[q] = db.qualifier[q]
      /\ \A e \in ToQualify(updates) :
           id(e) \in DOMAIN source.qualifier /\ source.qualifier[id(e)] = updates[e].value
      /\ \A q \in DOMAIN source.qualifier : q \notin DOMAIN db.qualifier =>
           \E e \in ToQualify(updates) :
              /\ a = 0 /\ q = <<s + 1, e>> /\ source.qualifier[q] = updates[e].value
              /\ CaveatOf[updates[e].value] # NoCaveat => Fence(source) = s + 1
  BY SourceFields DEF source, id
<1>2. Qualified(source) = Qualified(db) /\ Stored(source) = Stored(db)
  BY <1>1 DEF Qualified, Stored
<1> DEFINE old == { source.edge[e] : e \in DOMAIN pairs \cap Qualified(source) }
<1>3. /\ next \in Database
      /\ next.schema = source.schema /\ next.objects = source.objects
      /\ next.schemaGen = source.schemaGen /\ next.fence = source.fence
      /\ next.generation = Stamp(source.generation, relations, s + 1)
      /\ \A e \in Edge : next.edge[e] = IF e \in DOMAIN pairs THEN pairs[e] ELSE source.edge[e]
      /\ DOMAIN next.qualifier = DOMAIN source.qualifier \ old
      /\ \A q \in DOMAIN next.qualifier : next.qualifier[q] = source.qualifier[q]
  <2>1. /\ DOMAIN pairs \subseteq Edge
        /\ \A e \in DOMAIN pairs : pairs[e] \in Qualifier \cup {Plain, Absent}
    BY <1>b, <1>d, <1>e, <1>f, <1>g
  <2> QED BY <1>1, <1>a, <2>1, SwapFields DEF next
<1>4. \A q \in old : \E f \in edges \cap Qualified(db) : q = db.edge[f]
  BY <1>1, <1>2, <1>e
<1> HIDE DEF old
<1>5. ASSUME NEW e \in ToQualify(updates)
      PROVE  id(e) \in DOMAIN next.qualifier /\ next.qualifier[id(e)] = updates[e].value
  <2>1. id(e) \notin old
    <3> SUFFICES ASSUME id(e) \in old PROVE FALSE
      OBVIOUS
    <3>1. PICK f \in edges \cap Qualified(db) : id(e) = db.edge[f]
      BY <1>4
    <3>2. CASE a = 0
      <4>1. db.edge[f] \in DOMAIN db.qualifier
        BY DEF Sound, Owned
      <4>2. db.edge[f] \in Nat \X Edge /\ db.edge[f][1] <= s
        BY <4>1 DEF InPast, Database, Qualifier
      <4>3. db.edge[f][1] # s + 1
        BY <4>2
      <4> QED BY <3>1, <3>2, <4>3 DEF id, Identity
    <3>3. CASE a # 0
      <4>1. id(e) = <<a, e>>
        BY <3>3 DEF id, Identity
      <4>2. id(e) \in Orphans(p)
        BY <3>3, <4>1 DEF PreparedOf
      <4>3. f \in Edge /\ f \in DOMAIN updates
        BY <1>d, <1>b
      <4>4. f \in Qualified(p)
        BY <1>h, <4>3 DEF Qualified, Stored
      <4>5. p.edge[f] # id(e)
        BY <4>2, <4>4, OrphansUnnamed
      <4> QED BY <1>h, <3>1, <4>3, <4>5
    <3> QED BY <3>2, <3>3
  <2> QED BY <1>1, <1>3, <2>1
<1>6. \A e \in edges : next.edge[e] =
         IF updates[e].operation = "delete" THEN Absent
         ELSE IF e \in ToQualify(updates) THEN id(e) ELSE Plain
  BY <1>3, <1>b, <1>d, <1>e, <1>f
<1>7. \A e \in Edge \ edges : next.edge[e] = db.edge[e]
  BY <1>1, <1>3, <1>e
<1>8. ASSUME NEW e \in edges, updates[e].operation # "delete"
      PROVE  /\ e \in Stored(next) /\ ValueAt(next, e) = updates[e].value
             /\ Carries(next, e, updates[e].value)
  <2>1. e \in Edge /\ e \in DOMAIN updates
    BY <1>b, <1>d
  <2>2. CASE e \in ToQualify(updates)
    <3>1. next.edge[e] = id(e) /\ updates[e].value # Plain
      BY <1>6, <1>8, <2>2 DEF ToQualify
    <3>2. e \in Qualified(next)
      BY <1>g, <2>1, <2>2, <3>1 DEF Qualified, Stored
    <3> QED BY <1>5, <2>2, <3>1, <3>2 DEF ValueAt, Carries, Qualified
  <2>3. CASE e \notin ToQualify(updates)
    <3>1. next.edge[e] = Plain /\ updates[e].value = Plain
      BY <1>6, <1>8, <2>1, <2>3 DEF ToQualify
    <3>2. e \in Stored(next) /\ e \notin Qualified(next)
      BY <2>1, <3>1, ValueAssumption DEF Qualified, Stored
    <3> QED BY <3>1, <3>2 DEF ValueAt, Carries
  <2> QED BY <2>2, <2>3
<1>9. \A e \in edges : updates[e].operation = "delete" => e \notin Stored(next)
  BY <1>6 DEF Stored
<1>10. Effect(db, next, s + 1, edges, relations)
  <2>1. next.schema = db.schema
    BY <1>1, <1>3
  <2>2. ASSUME NEW e \in Qualified(db) \ edges
        PROVE  db.edge[e] \in DOMAIN next.qualifier
    <3>1. db.edge[e] \in DOMAIN db.qualifier
      BY DEF Sound, Owned
    <3>2. db.edge[e] \notin old
      BY <1>4, OwnedDistinct DEF Sound
    <3> QED BY <1>1, <1>3, <3>1, <3>2
  <2>3. ASSUME NEW e \in edges, e \in Qualified(next)
        PROVE  next.edge[e][2] = e /\ next.edge[e] \in DOMAIN next.qualifier
    <3>1. e \in ToQualify(updates) /\ next.edge[e] = id(e)
      BY <1>6, <2>3 DEF Qualified, Stored
    <3> QED BY <1>5, <1>g, <3>1
  <2>4. ASSUME NEW e \in edges, e \in Stored(next)
        PROVE  /\ RelationOf[e] \in Declared[next.schema].relations
               /\ CaveatOf[ValueAt(next, e)] \in Declared[next.schema].admits[e]
    <3>1. updates[e].operation # "delete"
      BY <1>9, <2>4
    <3>2. ValueAt(next, e) = updates[e].value
      BY <1>8, <3>1
    <3> QED BY <1>d, <1>h, <2>1, <3>1, <3>2 DEF Admissible
  <2>5. ASSUME NEW e \in Stored(next)
        PROVE  Ends[e] \subseteq next.objects
    <3>1. e \in Edge /\ next.objects = db.objects
      BY <1>1, <1>3 DEF Stored
    <3>2. CASE e \in edges
      BY <1>d, <3>1, <3>2
    <3>3. CASE e \notin edges
      <4>1. e \in Stored(db)
        BY <1>7, <3>1, <3>3 DEF Stored
      <4> QED BY <3>1, <4>1 DEF Sound, Coherent
    <3> QED BY <3>2, <3>3
  <2>6. ASSUME NEW q \in DOMAIN next.qualifier
        PROVE  \/ q \in DOMAIN db.qualifier /\ next.qualifier[q] = db.qualifier[q]
               \/ /\ q[1] = s + 1
                  /\ CaveatOf[next.qualifier[q]] \in Declared[next.schema].caveats \cup {NoCaveat}
                  /\ CaveatOf[next.qualifier[q]] = NoCaveat \/ Fence(next) = s + 1
    <3>1. q \in DOMAIN source.qualifier /\ next.qualifier[q] = source.qualifier[q]
      BY <1>3
    <3>2. CASE q \in DOMAIN db.qualifier
      BY <1>1, <3>1, <3>2
    <3>3. CASE q \notin DOMAIN db.qualifier
      <4>1. PICK e \in ToQualify(updates) :
              /\ q = <<s + 1, e>> /\ source.qualifier[q] = updates[e].value
              /\ CaveatOf[updates[e].value] # NoCaveat => Fence(source) = s + 1
        BY <1>1, <3>1, <3>3
      <4>2. Fence(next) = Fence(source)
        BY <1>3 DEF Fence
      <4>3. CaveatOf[updates[e].value] \in Declared[next.schema].admits[e]
        BY <1>b, <1>h, <2>1 DEF Admissible, ToQualify
      <4>4. Declared[next.schema].admits[e] \subseteq Declared[next.schema].caveats \cup {NoCaveat}
        <5>1. next.schema \in SchemaText /\ e \in Edge
          BY <1>3, <1>b DEF Database
        <5> QED BY <5>1, DeclaredAssumption
      <4> QED BY <3>1, <4>1, <4>2, <4>3, <4>4
    <3> QED BY <3>2, <3>3
  <2>7. next.schemaGen \in {db.schemaGen, s + 1} /\ next.fence \in {db.fence, s + 1}
    BY <1>1, <1>3
  <2>8. next.generation = Stamp(db.generation, relations, s + 1)
    BY <1>1, <1>3
  <2>9. \A e \in edges : RelationOf[e] \in relations
    BY <1>c, <1>d
  <2> QED BY <1>3, <1>7, <2>1, <2>2, <2>3, <2>4, <2>5, <2>6, <2>7, <2>8, <2>9 DEF Effect
<1>11. Commits(db, next, s + 1)
  <2>1. edges \subseteq Edge
    BY <1>b, <1>d
  <2> QED BY <1>10, <1>c, <2>1, EffectCommits
<1>12. Took(db, next, updates)
  <2> SUFFICES ASSUME NEW e \in Edge
               PROVE  IF e \notin DOMAIN updates THEN next.edge[e] = db.edge[e]
                      ELSE CASE updates[e].operation = "delete" -> e \notin Stored(next)
                             [] updates[e].operation = "create" ->
                                  e \notin Stored(db) /\ Carries(next, e, updates[e].value)
                             [] OTHER -> Carries(next, e, updates[e].value)
    BY DEF Took
  <2>1. CASE e \notin DOMAIN updates
    BY <1>7, <1>d, <2>1
  <2>2. CASE e \in DOMAIN updates
    <3>1. e \in Stored(db) <=> e \in Stored(p)
      BY <1>h, <2>2 DEF Stored
    <3>2. updates[e].operation = "create" => e \notin Stored(db)
      BY <2>2, <3>1 DEF Admissible
    <3>3. CASE e \in edges
      BY <1>8, <1>9, <2>2, <3>2, <3>3
    <3>4. CASE e \notin edges
      <4>1. next.edge[e] = p.edge[e]
        BY <1>7, <1>h, <2>2, <3>4
      <4>2. CASE updates[e].operation = "delete"
        <5>1. e \notin Stored(p)
          BY <2>2, <3>4, <4>2 DEF edges, Changed
        <5>2. e \notin Stored(next)
          BY <4>1, <5>1 DEF Stored
        <5> QED BY <2>2, <4>2, <5>2
      <4>3. CASE updates[e].operation # "delete"
        <5>1. e \notin ToQualify(updates) /\ p.edge[e] = Plain
          BY <2>2, <3>4, <4>3 DEF edges, Changed
        <5>2. updates[e].value = Plain
          BY <2>2, <4>3, <5>1 DEF ToQualify
        <5>3. Carries(next, e, updates[e].value)
          BY <4>1, <5>1, <5>2 DEF Carries
        <5> QED BY <2>2, <3>2, <4>3, <5>3
      <4> QED BY <4>2, <4>3
    <3> QED BY <3>3, <3>4
  <2> QED BY <2>1, <2>2
<1> QED BY <1>11, <1>12 DEF next, source, pairs, relations

-----------------------------------------------------------------------------
(* Schema replacement.                                                     *)

\* The schema changes only if what is stored - then, not when the replacement
\* was planned - is admitted by the new one.
LEMMA ReplaceCommits ==
    ASSUME NEW p \in Database, NEW db \in Database, NEW b \in Nat, NEW s \in Nat,
           Sound(p), InPast(p, b), Sound(db), InPast(db, s), Later(p, db, b),
           NEW new \in SchemaText, Replaceable(p, new), Fence(db) = Fence(p),
           \A r \in Altered(p.schema, new) : db.generation[r] = p.generation[r],
           IF GenerationFence THEN ~ InUse(db, Removed(p.schema, new))
           ELSE \A r \in Removed(p.schema, new) : db.generation[r] = p.generation[r]
    PROVE  Commits(db, Replace(db, s + 1, new), s + 1)
<1> DEFINE next    == Replace(db, s + 1, new)
           removed == Removed(db.schema, new)
           stamped == Added(db.schema, new) \cup Altered(db.schema, new)
<1>a. s + 1 \in Nat
  OBVIOUS
<1>b. db.schema \in SchemaText /\ p.schema = db.schema
  BY DEF Later, Database
<1>1. /\ next \in Database
      /\ next.schema = new /\ next.schemaGen = s + 1 /\ next.objects = db.objects
      /\ next.fence = IF GenerationFence THEN db.fence ELSE s + 1
      /\ next.edge = db.edge /\ next.qualifier = db.qualifier
      /\ \A r \in Relation : next.generation[r] =
           IF r \in removed THEN NoGeneration
           ELSE IF r \in stamped THEN s + 1 ELSE db.generation[r]
  BY <1>a, ReplaceFields
<1> HIDE DEF next
<1>2. /\ removed \subseteq Relation /\ stamped \subseteq Relation /\ removed \cap stamped = {}
  BY <1>b, DeclaredAssumption DEF Removed, Added, Altered
<1>3. /\ Stored(next) = Stored(db) /\ Qualified(next) = Qualified(db)
      /\ \A e \in Edge : ValueAt(next, e) = ValueAt(db, e)
  BY <1>1 DEF Stored, Qualified, ValueAt
<1>4. Owned(next)
  BY <1>1, <1>3 DEF Sound, Owned
<1>5. \A e \in Edge : db.generation[RelationOf[e]] = p.generation[RelationOf[e]] => p.edge[e] = db.edge[e]
  BY DEF Later
<1>6. ASSUME NEW e \in Edge, p.edge[e] = db.edge[e]
      PROVE  /\ e \in Stored(p) <=> e \in Stored(db)
             /\ ValueAt(p, e) = ValueAt(db, e)
  <2>1. (e \in Stored(p) <=> e \in Stored(db)) /\ (e \in Qualified(p) <=> e \in Qualified(db))
    BY <1>6 DEF Stored, Qualified
  <2>2. CASE e \in Qualified(db)
    <3>1. db.edge[e] \in DOMAIN db.qualifier /\ p.edge[e] \in DOMAIN p.qualifier
      BY <2>1, <2>2 DEF Sound, Owned
    <3>2. db.edge[e][1] <= b
      BY <1>6, <3>1 DEF InPast
    <3>3. db.qualifier[db.edge[e]] = p.qualifier[db.edge[e]]
      BY <3>1, <3>2 DEF Later
    <3> QED BY <1>6, <2>1, <2>2, <3>3 DEF ValueAt
  <2> QED BY <1>6, <2>1, <2>2 DEF ValueAt
<1>7. Coherent(next)
  <2>1. ASSUME NEW e \in Stored(next)
        PROVE  /\ RelationOf[e] \in Declared[new].relations
               /\ CaveatOf[ValueAt(next, e)] \in Declared[new].admits[e]
               /\ Ends[e] \subseteq next.objects
    <3>1. e \in Edge /\ e \in Stored(db)
      BY <1>3 DEF Stored
    <3>2. /\ RelationOf[e] \in Declared[db.schema].relations
          /\ CaveatOf[ValueAt(db, e)] \in Declared[db.schema].admits[e]
          /\ Ends[e] \subseteq db.objects
      BY <3>1 DEF Sound, Coherent
    <3>3. RelationOf[e] \notin Removed(p.schema, new)
      <4> SUFFICES ASSUME RelationOf[e] \in Removed(p.schema, new) PROVE FALSE
        OBVIOUS
      <4>1. CASE GenerationFence
        BY <3>1, <4>1 DEF InUse
      <4>2. CASE ~ GenerationFence
        <5>1. e \in Stored(p)
          BY <1>5, <1>6, <3>1, <4>2
        <5> QED BY <5>1 DEF Replaceable, InUse
      <4> QED BY <4>1, <4>2
    <3>4. RelationOf[e] \in Declared[new].relations
      BY <1>b, <3>2, <3>3 DEF Removed
    <3>5. CaveatOf[ValueAt(db, e)] \in Declared[new].admits[e]
      <4>1. CASE RelationOf[e] \in Altered(p.schema, new)
        <5>1. e \in Stored(p) /\ ValueAt(p, e) = ValueAt(db, e)
          BY <1>5, <1>6, <3>1, <4>1
        <5> QED BY <4>1, <5>1 DEF Replaceable
      <4>2. CASE RelationOf[e] \notin Altered(p.schema, new)
        <5>1. Declared[p.schema].admits[e] = Declared[new].admits[e]
          BY <1>b, <3>1, <3>2, <3>4, <4>2 DEF Altered
        <5> QED BY <1>b, <3>2, <5>1
      <4> QED BY <4>1, <4>2
    <3> QED BY <1>1, <1>3, <3>1, <3>2, <3>4, <3>5
  <2>2. ASSUME NEW q \in DOMAIN next.qualifier
        PROVE  CaveatOf[next.qualifier[q]] \in Declared[new].caveats \cup {NoCaveat}
    <3>1. q \in DOMAIN db.qualifier /\ next.qualifier[q] = db.qualifier[q]
      BY <1>1
    <3>2. CaveatOf[db.qualifier[q]] \in Declared[db.schema].caveats \cup {NoCaveat}
      BY <3>1 DEF Sound, Coherent
    <3>3. CASE CaveatOf[db.qualifier[q]] = NoCaveat
      BY <3>1, <3>3
    <3>4. CASE CaveatOf[db.qualifier[q]] # NoCaveat
      <4>1. q \in DOMAIN p.qualifier
        BY <3>1, <3>4 DEF Later
      <4>2. q[1] <= b
        BY <4>1 DEF InPast
      <4>3. db.qualifier[q] = p.qualifier[q]
        BY <3>1, <4>2 DEF Later
      <4>4. CaveatOf[p.qualifier[q]] \notin Declared[p.schema].caveats \ Declared[new].caveats
        BY <4>1 DEF Replaceable
      <4> QED BY <1>b, <3>1, <3>2, <3>4, <4>3, <4>4
    <3> QED BY <3>3, <3>4
  <2> QED BY <1>1, <2>1, <2>2 DEF Coherent
<1>8. Fence(next) = s + 1
  BY <1>1 DEF Fence
<1>9. InPast(next, s + 1)
  <2>1. db.fence <= s /\ db.fence \in Nat
    BY DEF InPast, Database
  <2>2. next.schemaGen <= s + 1 /\ next.fence <= s + 1
    BY <1>1, <2>1
  <2>3. ASSUME NEW n \in Relation, next.generation[n] # NoGeneration
        PROVE  next.generation[n] <= s + 1
    <3>1. next.generation[n] \in {s + 1, db.generation[n]}
      BY <1>1, <2>3
    <3>2. CASE next.generation[n] = s + 1
      BY <3>2
    <3>3. CASE next.generation[n] = db.generation[n]
      <4>1. db.generation[n] \in Nat /\ db.generation[n] <= s
        BY <2>3, <3>3 DEF InPast, Database, Version
      <4> QED BY <3>3, <4>1
    <3> QED BY <3>1, <3>2, <3>3
  <2>4. ASSUME NEW q \in DOMAIN next.qualifier
        PROVE  q[1] <= s + 1
    <3>1. q \in Nat \X Edge
      BY <1>1 DEF Database, Qualifier
    <3>2. q[1] <= s
      BY <1>1 DEF InPast
    <3> QED BY <3>1, <3>2
  <2> QED BY <2>2, <2>3, <2>4 DEF InPast
<1>10. Follows(db, next, s + 1)
  <2>1. next.schemaGen \in {db.schemaGen, s + 1} /\ next.fence \in {db.fence, s + 1}
    BY <1>1
  <2>2. \A q \in DOMAIN next.qualifier :
         q \in DOMAIN db.qualifier /\ next.qualifier[q] = db.qualifier[q]
    BY <1>1
  <2> QED BY <1>8, <2>1, <2>2 DEF Follows
<1>11. WritesSchema(db, next, s + 1, stamped, removed)
  <2>1. \A r \in Relation :
         next.generation[r] = IF r \in stamped THEN s + 1
                              ELSE IF r \in removed THEN NoGeneration ELSE db.generation[r]
    BY <1>1, <1>2
  <2> QED BY <1>1, <1>3, <2>1 DEF WritesSchema
<1>12. Stamped(db, next, s + 1)
  <2> HIDE DEF stamped, removed
  <2>1. stamped \in SUBSET Relation /\ removed \in SUBSET Relation
    BY <1>2
  <2> QED BY <1>11, <2>1 DEF Stamped
<1>13. Commits(db, next, s + 1)
  BY <1>1, <1>4, <1>7, <1>9, <1>10, <1>12 DEF Commits, Sound
<1> QED BY <1>13 DEF next

-----------------------------------------------------------------------------
(* A prepared qualifier given up.                                          *)

\* A discard whose stamps are unchanged retracts what is still an orphan.
LEMMA DiscardCommits ==
    ASSUME NEW p \in Database, NEW db \in Database, NEW b \in Nat, NEW s \in Nat,
           Sound(db), InPast(db, s), Later(p, db, b),
           NEW e \in Edge, NEW q \in Qualifier, q[2] = e,
           q \in Orphans(p), q \in DOMAIN db.qualifier, Fence(db) = Fence(p),
           NEW relations, relations = { r \in {RelationOf[e]} : r \in Declared[p.schema].relations },
           \A r \in relations : db.generation[r] = p.generation[r]
    PROVE  Commits(db, Discarding(db, s + 1, {q}, relations), s + 1)
<1> DEFINE next == Discarding(db, s + 1, {q}, relations)
<1>a. s + 1 \in Nat
  OBVIOUS
<1>1. q \in Orphans(db)
  <2> SUFFICES ASSUME NEW f \in Qualified(db), db.edge[f] = q PROVE FALSE
    BY DEF Orphans, Attached
  <2>1. f = e /\ e \in Stored(db)
    BY DEF Sound, Owned, Qualified
  <2>2. p.schema = db.schema
    BY DEF Later
  <2>3. RelationOf[e] \in relations
    BY <2>1, <2>2 DEF Sound, Coherent
  <2>4. p.edge[e] = db.edge[e]
    BY <2>3 DEF Later
  <2>5. e \in Qualified(p)
    BY <2>1, <2>4 DEF Qualified, Stored
  <2> QED BY <2>1, <2>4, <2>5, OrphansUnnamed
<1>2. relations \in SUBSET Relation
  BY EdgeAssumption
<1>3. /\ next \in Database
      /\ next.schema = db.schema /\ next.objects = db.objects
      /\ next.schemaGen = db.schemaGen /\ next.fence = db.fence
      /\ next.generation = Stamp(db.generation, relations, s + 1)
      /\ next.edge = db.edge
      /\ DOMAIN next.qualifier = DOMAIN db.qualifier \ {q}
      /\ \A i \in DOMAIN next.qualifier : next.qualifier[i] = db.qualifier[i]
  BY <1>a, RetractFields
<1> HIDE DEF next
<1>4. {q} \in SUBSET Orphans(db)
  BY <1>1
<1>5. Commits(db, next, s + 1)
  BY <1>2, <1>3, <1>4, OrphansRetracted
<1> QED BY <1>5 DEF next

\* A chunk of a sweep whose certificate is the head retracts orphans.
LEMMA SweepCommits ==
    ASSUME NEW db \in Database, NEW s \in Nat, NEW ids \in SUBSET Orphans(db),
           Sound(db), InPast(db, s)
    PROVE  Commits(db, Sweeping(db, ids), s + 1)
<1> DEFINE next == Sweeping(db, ids)
<1>1. /\ next \in Database
      /\ next.schema = db.schema /\ next.objects = db.objects
      /\ next.schemaGen = db.schemaGen /\ next.fence = db.fence
      /\ next.generation = db.generation /\ next.edge = db.edge
      /\ DOMAIN next.qualifier = DOMAIN db.qualifier \ ids
      /\ \A q \in DOMAIN next.qualifier : next.qualifier[q] = db.qualifier[q]
  BY ChunkFields
<1> HIDE DEF next
<1>2. next.generation = Stamp(db.generation, {}, s + 1)
  BY <1>1 DEF Stamp, Database
<1>3. {} \in SUBSET Relation
  OBVIOUS
<1>4. Commits(db, next, s + 1)
  BY <1>1, <1>2, <1>3, OrphansRetracted
<1> QED BY <1>4 DEF next

-----------------------------------------------------------------------------
(* The history and the frame of a step.                                    *)

\* Committed values stay as they are.
Kept == Now' \in Nat /\ Now <= Now' /\ \A r \in 1 .. Now : log'[r] = log[r]

\* The step publishes nothing, or one more value.
Publishes ==
    \/ UNCHANGED log
    \/ Now < MaxRevision /\ \E next : log' = Append(log, next) /\ Commits(Latest, next, Now + 1)

LEMMA Indices ==
    ASSUME HistInv
    PROVE  /\ Now \in Nat /\ Now >= 1 /\ Now \in 1 .. Now
           /\ Latest \in Database /\ Sound(Latest) /\ InPast(Latest, Now)
           /\ \A r \in 1 .. Now : /\ log[r] \in Database /\ Sound(log[r]) /\ InPast(log[r], r)
                                  /\ r \in Nat /\ r <= Now /\ Later(log[r], Latest, r)
<1>1. Now \in Nat /\ Now # 0
  BY EmptySeq, LenProperties DEF HistInv, Now
<1>2. Now >= 1 /\ Now \in 1 .. Now
  BY <1>1
<1>3. \A r \in 1 .. Now : log[r] \in Database
  BY ElementOfSeq DEF HistInv, Now
<1>4. \A r \in 1 .. Now : r \in Nat /\ r <= Now
  BY <1>1
<1>5. Latest = log[Now]
  BY DEF Latest, Now
<1> QED BY <1>1, <1>2, <1>3, <1>4, <1>5 DEF HistInv

LEMMA Appended ==
    ASSUME HistInv, NEW next \in Database, log' = Append(log, next)
    PROVE  /\ log' \in Seq(Database) /\ log' # <<>>
           /\ Now' = Now + 1 /\ Latest' = next /\ log'[Now + 1] = next
           /\ Kept
<1>1. log \in Seq(Database) /\ Now \in Nat
  BY Indices DEF HistInv
<1>2. /\ log' \in Seq(Database) /\ Len(log') = Len(log) + 1
      /\ \A r \in 1 .. Len(log) : log'[r] = log[r]
      /\ log'[Len(log) + 1] = next
  BY <1>1, AppendProperties
<1>3. Now' = Now + 1 /\ log'[Now + 1] = next
  BY <1>2 DEF Now
<1>4. Kept
  BY <1>1, <1>2, <1>3 DEF Kept, Now
<1>5. Latest' = next
  BY <1>2, <1>3 DEF Latest, Now
<1>6. log' # <<>>
  BY <1>1, <1>2, EmptySeq DEF Now
<1> QED BY <1>2, <1>3, <1>4, <1>5, <1>6

\* A commit keeps the history's invariant.
LEMMA HistStep ==
    ASSUME HistInv, NEW next, Commits(Latest, next, Now + 1), Publish(next)
    PROVE  /\ HistInv' /\ Kept /\ Publishes
           /\ Now' = Now + 1 /\ Latest' = next /\ log'[Now + 1] = next
<1>0. next \in Database /\ Sound(next) /\ InPast(next, Now + 1) /\ Follows(Latest, next, Now + 1)
  BY DEF Commits
<1>1. /\ log' \in Seq(Database) /\ log' # <<>>
      /\ Now' = Now + 1 /\ Latest' = next /\ log'[Now + 1] = next
      /\ Now' \in Nat /\ Now <= Now' /\ \A r \in 1 .. Now : log'[r] = log[r]
  BY <1>0, Appended DEF Kept, Publish
<1>2. /\ Now \in Nat /\ Now >= 1 /\ Now \in 1 .. Now
      /\ Latest \in Database /\ Sound(Latest) /\ InPast(Latest, Now)
      /\ \A r \in 1 .. Now : /\ log[r] \in Database /\ Sound(log[r]) /\ InPast(log[r], r)
                             /\ r \in Nat /\ r <= Now /\ Later(log[r], Latest, r)
  BY Indices
<1>3. \A r \in 1 .. Now + 1 : r \in 1 .. Now \/ r = Now + 1
  BY <1>2
<1>4. ASSUME NEW r \in 1 .. Now + 1
      PROVE  Sound(log'[r]) /\ InPast(log'[r], r)
  <2>1. CASE r = Now + 1
    BY <1>0, <1>1, <2>1
  <2>2. CASE r \in 1 .. Now
    BY <1>1, <1>2, <2>2
  <2> QED BY <1>3, <2>1, <2>2
<1>5. ASSUME NEW r \in 1 .. Now + 1, NEW t \in 1 .. Now + 1, r <= t
      PROVE  Later(log'[r], log'[t], r)
  <2>1. CASE r = Now + 1
    <3>1. t = Now + 1 /\ r \in Nat
      BY <1>2, <1>3, <1>5, <2>1
    <3> QED BY <1>0, <1>1, <2>1, <3>1, LaterRefl
  <2>2. CASE r \in 1 .. Now /\ t \in 1 .. Now
    BY <1>1, <1>5, <2>2 DEF HistInv
  <2>3. CASE r \in 1 .. Now /\ t = Now + 1
    <3>1. Later(log[r], next, r)
      BY <1>0, <1>2, <2>3, LaterStep
    <3> QED BY <1>1, <2>3, <3>1
  <2> QED BY <1>3, <2>1, <2>2, <2>3
<1>6. HistInv'
  BY <1>1, <1>4, <1>5 DEF HistInv
<1>7. Kept /\ Publishes
  BY <1>1 DEF Kept, Publish, Publishes
<1> QED BY <1>1, <1>6, <1>7

\* A step that does not commit.
LEMMA HistSame ==
    ASSUME HistInv, UNCHANGED log
    PROVE  HistInv' /\ Kept /\ Publishes /\ Now' = Now /\ Latest' = Latest
<1>1. Now' = Now /\ Latest' = Latest /\ Now \in Nat
  BY Indices DEF Now, Latest
<1> QED BY <1>1 DEF HistInv, Kept, Publishes

\* Where an operation starts and starts over.
LEMMA FirstStages ==
    /\ DOMAIN First = {"write", "prepare", "compose", "discard", "delete", "schema"}
    /\ DOMAIN Stages = DOMAIN First
    /\ First["write"] = "resolve" /\ First["prepare"] = "resolve"
    /\ First["compose"] = "compose" /\ First["discard"] = "planDiscard"
    /\ First["delete"] = "planDeletion" /\ First["schema"] = "admitSchema"
BY DEF First, Stages

\* A request in progress is one of Requests and is at a stage of its kind.
LEMMA AtStage ==
    ASSUME NEW w \in Writer, StageOK(w), op[w].pc # "idle"
    PROVE  /\ op[w].request \in Requests
           /\ Kind(w) \in {"write", "prepare", "compose", "discard", "delete", "schema"}
           /\ op[w].pc = "done" \/ op[w].outcome = "pending"
           /\ op[w].pc \in {"resolve", "prepare", "allocate"} => Kind(w) \in {"write", "prepare"}
           /\ op[w].pc = "plan" => Kind(w) = "write"
           /\ op[w].pc = "compose" => Kind(w) = "compose"
           /\ op[w].pc \in {"unchanged", "commit"} => Kind(w) \in {"write", "compose"}
           /\ op[w].pc \in {"planDiscard", "commitDiscard"} => Kind(w) = "discard"
           /\ op[w].pc \in {"planDeletion", "commitDeletion"} => Kind(w) = "delete"
           /\ op[w].pc \in {"admitSchema", "planSchema", "commitSchema"} => Kind(w) = "schema"
BY DEF StageOK, Stages

LEMMA StagesOf ==
    /\ Stages["write"] = {"resolve", "prepare", "allocate", "plan", "unchanged", "commit", "done"}
    /\ Stages["prepare"] = {"resolve", "prepare", "allocate", "done"}
    /\ Stages["compose"] = {"compose", "unchanged", "commit", "done"}
    /\ Stages["discard"] = {"planDiscard", "commitDiscard", "done"}
    /\ Stages["delete"] = {"planDeletion", "commitDeletion", "done"}
    /\ Stages["schema"] = {"admitSchema", "planSchema", "commitSchema", "done"}
BY DEF Stages

\* The batch of a request in progress.
LEMMA BatchWellFormed ==
    ASSUME NEW w \in Writer, op[w].request \in Requests,
           Kind(w) \in {"write", "prepare", "compose"}
    PROVE  WellFormed(Updates(w))
BY RequestAssumption DEF WellFormed, Updates, Kind

\* A preparation is of one qualified relationship.
LEMMA PreparesOne ==
    ASSUME NEW w \in Writer, op[w].request \in Requests, Kind(w) = "prepare"
    PROVE  DOMAIN Updates(w) # {} /\ DOMAIN Updates(w) = ToQualify(Updates(w))
<1>1. PICK e \in Edge, v \in Value :
         op[w].request.updates = [f \in {e} |-> [operation |-> "touch", value |-> v]]
  BY RequestAssumption DEF Kind
<1>2. Updates(w) = [f \in {e} |-> [operation |-> "touch", value |-> v]]
  BY <1>1 DEF Updates
<1> QED BY <1>2, ValueAssumption DEF ToQualify

\* A handle names another operation, and that one has ended.
LEMMA HandleEnded ==
    ASSUME op \in [Writer -> Operation], \A u \in Writer : StageOK(u),
           NEW w \in Writer, HandleOK(w), op[w].pc # "idle", Kind(w) \in {"compose", "discard"}
    PROVE  /\ op[w].request.handle \in Writer /\ op[w].request.handle # w
           /\ Kind(op[w].request.handle) = "prepare"
           /\ op[op[w].request.handle].outcome = "committed"
           /\ op[op[w].request.handle].pc = "done"
<1>1. op[w].request.handle \in Writer
  BY RequestAssumption DEF StageOK, Kind
<1>2. op[op[w].request.handle].request.kind = "prepare" /\ op[op[w].request.handle].outcome = "committed"
  BY DEF HandleOK
<1>3. op[op[w].request.handle].pc = "done"
  BY <1>1, <1>2 DEF StageOK
<1> QED BY <1>1, <1>2, <1>3 DEF Kind

\* Nothing an operation has established is undone by a step of another.
LEMMA OpFrame ==
    ASSUME HistInv, Kept, op \in [Writer -> Operation], \A u \in Writer : StageOK(u),
           NEW w \in Writer, OpInv(w), op'[w] = op[w],
           \A h \in Writer : op[h].pc = "done" => op'[h] = op[h]
    PROVE  OpInv(w)'
<1>1. /\ Now \in Nat /\ Now >= 1
      /\ \A r \in 1 .. Now : log[r] \in Database
  BY Indices
<1>2. /\ Now' \in Nat /\ Now <= Now' /\ \A r \in 1 .. Now : log'[r] = log[r]
      /\ \A r \in 1 .. Now : r \in 1 .. Now'
  BY <1>1 DEF Kept
<1>3. op[w] \in Operation
  OBVIOUS
<1>4. /\ op[w].basis \in Nat /\ op[w].allocated \in Nat /\ op[w].last \in Nat /\ op[w].reply \in Nat
  BY <1>3 DEF Operation
<1>5. Kind(w)' = Kind(w) /\ Updates(w)' = Updates(w)
  BY DEF Kind, Updates
<1>6. op[w].pc # "idle" /\ Kind(w) \in {"compose", "discard"} =>
        /\ op[w].request.handle \in Writer
        /\ op'[op[w].request.handle] = op[op[w].request.handle]
        /\ op'[op'[w].request.handle] = op[op[w].request.handle]
  BY HandleEnded DEF OpInv
<1>7. StageOK(w)'
  BY <1>5 DEF OpInv, StageOK
<1>8. BoundsOK(w)'
  BY <1>1, <1>2, <1>4 DEF OpInv, BoundsOK
<1>9. AllocatedOK(w)'
  <2>1. op[w].allocated # 0 => op[w].allocated \in 1 .. Now
    BY <1>1, <1>4 DEF OpInv, BoundsOK
  <2> QED BY <1>2, <1>5, <2>1 DEF OpInv, AllocatedOK
<1>10. HandleOK(w)'
  BY <1>5, <1>6 DEF OpInv, HandleOK
<1>11. PreparedOK(w)'
  BY <1>5 DEF OpInv, PreparedOK
<1>12. PlanOK(w)'
  <2>1. op[w].basis # 0 => op[w].basis \in 1 .. Now /\ log'[op[w].basis] = log[op[w].basis]
    BY <1>1, <1>2, <1>4 DEF OpInv, BoundsOK
  <2>2. op[w].pc \in {"allocate", "commit", "commitDiscard", "commitDeletion", "commitSchema"} =>
          op[w].basis # 0
    BY DEF OpInv, PlanOK
  <2>3. op[w].pc \in {"allocate", "commit"} => Admissible(log'[op[w].basis], Updates(w))
    BY <2>1, <2>2 DEF OpInv, PlanOK
  <2>4. op[w].pc = "commit" =>
          /\ Prepared(w)' \subseteq Orphans(log'[op[w].basis])
          /\ Kind(w) = "compose" => MadeFor(w)'
    <3> SUFFICES ASSUME op[w].pc = "commit"
                 PROVE  /\ Prepared(w)' \subseteq Orphans(log'[op[w].basis])
                        /\ Kind(w) = "compose" => MadeFor(w)'
      OBVIOUS
    <3>1. Allocated(w)' = Allocated(w)
      BY <1>5, <1>6 DEF Allocated
    <3>2. Prepared(w)' = Prepared(w)
      BY <1>5, <3>1 DEF Prepared
    <3>3. Kind(w) = "compose" => (MadeFor(w)' <=> MadeFor(w))
      BY <1>5, <1>6 DEF MadeFor, Updates
    <3> QED BY <2>1, <2>2, <3>2, <3>3 DEF OpInv, PlanOK
  <2>5. op[w].pc = "commitDiscard" => HandleQualifier(w)' \in Orphans(log'[op[w].basis])
    <3> SUFFICES ASSUME op[w].pc = "commitDiscard"
                 PROVE  HandleQualifier(w)' \in Orphans(log'[op[w].basis])
      OBVIOUS
    <3>1. Kind(w) = "discard"
      BY AtStage DEF OpInv
    <3>2. Handle(w)' = Handle(w)
      BY <1>6, <3>1 DEF Handle, Batch, Updates
    <3>3. HandleQualifier(w)' = HandleQualifier(w)
      BY <3>2 DEF HandleQualifier
    <3> QED BY <2>1, <2>2, <3>3 DEF OpInv, PlanOK
  <2>6. op[w].pc = "planSchema" => \E a \in 1 .. Now' : op[w].generation = log'[a].schemaGen
    <3> SUFFICES ASSUME op[w].pc = "planSchema"
                 PROVE  \E a \in 1 .. Now' : op[w].generation = log'[a].schemaGen
      OBVIOUS
    <3>1. PICK a \in 1 .. Now : op[w].generation = log[a].schemaGen
      BY DEF OpInv, PlanOK
    <3> QED BY <1>2, <3>1
  <2>7. op[w].pc = "commitSchema" =>
          /\ \E a \in 1 .. op[w].basis : op[w].generation = log'[a].schemaGen
          /\ Replaceable(log'[op[w].basis], op[w].request.schema)
    <3> SUFFICES ASSUME op[w].pc = "commitSchema"
                 PROVE  /\ \E a \in 1 .. op[w].basis : op[w].generation = log'[a].schemaGen
                        /\ Replaceable(log'[op[w].basis], op[w].request.schema)
      OBVIOUS
    <3>1. PICK a \in 1 .. op[w].basis : op[w].generation = log[a].schemaGen
      BY DEF OpInv, PlanOK
    <3>2. a \in 1 .. Now
      BY <1>1, <1>4 DEF OpInv, BoundsOK
    <3> QED BY <1>2, <2>1, <2>2, <3>1, <3>2 DEF OpInv, PlanOK
  <2> QED BY <1>5, <2>2, <2>3, <2>4, <2>5, <2>6, <2>7 DEF PlanOK
<1>13. AckOK(w)'
  <2> SUFFICES ASSUME op[w].outcome = "committed", Kind(w) \in {"write", "compose"}
               PROVE  /\ op[w].reply >= 2
                      /\ Took(log'[op[w].reply - 1], log'[op[w].reply], Updates(w))
    BY <1>5 DEF AckOK
  <2>1. op[w].reply >= 2 /\ Took(log[op[w].reply - 1], log[op[w].reply], Updates(w))
    BY DEF OpInv, AckOK
  <2>2. op[w].reply \in 1 .. Now /\ op[w].reply - 1 \in 1 .. Now
    BY <1>1, <1>4, <2>1 DEF OpInv, BoundsOK
  <2> QED BY <1>2, <2>1, <2>2
<1> QED BY <1>7, <1>8, <1>9, <1>10, <1>11, <1>12, <1>13 DEF OpInv

-----------------------------------------------------------------------------
(* Steps of one operation.                                                 *)

Others(w) == \A u \in Writer \ {w} : op'[u] = op[u]

\* What a step of w has to establish.
Establishes(w) ==
    /\ HistInv' /\ Kept /\ Publishes
    /\ op' \in [Writer -> Operation] /\ Others(w)
    /\ OpInv(w)'
    /\ sweep' \in 0 .. Now'

LEMMA StepKeepsIInv ==
    ASSUME IInv, NEW w \in Writer, op[w].pc # "done", Establishes(w)
    PROVE  IInv'
<1>1. ASSUME NEW u \in Writer
      PROVE  OpInv(u)'
  <2>1. CASE u = w
    BY <2>1 DEF Establishes
  <2>2. CASE u # w
    <3>1. op'[u] = op[u] /\ \A h \in Writer : op[h].pc = "done" => op'[h] = op[h]
      BY <2>2 DEF Establishes, Others
    <3>2. \A h \in Writer : StageOK(h)
      BY DEF IInv, OpInv
    <3> QED BY <3>1, <3>2, OpFrame DEF IInv, Establishes
  <2> QED BY <2>1, <2>2
<1> QED BY <1>1 DEF IInv, Establishes

\* What a handle names stays as it is, and so does what an operation prepared.
LEMMA KeptOfStep ==
    ASSUME IInv, Kept, NEW w \in Writer, op[w].pc \notin {"idle", "done"}, Others(w),
           op'[w].request = op[w].request
    PROVE  /\ HandleOK(w)'
           /\ op'[w].allocated \in {0, op[w].allocated} => AllocatedOK(w)'
           /\ Kind(w)' = Kind(w) /\ Updates(w)' = Updates(w)
           /\ Kind(w) \in {"compose", "discard"} =>
                op'[op[w].request.handle] = op[op[w].request.handle]
<1>1. Kind(w)' = Kind(w) /\ Updates(w)' = Updates(w)
  BY DEF Kind, Updates
<1>2. Kind(w) \in {"compose", "discard"} =>
        /\ op'[op[w].request.handle] = op[op[w].request.handle]
        /\ op'[op'[w].request.handle] = op[op[w].request.handle]
  <2>1. \A u \in Writer : StageOK(u)
    BY DEF IInv, OpInv
  <2> QED BY <2>1, HandleEnded DEF IInv, OpInv, Others
<1>3. HandleOK(w)'
  BY <1>1, <1>2 DEF IInv, OpInv, HandleOK
<1>4. ASSUME op'[w].allocated \in {0, op[w].allocated}
      PROVE  AllocatedOK(w)'
  <2>1. op[w].allocated \in Nat /\ Now \in Nat
    BY Indices DEF IInv, Operation
  <2>2. op[w].allocated # 0 => op[w].allocated \in 1 .. Now
    BY <2>1 DEF IInv, OpInv, BoundsOK
  <2>3. AllocatedOK(w)
    BY DEF IInv, OpInv
  <2>4. CASE op'[w].allocated = 0
    BY <2>4 DEF AllocatedOK
  <2>5. CASE op'[w].allocated = op[w].allocated /\ op[w].allocated # 0
    <3>1. log'[op[w].allocated] = log[op[w].allocated]
      BY <2>2, <2>5 DEF Kept
    <3> QED BY <1>1, <2>3, <2>5, <3>1 DEF AllocatedOK
  <2> QED BY <1>4, <2>4, <2>5
<1> QED BY <1>1, <1>2, <1>3, <1>4

\* An operation goes on.
LEMMA Proceeds ==
    ASSUME IInv, Kept, NEW w \in Writer, op[w].pc \notin {"idle", "done"}, Others(w),
           op'[w].request = op[w].request, op'[w].outcome = "pending",
           op'[w].pc \in Stages[Kind(w)] \ {"done"},
           op'[w].pc \in {"resolve", "prepare", "allocate"} => op'[w].allocated = 0,
           BoundsOK(w)', AllocatedOK(w)', PlanOK(w)'
    PROVE  OpInv(w)'
<1>1. HandleOK(w)' /\ Kind(w)' = Kind(w) /\ Updates(w)' = Updates(w)
  BY KeptOfStep
<1>2. StageOK(w)
  BY DEF IInv, OpInv
<1>3. op'[w].pc # "idle" /\ op'[w].pc # "done"
  BY <1>2, AtStage, StagesOf
<1>4. StageOK(w)'
  BY <1>1, <1>2, <1>3 DEF StageOK
<1>5. PreparedOK(w)' /\ AckOK(w)'
  BY DEF PreparedOK, AckOK
<1> QED BY <1>1, <1>4, <1>5 DEF OpInv

\* An operation ends.
LEMMA Finishes ==
    ASSUME IInv, Kept, NEW w \in Writer, op[w].pc \notin {"idle", "done"}, Others(w),
           op'[w].request = op[w].request, op'[w].pc = "done", op'[w].outcome # "pending",
           BoundsOK(w)', AllocatedOK(w)', PreparedOK(w)', AckOK(w)'
    PROVE  OpInv(w)'
<1>1. HandleOK(w)' /\ Kind(w)' = Kind(w) /\ Updates(w)' = Updates(w)
  BY KeptOfStep
<1>2. StageOK(w)
  BY DEF IInv, OpInv
<1>3. "done" \in Stages[Kind(w)]
  BY <1>2, AtStage, StagesOf
<1>4. StageOK(w)'
  BY <1>1, <1>2, <1>3 DEF StageOK
<1>5. PlanOK(w)'
  BY DEF PlanOK
<1> QED BY <1>1, <1>4, <1>5 DEF OpInv

LEMMA EndFields ==
    ASSUME op \in [Writer -> Operation], NEW w \in Writer,
           NEW outcome \in Outcome, NEW revision \in Nat, End(w, outcome, revision)
    PROVE  /\ op' \in [Writer -> Operation] /\ Others(w)
           /\ op'[w].request = op[w].request /\ op'[w].pc = "done" /\ op'[w].outcome = outcome
           /\ op'[w].basis = op[w].basis /\ op'[w].allocated = op[w].allocated
           /\ op'[w].last = op[w].last /\ op'[w].reply = revision
<1>1. "done" \in Pc
  BY DEF Pc
<1>2. op' = [op EXCEPT ![w].pc = "done", ![w].outcome = outcome, ![w].reply = revision]
  BY DEF End
<1>3. op[w] \in Operation /\ DOMAIN op = Writer
  OBVIOUS
<1> DEFINE next == [op[w] EXCEPT !.pc = "done", !.outcome = outcome, !.reply = revision]
<1>4. /\ next \in Operation
      /\ next.request = op[w].request /\ next.pc = "done" /\ next.outcome = outcome
      /\ next.basis = op[w].basis /\ next.allocated = op[w].allocated
      /\ next.last = op[w].last /\ next.reply = revision
  BY <1>1, <1>3 DEF Operation
<1>5. op' = [op EXCEPT ![w] = next]
  BY <1>2, <1>3
<1> HIDE DEF next
<1> QED BY <1>3, <1>4, <1>5 DEF Others

\* An operation ends without a commit of its own.
LEMMA EndsWithout ==
    ASSUME IInv, NEW w \in Writer, op[w].pc \notin {"idle", "done"}, UNCHANGED <<log, sweep>>,
           NEW outcome \in Outcome \ {"pending"}, NEW revision \in 0 .. Now,
           End(w, outcome, revision),
           outcome = "committed" => Kind(w) \in {"discard", "delete", "schema"}
    PROVE  Establishes(w)
<1>1. HistInv' /\ Kept /\ Publishes /\ Now' = Now
  BY HistSame DEF IInv
<1>2. Now \in Nat
  BY Indices DEF IInv
<1>3. op[w] \in Operation /\ op \in [Writer -> Operation]
  BY DEF IInv
<1>4. /\ op' \in [Writer -> Operation] /\ Others(w)
      /\ op'[w].request = op[w].request /\ op'[w].pc = "done" /\ op'[w].outcome = outcome
      /\ op'[w].basis = op[w].basis /\ op'[w].allocated = op[w].allocated
      /\ op'[w].last = op[w].last /\ op'[w].reply = revision
  <2>1. outcome \in Outcome /\ revision \in Nat
    BY <1>2
  <2> QED BY <1>3, <2>1, EndFields
<1>5. BoundsOK(w)'
  BY <1>1, <1>2, <1>4 DEF IInv, OpInv, BoundsOK
<1>6. AllocatedOK(w)'
  BY <1>1, <1>4, KeptOfStep
<1>7. PreparedOK(w)' /\ AckOK(w)'
  <2>1. Kind(w)' = Kind(w)
    BY <1>4 DEF Kind
  <2> QED BY <1>4, <2>1 DEF PreparedOK, AckOK
<1>8. OpInv(w)'
  BY <1>1, <1>4, <1>5, <1>6, <1>7, Finishes
<1>9. sweep' \in 0 .. Now'
  BY <1>1 DEF IInv
<1> QED BY <1>1, <1>4, <1>8, <1>9 DEF Establishes

\* A loop of a client starts over.
LEMMA Retries ==
    ASSUME IInv, NEW w \in Writer, op[w].pc \notin {"idle", "done"}, UNCHANGED <<log, sweep>>,
           Kind(w) \in {"write", "delete", "schema"}, Retry(w)
    PROVE  Establishes(w)
<1>1. HistInv' /\ Kept /\ Publishes /\ Now' = Now
  BY HistSame DEF IInv
<1>2. Now \in Nat
  BY Indices DEF IInv
<1>3. op[w] \in Operation /\ op \in [Writer -> Operation] /\ op[w].outcome = "pending"
  BY DEF IInv, OpInv, StageOK
<1>4. CASE op[w].attempt < MaxAttempts
  <2>1. /\ First[Kind(w)] \in {"resolve", "planDeletion", "admitSchema"}
        /\ First[Kind(w)] \in Stages[Kind(w)]
        /\ First[Kind(w)] \in Pc
    BY FirstStages, StagesOf DEF Pc
  <2>2. op[w].attempt + 1 \in 1 .. MaxAttempts
    BY <1>3, <1>4, BoundsAssumption DEF Operation
  <2>3. op' = [op EXCEPT ![w].pc = First[Kind(w)], ![w].attempt = @ + 1, ![w].allocated = 0]
    BY <1>4 DEF Retry
  <2>4. /\ op' \in [Writer -> Operation] /\ Others(w)
        /\ op'[w].request = op[w].request /\ op'[w].pc = First[Kind(w)]
        /\ op'[w].outcome = "pending"
        /\ op'[w].basis = op[w].basis /\ op'[w].allocated = 0
        /\ op'[w].last = op[w].last /\ op'[w].reply = op[w].reply
    BY <1>3, <2>1, <2>2, <2>3 DEF Operation, Others
  <2>5. BoundsOK(w)'
    BY <1>1, <1>2, <2>4 DEF IInv, OpInv, BoundsOK
  <2>6. AllocatedOK(w)'
    BY <2>4 DEF AllocatedOK
  <2>7. PlanOK(w)'
    BY <2>1, <2>4 DEF PlanOK
  <2>8. OpInv(w)'
    BY <1>1, <2>1, <2>4, <2>5, <2>6, <2>7, Proceeds
  <2>9. sweep' \in 0 .. Now'
    BY <1>1 DEF IInv
  <2> QED BY <1>1, <2>4, <2>8, <2>9 DEF Establishes
<1>5. CASE ~ (op[w].attempt < MaxAttempts)
  <2>1. End(w, "contention", 0) /\ 0 \in 0 .. Now
    BY <1>2, <1>5 DEF Retry
  <2> QED BY <2>1, EndsWithout DEF Outcome
<1> QED BY <1>4, <1>5

LEMMA Contends ==
    ASSUME IInv, NEW w \in Writer, op[w].pc \notin {"idle", "done"}, NEW guard, Contend(w, guard)
    PROVE  Establishes(w)
<1>1. Now \in Nat /\ 0 \in 0 .. Now
  BY Indices DEF IInv
<1>2. CASE guard \in Retried /\ Kind(w) \in {"write", "delete", "schema"}
  BY <1>2, Retries DEF Contend
<1>3. CASE ~ (guard \in Retried /\ Kind(w) \in {"write", "delete", "schema"})
  <2>1. End(w, "aborted", 0) /\ UNCHANGED <<log, sweep>>
    BY <1>3 DEF Contend
  <2> QED BY <1>1, <2>1, EndsWithout DEF Outcome
<1> QED BY <1>2, <1>3

\* An operation ends with the commit of next.
LEMMA EndsWith ==
    ASSUME IInv, NEW w \in Writer, op[w].pc \notin {"idle", "done"}, Kind(w) # "prepare",
           NEW next, Commits(Latest, next, Now + 1), Publish(next), UNCHANGED sweep,
           End(w, "committed", Now + 1),
           Kind(w) \in {"write", "compose"} => Took(Latest, next, Updates(w))
    PROVE  Establishes(w)
<1>1. HistInv' /\ Kept /\ Publishes /\ Now' = Now + 1 /\ Latest' = next /\ log'[Now + 1] = next
  BY HistStep DEF IInv
<1>2. Now \in Nat /\ Now >= 1 /\ Latest = log[Now] /\ Now \in 1 .. Now
  <2>1. Latest = log[Now]
    BY DEF Latest, Now
  <2> QED BY <2>1, Indices DEF IInv
<1>3. op[w] \in Operation /\ op \in [Writer -> Operation]
  BY DEF IInv
<1>4. /\ op' \in [Writer -> Operation] /\ Others(w)
      /\ op'[w].request = op[w].request /\ op'[w].pc = "done" /\ op'[w].outcome = "committed"
      /\ op'[w].basis = op[w].basis /\ op'[w].allocated = op[w].allocated
      /\ op'[w].last = op[w].last /\ op'[w].reply = Now + 1
  <2>1. "committed" \in Outcome /\ Now + 1 \in Nat
    BY <1>2 DEF Outcome
  <2> QED BY <1>3, <2>1, EndFields
<1>5. BoundsOK(w)'
  <2>1. /\ op[w].basis \in Nat /\ op[w].allocated \in Nat /\ op[w].last \in Nat
        /\ op[w].basis <= Now /\ op[w].allocated <= Now /\ op[w].last <= Now
    BY <1>3 DEF IInv, OpInv, BoundsOK, Operation
  <2> QED BY <1>1, <1>2, <1>4, <2>1 DEF BoundsOK
<1>6. AllocatedOK(w)' /\ Kind(w)' = Kind(w) /\ Updates(w)' = Updates(w)
  BY <1>1, <1>4, KeptOfStep
<1>7. PreparedOK(w)'
  BY <1>6 DEF PreparedOK
<1>8. AckOK(w)'
  <2> SUFFICES ASSUME Kind(w) \in {"write", "compose"}
               PROVE  op'[w].reply >= 2 /\ Took(log'[op'[w].reply - 1], log'[op'[w].reply], Updates(w))
    BY <1>6 DEF AckOK
  <2>1. op'[w].reply >= 2 /\ op'[w].reply - 1 = Now
    BY <1>2, <1>4
  <2>2. log'[Now] = Latest
    BY <1>1, <1>2 DEF Kept
  <2> QED BY <1>1, <1>4, <2>1, <2>2
<1>9. OpInv(w)'
  BY <1>1, <1>4, <1>5, <1>6, <1>7, <1>8, Finishes
<1>10. sweep' \in 0 .. Now'
  BY <1>1, <1>2 DEF IInv
<1> QED BY <1>1, <1>4, <1>9, <1>10 DEF Establishes

\* What every step of w reads of the invariant.
LEMMA StepFacts ==
    ASSUME IInv, NEW w \in Writer
    PROVE  /\ HistInv /\ OpInv(w) /\ StageOK(w) /\ BoundsOK(w) /\ PlanOK(w)
           /\ op \in [Writer -> Operation] /\ op[w] \in Operation
           /\ Now \in Nat /\ Now >= 1 /\ 0 \in 0 .. Now /\ Now \in 0 .. Now /\ Now \in 1 .. Now
           /\ Latest = log[Now] /\ Latest \in Database
           /\ op[w].pc # "done" => op[w].outcome = "pending"
           /\ op[w].basis # 0 => op[w].basis \in 1 .. Now
<1>1. OpInv(w)
  BY DEF IInv
<1>2. op[w].basis \in Nat /\ op[w].basis <= Now /\ Now \in Nat
  BY <1>1, Indices DEF IInv, OpInv, BoundsOK, Operation
<1>3. op[w].basis # 0 => op[w].basis \in 1 .. Now
  BY <1>2
<1>4. Latest = log[Now]
  BY DEF Latest, Now
<1> QED BY <1>1, <1>2, <1>3, <1>4, Indices DEF IInv, OpInv, StageOK

-----------------------------------------------------------------------------
(* Actions.                                                                *)

LEMMA BeginStep ==
    ASSUME IInv, NEW w \in Writer, Begin(w)
    PROVE  Establishes(w)
<1>1. HistInv' /\ Kept /\ Publishes /\ Now' = Now /\ sweep' = sweep
  BY HistSame DEF IInv, Begin
<1>2. PICK request \in Requests :
        /\ request.kind \in DOMAIN First
        /\ request.kind \in {"compose", "discard"} =>
             /\ op[request.handle].request.kind = "prepare"
             /\ op[request.handle].outcome = "committed"
        /\ op' = [op EXCEPT ![w].pc = First[request.kind], ![w].request = request]
  BY DEF Begin
<1>3. op[w].pc = "idle" /\ op[w].outcome = "pending" /\ op[w].allocated = 0
  BY StepFacts DEF Begin, StageOK
<1>4. /\ request.kind \in DOMAIN Stages
      /\ First[request.kind] \in Stages[request.kind] \ {"done", "idle"}
      /\ First[request.kind] \in {"resolve", "compose", "planDiscard", "planDeletion", "admitSchema"}
      /\ First[request.kind] \in Pc
  BY <1>2, FirstStages, StagesOf DEF Pc
<1>5. /\ op' \in [Writer -> Operation] /\ Others(w)
      /\ op'[w].request = request /\ op'[w].pc = First[request.kind]
      /\ op'[w].outcome = op[w].outcome /\ op'[w].basis = op[w].basis
      /\ op'[w].allocated = op[w].allocated /\ op'[w].last = op[w].last
      /\ op'[w].reply = op[w].reply
  BY <1>2, <1>4, StepFacts DEF Operation, Others
<1>6. Kind(w)' = request.kind
  BY <1>5 DEF Kind
<1>7. StageOK(w)'
  BY <1>3, <1>4, <1>5, <1>6 DEF StageOK
<1>8. BoundsOK(w)'
  BY <1>1, <1>5, StepFacts DEF BoundsOK
<1>9. HandleOK(w)'
  <2> SUFFICES ASSUME request.kind \in {"compose", "discard"}
               PROVE  /\ op'[request.handle].request.kind = "prepare"
                      /\ op'[request.handle].outcome = "committed"
    BY <1>5, <1>6 DEF HandleOK
  <2>1. request.handle \in Writer
    BY RequestAssumption
  <2>2. request.handle # w
    BY <1>2, <1>3
  <2> QED BY <1>2, <1>5, <2>1, <2>2 DEF Others
<1>10. AllocatedOK(w)' /\ PreparedOK(w)' /\ AckOK(w)'
  BY <1>3, <1>5 DEF AllocatedOK, PreparedOK, AckOK
<1>11. PlanOK(w)'
  BY <1>4, <1>5 DEF PlanOK
<1>12. OpInv(w)'
  BY <1>7, <1>8, <1>9, <1>10, <1>11 DEF OpInv
<1>13. sweep' \in 0 .. Now'
  BY <1>1 DEF IInv
<1> QED BY <1>1, <1>5, <1>12, <1>13 DEF Establishes

LEMMA ResolveStep ==
    ASSUME IInv, NEW w \in Writer, Resolve(w)
    PROVE  Establishes(w)
<1>1. op[w].pc = "resolve" /\ UNCHANGED <<log, sweep>>
  BY DEF Resolve
<1>2. CASE ~ Resolvable(Latest, Updates(w))
  <2>1. End(w, "refused", 0)
    BY <1>2 DEF Resolve
  <2> QED BY <1>1, <2>1, StepFacts, EndsWithout DEF Outcome
<1>3. CASE Resolvable(Latest, Updates(w))
  <2>1. op' = [op EXCEPT ![w].pc = "prepare", ![w].generation = Latest.schemaGen]
    BY <1>3 DEF Resolve
  <2>2. HistInv' /\ Kept /\ Publishes /\ Now' = Now
    BY <1>1, HistSame DEF IInv
  <2>3. Latest.schemaGen \in Nat /\ "prepare" \in Pc
    BY StepFacts DEF Database, Pc
  <2>4. /\ op' \in [Writer -> Operation] /\ Others(w)
        /\ op'[w].request = op[w].request /\ op'[w].pc = "prepare"
        /\ op'[w].outcome = op[w].outcome /\ op'[w].basis = op[w].basis
        /\ op'[w].allocated = op[w].allocated /\ op'[w].last = op[w].last
        /\ op'[w].reply = op[w].reply
    <3> DEFINE o == [op[w] EXCEPT !.pc = "prepare", !.generation = Latest.schemaGen]
    <3>1. op[w] \in Operation /\ op \in [Writer -> Operation]
      BY StepFacts
    <3>2. /\ o \in Operation
          /\ o.request = op[w].request /\ o.pc = "prepare"
          /\ o.outcome = op[w].outcome /\ o.basis = op[w].basis
          /\ o.allocated = op[w].allocated /\ o.last = op[w].last
          /\ o.reply = op[w].reply
      BY <2>3, <3>1 DEF Operation
    <3>3. op' = [op EXCEPT ![w] = o]
      BY <2>1
    <3> HIDE DEF o
    <3>4. op' \in [Writer -> Operation] /\ Others(w) /\ op'[w] = o
      BY <3>1, <3>2, <3>3 DEF Others
    <3> QED
      BY <3>2, <3>4
  <2>5. op[w].allocated = 0 /\ "prepare" \in Stages[Kind(w)] \ {"done"}
    BY <1>1, StepFacts, AtStage, StagesOf DEF StageOK
  <2>6. BoundsOK(w)'
    BY <2>2, <2>4, StepFacts DEF BoundsOK
  <2>7. AllocatedOK(w)' /\ PlanOK(w)'
    BY <2>4, <2>5 DEF AllocatedOK, PlanOK
  <2>8. OpInv(w)'
    BY <1>1, <2>2, <2>4, <2>5, <2>6, <2>7, StepFacts, Proceeds
  <2>9. sweep' \in 0 .. Now'
    BY <1>1, <2>2 DEF IInv
  <2> QED BY <2>2, <2>4, <2>8, <2>9 DEF Establishes
<1> QED BY <1>2, <1>3

\* The operation w has planned on revision r and goes to the stage given.
Planned(w, r, stage) ==
    /\ op' \in [Writer -> Operation] /\ Others(w)
    /\ op'[w].request = op[w].request /\ op'[w].pc = stage
    /\ op'[w].outcome = op[w].outcome /\ op'[w].basis = r
    /\ op'[w].generation = op[w].generation
    /\ op'[w].allocated = op[w].allocated /\ op'[w].last = op[w].last
    /\ op'[w].reply = op[w].reply

LEMMA PlannedFields ==
    ASSUME op \in [Writer -> Operation], NEW w \in Writer, NEW r \in Nat, NEW stage \in Pc,
           \/ op' = [op EXCEPT ![w].basis = r, ![w].pc = stage]
           \/ op' = [op EXCEPT ![w].pc = stage, ![w].basis = r]
    PROVE  Planned(w, r, stage)
<1>1. CASE op' = [op EXCEPT ![w].basis = r, ![w].pc = stage]
  <2>1. op[w] \in Operation
    OBVIOUS
  <2>2. op'[w] \in Operation /\ op'[w].request = op[w].request /\ op'[w].pc = stage
    BY <1>1, <2>1 DEF Operation
  <2>3. /\ op'[w].outcome = op[w].outcome /\ op'[w].basis = r
        /\ op'[w].generation = op[w].generation
    BY <1>1, <2>1 DEF Operation
  <2>4. /\ op'[w].allocated = op[w].allocated /\ op'[w].last = op[w].last
        /\ op'[w].reply = op[w].reply
    BY <1>1, <2>1 DEF Operation
  <2>5. op' \in [Writer -> Operation] /\ Others(w)
    <3>1. DOMAIN op' = Writer /\ op' = [u \in Writer |-> op'[u]]
      BY <1>1
    <3>2. \A u \in Writer \ {w} : op'[u] = op[u]
      BY <1>1
    <3>3. \A u \in Writer : op'[u] \in Operation
      BY <2>2, <3>2
    <3> QED BY <3>1, <3>2, <3>3 DEF Others
  <2> QED BY <2>2, <2>3, <2>4, <2>5 DEF Planned
<1>2. CASE op' = [op EXCEPT ![w].pc = stage, ![w].basis = r]
  <2>1. op[w] \in Operation
    OBVIOUS
  <2>2. op'[w] \in Operation /\ op'[w].request = op[w].request /\ op'[w].pc = stage
    BY <1>2, <2>1 DEF Operation
  <2>3. /\ op'[w].outcome = op[w].outcome /\ op'[w].basis = r
        /\ op'[w].generation = op[w].generation
    BY <1>2, <2>1 DEF Operation
  <2>4. /\ op'[w].allocated = op[w].allocated /\ op'[w].last = op[w].last
        /\ op'[w].reply = op[w].reply
    BY <1>2, <2>1 DEF Operation
  <2>5. op' \in [Writer -> Operation] /\ Others(w)
    <3>1. DOMAIN op' = Writer /\ op' = [u \in Writer |-> op'[u]]
      BY <1>2
    <3>2. \A u \in Writer \ {w} : op'[u] = op[u]
      BY <1>2
    <3>3. \A u \in Writer : op'[u] \in Operation
      BY <2>2, <3>2
    <3> QED BY <3>1, <3>2, <3>3 DEF Others
  <2> QED BY <2>2, <2>3, <2>4, <2>5 DEF Planned
<1> QED BY <1>1, <1>2

LEMMA Plans ==
    ASSUME IInv, NEW w \in Writer, op[w].pc \notin {"idle", "done"}, UNCHANGED <<log, sweep>>,
           NEW r \in 1 .. Now, NEW stage \in Stages[Kind(w)] \ {"done"},
           Planned(w, r, stage), stage \notin {"resolve", "prepare", "planSchema"},
           stage = "allocate" => op[w].allocated = 0,
           stage \in {"allocate", "commit"} => Admissible(log[r], Updates(w)),
           stage = "commit" => /\ Prepared(w) \subseteq Orphans(log[r])
                               /\ Kind(w) = "compose" => MadeFor(w),
           stage = "commitDiscard" => Kind(w) = "discard" /\ HandleQualifier(w) \in Orphans(log[r]),
           stage = "commitSchema" =>
             /\ \E a \in 1 .. r : op[w].generation = log[a].schemaGen
             /\ Replaceable(log[r], op[w].request.schema)
    PROVE  Establishes(w)
<1>1. HistInv' /\ Kept /\ Publishes /\ Now' = Now
  BY HistSame DEF IInv
<1>2. /\ op' \in [Writer -> Operation] /\ Others(w)
      /\ op'[w].request = op[w].request /\ op'[w].pc = stage
      /\ op'[w].outcome = "pending" /\ op'[w].basis = r
      /\ op'[w].generation = op[w].generation
      /\ op'[w].allocated = op[w].allocated /\ op'[w].last = op[w].last
      /\ op'[w].reply = op[w].reply
  BY StepFacts DEF Planned
<1>3. /\ AllocatedOK(w)' /\ Kind(w)' = Kind(w) /\ Updates(w)' = Updates(w)
      /\ Kind(w) \in {"compose", "discard"} =>
           op'[op[w].request.handle] = op[op[w].request.handle]
  BY <1>1, <1>2, KeptOfStep
<1>4. BoundsOK(w)'
  <2>1. r <= Now
    BY StepFacts
  <2> QED BY <1>1, <1>2, <2>1, StepFacts DEF BoundsOK
<1>5. PlanOK(w)'
  <2>1. op'[w].basis # 0
    BY <1>2, StepFacts
  <2>2. log' = log
    OBVIOUS
  <2>3. stage = "commit" => /\ Prepared(w)' \subseteq Orphans(log[r])
                            /\ Kind(w) = "compose" => MadeFor(w)'
    <3>1. Allocated(w)' = Allocated(w)
      BY <1>2, <1>3 DEF Allocated
    <3>2. Prepared(w)' = Prepared(w)
      BY <1>3, <3>1 DEF Prepared
    <3>3. Kind(w) = "compose" => (MadeFor(w)' <=> MadeFor(w))
      <4> SUFFICES ASSUME Kind(w) = "compose" PROVE MadeFor(w)' <=> MadeFor(w)
        OBVIOUS
      <4>1. op'[w].request = op[w].request /\ Updates(w)' = Updates(w)
        BY <1>2, <1>3, Zenon
      <4>2. Updates(op[w].request.handle)' = Updates(op[w].request.handle)
        BY <1>3, <4>1 DEF Updates
      <4> QED
        BY <4>1, <4>2 DEF MadeFor
    <3> QED BY <3>2, <3>3
  <2>4. stage = "commitDiscard" => HandleQualifier(w)' \in Orphans(log[r])
    <3>1. Kind(w) = "discard" => Handle(w)' = Handle(w)
      BY <1>2, <1>3 DEF Handle, Batch, Updates
    <3> QED BY <3>1 DEF HandleQualifier
  <2> QED BY <1>2, <1>3, <2>1, <2>2, <2>3, <2>4 DEF PlanOK
<1>6. OpInv(w)'
  BY <1>1, <1>2, <1>3, <1>4, <1>5, Proceeds
<1>7. sweep' \in 0 .. Now'
  BY <1>1 DEF IInv
<1> QED BY <1>1, <1>2, <1>6, <1>7 DEF Establishes

LEMMA PrepareStep ==
    ASSUME IInv, NEW w \in Writer, Prepare(w)
    PROVE  Establishes(w)
<1>1. op[w].pc = "prepare" /\ UNCHANGED <<log, sweep>>
  BY DEF Prepare
<1>2. Kind(w) \in {"write", "prepare"} /\ op[w].request \in Requests /\ op[w].allocated = 0
  BY <1>1, StepFacts, AtStage DEF StageOK
<1>3. CASE op[w].generation # Latest.schemaGen
  <2>1. IF Kind(w) = "write" THEN Retry(w) ELSE End(w, "aborted", 0)
    BY <1>3 DEF Prepare
  <2>2. CASE Kind(w) = "write"
    BY <1>1, <2>1, <2>2, Retries
  <2>3. CASE Kind(w) # "write"
    BY <1>1, <2>1, <2>3, StepFacts, EndsWithout DEF Outcome
  <2> QED BY <2>2, <2>3
<1>4. CASE op[w].generation = Latest.schemaGen /\ ~ Admissible(Latest, Updates(w))
  <2>1. End(w, "refused", 0)
    BY <1>4 DEF Prepare
  <2> QED BY <1>1, <2>1, StepFacts, EndsWithout DEF Outcome
<1>5. CASE op[w].generation = Latest.schemaGen /\ Admissible(Latest, Updates(w))
  <2> DEFINE stage == IF ToQualify(Updates(w)) # {} /\ (Prepares \/ Kind(w) = "prepare")
                      THEN "allocate" ELSE "plan"
  <2>1. op' = [op EXCEPT ![w].basis = Now, ![w].pc = stage]
    BY <1>5 DEF Prepare
  <2>2. Kind(w) = "prepare" => stage = "allocate"
    BY <1>2, PreparesOne
  <2>3. stage \in {"allocate", "plan"}
    OBVIOUS
  <2> HIDE DEF stage
  <2>4. stage \in Stages[Kind(w)] \ {"done"} /\ stage \in Pc
    BY <1>2, <2>2, <2>3, StagesOf DEF Pc
  <2>5. Planned(w, Now, stage)
    BY <2>1, <2>4, StepFacts, PlannedFields
  <2> QED BY <1>1, <1>2, <1>5, <2>3, <2>4, <2>5, StepFacts, Plans
<1> QED BY <1>3, <1>4, <1>5

LEMMA PlanStep ==
    ASSUME IInv, NEW w \in Writer, Plan(w)
    PROVE  Establishes(w)
<1>1. op[w].pc = "plan" /\ UNCHANGED <<log, sweep>>
  BY DEF Plan
<1>2. Kind(w) = "write"
  BY <1>1, StepFacts, AtStage
<1>3. CASE op[w].generation # Latest.schemaGen
  BY <1>1, <1>2, <1>3, Retries DEF Plan
<1>4. CASE /\ op[w].generation = Latest.schemaGen
           /\ ~ Admissible(Latest, Updates(w)) \/ ~ Prepared(w) \subseteq Orphans(Latest)
  <2>1. End(w, "refused", 0)
    BY <1>4 DEF Plan
  <2> QED BY <1>1, <2>1, StepFacts, EndsWithout DEF Outcome
<1>5. CASE /\ op[w].generation = Latest.schemaGen
           /\ Admissible(Latest, Updates(w)) /\ Prepared(w) \subseteq Orphans(Latest)
  <2> DEFINE stage == IF Changed(Latest, Updates(w)) = {} THEN "unchanged" ELSE "commit"
  <2>1. op' = [op EXCEPT ![w].basis = Now, ![w].pc = stage]
    BY <1>5 DEF Plan
  <2>2. stage \in {"unchanged", "commit"}
    OBVIOUS
  <2> HIDE DEF stage
  <2>3. stage \in Stages[Kind(w)] \ {"done"} /\ stage \in Pc
    BY <1>2, <2>2, StagesOf DEF Pc
  <2>4. Planned(w, Now, stage)
    BY <2>1, <2>3, StepFacts, PlannedFields
  <2> QED BY <1>1, <1>2, <1>5, <2>2, <2>3, <2>4, StepFacts, Plans
<1> QED BY <1>3, <1>4, <1>5

LEMMA ReplyUnchangedStep ==
    ASSUME IInv, NEW w \in Writer, ReplyUnchanged(w)
    PROVE  Establishes(w)
BY StepFacts, EndsWithout DEF ReplyUnchanged, Outcome

LEMMA ComposeStep ==
    ASSUME IInv, NEW w \in Writer, Compose(w)
    PROVE  Establishes(w)
<1>1. op[w].pc = "compose" /\ UNCHANGED <<log, sweep>>
  BY DEF Compose
<1>2. Kind(w) = "compose"
  BY <1>1, StepFacts, AtStage
<1>3. PICK r \in 1 .. Now :
         IF /\ Resolvable(log[r], Updates(w))
            /\ Admissible(log[r], Updates(w))
            /\ MadeFor(w)
            /\ op[op[w].request.handle].generation = log[r].schemaGen
            /\ Prepared(w) \subseteq Orphans(log[r])
         THEN op' = [op EXCEPT ![w].basis = r, ![w].pc =
                        IF Changed(log[r], Updates(w)) = {} THEN "unchanged" ELSE "commit"]
         ELSE End(w, "refused", 0)
  BY DEF Compose
<1>4. CASE End(w, "refused", 0)
  BY <1>1, <1>4, StepFacts, EndsWithout DEF Outcome
<1>5. CASE /\ Admissible(log[r], Updates(w)) /\ MadeFor(w)
           /\ Prepared(w) \subseteq Orphans(log[r])
           /\ op' = [op EXCEPT ![w].basis = r, ![w].pc =
                        IF Changed(log[r], Updates(w)) = {} THEN "unchanged" ELSE "commit"]
  <2> DEFINE stage == IF Changed(log[r], Updates(w)) = {} THEN "unchanged" ELSE "commit"
  <2>1. op' = [op EXCEPT ![w].basis = r, ![w].pc = stage]
    BY <1>5
  <2>2. stage \in {"unchanged", "commit"}
    OBVIOUS
  <2> HIDE DEF stage
  <2>3. stage \in Stages[Kind(w)] \ {"done"} /\ stage \in Pc
    BY <1>2, <2>2, StagesOf DEF Pc
  <2>4. Planned(w, r, stage)
    <3>1. r \in Nat
      BY StepFacts
    <3> QED BY <2>1, <2>3, <3>1, StepFacts, PlannedFields
  <2> QED BY <1>1, <1>5, <2>2, <2>3, <2>4, Plans
<1> QED BY <1>3, <1>4, <1>5

\* What the guards of the transaction say of the value it is applied to.
LEMMA PlannedOn ==
    ASSUME IInv, NEW w \in Writer, op[w].basis # 0
    PROVE  LET planned == log[op[w].basis] IN
           /\ op[w].basis \in Nat /\ op[w].basis <= Now
           /\ planned \in Database /\ Sound(planned) /\ InPast(planned, op[w].basis)
           /\ Later(planned, Latest, op[w].basis)
           /\ Latest \in Database /\ Sound(Latest) /\ InPast(Latest, Now)
BY StepFacts, Indices

LEMMA AllocateQualifiersStep ==
    ASSUME IInv, NEW w \in Writer, AllocateQualifiers(w)
    PROVE  Establishes(w)
<1> DEFINE updates == Updates(w)
           values  == Values(updates)
           next    == Allocate(Latest, Now + 1, values)
           planned == log[op[w].basis]
           gen     == IF GenerationFence THEN next.schemaGen ELSE op[w].generation
           mine    == [op EXCEPT ![w].allocated = Now + 1, ![w].generation = gen]
<1>1. /\ op[w].pc = "allocate" /\ Fence(Latest) = Fence(planned) /\ UNCHANGED sweep
      /\ Publish(next)
      /\ op' = IF Kind(w) = "prepare"
               THEN [mine EXCEPT ![w].pc = "done", ![w].outcome = "committed",
                                 ![w].reply = Now + 1]
               ELSE [mine EXCEPT ![w].pc = "plan"]
  BY DEF AllocateQualifiers
<1>2. Kind(w) \in {"write", "prepare"} /\ op[w].request \in Requests
  BY <1>1, StepFacts, AtStage
<1>3. WellFormed(updates)
  BY <1>2, BatchWellFormed
<1>4. op[w].basis # 0 /\ Admissible(planned, updates)
  BY <1>1, StepFacts DEF PlanOK
<1>5. /\ planned \in Database /\ Later(planned, Latest, op[w].basis)
      /\ Latest \in Database /\ Sound(Latest) /\ InPast(Latest, Now)
  BY <1>4, PlannedOn
<1>6. /\ DOMAIN values = ToQualify(updates) /\ DOMAIN values \subseteq Edge
      /\ \A e \in DOMAIN values : values[e] \in Value /\ values[e] = updates[e].value
  BY <1>3, ValuesFields
<1>7. ASSUME NEW e \in DOMAIN values
      PROVE  CaveatOf[values[e]] \in Declared[Latest.schema].caveats \cup {NoCaveat}
  <2>1. planned.schema = Latest.schema /\ Latest.schema \in SchemaText /\ e \in Edge
    BY <1>1, <1>5, <1>6 DEF Later, Database
  <2>2. CaveatOf[values[e]] \in Declared[planned.schema].admits[e]
    BY <1>4, <1>6 DEF Admissible, ToQualify
  <2>3. Declared[Latest.schema].admits[e] \subseteq Declared[Latest.schema].caveats \cup {NoCaveat}
    BY <2>1, DeclaredAssumption
  <2> QED BY <2>1, <2>2, <2>3
<1> HIDE DEF values, planned, updates
<1>8. Now \in Nat /\ Now + 1 \in Nat
  BY StepFacts
<1>9. Commits(Latest, next, Now + 1)
  BY <1>5, <1>6, <1>7, <1>8, AllocateCommits
<1>10. /\ next \in Database
       /\ DOMAIN next.qualifier = DOMAIN Latest.qualifier \cup { <<Now + 1, e>> : e \in DOMAIN values }
       /\ \A q \in DOMAIN next.qualifier :
            next.qualifier[q] = IF q \in { <<Now + 1, e>> : e \in DOMAIN values }
                                THEN values[q[2]] ELSE Latest.qualifier[q]
  BY <1>5, <1>6, <1>8, AllocateFields
<1> HIDE DEF next
<1>11. HistInv' /\ Kept /\ Publishes /\ Now' = Now + 1 /\ log'[Now + 1] = next
  BY <1>1, <1>9, HistStep, StepFacts
<1>12. gen \in Nat
  BY <1>10, StepFacts DEF Database, Operation
<1> HIDE DEF gen
<1>13. /\ mine \in [Writer -> Operation] /\ \A u \in Writer \ {w} : mine[u] = op[u]
       /\ mine[w].request = op[w].request /\ mine[w].allocated = Now + 1
       /\ mine[w].outcome = op[w].outcome
       /\ mine[w].basis = op[w].basis /\ mine[w].last = op[w].last /\ mine[w].reply = op[w].reply
  BY <1>8, <1>12, StepFacts DEF Operation
<1> HIDE DEF mine
<1>14. ASSUME op'[w].request = op[w].request, op'[w].allocated = Now + 1
       PROVE  AllocatedOK(w)'
  <2>1. Kind(w)' = Kind(w) /\ Updates(w)' = updates
    BY <1>14 DEF Kind, Updates, updates
  <2>2. ASSUME NEW e \in ToQualify(updates)
        PROVE  /\ <<Now + 1, e>> \in DOMAIN next.qualifier
               /\ next.qualifier[<<Now + 1, e>>] = updates[e].value
    <3>1. <<Now + 1, e>> \in { <<Now + 1, f>> : f \in DOMAIN values } /\ e \in DOMAIN values
      BY <1>6
    <3>2. next.qualifier[<<Now + 1, e>>] = values[e]
      BY <1>10, <3>1
    <3> QED BY <1>6, <1>10, <3>1, <3>2
  <2> QED BY <1>2, <1>11, <1>14, <2>1, <2>2 DEF AllocatedOK
<1>15. sweep' \in 0 .. Now'
  BY <1>1, <1>8, <1>11 DEF IInv
<1>16. /\ op[w].basis \in Nat /\ op[w].last \in Nat /\ op[w].reply \in Nat
       /\ op[w].basis <= Now /\ op[w].last <= Now /\ op[w].reply <= Now
       /\ op[w].outcome = "pending"
  BY <1>1, StepFacts DEF Operation, BoundsOK
<1>17. CASE Kind(w) = "prepare"
  <2>1. op' = [mine EXCEPT ![w].pc = "done", ![w].outcome = "committed", ![w].reply = Now + 1]
    BY <1>1, <1>17
  <2>2. "done" \in Pc /\ "committed" \in Outcome
    BY DEF Pc, Outcome
  <2>3. /\ op' \in [Writer -> Operation] /\ Others(w)
        /\ op'[w].request = op[w].request /\ op'[w].allocated = Now + 1
        /\ op'[w].pc = "done" /\ op'[w].outcome = "committed"
        /\ op'[w].basis = op[w].basis /\ op'[w].last = op[w].last /\ op'[w].reply = Now + 1
    <3>1. mine[w] \in Operation
      BY <1>13
    <3>2. /\ op'[w] \in Operation /\ op'[w].request = mine[w].request
          /\ op'[w].pc = "done" /\ op'[w].outcome = "committed"
      BY <1>8, <1>13, <2>1, <2>2, <3>1 DEF Operation
    <3>3. /\ op'[w].allocated = mine[w].allocated /\ op'[w].basis = mine[w].basis
          /\ op'[w].last = mine[w].last /\ op'[w].reply = Now + 1
      BY <1>8, <1>13, <2>1, <2>2, <3>1 DEF Operation
    <3>4. op' \in [Writer -> Operation] /\ Others(w)
      <4>1. DOMAIN op' = Writer /\ op' = [u \in Writer |-> op'[u]]
        BY <1>13, <2>1
      <4>2. \A u \in Writer \ {w} : op'[u] = op[u] /\ op[u] \in Operation
        BY <1>13, <2>1, StepFacts
      <4>3. \A u \in Writer : op'[u] \in Operation
        BY <3>2, <4>2
      <4> QED BY <4>1, <4>2, <4>3 DEF Others
    <3> QED BY <1>13, <3>2, <3>3, <3>4
  <2>4. BoundsOK(w)'
    BY <1>8, <1>11, <1>16, <2>3 DEF BoundsOK
  <2>5. PreparedOK(w)' /\ AckOK(w)'
    <3>1. Kind(w)' = "prepare" /\ op'[w].allocated # 0
      BY <1>8, <1>17, <2>3 DEF Kind
    <3> QED BY <3>1 DEF PreparedOK, AckOK
  <2>6. OpInv(w)'
    BY <1>1, <1>11, <1>14, <2>3, <2>4, <2>5, Finishes
  <2> QED BY <1>11, <1>15, <2>3, <2>6 DEF Establishes
<1>18. CASE Kind(w) # "prepare"
  <2>1. op' = [mine EXCEPT ![w].pc = "plan"]
    BY <1>1, <1>18
  <2>2. "plan" \in Pc /\ "plan" \in Stages[Kind(w)] \ {"done"}
    BY <1>2, <1>18, StagesOf DEF Pc
  <2>3. /\ op' \in [Writer -> Operation] /\ Others(w)
        /\ op'[w].request = op[w].request /\ op'[w].allocated = Now + 1
        /\ op'[w].pc = "plan" /\ op'[w].outcome = "pending"
        /\ op'[w].basis = op[w].basis /\ op'[w].last = op[w].last /\ op'[w].reply = op[w].reply
    BY <1>13, <1>16, <2>1, <2>2 DEF Operation, Others
  <2>4. BoundsOK(w)'
    BY <1>8, <1>11, <1>16, <2>3 DEF BoundsOK
  <2>5. PlanOK(w)'
    BY <2>3 DEF PlanOK
  <2>6. OpInv(w)'
    BY <1>1, <1>11, <1>14, <2>2, <2>3, <2>4, <2>5, Proceeds
  <2> QED BY <1>11, <1>15, <2>3, <2>6 DEF Establishes
<1> QED BY <1>17, <1>18

LEMMA AllocationLostStep ==
    ASSUME IInv, NEW w \in Writer, AllocationLost(w)
    PROVE  Establishes(w)
BY Contends DEF AllocationLost

-----------------------------------------------------------------------------
(* Publication of a batch.                                                 *)

\* What the qualifiers of a planned batch carry, now as when they were made.
LEMMA PreparedValues ==
    ASSUME IInv, NEW w \in Writer, op[w].pc = "commit", Prepared(w) \subseteq DOMAIN Latest.qualifier
    PROVE  /\ Allocated(w) \in Nat
           /\ \A e \in ToQualify(Updates(w)) :
                Allocated(w) # 0 => Latest.qualifier[<<Allocated(w), e>>] = Updates(w)[e].value
<1>1. Kind(w) \in {"write", "compose"} /\ op[w].request \in Requests
  BY StepFacts, AtStage
<1>2. WellFormed(Updates(w))
  BY <1>1, BatchWellFormed
<1> DEFINE h == IF Kind(w) = "compose" THEN op[w].request.handle ELSE w
<1>3. h \in Writer /\ Allocated(w) = op[h].allocated
  <2>1. CASE Kind(w) = "compose"
    <3>1. \A u \in Writer : StageOK(u)
      BY DEF IInv, OpInv
    <3>2. op[w].request.handle \in Writer
      BY <2>1, <3>1, HandleEnded DEF IInv, OpInv
    <3> QED BY <2>1, <3>2 DEF Allocated
  <2>2. CASE Kind(w) # "compose"
    BY <2>2 DEF Allocated
  <2> QED BY <2>1, <2>2
<1>4. \A e \in ToQualify(Updates(w)) :
         e \in ToQualify(Updates(h)) /\ Updates(h)[e].value = Updates(w)[e].value
  <2>1. CASE Kind(w) = "compose"
    <3>1. MadeFor(w)
      BY <2>1, StepFacts DEF PlanOK
    <3>2. \A u \in Writer : StageOK(u)
      BY DEF IInv, OpInv
    <3>3. Kind(h) = "prepare" /\ op[h].request \in Requests
      BY <1>3, <2>1, <3>2, HandleEnded DEF IInv, OpInv, StageOK
    <3>4. DOMAIN Updates(h) = ToQualify(Updates(h))
      <4> HIDE DEF h
      <4> QED BY <1>3, <3>3, PreparesOne
    <3> QED BY <2>1, <3>1, <3>4 DEF MadeFor
  <2>2. CASE Kind(w) # "compose"
    BY <2>2
  <2> QED BY <2>1, <2>2
<1> HIDE DEF h
<1>5. op[h].allocated \in Nat /\ op[h].allocated <= Now /\ AllocatedOK(h)
  BY <1>3 DEF IInv, OpInv, BoundsOK, Operation
<1>6. ASSUME NEW e \in ToQualify(Updates(w)), Allocated(w) # 0
      PROVE  Latest.qualifier[<<Allocated(w), e>>] = Updates(w)[e].value
  <2> DEFINE a == Allocated(w)
             q == <<a, e>>
  <2>1. a \in 1 .. Now
    BY <1>3, <1>5, <1>6, StepFacts
  <2>2. q \in DOMAIN log[a].qualifier /\ log[a].qualifier[q] = Updates(w)[e].value
    BY <1>3, <1>4, <1>5, <1>6 DEF AllocatedOK
  <2>3. q \in DOMAIN Latest.qualifier
    BY <1>6 DEF Prepared
  <2>4. Later(log[a], Latest, a)
    BY <2>1, Indices DEF IInv
  <2>5. q[1] <= a
    BY <2>1, StepFacts
  <2>6. Latest.qualifier[q] = log[a].qualifier[q]
    BY <2>3, <2>4, <2>5 DEF Later
  <2> QED BY <2>2, <2>6
<1> QED BY <1>3, <1>5, <1>6

LEMMA CommitStep ==
    ASSUME IInv, NEW w \in Writer, Commit(w)
    PROVE  Establishes(w)
<1> DEFINE updates == Updates(w)
           planned == log[op[w].basis]
           a       == Allocated(w)
           source  == IF a = 0 THEN Allocate(Latest, Now + 1, Values(updates)) ELSE Latest
           next    == Swap(source, Now + 1, Pairs(w, Now + 1), { RelationOf[e] : e \in Batch(w) })
<1>1. /\ op[w].pc = "commit" /\ GuardsHold(w) /\ FactsHold(w) /\ UNCHANGED sweep
      /\ Publish(next) /\ End(w, "committed", Now + 1)
  BY DEF Commit
<1>2. Kind(w) \in {"write", "compose"} /\ op[w].request \in Requests
  BY <1>1, StepFacts, AtStage
<1>3. WellFormed(updates)
  BY <1>2, BatchWellFormed
<1>4. op[w].basis # 0 /\ Admissible(planned, updates) /\ Prepared(w) \subseteq Orphans(planned)
  BY <1>1, StepFacts DEF PlanOK
<1>5. /\ op[w].basis \in Nat /\ op[w].basis <= Now /\ Now \in Nat
      /\ planned \in Database /\ Sound(planned) /\ InPast(planned, op[w].basis)
      /\ Later(planned, Latest, op[w].basis)
      /\ Latest \in Database /\ Sound(Latest) /\ InPast(Latest, Now)
  BY <1>4, PlannedOn, StepFacts
<1>6. /\ Fence(Latest) = Fence(planned)
      /\ \A e \in DOMAIN updates :
           /\ Latest.generation[RelationOf[e]] = planned.generation[RelationOf[e]]
           /\ Ends[e] \subseteq Latest.objects
  BY <1>1 DEF GuardsHold, Batch
<1>7. Prepared(w) \subseteq DOMAIN Latest.qualifier
  BY <1>1 DEF FactsHold
<1>8. /\ a \in Nat
      /\ \A e \in ToQualify(updates) :
           a # 0 => Latest.qualifier[<<a, e>>] = updates[e].value
  BY <1>1, <1>7, PreparedValues
<1>9. Prepared(w) = PreparedOf(updates, a)
  BY DEF Prepared, PreparedOf
<1>10. Pairs(w, Now + 1) = PairsOf(planned, updates, a, Now + 1)
  BY DEF Pairs, PairsOf, Identity
<1>11. source = Source(Latest, Now + 1, updates, a)
  BY DEF Source
<1>12. Batch(w) = DOMAIN updates
  BY DEF Batch
<1> HIDE DEF updates, planned, a
<1>13. /\ Commits(Latest, next, Now + 1)
       /\ Took(Latest, next, updates)
  BY <1>3, <1>4, <1>5, <1>6, <1>7, <1>8, <1>9, <1>10, <1>11, <1>12, BatchCommits
<1> QED BY <1>1, <1>2, <1>13, EndsWith DEF updates

LEMMA CommitLostStep ==
    ASSUME IInv, NEW w \in Writer, CommitLost(w) \/ FactsLost(w)
    PROVE  Establishes(w)
<1>1. CASE CommitLost(w)
  BY <1>1, Contends DEF CommitLost
<1>2. CASE FactsLost(w)
  BY <1>2, StepFacts, EndsWithout DEF FactsLost, Outcome
<1> QED BY <1>1, <1>2

-----------------------------------------------------------------------------
(* Discards and deletions.                                                 *)

\* A handle names one edge, and its qualifier was allocated for it.
LEMMA HandleFields ==
    ASSUME IInv, NEW w \in Writer, op[w].pc # "idle", Kind(w) = "discard"
    PROVE  /\ Handle(w).edge \in Edge
           /\ HandleQualifier(w) \in Qualifier /\ HandleQualifier(w)[2] = Handle(w).edge
<1> DEFINE h == op[w].request.handle
<1>1. \A u \in Writer : StageOK(u)
  BY DEF IInv, OpInv
<1>2. h \in Writer /\ Kind(h) = "prepare" /\ op[h].pc = "done"
  BY <1>1, HandleEnded DEF IInv, OpInv
<1>3. op[h].request \in Requests /\ op[h].allocated \in Nat
  BY <1>1, <1>2 DEF StageOK, IInv, Operation
<1>4. Batch(h) # {} /\ Batch(h) \subseteq Edge
  <2> HIDE DEF h
  <2>1. DOMAIN Updates(h) # {}
    BY <1>2, <1>3, PreparesOne
  <2>2. WellFormed(Updates(h))
    BY <1>2, <1>3, BatchWellFormed
  <2> QED BY <2>1, <2>2, ValuesFields DEF Batch
<1>5. Handle(w) = [ edge |-> CHOOSE e \in Batch(h) : TRUE, allocated |-> op[h].allocated ]
  BY DEF Handle
<1>6. Handle(w).edge \in Batch(h) /\ Handle(w).allocated = op[h].allocated
  BY <1>4, <1>5
<1> HIDE DEF h
<1> QED BY <1>3, <1>4, <1>6 DEF HandleQualifier, Qualifier

LEMMA PlanDiscardStep ==
    ASSUME IInv, NEW w \in Writer, PlanDiscard(w)
    PROVE  Establishes(w)
<1>1. op[w].pc = "planDiscard" /\ UNCHANGED <<log, sweep>>
  BY DEF PlanDiscard
<1>2. Kind(w) = "discard"
  BY <1>1, StepFacts, AtStage
<1>3. CASE HandleQualifier(w) \notin Orphans(Latest)
  <2>1. End(w, "refused", 0)
    BY <1>3 DEF PlanDiscard
  <2> QED BY <1>1, <2>1, StepFacts, EndsWithout DEF Outcome
<1>4. CASE HandleQualifier(w) \in Orphans(Latest)
  <2>1. op' = [op EXCEPT ![w].pc = "commitDiscard", ![w].basis = Now]
    BY <1>4 DEF PlanDiscard
  <2>2. "commitDiscard" \in Stages[Kind(w)] \ {"done"} /\ "commitDiscard" \in Pc
    BY <1>2, StagesOf DEF Pc
  <2>3. Planned(w, Now, "commitDiscard")
    BY <2>1, <2>2, StepFacts, PlannedFields
  <2> QED BY <1>1, <1>2, <1>4, <2>2, <2>3, StepFacts, Plans
<1> QED BY <1>3, <1>4

LEMMA CommitDiscardStep ==
    ASSUME IInv, NEW w \in Writer, CommitDiscard(w)
    PROVE  Establishes(w)
<1> DEFINE planned   == log[op[w].basis]
           q         == HandleQualifier(w)
           relations == Discarded(w, planned)
           next      == Discarding(Latest, Now + 1, {q}, relations)
<1>1. /\ op[w].pc = "commitDiscard" /\ UNCHANGED sweep
      /\ Fence(Latest) = Fence(planned)
      /\ \A r \in relations : Latest.generation[r] = planned.generation[r]
      /\ q \in DOMAIN Latest.qualifier
      /\ End(w, "committed", Now + 1)
  BY DEF CommitDiscard, DiscardGuardsHold
<1>2. Publish(next)
  BY DEF CommitDiscard, Discarding
<1>3. Kind(w) = "discard"
  BY <1>1, StepFacts, AtStage
<1>4. Handle(w).edge \in Edge /\ q \in Qualifier /\ q[2] = Handle(w).edge
  BY <1>1, <1>3, HandleFields
<1>5. op[w].basis # 0 /\ q \in Orphans(planned)
  BY <1>1, StepFacts DEF PlanOK
<1>6. /\ op[w].basis \in Nat /\ Now \in Nat
      /\ planned \in Database
      /\ Later(planned, Latest, op[w].basis)
      /\ Latest \in Database /\ Sound(Latest) /\ InPast(Latest, Now)
  BY <1>5, PlannedOn, StepFacts
<1>7. relations = { r \in {RelationOf[Handle(w).edge]} : r \in Declared[planned.schema].relations }
  BY DEF Discarded
<1> HIDE DEF planned, q, relations
<1>8. Commits(Latest, next, Now + 1)
  BY <1>1, <1>4, <1>5, <1>6, <1>7, DiscardCommits
<1> QED BY <1>1, <1>2, <1>3, <1>8, EndsWith

LEMMA DiscardLostStep ==
    ASSUME IInv, NEW w \in Writer, DiscardLost(w)
    PROVE  Establishes(w)
BY StepFacts, EndsWithout DEF DiscardLost, Outcome

LEMMA PlanDeletionStep ==
    ASSUME IInv, NEW w \in Writer, PlanDeletion(w)
    PROVE  Establishes(w)
<1>1. op[w].pc = "planDeletion" /\ UNCHANGED <<log, sweep>>
  BY DEF PlanDeletion
<1>2. Kind(w) = "delete"
  BY <1>1, StepFacts, AtStage
<1>3. CASE Touching(Latest, Target(w)) = {}
  <2> DEFINE revision == IF op[w].last = 0 THEN Now ELSE op[w].last
  <2>1. End(w, "committed", revision)
    BY <1>3 DEF PlanDeletion
  <2>2. revision \in 0 .. Now
    BY StepFacts DEF BoundsOK, Operation
  <2> HIDE DEF revision
  <2> QED BY <1>1, <1>2, <2>1, <2>2, EndsWithout DEF Outcome
<1>4. CASE Touching(Latest, Target(w)) # {}
  <2>1. op' = [op EXCEPT ![w].pc = "commitDeletion", ![w].basis = Now]
    BY <1>4 DEF PlanDeletion
  <2>2. "commitDeletion" \in Stages[Kind(w)] \ {"done"} /\ "commitDeletion" \in Pc
    BY <1>2, StagesOf DEF Pc
  <2>3. Planned(w, Now, "commitDeletion")
    BY <2>1, <2>2, StepFacts, PlannedFields
  <2> QED BY <1>1, <2>2, <2>3, StepFacts, Plans
<1> QED BY <1>3, <1>4

\* One batch of a deletion commits on the head it was planned on.
LEMMA DeletionBatch ==
    ASSUME IInv, NEW w \in Writer, op[w].pc = "commitDeletion", HeadUnchanged(op[w].basis),
           NEW batch \in Fitting(Touching(log[op[w].basis], Target(w)))
    PROVE  LET next == Swap(Latest, Now + 1, [e \in batch |-> Absent], { RelationOf[e] : e \in batch })
           IN  /\ log[op[w].basis] = Latest
               /\ batch \subseteq Touching(Latest, Target(w))
               /\ Commits(Latest, next, Now + 1)
               /\ \A e \in Edge : next.edge[e] = IF e \in batch THEN Absent ELSE Latest.edge[e]
<1>1. log[op[w].basis] = Latest
  BY StepFacts DEF HeadUnchanged
<1>2. batch \subseteq Touching(Latest, Target(w))
  BY <1>1 DEF Fitting
<1>3. batch \in SUBSET Stored(Latest)
  BY <1>2 DEF Touching
<1>4. Latest \in Database /\ Now \in Nat /\ Sound(Latest) /\ InPast(Latest, Now)
  BY Indices DEF IInv
<1> QED BY <1>1, <1>2, <1>3, <1>4, DeletionCommits

LEMMA CommitDeletionStep ==
    ASSUME IInv, NEW w \in Writer, CommitDeletion(w)
    PROVE  Establishes(w)
<1> DEFINE planned == Touching(log[op[w].basis], Target(w))
           next(batch) ==
              Swap(Latest, Now + 1, [e \in batch |-> Absent], { RelationOf[e] : e \in batch })
<1>1. op[w].pc = "commitDeletion" /\ HeadUnchanged(op[w].basis) /\ UNCHANGED sweep
  BY DEF CommitDeletion
<1>2. PICK batch \in Fitting(planned) :
        /\ Publish(next(batch))
        /\ IF batch = planned
           THEN End(w, "committed", Now + 1)
           ELSE op' = [op EXCEPT ![w].pc = "planDeletion", ![w].attempt = 1, ![w].last = Now + 1]
  BY DEF CommitDeletion
<1>3. Commits(Latest, next(batch), Now + 1)
  BY <1>1, DeletionBatch
<1>4. Kind(w) = "delete"
  BY <1>1, StepFacts, AtStage
<1> HIDE DEF planned, next
<1>5. CASE batch = planned
  BY <1>1, <1>2, <1>3, <1>4, <1>5, EndsWith
<1>6. CASE batch # planned
  <2>1. op' = [op EXCEPT ![w].pc = "planDeletion", ![w].attempt = 1, ![w].last = Now + 1]
    BY <1>2, <1>6
  <2>2. HistInv' /\ Kept /\ Publishes /\ Now' = Now + 1
    BY <1>2, <1>3, HistStep, StepFacts
  <2>3. "planDeletion" \in Pc /\ "planDeletion" \in Stages[Kind(w)] \ {"done"}
    BY <1>4, StagesOf DEF Pc
  <2>4. 1 \in 1 .. MaxAttempts /\ Now + 1 \in Nat
    BY BoundsAssumption, StepFacts
  <2>5. op[w] \in Operation
    BY StepFacts
  <2>6. op'[w] = [op[w] EXCEPT !.pc = "planDeletion", !.attempt = 1, !.last = Now + 1]
    BY <2>1, StepFacts
  <2>7. /\ op'[w] \in Operation
        /\ op'[w].request = op[w].request /\ op'[w].pc = "planDeletion"
        /\ op'[w].outcome = op[w].outcome /\ op'[w].basis = op[w].basis
    BY <2>3, <2>4, <2>5, <2>6 DEF Operation
  <2>8. /\ op'[w].allocated = op[w].allocated /\ op'[w].last = Now + 1
        /\ op'[w].reply = op[w].reply
    BY <2>3, <2>4, <2>5, <2>6 DEF Operation
  <2>9. op' \in [Writer -> Operation] /\ Others(w)
    <3>1. DOMAIN op' = Writer /\ op' = [u \in Writer |-> op'[u]]
      BY <2>1, StepFacts
    <3>2. \A u \in Writer \ {w} : op'[u] = op[u]
      BY <2>1, StepFacts
    <3>3. \A u \in Writer : op'[u] \in Operation
      BY <2>7, <3>2, StepFacts
    <3> QED BY <3>1, <3>2, <3>3 DEF Others
  <2>10. op'[w].outcome = "pending"
    BY <1>1, <2>7, StepFacts
  <2>11. BoundsOK(w)'
    <3>1. /\ op[w].basis \in Nat /\ op[w].allocated \in Nat /\ op[w].reply \in Nat
          /\ op[w].basis <= Now /\ op[w].allocated <= Now /\ op[w].reply <= Now
      BY StepFacts DEF BoundsOK, Operation
    <3> QED BY <2>2, <2>7, <2>8, <3>1, StepFacts DEF BoundsOK
  <2>12. AllocatedOK(w)'
    BY <1>1, <2>2, <2>7, <2>8, <2>9, KeptOfStep
  <2>13. PlanOK(w)'
    BY <2>7 DEF PlanOK
  <2>14. OpInv(w)'
    BY <1>1, <2>2, <2>3, <2>7, <2>8, <2>9, <2>10, <2>11, <2>12, <2>13, Proceeds
  <2>15. sweep' \in 0 .. Now'
    BY <1>1, <2>2, StepFacts DEF IInv
  <2> QED BY <2>2, <2>9, <2>14, <2>15 DEF Establishes
<1> QED BY <1>5, <1>6

LEMMA DeletionLostStep ==
    ASSUME IInv, NEW w \in Writer, DeletionLost(w)
    PROVE  Establishes(w)
BY Contends DEF DeletionLost

-----------------------------------------------------------------------------
(* Schema replacements.                                                    *)

LEMMA AdmitSchemaStep ==
    ASSUME IInv, NEW w \in Writer, AdmitSchema(w)
    PROVE  Establishes(w)
<1>1. /\ op[w].pc = "admitSchema" /\ UNCHANGED <<log, sweep>>
      /\ op' = [op EXCEPT ![w].pc = "planSchema", ![w].generation = Latest.schemaGen]
  BY DEF AdmitSchema
<1>2. HistInv' /\ Kept /\ Publishes /\ Now' = Now
  BY <1>1, HistSame DEF IInv
<1>3. Latest.schemaGen \in Nat /\ "planSchema" \in Pc
  BY StepFacts DEF Database, Pc
<1>4. /\ op' \in [Writer -> Operation] /\ Others(w)
      /\ op'[w].request = op[w].request /\ op'[w].pc = "planSchema"
      /\ op'[w].outcome = op[w].outcome /\ op'[w].basis = op[w].basis
      /\ op'[w].generation = Latest.schemaGen
      /\ op'[w].allocated = op[w].allocated /\ op'[w].last = op[w].last
      /\ op'[w].reply = op[w].reply
  BY <1>1, <1>3, StepFacts, SMTT(30) DEF Operation, Others
<1>5. Kind(w) = "schema" /\ "planSchema" \in Stages[Kind(w)] \ {"done"}
  BY <1>1, StepFacts, AtStage, StagesOf
<1>6. BoundsOK(w)'
  BY <1>2, <1>4, StepFacts DEF BoundsOK
<1>7. AllocatedOK(w)'
  BY <1>1, <1>2, <1>4, KeptOfStep
<1>8. \E a \in 1 .. Now' : op'[w].generation = log'[a].schemaGen
  BY <1>1, <1>2, <1>4, StepFacts
<1>9. PlanOK(w)'
  BY <1>4, <1>8 DEF PlanOK
<1>10. OpInv(w)'
  BY <1>1, <1>2, <1>4, <1>5, <1>6, <1>7, <1>9, StepFacts, Proceeds
<1>11. sweep' \in 0 .. Now'
  BY <1>1, <1>2 DEF IInv
<1> QED BY <1>2, <1>4, <1>10, <1>11 DEF Establishes

LEMMA PlanSchemaStep ==
    ASSUME IInv, NEW w \in Writer, PlanSchema(w)
    PROVE  Establishes(w)
<1> DEFINE new == op[w].request.schema
<1>1. op[w].pc = "planSchema" /\ UNCHANGED <<log, sweep>>
  BY DEF PlanSchema
<1>2. Kind(w) = "schema"
  BY <1>1, StepFacts, AtStage
<1>3. CASE ~ Replaceable(Latest, new)
  <2>1. End(w, "refused", 0)
    BY <1>3 DEF PlanSchema
  <2> QED BY <1>1, <2>1, StepFacts, EndsWithout DEF Outcome
<1>4. CASE Replaceable(Latest, new) /\ new = Latest.schema
  <2>1. End(w, "unchanged", Now)
    BY <1>4 DEF PlanSchema
  <2> QED BY <1>1, <2>1, StepFacts, EndsWithout DEF Outcome
<1>5. CASE Replaceable(Latest, new) /\ new # Latest.schema
  <2>1. op' = [op EXCEPT ![w].pc = "commitSchema", ![w].basis = Now]
    BY <1>5 DEF PlanSchema
  <2>2. "commitSchema" \in Stages[Kind(w)] \ {"done"} /\ "commitSchema" \in Pc
    BY <1>2, StagesOf DEF Pc
  <2>3. Planned(w, Now, "commitSchema")
    BY <2>1, <2>2, StepFacts, PlannedFields
  <2>4. \E a \in 1 .. Now : op[w].generation = log[a].schemaGen
    BY <1>1, StepFacts DEF PlanOK
  <2> QED BY <1>1, <1>5, <2>2, <2>3, <2>4, StepFacts, Plans
<1> QED BY <1>3, <1>4, <1>5

\* What a schema writer read when it began is no later than its plan, so on
\* Datomic too the fence of the plan is the fence the transaction finds.
LEMMA SchemaFence ==
    ASSUME IInv, NEW w \in Writer, op[w].pc = "commitSchema", SchemaGuardsHold(w)
    PROVE  Fence(Latest) = Fence(log[op[w].basis])
<1> DEFINE planned == log[op[w].basis]
<1>1. op[w].basis # 0 /\ \E a \in 1 .. op[w].basis : op[w].generation = log[a].schemaGen
  BY StepFacts DEF PlanOK
<1>2. op[w].basis \in 1 .. Now /\ Now \in Nat
  BY <1>1, StepFacts
<1>3. PICK a \in 1 .. op[w].basis : op[w].generation = log[a].schemaGen
  BY <1>1
<1>4. a \in 1 .. Now /\ a <= op[w].basis
  BY <1>2
<1>5. Later(log[a], planned, a) /\ Later(planned, Latest, op[w].basis)
  BY <1>1, <1>2, <1>4, PlannedOn DEF IInv, HistInv
<1>6. log[a].schemaGen \in Nat /\ planned.schemaGen \in Nat /\ Latest.schemaGen \in Nat
  BY <1>2, <1>4, StepFacts, Indices DEF IInv, Database
<1>7. GenerationFence => Latest.schemaGen = planned.schemaGen
  BY <1>3, <1>5, <1>6, SMTT(30) DEF SchemaGuardsHold, Later
<1>8. ~ GenerationFence => Latest.fence = planned.fence
  BY DEF SchemaGuardsHold
<1> QED BY <1>7, <1>8 DEF Fence

LEMMA CommitSchemaStep ==
    ASSUME IInv, NEW w \in Writer, CommitSchema(w)
    PROVE  Establishes(w)
<1> DEFINE planned == log[op[w].basis]
           new     == op[w].request.schema
           next    == Replace(Latest, Now + 1, new)
<1>1. /\ op[w].pc = "commitSchema" /\ Unused(w) /\ SchemaGuardsHold(w) /\ UNCHANGED sweep
      /\ Publish(next) /\ End(w, "committed", Now + 1)
  BY DEF CommitSchema
<1>2. Kind(w) = "schema" /\ op[w].request \in Requests
  BY <1>1, StepFacts, AtStage
<1>3. new \in SchemaText
  BY <1>2, RequestAssumption DEF Kind
<1>4. op[w].basis # 0 /\ Replaceable(planned, new)
  BY <1>1, StepFacts DEF PlanOK
<1>5. /\ op[w].basis \in Nat /\ Now \in Nat
      /\ planned \in Database /\ Sound(planned) /\ InPast(planned, op[w].basis)
      /\ Later(planned, Latest, op[w].basis)
      /\ Latest \in Database /\ Sound(Latest) /\ InPast(Latest, Now)
  BY <1>4, PlannedOn, StepFacts
<1>6. Fence(Latest) = Fence(planned)
  BY <1>1, SchemaFence
<1>7. \A r \in Altered(planned.schema, new) : Latest.generation[r] = planned.generation[r]
  BY <1>1 DEF SchemaGuardsHold
<1>8. planned.schema = Latest.schema
  BY <1>5, <1>6 DEF Later
<1>9. IF GenerationFence THEN ~ InUse(Latest, Removed(planned.schema, new))
      ELSE \A r \in Removed(planned.schema, new) : Latest.generation[r] = planned.generation[r]
  BY <1>1 DEF SchemaGuardsHold, Unused
<1> HIDE DEF planned, new
<1>10. Commits(Latest, next, Now + 1)
  BY <1>3, <1>4, <1>5, <1>6, <1>7, <1>9, ReplaceCommits
<1> QED BY <1>1, <1>2, <1>10, EndsWith

LEMMA SchemaLostStep ==
    ASSUME IInv, NEW w \in Writer, SchemaLost(w) \/ RelationInUse(w)
    PROVE  Establishes(w)
<1>1. CASE SchemaLost(w)
  BY <1>1, Contends DEF SchemaLost
<1>2. CASE RelationInUse(w)
  BY <1>2, StepFacts, EndsWithout DEF RelationInUse, Outcome
<1> QED BY <1>1, <1>2

-----------------------------------------------------------------------------
(* The hosts' own transactions.                                            *)

\* A commit that no operation makes leaves what all of them established.
LEMMA HostStep ==
    ASSUME IInv, UNCHANGED op, HistInv', Kept, sweep' \in 0 .. Now'
    PROVE  IInv'
<1>1. \A u \in Writer : StageOK(u)
  BY DEF IInv, OpInv
<1>2. ASSUME NEW u \in Writer
      PROVE  OpInv(u)'
  BY <1>1, OpFrame DEF IInv
<1> QED BY <1>2 DEF IInv

LEMMA SafeRetractStep ==
    ASSUME IInv, NEW o \in Object, SafeRetract(o)
    PROVE  IInv' /\ Publishes
<1> DEFINE touching == Touching(Latest, o)
           next == Retracting(Latest, Now + 1, touching, { RelationOf[e] : e \in touching }, o)
<1>1. Publish(next) /\ UNCHANGED <<op, sweep>>
  BY DEF SafeRetract, Retracting
<1>2. Latest \in Database /\ Now \in Nat /\ Sound(Latest) /\ InPast(Latest, Now)
  BY Indices DEF IInv
<1>3. Commits(Latest, next, Now + 1)
  BY <1>2, SafeRetractCommits
<1> HIDE DEF next
<1>4. HistInv' /\ Kept /\ Publishes /\ Now' = Now + 1
  BY <1>1, <1>3, HistStep DEF IInv
<1>5. sweep' \in 0 .. Now'
  BY <1>1, <1>2, <1>4 DEF IInv
<1> QED BY <1>1, <1>4, <1>5, HostStep

LEMMA SweepStep ==
    ASSUME IInv, CaptureSweep \/ SweepChunk
    PROVE  IInv' /\ Publishes
<1>1. Latest \in Database /\ Now \in Nat /\ Sound(Latest) /\ InPast(Latest, Now) /\ Latest = log[Now]
  BY Indices DEF IInv, Latest, Now
<1>2. CASE CaptureSweep
  <2>1. sweep' = Now /\ UNCHANGED <<log, op>>
    BY <1>2 DEF CaptureSweep
  <2>2. HistInv' /\ Kept /\ Publishes /\ Now' = Now
    BY <2>1, HistSame DEF IInv
  <2> QED BY <1>1, <2>1, <2>2, HostStep
<1>3. CASE SweepChunk
  <2>1. PICK chunk \in SUBSET Orphans(log[sweep]) \ {{}} :
          /\ Publish(Sweeping(Latest, chunk))
          /\ sweep' = IF chunk = Orphans(log[sweep]) THEN 0 ELSE Now + 1
    BY <1>3 DEF SweepChunk, Sweeping
  <2>2. sweep = Now /\ UNCHANGED op
    BY <1>3 DEF SweepChunk, HeadUnchanged
  <2>3. chunk \in SUBSET Orphans(Latest)
    BY <1>1, <2>2
  <2>4. Commits(Latest, Sweeping(Latest, chunk), Now + 1)
    BY <1>1, <2>3, SweepCommits
  <2>5. HistInv' /\ Kept /\ Publishes /\ Now' = Now + 1
    BY <2>1, <2>4, HistStep DEF IInv
  <2>6. sweep' \in 0 .. Now'
    BY <1>1, <2>1, <2>5
  <2> QED BY <2>2, <2>5, <2>6, HostStep
<1> QED BY <1>2, <1>3

-----------------------------------------------------------------------------
(* The invariant.                                                          *)

LEMMA GenesisSound ==
    ASSUME NEW schema \in SchemaText, NEW value \in [Edge -> Value \cup {Plain, Absent}],
           NEW generation \in [Relation -> Inherited],
           Coherent(Genesis(schema, value, generation, Object))
    PROVE  LET db == Genesis(schema, value, generation, Object) IN
           db \in Database /\ Sound(db) /\ InPast(db, 1)
<1> DEFINE qualified == { e \in Edge : value[e] \in Value }
           ids   == { <<1, e>> : e \in qualified }
           edges == [e \in Edge |-> IF e \in qualified THEN <<1, e>> ELSE value[e]]
           quals == [q \in ids |-> value[q[2]]]
           db    == Genesis(schema, value, generation, Object)
<1>1. /\ db.schema = schema /\ db.schemaGen = 1 /\ db.fence = 1 /\ db.generation = generation
      /\ db.edge = edges /\ db.qualifier = quals /\ db.objects = Object
      /\ db = [ schema |-> schema, schemaGen |-> 1, fence |-> 1, generation |-> generation,
                edge |-> edges, qualifier |-> quals, objects |-> Object ]
  BY DEF Genesis
<1>2. edges \in [Edge -> Qualifier \cup {Plain, Absent}]
  <2>1. \A e \in Edge : <<1, e>> \in Qualifier
    BY DEF Qualifier
  <2>2. \A e \in Edge : e \notin qualified => value[e] \in {Plain, Absent}
    OBVIOUS
  <2> HIDE DEF qualified
  <2> QED BY <2>1, <2>2
<1>3. ids \in SUBSET Qualifier /\ \A q \in ids : q[1] = 1 /\ value[q[2]] \in Value
  BY DEF Qualifier
<1>4. quals \in [ids -> Value]
  <2> HIDE DEF ids
  <2> QED BY <1>3
<1>5. quals \in UNION { [s -> Value] : s \in SUBSET Qualifier }
  <2> HIDE DEF quals, ids
  <2> QED BY <1>3, <1>4
<1>6. \A r \in Relation : generation[r] \in {1, NoGeneration}
  BY BoundsAssumption
<1>7. generation \in [Relation -> Version]
  BY <1>6 DEF Version
<1>8. ASSUME NEW e \in Qualified(db)
      PROVE  db.edge[e][2] = e /\ db.edge[e] \in DOMAIN db.qualifier
  <2>1. e \in Edge /\ edges[e] # Plain /\ edges[e] # Absent
    BY <1>1, <1>8 DEF Qualified, Stored
  <2>2. e \in qualified
    BY <2>1
  <2>3. edges[e] = <<1, e>> /\ <<1, e>> \in ids
    BY <2>1, <2>2
  <2> QED BY <1>1, <1>4, <2>3
<1>9. DOMAIN db.qualifier = ids
  BY <1>1
<1> HIDE DEF quals, edges, ids, qualified, db
<1>10. db \in Database
  BY <1>1, <1>2, <1>5, <1>7 DEF Database
<1>11. InPast(db, 1)
  BY <1>1, <1>3, <1>6, <1>9 DEF InPast
<1>12. Sound(db)
  BY <1>8 DEF Sound, Owned, db
<1> QED BY <1>10, <1>11, <1>12 DEF db

LEMMA InitIInv == Init => IInv
<1> SUFFICES ASSUME Init PROVE IInv
  OBVIOUS
<1>1. PICK schema \in SchemaText, value \in [Edge -> Value \cup {Plain, Absent}],
           generation \in [Relation -> Inherited] :
         /\ Coherent(Genesis(schema, value, generation, Object))
         /\ log = << Genesis(schema, value, generation, Object) >>
  BY DEF Init
<1> DEFINE db == Genesis(schema, value, generation, Object)
<1>2. db \in Database /\ Sound(db) /\ InPast(db, 1)
  BY <1>1, GenesisSound
<1>3. log = <<db>>
  BY <1>1
<1> HIDE DEF db
<1>4. log \in Seq(Database) /\ log # <<>> /\ Now = 1 /\ log[1] = db
  BY <1>2, <1>3 DEF Now
<1>5. HistInv
  <2>1. \A r \in 1 .. Now : r = 1
    BY <1>4
  <2>2. Later(db, db, 1)
    BY <1>2, LaterRefl
  <2> QED BY <1>2, <1>4, <2>1, <2>2 DEF HistInv
<1>6. op = [w \in Writer |-> Idle] /\ sweep = 0
  BY DEF Init
<1>7. Idle \in Operation
  BY BoundsAssumption DEF Idle, Operation, Pc, Outcome
<1>8. op \in [Writer -> Operation]
  BY <1>6, <1>7
<1>9. ASSUME NEW w \in Writer
      PROVE  OpInv(w)
  <2>1. /\ op[w].pc = "idle" /\ op[w].outcome = "pending" /\ op[w].basis = 0
        /\ op[w].allocated = 0 /\ op[w].last = 0 /\ op[w].reply = 0
    BY <1>6 DEF Idle
  <2>2. StageOK(w) /\ BoundsOK(w)
    BY <1>4, <2>1 DEF StageOK, BoundsOK
  <2>3. AllocatedOK(w) /\ HandleOK(w) /\ PreparedOK(w) /\ PlanOK(w) /\ AckOK(w)
    BY <2>1 DEF AllocatedOK, HandleOK, PreparedOK, PlanOK, AckOK
  <2> QED BY <2>2, <2>3 DEF OpInv
<1>10. sweep \in 0 .. Now
  BY <1>4, <1>6
<1> QED BY <1>5, <1>8, <1>9, <1>10 DEF IInv

\* A step of an operation is made while it runs, and establishes what it must.
LEMMA AnyStep ==
    ASSUME IInv, NEW w \in Writer, Begin(w) \/ Step(w)
    PROVE  op[w].pc # "done" /\ Establishes(w)
<1>1. CASE Begin(w)
  BY <1>1, BeginStep DEF Begin
<1>2. CASE Resolve(w)
  BY <1>2, ResolveStep DEF Resolve
<1>3. CASE Prepare(w)
  BY <1>3, PrepareStep DEF Prepare
<1>4. CASE AllocateQualifiers(w)
  BY <1>4, AllocateQualifiersStep DEF AllocateQualifiers
<1>5. CASE AllocationLost(w)
  BY <1>5, AllocationLostStep DEF AllocationLost
<1>6. CASE Plan(w)
  BY <1>6, PlanStep DEF Plan
<1>7. CASE ReplyUnchanged(w)
  BY <1>7, ReplyUnchangedStep DEF ReplyUnchanged
<1>8. CASE Compose(w)
  BY <1>8, ComposeStep DEF Compose
<1>9. CASE Commit(w)
  BY <1>9, CommitStep DEF Commit
<1>10. CASE CommitLost(w) \/ FactsLost(w)
  BY <1>10, CommitLostStep DEF CommitLost, FactsLost
<1>11. CASE PlanDiscard(w)
  BY <1>11, PlanDiscardStep DEF PlanDiscard
<1>12. CASE CommitDiscard(w)
  BY <1>12, CommitDiscardStep DEF CommitDiscard
<1>13. CASE DiscardLost(w)
  BY <1>13, DiscardLostStep DEF DiscardLost
<1>14. CASE PlanDeletion(w)
  BY <1>14, PlanDeletionStep DEF PlanDeletion
<1>15. CASE CommitDeletion(w)
  BY <1>15, CommitDeletionStep DEF CommitDeletion
<1>16. CASE DeletionLost(w)
  BY <1>16, DeletionLostStep DEF DeletionLost
<1>17. CASE AdmitSchema(w)
  BY <1>17, AdmitSchemaStep DEF AdmitSchema
<1>18. CASE PlanSchema(w)
  BY <1>18, PlanSchemaStep DEF PlanSchema
<1>19. CASE CommitSchema(w)
  BY <1>19, CommitSchemaStep DEF CommitSchema
<1>20. CASE SchemaLost(w) \/ RelationInUse(w)
  BY <1>20, SchemaLostStep DEF SchemaLost, RelationInUse
<1> QED BY <1>1, <1>2, <1>3, <1>4, <1>5, <1>6, <1>7, <1>8, <1>9, <1>10, <1>11, <1>12, <1>13,
           <1>14, <1>15, <1>16, <1>17, <1>18, <1>19, <1>20 DEF Step

LEMMA NextIInv == IInv /\ [Next]_vars => IInv' /\ Publishes
<1> SUFFICES ASSUME IInv, [Next]_vars PROVE IInv' /\ Publishes
  OBVIOUS
<1>1. ASSUME NEW w \in Writer, Begin(w) \/ Step(w) PROVE IInv' /\ Publishes
  BY <1>1, AnyStep, StepKeepsIInv DEF Establishes
<1>2. ASSUME NEW o \in Object, SafeRetract(o) PROVE IInv' /\ Publishes
  BY <1>2, SafeRetractStep
<1>3. CASE CaptureSweep \/ SweepChunk
  BY <1>3, SweepStep
<1>4. CASE UNCHANGED vars
  <2>1. HistInv' /\ Kept /\ Publishes /\ Now' = Now /\ UNCHANGED op /\ sweep' = sweep
    BY <1>4, HistSame DEF vars, IInv
  <2> QED BY <2>1, HostStep DEF IInv
<1> QED BY <1>1, <1>2, <1>3, <1>4 DEF Next

LEMMA Inductive == Spec => []IInv
BY InitIInv, NextIInv, PTL DEF Spec

-----------------------------------------------------------------------------
(* What the writers promise.                                               *)

\* Every value of the history is a database, and every operation stays within
\* its stages, its attempts and the revisions there are.
THEOREM TypeCorrect == Spec => []TypeOK
<1>1. IInv => TypeOK
  <2> SUFFICES ASSUME IInv PROVE TypeOK
    OBVIOUS
  <2>1. Now \in Nat /\ log # <<>> /\ \A r \in 1 .. Now : log[r] \in Database
    BY Indices DEF IInv, HistInv
  <2>2. ASSUME NEW db \in Database PROVE IsDatabase(db)
    BY DEF Database, IsDatabase, Version
  <2>3. \A r \in 1 .. Len(log) : IsDatabase(log[r])
    BY <2>1, <2>2 DEF Now
  <2>4. ASSUME NEW w \in Writer
        PROVE  /\ op[w].pc \in Pc /\ op[w].outcome \in Outcome
               /\ op[w].attempt \in 1 .. MaxAttempts
               /\ op[w].basis \in 0 .. Now /\ op[w].allocated \in 0 .. Now
               /\ op[w].last \in 0 .. Now /\ op[w].reply \in 0 .. Now
    BY <2>1, StepFacts DEF BoundsOK, Operation
  <2> QED BY <2>1, <2>3, <2>4 DEF TypeOK, IInv, Now
<1> QED BY <1>1, Inductive, PTL

\* No step of any writer or host retracts the qualifier of a relationship that
\* stays, and no two relationships ever name the same one
\* (relationships/staged.cljc, qualifier retraction and ownership checks).
THEOREM NeverDangles == Spec => []QualifiersOwned
<1>1. IInv => QualifiersOwned
  <2> SUFFICES ASSUME IInv PROVE QualifiersOwned
    OBVIOUS
  <2>1. Owned(Latest)
    BY Indices DEF IInv, Sound
  <2> QED BY <2>1 DEF Owned, QualifiersOwned, Attached
<1> QED BY <1>1, Inductive, PTL

\* The fence and the versions of relations that transactions compare are
\* enough: in no order of commits does the store hold a relationship that its
\* schema does not admit, one of a deleted entity, or a qualifier whose caveat
\* is gone.
THEOREM StaysCoherent == Spec => []SchemaCoherent
<1>1. IInv => SchemaCoherent
  BY Indices DEF IInv, Sound, SchemaCoherent
<1> QED BY <1>1, Inductive, PTL

\* A batch acknowledged as committed took effect in one step, on the
\* relationships it names and on no other, and created only absent ones.
THEOREM BatchesAreAtomic == Spec => []AcknowledgedBatchesAreAtomic
<1>1. IInv => AcknowledgedBatchesAreAtomic
  <2> SUFFICES ASSUME IInv PROVE AcknowledgedBatchesAreAtomic
    OBVIOUS
  <2>1. \A w \in Writer : AckOK(w)
    BY DEF IInv, OpInv
  <2> QED BY <2>1 DEF AckOK, Took, AcknowledgedBatchesAreAtomic, Batch
<1> QED BY <1>1, Inductive, PTL

-----------------------------------------------------------------------------
(* Deletions.                                                              *)

\* What one operation remembers beyond the invariant: only a deletion records
\* the revision of an earlier batch.
LEMMA StepKeeps ==
    ASSUME op \in [Writer -> Operation], NEW w \in Writer, Step(w)
    PROVE  /\ op'[w].request = op[w].request
           /\ op'[w].last = op[w].last \/ CommitDeletion(w)
<1>0. op[w] \in Operation
  OBVIOUS
<1>1. ASSUME NEW outcome, NEW revision, End(w, outcome, revision)
      PROVE  op'[w].request = op[w].request /\ op'[w].last = op[w].last
  BY <1>0, <1>1 DEF End, Operation
<1>2. ASSUME Retry(w)
      PROVE  op'[w].request = op[w].request /\ op'[w].last = op[w].last
  <2>1. CASE op[w].attempt < MaxAttempts
    BY <1>0, <1>2, <2>1 DEF Retry, Operation
  <2>2. CASE ~ (op[w].attempt < MaxAttempts)
    BY <1>1, <1>2, <2>2 DEF Retry
  <2> QED BY <2>1, <2>2
<1>3. ASSUME NEW guard, Contend(w, guard)
      PROVE  op'[w].request = op[w].request /\ op'[w].last = op[w].last
  BY <1>1, <1>2, <1>3 DEF Contend
<1>4. ASSUME NEW r, NEW stage,
             \/ op' = [op EXCEPT ![w].basis = r, ![w].pc = stage]
             \/ op' = [op EXCEPT ![w].pc = stage, ![w].basis = r]
             \/ op' = [op EXCEPT ![w].pc = stage, ![w].generation = r]
      PROVE  op'[w].request = op[w].request /\ op'[w].last = op[w].last
  BY <1>0, <1>4 DEF Operation
<1>5. CASE Resolve(w) \/ Prepare(w) \/ Plan(w) \/ Compose(w)
  <2>1. CASE Resolve(w)
    BY <1>1, <1>4, <2>1 DEF Resolve
  <2>2. CASE Prepare(w)
    <3>1. \/ Retry(w) \/ End(w, "aborted", 0) \/ End(w, "refused", 0)
          \/ \E stage : op' = [op EXCEPT ![w].basis = Now, ![w].pc = stage]
      BY <2>2 DEF Prepare
    <3> QED BY <1>1, <1>2, <1>4, <3>1
  <2>3. CASE Plan(w)
    <3>1. \/ Retry(w) \/ End(w, "aborted", 0) \/ End(w, "refused", 0)
          \/ \E stage : op' = [op EXCEPT ![w].basis = Now, ![w].pc = stage]
      BY <2>3 DEF Plan
    <3> QED BY <1>1, <1>2, <1>4, <3>1
  <2>4. CASE Compose(w)
    BY <1>1, <1>4, <2>4 DEF Compose
  <2> QED BY <1>5, <2>1, <2>2, <2>3, <2>4
<1>6. CASE AllocateQualifiers(w)
  <2> DEFINE next == Allocate(Latest, Now + 1, Values(Updates(w)))
             generation == IF GenerationFence THEN next.schemaGen ELSE op[w].generation
             mine == [op EXCEPT ![w].allocated = Now + 1, ![w].generation = generation]
  <2>1. op' = IF Kind(w) = "prepare"
              THEN [mine EXCEPT ![w].pc = "done", ![w].outcome = "committed", ![w].reply = Now + 1]
              ELSE [mine EXCEPT ![w].pc = "plan"]
    BY <1>6 DEF AllocateQualifiers
  <2> HIDE DEF next, generation
  <2>2. DOMAIN mine = Writer /\ mine[w].request = op[w].request /\ mine[w].last = op[w].last
    BY <1>0 DEF Operation
  <2>3. op'[w].request = mine[w].request /\ op'[w].last = mine[w].last
    <3> HIDE DEF mine
    <3> QED BY <2>1, <2>2
  <2> QED BY <2>2, <2>3
<1>7. CASE ReplyUnchanged(w) \/ Commit(w) \/ FactsLost(w) \/ CommitDiscard(w) \/ DiscardLost(w)
             \/ CommitSchema(w) \/ RelationInUse(w)
  BY <1>1, <1>7 DEF ReplyUnchanged, Commit, FactsLost, CommitDiscard, DiscardLost,
                    CommitSchema, RelationInUse
<1>8. CASE AllocationLost(w) \/ CommitLost(w) \/ DeletionLost(w) \/ SchemaLost(w)
  BY <1>3, <1>8 DEF AllocationLost, CommitLost, DeletionLost, SchemaLost
<1>9. CASE PlanDiscard(w) \/ PlanDeletion(w) \/ AdmitSchema(w) \/ PlanSchema(w)
  <2>1. CASE PlanDiscard(w)
    BY <1>1, <1>4, <2>1 DEF PlanDiscard
  <2>2. CASE PlanDeletion(w)
    BY <1>1, <1>4, <2>2 DEF PlanDeletion
  <2>3. CASE AdmitSchema(w)
    BY <1>4, <2>3 DEF AdmitSchema
  <2>4. CASE PlanSchema(w)
    BY <1>1, <1>4, <2>4 DEF PlanSchema
  <2> QED BY <1>9, <2>1, <2>2, <2>3, <2>4
<1>10. CASE CommitDeletion(w)
  <2>1. PICK batch \in Fitting(Touching(log[op[w].basis], Target(w))) :
          IF batch = Touching(log[op[w].basis], Target(w))
          THEN End(w, "committed", Now + 1)
          ELSE op' = [op EXCEPT ![w].pc = "planDeletion", ![w].attempt = 1, ![w].last = Now + 1]
    BY <1>10 DEF CommitDeletion
  <2>2. CASE op' = [op EXCEPT ![w].pc = "planDeletion", ![w].attempt = 1, ![w].last = Now + 1]
    <3>1. op'[w] = [op[w] EXCEPT !.pc = "planDeletion", !.attempt = 1, !.last = Now + 1]
      BY <2>2
    <3> QED BY <1>0, <1>10, <3>1 DEF Operation
  <2> QED BY <1>1, <1>10, <2>1, <2>2
<1> QED BY <1>5, <1>6, <1>7, <1>8, <1>9, <1>10 DEF Step

\* Only the steps of the deletion loop act for a deletion.
LEMMA DeletionSteps ==
    ASSUME IInv, NEW w \in Writer, Begin(w) \/ Step(w), Kind(w)' = "delete"
    PROVE  \/ op'[w].outcome = "pending"
           \/ Kind(w) = "delete" /\ (PlanDeletion(w) \/ CommitDeletion(w) \/ DeletionLost(w))
<1>1. CASE Begin(w)
  <2>1. Establishes(w) /\ op'[w].pc # "done"
    <3>1. PICK request \in Requests :
            /\ request.kind \in DOMAIN First
            /\ op' = [op EXCEPT ![w].pc = First[request.kind], ![w].request = request]
      BY <1>1 DEF Begin
    <3>2. First[request.kind] # "done"
      BY <3>1, FirstStages
    <3> QED BY <1>1, <3>1, <3>2, BeginStep, StepFacts DEF Operation
  <2> QED BY <2>1 DEF Establishes, OpInv, StageOK
<1>2. CASE Step(w)
  <2>1. Kind(w) = "delete"
    BY <1>2, StepKeeps, StepFacts DEF Kind
  <2>2. op[w].pc # "idle" => op[w].pc \in {"planDeletion", "commitDeletion", "done"}
    BY <2>1, StepFacts, StagesOf DEF StageOK
  <2>3. PlanDeletion(w) \/ CommitDeletion(w) \/ DeletionLost(w)
    BY <1>2, <2>2 DEF Step, Resolve, Prepare, AllocateQualifiers, AllocationLost, Plan,
       ReplyUnchanged, Compose, Commit, CommitLost, FactsLost, PlanDiscard, CommitDiscard,
       DiscardLost, AdmitSchema, PlanSchema, CommitSchema, SchemaLost, RelationInUse
  <2> QED BY <2>1, <2>3
<1> QED BY <1>1, <1>2

\* A step is one operation's, and the values committed before it stay.
LEMMA OneActs ==
    ASSUME IInv, [Next]_vars
    PROVE  /\ Kept
           /\ \A w \in Writer : op'[w] = op[w] \/ Begin(w) \/ Step(w)
<1>1. Kept
  <2>1. CASE UNCHANGED log
    BY <2>1, HistSame DEF IInv
  <2>2. CASE \E next : log' = Append(log, next) /\ Commits(Latest, next, Now + 1)
    BY <2>2, Appended DEF IInv, Commits
  <2> QED BY <2>1, <2>2, NextIInv DEF Publishes
<1>2. ASSUME NEW w \in Writer, NEW u \in Writer, Begin(u) \/ Step(u), op'[w] # op[w]
      PROVE  w = u
  BY <1>2, AnyStep DEF Establishes, Others
<1>3. ASSUME NEW w \in Writer, op'[w] # op[w]
      PROVE  \E u \in Writer : Begin(u) \/ Step(u)
  BY <1>3 DEF Next, vars, SafeRetract, CaptureSweep, SweepChunk
<1> QED BY <1>1, <1>2, <1>3

\* The answer of a deletion, unless it is the revision of an earlier batch, is
\* one that holds no relationship of the object.
Answered(w) ==
    op[w].outcome = "committed" /\ Kind(w) = "delete" =>
        /\ op[w].reply \in 1 .. Now
        /\ op[w].last = 0 \/ op[w].reply # op[w].last =>
             Touching(log[op[w].reply], Target(w)) = {}

LEMMA AnsweredStep ==
    ASSUME IInv, NEW w \in Writer, Begin(w) \/ Step(w)
    PROVE  Answered(w)'
<1> SUFFICES ASSUME op'[w].outcome = "committed", Kind(w)' = "delete"
             PROVE  /\ op'[w].reply \in 1 .. Now'
                    /\ op'[w].last = 0 \/ op'[w].reply # op'[w].last =>
                         Touching(log'[op'[w].reply], Target(w)') = {}
  BY DEF Answered
<1>1. Kind(w) = "delete" /\ (PlanDeletion(w) \/ CommitDeletion(w) \/ DeletionLost(w))
  BY DeletionSteps
<1>2. ASSUME NEW outcome \in Outcome, NEW revision \in Nat, End(w, outcome, revision)
      PROVE  /\ op'[w].outcome = outcome /\ op'[w].reply = revision
             /\ op'[w].last = op[w].last /\ Target(w)' = Target(w)
  BY <1>2, StepFacts, EndFields DEF Target
<1>3. op[w].last \in Nat /\ op[w].last <= Now
  BY StepFacts DEF BoundsOK, Operation
<1>4. op[w].outcome # "committed"
  BY <1>1, StepFacts DEF PlanDeletion, CommitDeletion, DeletionLost
<1>5. CASE PlanDeletion(w)
  <2>1. ASSUME op' = [op EXCEPT ![w].pc = "commitDeletion", ![w].basis = Now] PROVE FALSE
    BY <1>4, <2>1, StepFacts DEF Operation
  <2> DEFINE revision == IF op[w].last = 0 THEN Now ELSE op[w].last
  <2>2. Touching(Latest, Target(w)) = {} /\ End(w, "committed", revision) /\ log' = log
    BY <1>5, <2>1 DEF PlanDeletion
  <2>3. revision \in 1 .. Now
    BY <1>3, StepFacts
  <2>4. /\ op'[w].reply = revision /\ op'[w].last = op[w].last /\ Target(w)' = Target(w)
    <3>1. "committed" \in Outcome /\ revision \in Nat
      BY <2>3, StepFacts DEF Outcome
    <3> HIDE DEF revision
    <3> QED BY <1>2, <2>2, <3>1
  <2>5. Now' = Now
    BY <2>2 DEF Now
  <2>6. CASE op[w].last = 0
    <3>1. op'[w].reply = Now
      BY <2>4, <2>6
    <3> QED BY <2>2, <2>3, <2>4, <2>5, <3>1, StepFacts
  <2>7. CASE op[w].last # 0
    BY <2>3, <2>4, <2>5, <2>7
  <2> QED BY <2>6, <2>7
<1>6. CASE CommitDeletion(w)
  <2> DEFINE planned == Touching(log[op[w].basis], Target(w))
             next(batch) ==
               Swap(Latest, Now + 1, [e \in batch |-> Absent], { RelationOf[e] : e \in batch })
  <2>1. PICK batch \in Fitting(planned) :
          /\ Publish(next(batch))
          /\ IF batch = planned THEN End(w, "committed", Now + 1)
             ELSE op' = [op EXCEPT ![w].pc = "planDeletion", ![w].attempt = 1, ![w].last = Now + 1]
    BY <1>6 DEF CommitDeletion
  <2>2. /\ log[op[w].basis] = Latest
        /\ Commits(Latest, next(batch), Now + 1)
        /\ \A e \in Edge : next(batch).edge[e] = IF e \in batch THEN Absent ELSE Latest.edge[e]
    BY <1>6, DeletionBatch DEF CommitDeletion
  <2> HIDE DEF next
  <2>3. ASSUME op' = [op EXCEPT ![w].pc = "planDeletion", ![w].attempt = 1, ![w].last = Now + 1]
        PROVE  FALSE
    <3>1. op'[w] = [op[w] EXCEPT !.pc = "planDeletion", !.attempt = 1, !.last = Now + 1]
      BY <2>3, StepFacts
    <3> QED BY <1>4, <3>1, StepFacts DEF Operation
  <2>4. batch = planned /\ End(w, "committed", Now + 1)
    BY <2>1, <2>3
  <2>5. op'[w].reply = Now + 1 /\ Target(w)' = Target(w)
    <3>1. "committed" \in Outcome /\ Now + 1 \in Nat
      BY StepFacts DEF Outcome
    <3> QED BY <1>2, <2>4, <3>1
  <2>6. Now' = Now + 1 /\ log'[Now + 1] = next(batch)
    BY <2>1, <2>2, HistStep DEF IInv
  <2>7. Touching(next(batch), Target(w)) = {}
    BY <2>2, <2>4 DEF Touching, Stored
  <2>8. Now + 1 \in 1 .. Now + 1
    BY StepFacts
  <2> QED BY <2>5, <2>6, <2>7, <2>8
<1>7. CASE DeletionLost(w)
  <2>1. ASSUME NEW outcome \in Outcome, End(w, outcome, 0) PROVE op'[w].outcome = outcome
    BY <1>2, <2>1, StepFacts
  <2>2. ASSUME op[w].attempt < MaxAttempts, Retry(w) PROVE op'[w].outcome = op[w].outcome
    BY <2>2, StepFacts DEF Retry, Operation
  <2>3. op'[w].outcome # "committed"
    BY <1>4, <1>7, <2>1, <2>2 DEF DeletionLost, Contend, Retry, Outcome
  <2> QED BY <2>3
<1> QED BY <1>1, <1>5, <1>6, <1>7

\* The one answer of a deletion that can leave relationships of the object is
\* the revision of an earlier batch, given when others retracted the rest.
AnswersAreComplete ==
    \A w \in Writer :
        /\ op[w].outcome = "committed" /\ Kind(w) = "delete"
        /\ op[w].last = 0 \/ op[w].reply # op[w].last
        => Touching(log[op[w].reply], Target(w)) = {}

LEMMA AnsweredInductive == Spec => [](IInv /\ \A w \in Writer : Answered(w))
<1>1. Init => IInv /\ \A w \in Writer : Answered(w)
  BY InitIInv DEF Init, Idle, Answered
<1>2. ASSUME IInv, \A w \in Writer : Answered(w), [Next]_vars
      PROVE  IInv' /\ (\A w \in Writer : Answered(w))'
  <2> SUFFICES ASSUME NEW w \in Writer PROVE Answered(w)'
    BY <1>2, NextIInv
  <2>1. CASE Begin(w) \/ Step(w)
    BY <1>2, <2>1, AnsweredStep
  <2>2. CASE op'[w] = op[w]
    <3>1. Kept
      BY <1>2, OneActs
    <3>2. Target(w)' = Target(w) /\ Kind(w)' = Kind(w)
      BY <2>2 DEF Target, Kind
    <3>3. \A r \in 1 .. Now : r \in 1 .. Now' /\ log'[r] = log[r]
      BY <1>2, <3>1, Indices DEF Kept, IInv
    <3> QED BY <1>2, <2>2, <3>2, <3>3 DEF Answered
  <2> QED BY <1>2, <2>1, <2>2, OneActs
<1> QED BY <1>1, <1>2, PTL DEF Spec

\* Whatever the other writers do, a deletion that answers with the transaction
\* that emptied its object, or with the basis on which it found nothing, tells
\* the truth (delete-object!, whose answer after several batches is the last).
THEOREM DeletionsAnswer == Spec => []AnswersAreComplete
<1>1. (IInv /\ \A w \in Writer : Answered(w)) => AnswersAreComplete
  BY DEF Answered, AnswersAreComplete
<1> QED BY <1>1, AnsweredInductive, PTL

\* While everything an object can have fits one transaction, every answer of a
\* deletion is complete.
THEOREM DeletionsComplete ==
    ASSUME IsFiniteSet(Edge), Cardinality(Edge) <= BatchLimit
    PROVE  Spec => []DeletionsAreComplete
<1> DEFINE OneBatch == \A w \in Writer : op[w].last = 0
<1>1. Init => OneBatch
  BY DEF Init, Idle
<1>2. ASSUME NEW edges \in SUBSET Edge
      PROVE  Fitting(edges) = {edges}
  <2>1. /\ IsFiniteSet(edges) /\ Cardinality(edges) <= Cardinality(Edge)
    BY FS_Subset
  <2>2. Cardinality(edges) <= BatchLimit
    BY <2>1, FS_CardinalityType, BoundsAssumption
  <2> QED BY <2>2 DEF Fitting
<1>3. ASSUME IInv, OneBatch, [Next]_vars
      PROVE  OneBatch'
  <2> SUFFICES ASSUME NEW w \in Writer PROVE op'[w].last = 0
    OBVIOUS
  <2>1. CASE Begin(w)
    <3>1. \E request : op' = [op EXCEPT ![w].pc = First[request.kind], ![w].request = request]
      BY <2>1 DEF Begin
    <3> QED BY <1>3, <3>1, StepFacts DEF Operation
  <2>2. CASE CommitDeletion(w)
    <3> DEFINE planned == Touching(log[op[w].basis], Target(w))
    <3>1. planned \subseteq Edge
      BY DEF Touching, Stored
    <3>2. End(w, "committed", Now + 1)
      <4> HIDE DEF planned
      <4>1. Fitting(planned) = {planned}
        BY <1>2, <3>1
      <4>2. \E batch \in Fitting(planned) : batch = planned => End(w, "committed", Now + 1)
        BY <2>2 DEF CommitDeletion, planned
      <4> QED BY <4>1, <4>2
    <3>3. "committed" \in Outcome /\ Now + 1 \in Nat
      BY <1>3, StepFacts DEF Outcome
    <3> QED BY <1>3, <3>2, <3>3, StepFacts, EndFields
  <2>3. CASE Step(w) /\ ~ CommitDeletion(w)
    BY <1>3, <2>3, StepKeeps DEF IInv
  <2> QED BY <1>3, <2>1, <2>2, <2>3, OneActs
<1>4. (\A w \in Writer : Answered(w)) /\ OneBatch => DeletionsAreComplete
  BY DEF Answered, DeletionsAreComplete
<1> HIDE DEF OneBatch
<1>5. Spec => []OneBatch
  BY <1>1, <1>3, Inductive, PTL DEF Spec
<1> QED BY <1>4, <1>5, AnsweredInductive, PTL

\* Outside Datomic a deletion that loses its basis is never given up while it
\* has attempts left: the classifier of every other adapter recognises a moved
\* head.
THEOREM DeletionsRetry ==
    ASSUME Backend # "datomic"
    PROVE  Spec => []DeletionsRetryContention
<1>1. Init => DeletionsRetryContention
  BY DEF Init, Idle, DeletionsRetryContention
<1>2. ASSUME IInv, DeletionsRetryContention, [Next]_vars
      PROVE  DeletionsRetryContention'
  <2> SUFFICES ASSUME NEW w \in Writer, Kind(w)' = "delete" PROVE op'[w].outcome # "aborted"
    BY DEF DeletionsRetryContention
  <2>0. "head" \in Retried
    BY BackendAssumption DEF Retried
  <2>1. CASE op'[w] = op[w]
    BY <1>2, <2>1 DEF DeletionsRetryContention, Kind
  <2>2. CASE Begin(w) \/ Step(w)
    <3>1. ASSUME NEW outcome \in Outcome, NEW revision \in Nat, End(w, outcome, revision)
          PROVE  op'[w].outcome = outcome
      BY <1>2, <3>1, StepFacts, EndFields
    <3>2. CASE op'[w].outcome = "pending"
      BY <3>2
    <3>3. CASE Kind(w) = "delete" /\ PlanDeletion(w)
      <4>1. CASE Touching(Latest, Target(w)) = {}
        <5> DEFINE revision == IF op[w].last = 0 THEN Now ELSE op[w].last
        <5>1. End(w, "committed", revision)
          BY <3>3, <4>1 DEF PlanDeletion
        <5>2. revision \in Nat /\ "committed" \in Outcome
          BY <1>2, StepFacts DEF Operation, Outcome
        <5> HIDE DEF revision
        <5> QED BY <3>1, <5>1, <5>2
      <4>2. CASE Touching(Latest, Target(w)) # {}
        <5>1. op' = [op EXCEPT ![w].pc = "commitDeletion", ![w].basis = Now]
          BY <3>3, <4>2 DEF PlanDeletion
        <5> QED BY <1>2, <3>3, <5>1, StepFacts DEF Operation, PlanDeletion
      <4> QED BY <4>1, <4>2
    <3>4. CASE Kind(w) = "delete" /\ CommitDeletion(w)
      <4>1. \/ End(w, "committed", Now + 1)
            \/ op' = [op EXCEPT ![w].pc = "planDeletion", ![w].attempt = 1, ![w].last = Now + 1]
        BY <3>4 DEF CommitDeletion
      <4>2. CASE End(w, "committed", Now + 1)
        <5>1. "committed" \in Outcome /\ Now + 1 \in Nat
          BY <1>2, StepFacts DEF Outcome
        <5> QED BY <3>1, <4>2, <5>1
      <4>3. CASE op' = [op EXCEPT ![w].pc = "planDeletion", ![w].attempt = 1, ![w].last = Now + 1]
        <5>1. op'[w] = [op[w] EXCEPT !.pc = "planDeletion", !.attempt = 1, !.last = Now + 1]
          BY <1>2, <4>3, StepFacts
        <5>2. op[w].outcome = "pending" /\ op[w] \in Operation
          BY <1>2, <3>4, StepFacts DEF CommitDeletion
        <5> QED BY <5>1, <5>2 DEF Operation
      <4> QED BY <4>1, <4>2, <4>3
    <3>5. CASE Kind(w) = "delete" /\ DeletionLost(w)
      <4>1. Retry(w) /\ op[w].outcome = "pending" /\ op[w] \in Operation
        BY <1>2, <2>0, <3>5, StepFacts DEF DeletionLost, Contend
      <4>2. CASE op[w].attempt < MaxAttempts
        BY <1>2, <4>1, <4>2, StepFacts DEF Retry, Operation
      <4>3. CASE ~ (op[w].attempt < MaxAttempts)
        BY <3>1, <4>1, <4>3 DEF Retry, Outcome
      <4> QED BY <4>2, <4>3
    <3> QED BY <1>2, <2>2, <3>2, <3>3, <3>4, <3>5, DeletionSteps
  <2> QED BY <1>2, <2>1, <2>2, OneActs
<1> QED BY <1>1, <1>2, Inductive, PTL DEF Spec

-----------------------------------------------------------------------------
(* The writers implement the stamped store.                                *)

Datum == UNION { [EdgesOf(r) -> Value \cup {Plain, Absent}] : r \in Relation }

\* What the store keeps of a database value.
Entry == [ schema : SchemaText, schemaGen : Nat, generation : [Relation -> Version],
           data : [Relation -> Datum] ]

LEMMA AbstractFields ==
    ASSUME NEW db \in Database, Owned(db)
    PROVE  /\ Abstract(db) \in Entry
           /\ Abstract(db).schema = db.schema /\ Abstract(db).schemaGen = db.schemaGen
           /\ Abstract(db).generation = db.generation
           /\ \A r \in Relation : /\ Contents(db, r) \in Datum
                                  /\ Abstract(db).data[r] = Contents(db, r)
<1>1. ASSUME NEW e \in Edge PROVE ValueAt(db, e) \in Value \cup {Plain, Absent}
  <2>1. CASE e \in Qualified(db)
    <3>1. db.edge[e] \in DOMAIN db.qualifier
      BY <2>1 DEF Owned
    <3> QED BY <2>1, <3>1 DEF ValueAt, Database
  <2>2. CASE e \notin Qualified(db)
    BY <2>2 DEF ValueAt, Qualified, Stored
  <2> QED BY <2>1, <2>2
<1>2. ASSUME NEW r \in Relation
      PROVE  Contents(db, r) \in [EdgesOf(r) -> Value \cup {Plain, Absent}]
  <2>1. \A e \in EdgesOf(r) : ValueAt(db, e) \in Value \cup {Plain, Absent}
    BY <1>1 DEF EdgesOf
  <2> QED BY <2>1 DEF Contents
<1>3. \A r \in Relation : Contents(db, r) \in Datum
  BY <1>2 DEF Datum
<1> DEFINE data == [r \in Relation |-> Contents(db, r)]
<1>4. data \in [Relation -> Datum] /\ \A r \in Relation : data[r] = Contents(db, r)
  BY <1>3
<1>5. Abstract(db) = [ schema |-> db.schema, schemaGen |-> db.schemaGen,
                       generation |-> db.generation, data |-> data ]
  BY DEF Abstract
<1> HIDE DEF data
<1>6. db.schema \in SchemaText /\ db.schemaGen \in Nat /\ db.generation \in [Relation -> Version]
  BY DEF Database
<1> QED BY <1>3, <1>4, <1>5, <1>6 DEF Entry

LEMMA EntriesEqual ==
    ASSUME NEW a \in Entry, NEW b \in Entry,
           a.schema = b.schema, a.schemaGen = b.schemaGen,
           \A r \in Relation : a.generation[r] = b.generation[r] /\ a.data[r] = b.data[r]
    PROVE  a = b
<1>1. a.generation = b.generation
  BY DEF Entry
<1>2. a.data = b.data
  BY DEF Entry
<1> QED BY <1>1, <1>2 DEF Entry

\* The values the store's own commits leave behind.
LEMMA StoreCommitFields ==
    ASSUME NEW a \in Entry, NEW rev \in Nat, NEW touched \in SUBSET Relation,
           NEW data \in [touched -> Datum]
    PROVE  LET b == Store!RelationshipCommit(a, rev, touched, data) IN
           /\ b \in Entry /\ b.schema = a.schema /\ b.schemaGen = a.schemaGen
           /\ \A r \in Relation :
                /\ b.generation[r] = IF r \in touched THEN rev ELSE a.generation[r]
                /\ b.data[r] = IF r \in touched THEN data[r] ELSE a.data[r]
<1> DEFINE datas == [r \in Relation |-> IF r \in touched THEN data[r] ELSE a.data[r]]
           gens  == [r \in Relation |-> IF r \in touched THEN rev ELSE a.generation[r]]
           b     == Store!RelationshipCommit(a, rev, touched, data)
<1>1. b = [a EXCEPT !.data = datas, !.generation = gens]
  BY DEF Store!RelationshipCommit
<1>2. datas \in [Relation -> Datum] /\ gens \in [Relation -> Version]
  BY DEF Entry, Version
<1>3. \A r \in Relation : /\ gens[r] = IF r \in touched THEN rev ELSE a.generation[r]
                          /\ datas[r] = IF r \in touched THEN data[r] ELSE a.data[r]
  OBVIOUS
<1> HIDE DEF datas, gens, b
<1>4. /\ b \in Entry /\ b.schema = a.schema /\ b.schemaGen = a.schemaGen
      /\ b.generation = gens /\ b.data = datas
  BY <1>1, <1>2 DEF Entry
<1> QED BY <1>3, <1>4 DEF b

LEMMA StoreReferenceFields ==
    ASSUME NEW a \in Entry, NEW rev \in Nat, NEW touched \in SUBSET Relation,
           NEW data \in [touched -> Datum]
    PROVE  LET b == Store!ReferenceCommit(a, rev, touched, data) IN
           /\ b \in Entry /\ b.schema = a.schema /\ b.schemaGen = rev
           /\ \A r \in Relation :
                /\ b.generation[r] = IF r \in touched THEN rev ELSE a.generation[r]
                /\ b.data[r] = IF r \in touched THEN data[r] ELSE a.data[r]
<1> DEFINE b == Store!RelationshipCommit(a, rev, touched, data)
           c == Store!ReferenceCommit(a, rev, touched, data)
<1>1. /\ b \in Entry /\ b.schema = a.schema
      /\ \A r \in Relation :
           /\ b.generation[r] = IF r \in touched THEN rev ELSE a.generation[r]
           /\ b.data[r] = IF r \in touched THEN data[r] ELSE a.data[r]
  BY StoreCommitFields
<1>2. c = [b EXCEPT !.schemaGen = rev]
  BY DEF Store!ReferenceCommit
<1> HIDE DEF b, c
<1>3. /\ c \in Entry /\ c.schema = b.schema /\ c.schemaGen = rev
      /\ c.generation = b.generation /\ c.data = b.data
  BY <1>1, <1>2 DEF Entry
<1> QED BY <1>1, <1>3 DEF c

LEMMA StoreSchemaFields ==
    ASSUME NEW a \in Entry, NEW rev \in Nat, NEW schema \in SchemaText,
           NEW added \in SUBSET Relation, NEW removed \in SUBSET Relation
    PROVE  LET b == Store!SchemaCommit(a, rev, schema, added, removed) IN
           /\ b \in Entry /\ b.schema = schema /\ b.schemaGen = rev /\ b.data = a.data
           /\ \A r \in Relation :
                b.generation[r] = IF r \in added THEN rev
                                  ELSE IF r \in removed THEN NoGeneration ELSE a.generation[r]
<1> DEFINE gens == [r \in Relation |-> IF r \in added THEN rev
                                       ELSE IF r \in removed THEN NoGeneration
                                       ELSE a.generation[r]]
           b == Store!SchemaCommit(a, rev, schema, added, removed)
<1>1. b = [a EXCEPT !.schema = schema, !.schemaGen = rev, !.generation = gens]
  BY DEF Store!SchemaCommit
<1>2. gens \in [Relation -> Version]
  BY DEF Entry, Version
<1>3. \A r \in Relation : gens[r] = IF r \in added THEN rev
                                    ELSE IF r \in removed THEN NoGeneration ELSE a.generation[r]
  OBVIOUS
<1> HIDE DEF gens, b
<1>4. /\ b \in Entry /\ b.schema = schema /\ b.schemaGen = rev
      /\ b.generation = gens /\ b.data = a.data
  BY <1>1, <1>2 DEF Entry
<1> QED BY <1>3, <1>4 DEF b

\* A stamped commit of the writers is a commit of the store.
LEMMA StampedEntry ==
    ASSUME NEW db \in Database, NEW next \in Database, NEW rev \in Nat,
           Owned(db), Owned(next), Stamped(db, next, rev)
    PROVE  LET a == Abstract(db)
               b == Abstract(next)
           IN  \/ \E touched \in SUBSET Relation : \E data \in [touched -> Datum] :
                    b = Store!RelationshipCommit(a, rev, touched, data)
               \/ \E touched \in SUBSET Relation : \E data \in [touched -> Datum] :
                    b = Store!ReferenceCommit(a, rev, touched, data)
               \/ \E schema \in SchemaText, added, removed \in SUBSET Relation :
                    b = Store!SchemaCommit(a, rev, schema, added, removed)
<1> DEFINE a == Abstract(db)
           b == Abstract(next)
<1>1. /\ a \in Entry /\ a.schema = db.schema /\ a.schemaGen = db.schemaGen
      /\ a.generation = db.generation
      /\ \A r \in Relation : a.data[r] = Contents(db, r)
  BY AbstractFields
<1>2. /\ b \in Entry /\ b.schema = next.schema /\ b.schemaGen = next.schemaGen
      /\ b.generation = next.generation
      /\ \A r \in Relation : Contents(next, r) \in Datum /\ b.data[r] = Contents(next, r)
  BY AbstractFields
<1>3. ASSUME NEW r \in Relation, \A e \in EdgesOf(r) : ValueAt(next, e) = ValueAt(db, e)
      PROVE  b.data[r] = a.data[r]
  <2>1. Contents(next, r) = Contents(db, r)
    BY <1>3 DEF Contents
  <2> QED BY <1>1, <1>2, <2>1
<1> HIDE DEF a, b
<1>4. ASSUME NEW touched \in SUBSET Relation, WritesData(db, next, rev, touched)
      PROVE  \E data \in [touched -> Datum] :
               \/ b = Store!RelationshipCommit(a, rev, touched, data)
               \/ b = Store!ReferenceCommit(a, rev, touched, data)
  <2> DEFINE data == [r \in touched |-> Contents(next, r)]
             c == Store!RelationshipCommit(a, rev, touched, data)
             d == Store!ReferenceCommit(a, rev, touched, data)
  <2>1. data \in [touched -> Datum] /\ \A r \in touched : data[r] = b.data[r]
    BY <1>2
  <2>2. ASSUME NEW r \in Relation
        PROVE  /\ b.generation[r] = IF r \in touched THEN rev ELSE a.generation[r]
               /\ b.data[r] = IF r \in touched THEN data[r] ELSE a.data[r]
    <3>1. CASE r \in touched
      BY <1>2, <1>4, <2>1, <3>1 DEF WritesData
    <3>2. CASE r \notin touched
      <4>1. \A e \in EdgesOf(r) : ValueAt(next, e) = ValueAt(db, e)
        BY <1>4, <3>2 DEF WritesData, EdgesOf
      <4>2. b.data[r] = a.data[r]
        BY <1>3, <4>1
      <4> QED BY <1>1, <1>2, <1>4, <3>2, <4>2 DEF WritesData
    <3> QED BY <3>1, <3>2
  <2> HIDE DEF data
  <2>3. b.schema = a.schema /\ b.schemaGen \in {a.schemaGen, rev}
    BY <1>1, <1>2, <1>4 DEF WritesData
  <2>4. CASE b.schemaGen = a.schemaGen
    <3>1. /\ c \in Entry /\ c.schema = a.schema /\ c.schemaGen = a.schemaGen
          /\ \A r \in Relation :
               /\ c.generation[r] = IF r \in touched THEN rev ELSE a.generation[r]
               /\ c.data[r] = IF r \in touched THEN data[r] ELSE a.data[r]
      BY <1>1, <2>1, StoreCommitFields
    <3> HIDE DEF c
    <3>2. b = c
      BY <1>2, <2>2, <2>3, <2>4, <3>1, EntriesEqual
    <3> QED BY <2>1, <3>2 DEF c
  <2>5. CASE b.schemaGen = rev
    <3>1. /\ d \in Entry /\ d.schema = a.schema /\ d.schemaGen = rev
          /\ \A r \in Relation :
               /\ d.generation[r] = IF r \in touched THEN rev ELSE a.generation[r]
               /\ d.data[r] = IF r \in touched THEN data[r] ELSE a.data[r]
      BY <1>1, <2>1, StoreReferenceFields
    <3> HIDE DEF d
    <3>2. b = d
      BY <1>2, <2>2, <2>3, <2>5, <3>1, EntriesEqual
    <3> QED BY <2>1, <3>2 DEF d
  <2> QED BY <2>3, <2>4, <2>5
<1>5. ASSUME NEW added \in SUBSET Relation, NEW removed \in SUBSET Relation,
             WritesSchema(db, next, rev, added, removed)
      PROVE  \E schema \in SchemaText : b = Store!SchemaCommit(a, rev, schema, added, removed)
  <2> DEFINE c == Store!SchemaCommit(a, rev, next.schema, added, removed)
  <2>1. next.schema \in SchemaText
    BY DEF Database
  <2>2. /\ c \in Entry /\ c.schema = next.schema /\ c.schemaGen = rev /\ c.data = a.data
        /\ \A r \in Relation :
             c.generation[r] = IF r \in added THEN rev
                               ELSE IF r \in removed THEN NoGeneration ELSE a.generation[r]
    BY <1>1, <2>1, StoreSchemaFields
  <2> HIDE DEF c
  <2>3. \A r \in Relation : b.data[r] = a.data[r]
    BY <1>3, <1>5 DEF WritesSchema, EdgesOf
  <2>4. /\ b.schemaGen = rev
        /\ \A r \in Relation : b.generation[r] = c.generation[r]
    BY <1>1, <1>2, <1>5, <2>2 DEF WritesSchema
  <2>5. b = c
    BY <1>2, <2>2, <2>3, <2>4, EntriesEqual
  <2> QED BY <2>1, <2>5 DEF c
<1> QED BY <1>4, <1>5 DEF Stamped, a, b

Abstracted == [r \in 1 .. Len(log) |-> Abstract(log[r])]

LEMMA AbstractedFacts ==
    ASSUME HistInv
    PROVE  /\ Abstracted \in Seq(Entry) /\ Len(Abstracted) = Now
           /\ \A r \in 1 .. Now : Abstracted[r] = Abstract(log[r])
<1>1. Now \in Nat /\ \A r \in 1 .. Now : log[r] \in Database /\ Owned(log[r])
  BY Indices DEF Sound
<1>2. \A r \in 1 .. Now : Abstract(log[r]) \in Entry
  BY <1>1, AbstractFields
<1>3. Abstracted = [r \in 1 .. Now |-> Abstract(log[r])]
  BY DEF Abstracted, Now
<1>4. Abstracted \in [1 .. Now -> Entry] /\ \A r \in 1 .. Now : Abstracted[r] = Abstract(log[r])
  BY <1>2, <1>3
<1>5. Abstracted \in Seq(Entry)
  BY <1>1, <1>4, SeqDef
<1>6. Len(Abstracted) \in Nat /\ DOMAIN Abstracted = 1 .. Len(Abstracted)
  BY <1>5, LenProperties
<1>7. Len(Abstracted) = Now
  BY <1>1, <1>4, <1>6
<1> QED BY <1>4, <1>5, <1>7

LEMMA AbstractedAppend ==
    ASSUME HistInv, HistInv', NEW next, Commits(Latest, next, Now + 1), log' = Append(log, next)
    PROVE  Abstracted' = Append(Abstracted, Abstract(next))
<1>1. /\ Abstracted \in Seq(Entry) /\ Len(Abstracted) = Now
      /\ \A r \in 1 .. Now : Abstracted[r] = Abstract(log[r])
  BY AbstractedFacts
<1>2. /\ Abstracted' \in Seq(Entry) /\ Len(Abstracted') = Now'
      /\ \A r \in 1 .. Now' : Abstracted'[r] = Abstract(log'[r])
  <2>1. (HistInv => /\ Abstracted \in Seq(Entry) /\ Len(Abstracted) = Now
                    /\ \A r \in 1 .. Now : Abstracted[r] = Abstract(log[r]))'
    BY AbstractedFacts, PTL
  <2> QED BY <2>1
<1>3. /\ Now \in Nat /\ Now' = Now + 1 /\ log'[Now + 1] = next
      /\ \A r \in 1 .. Now : log'[r] = log[r]
  BY Indices, Appended DEF Commits, Kept
<1>4. Abstract(next) \in Entry
  <2>1. Now + 1 \in 1 .. Now'
    BY <1>3
  <2>2. Abstracted'[Now + 1] \in Entry
    BY <1>2, <2>1, ElementOfSeq
  <2> QED BY <1>2, <1>3, <2>1, <2>2
<1> DEFINE s == Append(Abstracted, Abstract(next))
<1>5. /\ s \in Seq(Entry) /\ Len(s) = Now + 1
      /\ \A r \in 1 .. Now : s[r] = Abstracted[r]
      /\ s[Now + 1] = Abstract(next)
  BY <1>1, <1>4, AppendProperties
<1>6. \A r \in 1 .. Now + 1 : r \in 1 .. Now \/ r = Now + 1
  BY <1>3
<1> HIDE DEF s
<1>7. ASSUME NEW r \in 1 .. Len(Abstracted')
      PROVE  Abstracted'[r] = s[r]
  <2>1. r \in 1 .. Now + 1 /\ Abstracted'[r] = Abstract(log'[r])
    BY <1>2, <1>3
  <2>2. CASE r = Now + 1
    BY <1>3, <1>5, <2>1, <2>2
  <2>3. CASE r \in 1 .. Now
    <3>1. s[r] = Abstract(log[r])
      BY <1>1, <1>5, <2>3
    <3> QED BY <1>3, <2>1, <2>3, <3>1
  <2> QED BY <1>6, <2>1, <2>2, <2>3
<1>8. Abstracted' = s
  BY <1>2, <1>3, <1>5, <1>7, SeqEqual
<1> QED BY <1>8 DEF s

LEMMA StoreInit == Init => Store!StoreInit
<1> SUFFICES ASSUME Init PROVE Store!StoreInit
  OBVIOUS
<1>1. PICK schema \in SchemaText, value \in [Edge -> Value \cup {Plain, Absent}],
           generation \in [Relation -> Inherited] :
         log = << Genesis(schema, value, generation, Object) >>
  BY DEF Init
<1>2. HistInv /\ Len(log) = 1 /\ log[1] = Genesis(schema, value, generation, Object)
  BY <1>1, InitIInv DEF IInv
<1> DEFINE a == Abstract(log[1])
<1>3. a \in Entry /\ Abstracted \in Seq(Entry) /\ Len(Abstracted) = 1 /\ Abstracted[1] = a
  <2>1. 1 \in 1 .. Now /\ Now = 1
    BY <1>2 DEF Now
  <2>2. log[1] \in Database /\ Owned(log[1])
    BY <1>2, <2>1, Indices DEF Sound
  <2> QED BY <1>2, <2>1, <2>2, AbstractFields, AbstractedFacts
<1>4. a.schemaGen = 1 /\ a.generation \in [Relation -> Inherited]
  BY <1>2 DEF Abstract, Genesis
<1> HIDE DEF a
<1>5. Abstracted = <<a>>
  <2>1. <<a>> \in Seq(Entry) /\ Len(<<a>>) = 1 /\ <<a>>[1] = a
    BY <1>3
  <2>2. \A i \in 1 .. Len(Abstracted) : Abstracted[i] = <<a>>[i]
    BY <1>3, <2>1
  <2> QED BY <1>3, <2>1, <2>2, SeqEqual
<1>6. a \in Store!Genesis
  BY <1>3, <1>4 DEF Entry, Store!Genesis, Datum
<1> QED BY <1>5, <1>6 DEF Store!StoreInit, Abstracted

LEMMA StoreNext ==
    ASSUME IInv, [Next]_vars
    PROVE  Store!StoreNext \/ Abstracted' = Abstracted
<1>1. HistInv /\ HistInv' /\ Publishes
  BY NextIInv DEF IInv
<1>2. CASE UNCHANGED log
  BY <1>2 DEF Abstracted
<1>3. CASE Now < MaxRevision /\ \E next : log' = Append(log, next) /\ Commits(Latest, next, Now + 1)
  <2>1. PICK next : log' = Append(log, next) /\ Commits(Latest, next, Now + 1)
    BY <1>3
  <2>2. /\ Latest \in Database /\ Owned(Latest) /\ Now + 1 \in Nat /\ Now \in 1 .. Now
        /\ Latest = log[Now]
    BY <1>1, Indices DEF Sound, Latest, Now
  <2>3. next \in Database /\ Owned(next) /\ Stamped(Latest, next, Now + 1)
    BY <2>1 DEF Commits, Sound
  <2>4. Abstracted' = Append(Abstracted, Abstract(next))
    BY <1>1, <2>1, AbstractedAppend
  <2>5. Len(Abstracted) = Now /\ Abstracted[Len(Abstracted)] = Abstract(Latest)
    BY <1>1, <2>2, AbstractedFacts
  <2> DEFINE a == Abstract(Latest)
             b == Abstract(next)
  <2>6. \/ \E touched \in SUBSET Relation : \E data \in [touched -> Datum] :
             b = Store!RelationshipCommit(a, Now + 1, touched, data)
        \/ \E touched \in SUBSET Relation : \E data \in [touched -> Datum] :
             b = Store!ReferenceCommit(a, Now + 1, touched, data)
        \/ \E schema \in SchemaText, added, removed \in SUBSET Relation :
             b = Store!SchemaCommit(a, Now + 1, schema, added, removed)
    BY <2>2, <2>3, StampedEntry
  <2> HIDE DEF a, b
  <2>7. Abstracted' = Append(Abstracted, b) /\ Abstracted[Len(Abstracted)] = a
    BY <2>4, <2>5 DEF a, b
  <2>8. ASSUME NEW touched \in SUBSET Relation, NEW data \in [touched -> Datum],
               b = Store!RelationshipCommit(a, Now + 1, touched, data)
        PROVE  Store!CommitRelationships
    BY <1>3, <2>5, <2>7, <2>8
    DEF Store!CommitRelationships, Store!ExtendWithRelationships, Abstracted, Datum
  <2>9. ASSUME NEW touched \in SUBSET Relation, NEW data \in [touched -> Datum],
               b = Store!ReferenceCommit(a, Now + 1, touched, data)
        PROVE  Store!CommitReferences
    BY <1>3, <2>5, <2>7, <2>9
    DEF Store!CommitReferences, Store!ExtendWithReferences, Abstracted, Datum
  <2>10. ASSUME NEW schema \in SchemaText, NEW added \in SUBSET Relation,
                NEW removed \in SUBSET Relation,
                b = Store!SchemaCommit(a, Now + 1, schema, added, removed)
         PROVE  Store!CommitSchema
    <3>1. Abstracted' = Store!ExtendWithSchema(Abstracted, schema, added, removed)
      BY <2>5, <2>7, <2>10 DEF Store!ExtendWithSchema
    <3>2. Len(Abstracted) < MaxRevision
      BY <1>3, <2>5
    <3> QED BY <3>1, <3>2 DEF Store!CommitSchema, Abstracted
  <2> QED BY <2>6, <2>8, <2>9, <2>10 DEF Store!StoreNext
<1> QED BY <1>1, <1>2, <1>3 DEF Publishes

\* Every transaction of every writer and host is one of the store's commits:
\* what it changes it stamps, in the same value (writer-obligations).
THEOREM Implements == Spec => ImplementsStampedStore
<1>1. ASSUME IInv, [Next]_vars
      PROVE  [Store!StoreNext]_([r \in 1 .. Len(log) |-> Abstract(log[r])])
  BY <1>1, StoreNext DEF Abstracted
<1> QED BY <1>1, StoreInit, Inductive, PTL DEF Spec, ImplementsStampedStore, Store!StoreSpec

\* The promises the engine reads from the store's contract.
Contract == INSTANCE StampedStore_proofs WITH log <- Abstracted, Datum <- Datum

\* However far apart two committed values are, equal stamps of a relation or of
\* the schema prove equal content: what complete-result relies on is kept by
\* the writers, by way of the store they implement.
THEOREM StampsProveContent == Spec => []Contract!ProofContract
<1>1. Init => Contract!StoreInv
  <2>1. Store!StoreInit => Contract!StoreInit
    BY DEF Store!StoreInit, Store!Genesis, Contract!StoreInit, Contract!Genesis, Abstracted, Datum
  <2> QED BY <2>1, StoreInit, Contract!InitStoreInv, BoundsAssumption
         DEF Contract!NoGenerationAssumption, Contract!InheritedAssumption,
             Contract!MaxRevisionAssumption
<1>2. ASSUME IInv, [Next]_vars, Contract!StoreInv PROVE Contract!StoreInv'
  <2>1. Store!StoreNext => Contract!StoreNext
    BY DEF Store!StoreNext, Store!CommitRelationships, Store!CommitReferences, Store!CommitSchema,
       Store!ExtendWithRelationships, Store!ExtendWithReferences, Store!ExtendWithSchema,
       Store!RelationshipCommit, Store!ReferenceCommit, Store!SchemaCommit,
       Contract!StoreNext, Contract!CommitRelationships, Contract!CommitReferences, Contract!CommitSchema,
       Contract!ExtendWithRelationships, Contract!ExtendWithReferences, Contract!ExtendWithSchema,
       Contract!RelationshipCommit, Contract!ReferenceCommit, Contract!SchemaCommit,
       Abstracted, Datum
  <2>2. [Contract!StoreNext]_Abstracted
    BY <1>2, <2>1, StoreNext
  <2> QED BY <1>2, <2>2, Contract!NextStoreInv, BoundsAssumption
         DEF Contract!NoGenerationAssumption, Contract!InheritedAssumption,
             Contract!MaxRevisionAssumption
<1>3. Contract!StoreInv => Contract!ProofContract
  BY DEF Contract!StoreInv
<1> QED BY <1>1, <1>2, <1>3, Inductive, PTL DEF Spec
=============================================================================
