--------------------------- MODULE AuthCache_proofs ---------------------------
(***************************************************************************)
(* Every answer AuthCache serves is the one evaluation gives on the value  *)
(* the request selected: for any number of requests, queries, relations,   *)
(* stores and source lifecycles, and for histories of any length.          *)
(*                                                                         *)
(* The argument.  Commits keep each history Certified, so two values with  *)
(* the same descriptor give the same answer (SameDescriptorSameAnswer).  A *)
(* request only reads and writes a store of the lifecycle its value came   *)
(* from (RequestSound), and every resident of a store was evaluated on a   *)
(* committed value of that history, under its own key (Committed): whoever *)
(* meets it there may use it.                                              *)
(***************************************************************************)
EXTENDS AuthCache, StampedStore_proofs

KindSet     == {"ordinary", "historical", "speculative"}
Values      == { Answer(q, db) : q \in Query, db \in Database }
ManagedKeys == { [tier |-> "managed", query |-> q, basis |-> Descriptor(q, db)] :
                 q \in Query, db \in Database }
Keys        == [tier : {"exact"}, query : Query, basis : KindSet \X Nat] \cup ManagedKeys
EntryRecord == [key : Keys, value : Values, computed : Nat]

LifecycleRecord == [incarnation : Nat, source : Nat, answers : SUBSET EntryRecord]

RequestRecord ==
    [ pc : Stage, query : Query \cup {Null}, kind : KindSet, lifecycle : Nat,
      source : Nat, db : Database \cup {Null}, revision : Nat, disjoint : BOOLEAN,
      key : ManagedKeys \cup {Null}, answer : Values \cup {Null}, computed : Nat,
      dirty : BOOLEAN ]

\* Histories keep the contract and stores hold committed answers only.
World(histories, stores) ==
    /\ histories \in Seq(Seq(Database)) /\ histories # <<>>
    /\ \A n \in 1 .. Len(histories) : histories[n] # <<>> /\ Certified(histories[n])
    /\ stores \in Seq(LifecycleRecord) /\ stores # <<>>
    /\ stores[Len(stores)].source = Len(histories)
    /\ \A l \in 1 .. Len(stores) :
         /\ stores[l].incarnation \in 1 .. Len(stores)
         /\ stores[l].source \in 1 .. Len(histories)
         /\ \A e \in stores[l].answers : Committed(e, histories[stores[l].source])

\* The value a request reads is one its history holds; a prospective value whose
\* effects are disjoint has the answer and the descriptor of its parent.
Selected(r, history) ==
    IF r.kind # "speculative"
    THEN r.revision \in 1 .. Len(history) /\ r.db = history[r.revision]
    ELSE r.disjoint =>
           \E i \in 1 .. Len(history) :
              /\ Answer(r.query, r.db) = Answer(r.query, history[i])
              /\ Descriptor(r.query, r.db) = Descriptor(r.query, history[i])

Answered(r) == r.answer = Answer(r.query, r.db) /\ r.computed <= r.revision

LiftKey(r) == [tier |-> "managed", query |-> r.query, basis |-> Descriptor(r.query, r.db)]

RequestSound(r, histories, stores) ==
    /\ r.pc # "idle" => r.query \in Query /\ r.lifecycle \in 1 .. Len(stores)
    /\ r.pc \notin {"idle", "captured"} =>
         /\ r.source \in stores[r.lifecycle].source .. Len(histories)
         /\ r.db \in Database
         /\ Selected(r, histories[r.source])
    /\ r.pc \notin {"idle", "captured", "acquired"} =>
         stores[r.lifecycle].source = r.source
    /\ r.pc \in {"exact", "publishManaged", "publishExact"} => r.kind # "speculative"
    /\ r.pc \in {"captured", "acquired", "exact", "proof"} => r.key = Null
    /\ r.pc \in {"managed", "publishManaged"} => r.key = LiftKey(r)
    /\ r.pc = "managed" => Complete(r.query, r.db)
    /\ r.pc = "evaluate" => r.key \in {Null, LiftKey(r)}
    /\ r.pc = "managed" /\ r.kind = "speculative" => r.disjoint
    /\ r.pc = "publishManaged" =>
         r.answer = Answer(r.query, r.db) /\ r.computed = r.revision
    /\ r.pc = "publishExact" =>
         /\ Answered(r)
         /\ r.computed \in 1 .. Len(histories[r.source])
         /\ r.answer = Answer(r.query, histories[r.source][r.computed])
    /\ r.pc = "done" => Answered(r)

CheckpointSound(snapshot, candidate, histories, stores) ==
    /\ snapshot # Null =>
         /\ snapshot.source \in 1 .. Len(histories)
         /\ snapshot.entries \subseteq EntryRecord
         /\ \A e \in snapshot.entries : Committed(e, histories[snapshot.source])
    /\ candidate # Null =>
         /\ candidate.captured \in 1 .. Len(stores)
         /\ candidate.entries \subseteq EntryRecord
         /\ \A e \in candidate.entries :
              Committed(e, histories[stores[candidate.captured].source])

IInv ==
    /\ World(logs, lifecycles)
    /\ req \in [Request -> RequestRecord]
    /\ \A p \in Request : RequestSound(req[p], logs, lifecycles)
    /\ CheckpointSound(saved, restoring, logs, lifecycles)
    /\ contentRevision \in Nat
    /\ disabled \subseteq 1 .. Current

-----------------------------------------------------------------------------
(* Reuse by proof.                                                         *)

\* A query reaches relations only, whatever the schema.
LEMMA ReachRelations ==
    ASSUME NEW q \in Query, NEW db \in Database
    PROVE  Reach(q, db) \subseteq Relation
<1>1. db.schema \in SchemaText
  BY DEF Database
<1>2. Closure[q][db.schema] \in [rules : Rules, relations : SUBSET Relation]
  BY <1>1, ClosureAssumption
<1> QED
  BY <1>2 DEF Reach

\* Equal descriptors are equally complete.
LEMMA CompleteByDescriptor ==
    ASSUME NEW q, NEW a, NEW b, Complete(q, a), Descriptor(q, a) = Descriptor(q, b)
    PROVE  Complete(q, b)
<1> DEFINE fa == [r \in Reach(q, a) |-> a.generation[r]]
           fb == [r \in Reach(q, b) |-> b.generation[r]]
<1>1. fa = fb
  BY DEF Descriptor
<1>2. DOMAIN fa = Reach(q, a) /\ DOMAIN fb = Reach(q, b)
  OBVIOUS
<1>3. Reach(q, a) = Reach(q, b)
  BY <1>1, <1>2
<1>4. ASSUME NEW r \in Reach(q, b) PROVE b.generation[r] # NoGeneration
  <2>1. fa[r] = a.generation[r] /\ fb[r] = b.generation[r]
    BY <1>3, <1>4
  <2>2. a.generation[r] # NoGeneration
    BY <1>3, <1>4 DEF Complete
  <2> QED
    BY <1>1, <2>1, <2>2
<1> QED
  BY <1>4 DEF Complete

\* Equal complete descriptors on two values of one certified history prove equal
\* answers.
LEMMA SameDescriptorSameAnswer ==
    ASSUME NEW history \in Seq(Database), Certified(history), NEW q \in Query,
           NEW i \in 1 .. Len(history), NEW j \in 1 .. Len(history),
           Complete(q, history[i]),
           Descriptor(q, history[i]) = Descriptor(q, history[j])
    PROVE  Answer(q, history[i]) = Answer(q, history[j])
<1> DEFINE a == history[i]
           b == history[j]
<1>1. a.schemaGen = b.schemaGen
  BY DEF Descriptor
<1>2. a.schema = b.schema
  BY <1>1 DEF Certified, EqualStampsEqualData
<1>3. Reach(q, a) = Reach(q, b)
  BY <1>2 DEF Reach
<1>4. a \in Database /\ Reach(q, a) \subseteq Relation
  BY ReachRelations
<1>5. [r \in Reach(q, a) |-> a.generation[r]] = [r \in Reach(q, b) |-> b.generation[r]]
  BY DEF Descriptor
<1>6. \A r \in Reach(q, a) : a.generation[r] = b.generation[r]
  <2> SUFFICES ASSUME NEW r \in Reach(q, a) PROVE a.generation[r] = b.generation[r]
    OBVIOUS
  <2>1. [s \in Reach(q, a) |-> a.generation[s]][r] = a.generation[r]
    OBVIOUS
  <2>2. [s \in Reach(q, b) |-> b.generation[s]][r] = b.generation[r]
    BY <1>3
  <2> QED
    BY <1>5, <2>1, <2>2
<1>7. \A r \in Reach(q, a) : a.data[r] = b.data[r]
  BY <1>4, <1>6 DEF Certified, EqualStampsEqualData, Complete
<1> QED
  BY <1>2, <1>3, <1>7 DEF Answer

\* A prospective value whose effects are disjoint from what the query reaches
\* answers as its parent does, and its descriptor says so.
LEMMA DisjointSpeculation ==
    ASSUME NEW db \in Database, NEW q \in Query, NEW revision \in Nat,
           NEW touched \in SUBSET Relation, NEW data \in [touched -> Datum],
           NEW schema \in SchemaText,
           Disjoint(q, db, Prospective(db, revision, touched, data, schema), touched)
    PROVE  LET next == Prospective(db, revision, touched, data, schema) IN
           /\ next \in Database
           /\ Answer(q, next) = Answer(q, db)
           /\ Descriptor(q, next) = Descriptor(q, db)
<1> DEFINE next == Prospective(db, revision, touched, data, schema)
<1>1. RelationshipCommit(db, revision, touched, data) \in Database
  BY RelationshipCommitType
<1>2. next \in Database
  BY <1>1 DEF Prospective, Database
<1>3. /\ next.schemaGen = db.schemaGen
      /\ next.generation = [r \in Relation |-> IF r \in touched THEN revision
                                              ELSE db.generation[r]]
      /\ next.data = [r \in Relation |-> IF r \in touched THEN data[r] ELSE db.data[r]]
  BY DEF Prospective, RelationshipCommit, Database
<1>4. /\ Closure[q][next.schema] = Closure[q][db.schema]
      /\ Reach(q, next) = Reach(q, db)
      /\ Reach(q, next) \cap touched = {}
  BY DEF Disjoint, Reach
<1>5. Reach(q, next) \subseteq Relation
  BY <1>2, ReachRelations
<1>6. \A r \in Reach(q, next) :
        next.generation[r] = db.generation[r] /\ next.data[r] = db.data[r]
  BY <1>3, <1>4, <1>5
<1> QED
  BY <1>2, <1>3, <1>4, <1>6 DEF Answer, Descriptor

-----------------------------------------------------------------------------
(* What others do never disturbs a request or a resident.                  *)

\* Histories are only extended and a lifecycle keeps its source.
Grows(h1, s1, h2, s2) ==
    /\ Len(h1) <= Len(h2)
    /\ \A n \in 1 .. Len(h1) :
         /\ Len(h1[n]) <= Len(h2[n])
         /\ \A i \in 1 .. Len(h1[n]) : h2[n][i] = h1[n][i]
    /\ Len(s1) <= Len(s2)
    /\ \A l \in 1 .. Len(s1) : s2[l].source = s1[l].source

LEMMA GrowthKeepsCommitted ==
    ASSUME NEW h1 \in Seq(Database), NEW h2 \in Seq(Database), NEW e,
           Len(h1) <= Len(h2), \A i \in 1 .. Len(h1) : h2[i] = h1[i],
           Committed(e, h1)
    PROVE  Committed(e, h2)
<1>1. Len(h1) \in Nat /\ Len(h2) \in Nat
  OBVIOUS
<1>2. e.computed \in 1 .. Len(h1) /\ e.computed \in 1 .. Len(h2) /\ h2[e.computed] = h1[e.computed]
  BY <1>1 DEF Committed
<1>3. ASSUME e.key.tier = "exact"
      PROVE  /\ e.key.basis[2] \in e.computed .. Len(h2)
             /\ h2[e.key.basis[2]] = h1[e.key.basis[2]]
  <2>1. e.key.basis[2] \in e.computed .. Len(h1)
    BY <1>3 DEF Committed
  <2>2. e.key.basis[2] \in 1 .. Len(h1)
    BY <1>1, <1>2, <2>1
  <2> QED
    BY <1>1, <1>2, <2>1, <2>2
<1> QED
  BY <1>2, <1>3 DEF Committed

LEMMA GrowthKeepsRequest ==
    ASSUME NEW h1, NEW s1, NEW h2, NEW s2, World(h1, s1), World(h2, s2),
           Grows(h1, s1, h2, s2), NEW r \in RequestRecord, RequestSound(r, h1, s1)
    PROVE  RequestSound(r, h2, s2)
<1>1. /\ Len(h1) \in Nat /\ Len(h2) \in Nat /\ Len(s1) \in Nat /\ Len(s2) \in Nat
      /\ Len(h1) <= Len(h2) /\ Len(s1) <= Len(s2)
  BY DEF World, Grows
<1>2. r.pc # "idle" => /\ r.query \in Query
                       /\ r.lifecycle \in 1 .. Len(s1) /\ r.lifecycle \in 1 .. Len(s2)
                       /\ s2[r.lifecycle].source = s1[r.lifecycle].source
  BY <1>1 DEF RequestSound, Grows
<1>3. ASSUME r.pc \notin {"idle", "captured"}
      PROVE  /\ r.source \in s1[r.lifecycle].source .. Len(h1)
             /\ r.source \in 1 .. Len(h1)
             /\ r.db \in Database
             /\ Selected(r, h1[r.source])
             /\ h1[r.source] \in Seq(Database) /\ h2[r.source] \in Seq(Database)
             /\ Len(h1[r.source]) \in Nat /\ Len(h2[r.source]) \in Nat
             /\ Len(h1[r.source]) <= Len(h2[r.source])
             /\ \A i \in 1 .. Len(h1[r.source]) :
                  /\ i \in 1 .. Len(h2[r.source])
                  /\ h2[r.source][i] = h1[r.source][i]
  <2>1. /\ r.source \in s1[r.lifecycle].source .. Len(h1)
        /\ r.db \in Database
        /\ Selected(r, h1[r.source])
    BY <1>3 DEF RequestSound
  <2>2. s1[r.lifecycle].source \in 1 .. Len(h1)
    BY <1>2, <1>3 DEF World
  <2>3. r.source \in 1 .. Len(h1) /\ r.source \in 1 .. Len(h2)
    BY <1>1, <2>1, <2>2
  <2>4. h1[r.source] \in Seq(Database) /\ h2[r.source] \in Seq(Database)
    BY <2>3, SMTT(30) DEF World
  <2>5. /\ Len(h1[r.source]) <= Len(h2[r.source])
        /\ \A i \in 1 .. Len(h1[r.source]) : h2[r.source][i] = h1[r.source][i]
    BY <2>3 DEF Grows
  <2> QED
    BY <2>1, <2>3, <2>4, <2>5
<1>4. r.pc \notin {"idle", "captured"} =>
        /\ r.source \in s2[r.lifecycle].source .. Len(h2)
        /\ r.db \in Database
  BY <1>1, <1>2, <1>3
<1>5. ASSUME r.pc \notin {"idle", "captured"} PROVE Selected(r, h2[r.source])
  <2>1. CASE r.kind # "speculative"
    BY <1>3, <1>5, <2>1 DEF Selected
  <2>2. CASE r.kind = "speculative"
    <3> SUFFICES ASSUME r.disjoint
                 PROVE  \E i \in 1 .. Len(h2[r.source]) :
                          /\ Answer(r.query, r.db) = Answer(r.query, h2[r.source][i])
                          /\ Descriptor(r.query, r.db) = Descriptor(r.query, h2[r.source][i])
      BY <2>2 DEF Selected
    <3>1. PICK i \in 1 .. Len(h1[r.source]) :
            /\ Answer(r.query, r.db) = Answer(r.query, h1[r.source][i])
            /\ Descriptor(r.query, r.db) = Descriptor(r.query, h1[r.source][i])
      BY <1>3, <1>5, <2>2 DEF Selected
    <3> QED
      BY <1>3, <1>5, <3>1
  <2> QED
    BY <2>1, <2>2
<1>6. r.pc \notin {"idle", "captured", "acquired"} => s2[r.lifecycle].source = r.source
  BY <1>2 DEF RequestSound
<1>7. r.pc = "publishExact" =>
        /\ r.computed \in 1 .. Len(h2[r.source])
        /\ r.answer = Answer(r.query, h2[r.source][r.computed])
  BY <1>3 DEF RequestSound
<1> QED
  BY <1>2, <1>4, <1>5, <1>6, <1>7 DEF RequestSound

LEMMA GrowthKeepsCheckpoint ==
    ASSUME NEW h1, NEW s1, NEW h2, NEW s2, World(h1, s1), World(h2, s2),
           Grows(h1, s1, h2, s2), NEW snapshot, NEW candidate,
           CheckpointSound(snapshot, candidate, h1, s1)
    PROVE  CheckpointSound(snapshot, candidate, h2, s2)
<1>1. \A n \in 1 .. Len(h1) :
        /\ n \in 1 .. Len(h2)
        /\ h1[n] \in Seq(Database) /\ h2[n] \in Seq(Database)
        /\ Len(h1[n]) <= Len(h2[n])
        /\ \A i \in 1 .. Len(h1[n]) : h2[n][i] = h1[n][i]
  <2>1. SUFFICES ASSUME NEW n \in 1 .. Len(h1)
                 PROVE  /\ n \in 1 .. Len(h2)
                        /\ h1[n] \in Seq(Database) /\ h2[n] \in Seq(Database)
                        /\ Len(h1[n]) <= Len(h2[n])
                        /\ \A i \in 1 .. Len(h1[n]) : h2[n][i] = h1[n][i]
    OBVIOUS
  <2>2. h1 \in Seq(Seq(Database)) /\ h2 \in Seq(Seq(Database))
    BY DEF World
  <2>3. /\ n \in 1 .. Len(h2)
        /\ Len(h1[n]) <= Len(h2[n])
        /\ \A i \in 1 .. Len(h1[n]) : h2[n][i] = h1[n][i]
    <3>1. /\ Len(h1) <= Len(h2)
          /\ Len(h1[n]) <= Len(h2[n])
          /\ \A i \in 1 .. Len(h1[n]) : h2[n][i] = h1[n][i]
      BY Zenon DEF Grows
    <3>2. Len(h1) \in Nat /\ Len(h2) \in Nat
      BY <2>2
    <3>3. \A a, b \in Nat : a <= b /\ n \in 1 .. a => n \in 1 .. b
      OBVIOUS
    <3>4. n \in 1 .. Len(h2)
      BY <3>1, <3>2, <3>3, Zenon
    <3> QED
      BY <3>1, <3>4
  <2> QED
    BY <2>2, <2>3
<1>2. \A n \in 1 .. Len(h1) : \A e : Committed(e, h1[n]) => Committed(e, h2[n])
  BY <1>1, GrowthKeepsCommitted
<1>3. \A l \in 1 .. Len(s1) : /\ l \in 1 .. Len(s2)
                              /\ s2[l].source = s1[l].source
                              /\ s1[l].source \in 1 .. Len(h1)
  BY DEF World, Grows
<1> QED
  BY <1>1, <1>2, <1>3 DEF CheckpointSound

\* A step that leaves histories and stores alone and moves one request soundly.
LEMMA RequestStep ==
    ASSUME IInv, NEW p \in Request,
           req' = [req EXCEPT ![p] = req'[p]], req'[p] \in RequestRecord,
           RequestSound(req'[p], logs, lifecycles),
           UNCHANGED <<logs, lifecycles, saved, restoring>>,
           contentRevision' \in Nat, disabled' \subseteq 1 .. Current
    PROVE  IInv'
<1>1. /\ World(logs, lifecycles)'
      /\ CheckpointSound(saved, restoring, logs, lifecycles)'
      /\ Current' = Current
  BY DEF IInv, Current
<1>2. req' \in [Request -> RequestRecord]
  BY DEF IInv
<1>3. \A o \in Request : RequestSound(req'[o], logs, lifecycles)
  BY DEF IInv
<1>4. \A o \in Request : RequestSound(req'[o], logs', lifecycles')
  BY <1>3
<1> QED
  BY <1>1, <1>2, <1>4 DEF IInv

-----------------------------------------------------------------------------
(* The records of a request, update by update.                             *)

LEMMA IdleType == Idle \in RequestRecord
BY DEF RequestRecord, Stage, Idle, KindSet

CapturedAs(q, kind, l) ==
    [Idle EXCEPT !.pc = "captured", !.query = q, !.kind = kind, !.lifecycle = l]

SelectedAs(r, source, db, revision, disjoint) ==
    [r EXCEPT !.pc = "acquired", !.source = source, !.db = db,
              !.revision = revision, !.disjoint = disjoint]

SettledAs(r, stage, value, computed) ==
    [r EXCEPT !.pc = stage, !.answer = value, !.computed = computed]

StagedAs(r, stage, dirty) == [r EXCEPT !.pc = stage, !.dirty = dirty]

LiftedAs(r, key) == [r EXCEPT !.pc = "managed", !.key = key]

LEMMA CapturedType ==
    ASSUME NEW q \in Query \cup {Null}, NEW kind \in KindSet, NEW l \in Nat
    PROVE  /\ CapturedAs(q, kind, l) \in RequestRecord
           /\ CapturedAs(q, kind, l).pc = "captured"
           /\ CapturedAs(q, kind, l).query = q
           /\ CapturedAs(q, kind, l).lifecycle = l
           /\ CapturedAs(q, kind, l).key = Null
BY DEF RequestRecord, Stage, Idle, KindSet, CapturedAs

LEMMA SelectedFields ==
    ASSUME NEW r \in RequestRecord, NEW source, NEW db, NEW revision, NEW disjoint
    PROVE  LET s == SelectedAs(r, source, db, revision, disjoint) IN
           /\ s.pc = "acquired" /\ s.source = source /\ s.db = db
           /\ s.revision = revision /\ s.disjoint = disjoint
           /\ s.query = r.query /\ s.kind = r.kind /\ s.lifecycle = r.lifecycle
           /\ s.key = r.key
BY DEF RequestRecord, SelectedAs

LEMMA SelectedType ==
    ASSUME NEW r \in RequestRecord, NEW source \in Nat, NEW db \in Database,
           NEW revision \in Nat, NEW disjoint \in BOOLEAN
    PROVE  SelectedAs(r, source, db, revision, disjoint) \in RequestRecord
BY DEF RequestRecord, Stage, SelectedAs

LEMMA SettledType ==
    ASSUME NEW r \in RequestRecord, NEW stage \in Stage, NEW value \in Values,
           NEW computed \in Nat
    PROVE  LET s == SettledAs(r, stage, value, computed) IN
           /\ s \in RequestRecord
           /\ s.pc = stage /\ s.answer = value /\ s.computed = computed
           /\ s.query = r.query /\ s.kind = r.kind /\ s.lifecycle = r.lifecycle
           /\ s.source = r.source /\ s.db = r.db /\ s.revision = r.revision
           /\ s.disjoint = r.disjoint /\ s.key = r.key
BY DEF RequestRecord, SettledAs

LEMMA StagedType ==
    ASSUME NEW r \in RequestRecord, NEW stage \in Stage, NEW dirty \in BOOLEAN
    PROVE  LET s == StagedAs(r, stage, dirty) IN
           /\ s \in RequestRecord
           /\ s.pc = stage /\ s.answer = r.answer /\ s.computed = r.computed
           /\ s.query = r.query /\ s.kind = r.kind /\ s.lifecycle = r.lifecycle
           /\ s.source = r.source /\ s.db = r.db /\ s.revision = r.revision
           /\ s.disjoint = r.disjoint /\ s.key = r.key
BY DEF RequestRecord, StagedAs

LEMMA LiftedType ==
    ASSUME NEW r \in RequestRecord, NEW key \in ManagedKeys
    PROVE  LET s == LiftedAs(r, key) IN
           /\ s \in RequestRecord
           /\ s.pc = "managed" /\ s.key = key
           /\ s.query = r.query /\ s.kind = r.kind /\ s.lifecycle = r.lifecycle
           /\ s.source = r.source /\ s.db = r.db /\ s.revision = r.revision
           /\ s.disjoint = r.disjoint
BY DEF RequestRecord, Stage, LiftedAs

LEMMA SelectMoves ==
    ASSUME IInv, NEW p \in Request, NEW db, NEW revision, NEW disjoint,
           Select(p, db, revision, disjoint)
    PROVE  /\ req'[p] = SelectedAs(req[p], Len(logs), db, revision, disjoint)
           /\ req' = [req EXCEPT ![p] = req'[p]]
BY DEF Select, SelectedAs, IInv

LEMMA SettleMoves ==
    ASSUME IInv, NEW p \in Request, NEW stage, NEW value, NEW computed,
           Settle(p, stage, value, computed)
    PROVE  /\ req'[p] = SettledAs(req[p], stage, value, computed)
           /\ req' = [req EXCEPT ![p] = req'[p]]
BY DEF Settle, SettledAs, IInv

\* What a request that selected its value knows about it.
LEMMA SelectedFacts ==
    ASSUME IInv, NEW p \in Request, req[p].pc \notin {"idle", "captured", "acquired"}
    PROVE  /\ req[p].query \in Query /\ req[p].db \in Database /\ Fresh(p) \in Values
           /\ req[p].revision \in Nat
           /\ req[p].lifecycle \in 1 .. Len(lifecycles)
           /\ req[p].source = lifecycles[req[p].lifecycle].source
           /\ req[p].source \in 1 .. Len(logs)
           /\ logs[req[p].source] \in Seq(Database) /\ Certified(logs[req[p].source])
           /\ \A e \in Answers(p) : e \in EntryRecord /\ Committed(e, logs[req[p].source])
           /\ Selected(req[p], logs[req[p].source])
<1>1. /\ World(logs, lifecycles)
      /\ req[p] \in RequestRecord
      /\ RequestSound(req[p], logs, lifecycles)
  BY DEF IInv
<1>2. /\ req[p].query \in Query /\ req[p].db \in Database
      /\ req[p].lifecycle \in 1 .. Len(lifecycles)
      /\ req[p].source = lifecycles[req[p].lifecycle].source
      /\ Selected(req[p], logs[req[p].source])
  BY <1>1 DEF RequestSound
<1>3. /\ req[p].source \in 1 .. Len(logs)
      /\ lifecycles[req[p].lifecycle] \in LifecycleRecord
      /\ \A e \in Answers(p) : Committed(e, logs[req[p].source])
  BY <1>1, <1>2 DEF World, Answers
<1>4. Answers(p) \subseteq EntryRecord
  BY <1>3 DEF LifecycleRecord, Answers
<1>5. Fresh(p) \in Values
  BY <1>2 DEF Fresh, Values
<1>6. req[p].revision \in Nat
  BY <1>1 DEF RequestRecord
<1>7. logs[req[p].source] \in Seq(Database) /\ Certified(logs[req[p].source])
  BY <1>1, <1>3 DEF World
<1> QED
  BY <1>2, <1>3, <1>4, <1>5, <1>6, <1>7

-----------------------------------------------------------------------------
(* One request at a time.                                                  *)

\* Capturing names a lifecycle that exists.
LEMMA CaptureStep ==
    ASSUME IInv, NEW p \in Request, Capture(p)
    PROVE  IInv'
<1> DEFINE r == req[p]
           next == req'[p]
<1>0. r \in RequestRecord /\ RequestSound(r, logs, lifecycles)
  BY DEF IInv
<1>1. PICK q \in Query, kind \in Kind :
        next = CapturedAs(q, kind, Current)
  BY DEF Capture, CapturedAs, IInv
<1>5. Current \in Nat /\ Current \in 1 .. Len(lifecycles) /\ Kind \subseteq KindSet
  BY KindAssumption DEF IInv, World, Current, KindSet
<1>2. next \in RequestRecord
  BY <1>1, <1>5, CapturedType
<1>3. RequestSound(next, logs, lifecycles)
  BY <1>1, <1>5, CapturedType DEF RequestSound
<1>4. req' = [req EXCEPT ![p] = next]
  BY DEF Capture, IInv
<1> QED
  BY <1>2, <1>3, <1>4, RequestStep DEF Capture, IInv

\* Starting over names the lifecycle installed by now.
LEMMA RetrySelectionStep ==
    ASSUME IInv, NEW p \in Request, RetrySelection(p)
    PROVE  IInv'
<1> DEFINE r == req[p]
           next == req'[p]
<1>0. r \in RequestRecord /\ RequestSound(r, logs, lifecycles)
  BY DEF IInv
<1>1. next = CapturedAs(r.query, r.kind, Current)
  BY DEF RetrySelection, CapturedAs, IInv
<1>5. Current \in Nat /\ Current \in 1 .. Len(lifecycles)
  BY DEF IInv, World, Current
<1>6. r.query \in Query /\ r.kind \in KindSet
  BY <1>0 DEF RetrySelection, RequestSound, RequestRecord
<1>2. next \in RequestRecord
  BY <1>1, <1>5, <1>6, CapturedType
<1>3. RequestSound(next, logs, lifecycles)
  BY <1>1, <1>5, <1>6, CapturedType DEF RequestSound
<1>4. req' = [req EXCEPT ![p] = next]
  BY DEF RetrySelection, IInv
<1> QED
  BY <1>2, <1>3, <1>4, RequestStep DEF RetrySelection, IInv

\* A finished request holds nothing.
LEMMA FinishStep ==
    ASSUME IInv, NEW p \in Request, Finish(p)
    PROVE  IInv'
<1> DEFINE r == req[p]
           next == req'[p]
<1>0. r \in RequestRecord /\ RequestSound(r, logs, lifecycles)
  BY DEF IInv
<1>1. next = Idle
  BY DEF Finish, IInv
<1>2. next \in RequestRecord
  BY <1>1, IdleType
<1>3. RequestSound(next, logs, lifecycles)
  BY <1>1 DEF RequestSound, Idle
<1>4. req' = [req EXCEPT ![p] = next]
  BY DEF Finish, IInv
<1> QED
  BY <1>2, <1>3, <1>4, RequestStep DEF Finish, IInv

\* Facts about the histories a selection chooses from.
LEMMA SelectionFacts ==
    ASSUME IInv, NEW p \in Request, req[p].pc = "captured"
    PROVE  /\ Len(logs) \in Nat /\ History = logs[Len(logs)]
           /\ History \in Seq(Database) /\ Len(History) \in Nat
           /\ \A i \in 1 .. Len(History) : History[i] \in Database
           /\ Len(logs) \in lifecycles[req[p].lifecycle].source .. Len(logs)
<1>1. /\ World(logs, lifecycles)
      /\ RequestSound(req[p], logs, lifecycles)
  BY DEF IInv
<1>2. /\ Len(logs) \in Nat /\ Len(logs) \in 1 .. Len(logs)
      /\ History = logs[Len(logs)]
      /\ History \in Seq(Database)
  BY <1>1 DEF World, History
<1>3. req[p].lifecycle \in 1 .. Len(lifecycles)
  BY <1>1 DEF RequestSound
<1>4. lifecycles[req[p].lifecycle].source \in 1 .. Len(logs)
  BY <1>1, <1>3 DEF World
<1> QED
  BY <1>2, <1>4

\* An acquired value is one its history holds.
LEMMA AcquireStep ==
    ASSUME IInv, NEW p \in Request, Acquire(p)
    PROVE  IInv'
<1> DEFINE r == req[p]
           next == req'[p]
<1>0. r \in RequestRecord /\ RequestSound(r, logs, lifecycles)
  BY DEF IInv
<1>1. PICK i \in 1 .. Len(History), disjoint \in BOOLEAN :
        Select(p, History[i], i, disjoint)
  BY DEF Acquire
<1>5. next = SelectedAs(r, Len(logs), History[i], i, disjoint)
  BY <1>1, SelectMoves
<1>6. r.pc = "captured" /\ r.kind # "speculative"
  BY DEF Acquire
<1>7. /\ Len(logs) \in Nat /\ Len(History) \in Nat /\ i \in Nat
      /\ History = logs[Len(logs)]
      /\ History[i] \in Database
      /\ Len(logs) \in lifecycles[r.lifecycle].source .. Len(logs)
  BY <1>1, <1>6, SelectionFacts
<1>10. /\ next.pc = "acquired" /\ next.source = Len(logs) /\ next.db = History[i]
       /\ next.revision = i /\ next.query = r.query /\ next.kind = r.kind
       /\ next.lifecycle = r.lifecycle /\ next.key = r.key
  BY <1>0, <1>5, SelectedFields
<1>2. next \in RequestRecord
  BY <1>0, <1>1, <1>5, <1>7, SelectedType
<1>3. RequestSound(next, logs, lifecycles)
  BY <1>0, <1>1, <1>6, <1>7, <1>10 DEF RequestSound, Selected
<1>4. req' = [req EXCEPT ![p] = next]
  BY <1>1, SelectMoves
<1> QED
  BY <1>2, <1>3, <1>4, RequestStep DEF Acquire, IInv

\* A prospective value answers as its parent when it is disjoint.
LEMMA AcquireSpeculativeStep ==
    ASSUME IInv, NEW p \in Request, AcquireSpeculative(p)
    PROVE  IInv'
<1> DEFINE r == req[p]
           next == req'[p]
<1>0. r \in RequestRecord /\ RequestSound(r, logs, lifecycles)
  BY DEF IInv
<1>a. PICK i \in 1 .. Len(History), schema \in SchemaText, touched \in SUBSET Relation :
      \E data \in [touched -> Datum] :
        Select(p, Prospective(History[i], i + 1, touched, data, schema), i + 1,
               Disjoint(r.query, History[i],
                        Prospective(History[i], i + 1, touched, data, schema), touched))
  BY DEF AcquireSpeculative
<1>1. PICK data \in [touched -> Datum], disjoint \in BOOLEAN :
        /\ Select(p, Prospective(History[i], i + 1, touched, data, schema), i + 1, disjoint)
        /\ disjoint => Disjoint(r.query, History[i],
                        Prospective(History[i], i + 1, touched, data, schema), touched)
  <2>1. PICK data \in [touched -> Datum] :
          Select(p, Prospective(History[i], i + 1, touched, data, schema), i + 1,
                 Disjoint(r.query, History[i],
                        Prospective(History[i], i + 1, touched, data, schema), touched))
    BY <1>a
  <2> DEFINE flag == Disjoint(r.query, History[i],
                        Prospective(History[i], i + 1, touched, data, schema), touched)
  <2>2. flag \in BOOLEAN
    BY DEF Disjoint
  <2> QED
    BY <2>1, <2>2
<1> DEFINE prospect == Prospective(History[i], i + 1, touched, data, schema)
<1>5. next = SelectedAs(r, Len(logs), prospect, i + 1, disjoint)
  BY <1>1, SelectMoves
<1>6. r.pc = "captured" /\ r.kind = "speculative"
  BY DEF AcquireSpeculative
<1>7. /\ Len(logs) \in Nat /\ Len(History) \in Nat /\ i + 1 \in Nat
      /\ History = logs[Len(logs)]
      /\ History[i] \in Database
      /\ Len(logs) \in lifecycles[r.lifecycle].source .. Len(logs)
      /\ r.query \in Query
  BY <1>0, <1>1, <1>6, SelectionFacts DEF RequestSound
<1>8. prospect \in Database
  <2>1. RelationshipCommit(History[i], i + 1, touched, data) \in Database
    BY <1>1, <1>7, RelationshipCommitType
  <2> QED
    BY <1>1, <2>1 DEF Prospective, Database
<1>9. disjoint => /\ Answer(r.query, prospect) = Answer(r.query, History[i])
                  /\ Descriptor(r.query, prospect) = Descriptor(r.query, History[i])
  BY <1>1, <1>7, DisjointSpeculation
<1> HIDE DEF prospect
<1>10. /\ next.pc = "acquired" /\ next.source = Len(logs) /\ next.db = prospect
       /\ next.query = r.query /\ next.kind = r.kind
       /\ next.lifecycle = r.lifecycle /\ next.key = r.key
       /\ next.disjoint = disjoint
  BY <1>0, <1>5, SelectedFields
<1>2. next \in RequestRecord
  BY <1>0, <1>1, <1>5, <1>7, <1>8, SelectedType
<1>3. RequestSound(next, logs, lifecycles)
  BY <1>0, <1>1, <1>6, <1>7, <1>8, <1>9, <1>10 DEF RequestSound, Selected
<1>4. req' = [req EXCEPT ![p] = next]
  BY <1>1, SelectMoves
<1> QED
  BY <1>2, <1>3, <1>4, RequestStep DEF AcquireSpeculative, IInv

\* Accepting pairs a value with a lifecycle of its own source: the captured and
\* the installed lifecycle agree, and the value lies between them.
LEMMA AcceptSelectionStep ==
    ASSUME IInv, NEW p \in Request, AcceptSelection(p)
    PROVE  IInv'
<1> DEFINE r == req[p]
           next == req'[p]
<1>0. r \in RequestRecord /\ RequestSound(r, logs, lifecycles)
  BY DEF IInv
<1> DEFINE stage == IF r.kind = "speculative" THEN "proof" ELSE "exact"
<1>7. stage \in {"proof", "exact"}
  OBVIOUS
<1>1. next = StagedAs(r, stage, r.dirty) /\ r.dirty \in BOOLEAN
  BY <1>0 DEF AcceptSelection, StagedAs, RequestRecord, IInv
<1>5. stage \in Stage
  BY <1>7 DEF Stage
<1>6. /\ next.pc = stage /\ next.query = r.query /\ next.kind = r.kind
      /\ next.lifecycle = r.lifecycle /\ next.source = r.source /\ next.db = r.db
      /\ next.revision = r.revision /\ next.disjoint = r.disjoint /\ next.key = r.key
  BY <1>0, <1>1, <1>5, StagedType
<1>8. lifecycles[r.lifecycle].source = r.source
  <2>1. /\ r.source \in lifecycles[r.lifecycle].source .. Len(logs)
        /\ r.lifecycle \in 1 .. Len(lifecycles)
    BY <1>0 DEF AcceptSelection, RequestSound
  <2>2. lifecycles[r.lifecycle].source = Len(logs)
    BY DEF AcceptSelection, SourceReplaced, Installed, Current, IInv, World
  <2>3. Len(logs) \in Nat
    BY DEF IInv, World
  <2> QED
    BY <2>1, <2>2, <2>3
<1>9. next.pc = "exact" => next.kind # "speculative"
  BY <1>6
<1> HIDE DEF stage
<1>2. next \in RequestRecord
  BY <1>0, <1>1, <1>5, StagedType
<1>3. RequestSound(next, logs, lifecycles)
  BY <1>0, <1>6, <1>7, <1>8, <1>9 DEF RequestSound, Selected, AcceptSelection
<1>4. req' = [req EXCEPT ![p] = next]
  BY DEF AcceptSelection, IInv
<1> QED
  BY <1>2, <1>3, <1>4, RequestStep DEF AcceptSelection, IInv

\* A miss changes nothing but the stage.
LEMMA ExactMissStep ==
    ASSUME IInv, NEW p \in Request, ExactMiss(p)
    PROVE  IInv'
<1> DEFINE r == req[p]
           next == req'[p]
<1>0. r \in RequestRecord /\ RequestSound(r, logs, lifecycles)
  BY DEF IInv
<1>1. next = StagedAs(r, "proof", r.dirty) /\ r.dirty \in BOOLEAN
  BY <1>0 DEF ExactMiss, StagedAs, RequestRecord, IInv
<1>5. "proof" \in Stage
  BY DEF Stage
<1>6. /\ next.pc = "proof" /\ next.answer = r.answer /\ next.computed = r.computed
      /\ next.query = r.query /\ next.kind = r.kind /\ next.lifecycle = r.lifecycle
      /\ next.source = r.source /\ next.db = r.db /\ next.revision = r.revision
      /\ next.disjoint = r.disjoint /\ next.key = r.key
  BY <1>0, <1>1, <1>5, StagedType
<1>2. next \in RequestRecord
  BY <1>0, <1>1, <1>5, StagedType
<1>3. RequestSound(next, logs, lifecycles)
  BY <1>0, <1>6 DEF RequestSound, Selected, LiftKey, Answered, ExactMiss
<1>4. req' = [req EXCEPT ![p] = next]
  BY DEF ExactMiss, IInv
<1> QED
  BY <1>2, <1>3, <1>4, RequestStep DEF ExactMiss, IInv

\* So does a miss under the managed key.
LEMMA ManagedMissStep ==
    ASSUME IInv, NEW p \in Request, ManagedMiss(p)
    PROVE  IInv'
<1> DEFINE r == req[p]
           next == req'[p]
<1>0. r \in RequestRecord /\ RequestSound(r, logs, lifecycles)
  BY DEF IInv
<1>1. next = StagedAs(r, "evaluate", r.dirty) /\ r.dirty \in BOOLEAN
  BY <1>0 DEF ManagedMiss, StagedAs, RequestRecord, IInv
<1>5. "evaluate" \in Stage
  BY DEF Stage
<1>6. /\ next.pc = "evaluate" /\ next.answer = r.answer /\ next.computed = r.computed
      /\ next.query = r.query /\ next.kind = r.kind /\ next.lifecycle = r.lifecycle
      /\ next.source = r.source /\ next.db = r.db /\ next.revision = r.revision
      /\ next.disjoint = r.disjoint /\ next.key = r.key
  BY <1>0, <1>1, <1>5, StagedType
<1>2. next \in RequestRecord
  BY <1>0, <1>1, <1>5, StagedType
<1>3. RequestSound(next, logs, lifecycles)
  BY <1>0, <1>6 DEF RequestSound, Selected, LiftKey, Answered, ManagedMiss
<1>4. req' = [req EXCEPT ![p] = next]
  BY DEF ManagedMiss, IInv
<1> QED
  BY <1>2, <1>3, <1>4, RequestStep DEF ManagedMiss, IInv

\* A reported violation disables an incarnation that exists.
LEMMA ContractViolationStep ==
    ASSUME IInv, NEW p \in Request, ContractViolation(p)
    PROVE  IInv'
<1> DEFINE r == req[p]
           next == req'[p]
<1>0. r \in RequestRecord /\ RequestSound(r, logs, lifecycles)
  BY DEF IInv
<1>1. next = StagedAs(r, "evaluate", r.dirty) /\ r.dirty \in BOOLEAN
  BY <1>0 DEF ContractViolation, StagedAs, RequestRecord, IInv
<1>5. "evaluate" \in Stage
  BY DEF Stage
<1>6. /\ next.pc = "evaluate" /\ next.answer = r.answer /\ next.computed = r.computed
      /\ next.query = r.query /\ next.kind = r.kind /\ next.lifecycle = r.lifecycle
      /\ next.source = r.source /\ next.db = r.db /\ next.revision = r.revision
      /\ next.disjoint = r.disjoint /\ next.key = r.key
  BY <1>0, <1>1, <1>5, StagedType
<1>8. disabled' \subseteq 1 .. Current
  <2>1. r.lifecycle \in 1 .. Len(lifecycles)
    BY <1>0 DEF ContractViolation, RequestSound
  <2> QED
    BY <2>1 DEF ContractViolation, IInv, World, Current
<1>2. next \in RequestRecord
  BY <1>0, <1>1, <1>5, StagedType
<1>3. RequestSound(next, logs, lifecycles)
  BY <1>0, <1>6 DEF RequestSound, Selected, LiftKey, Answered, ContractViolation
<1>4. req' = [req EXCEPT ![p] = next]
  BY DEF ContractViolation, IInv
<1> QED
  BY <1>2, <1>3, <1>4, <1>8, RequestStep DEF ContractViolation, IInv

\* A proof names the descriptor of the value the request selected.
LEMMA ProveStep ==
    ASSUME IInv, NEW p \in Request, Prove(p)
    PROVE  IInv'
<1> DEFINE r == req[p]
           next == req'[p]
<1>0. r \in RequestRecord /\ RequestSound(r, logs, lifecycles)
  BY DEF IInv
<1>1. \/ /\ next = LiftedAs(r, LiftKey(r)) /\ MayLift(p) /\ Complete(r.query, r.db)
      \/ next = StagedAs(r, "evaluate", r.dirty)
  BY <1>0 DEF Prove, LiftedAs, StagedAs, LiftKey, ManagedKey, RequestRecord, IInv
<1>5. LiftKey(r) \in ManagedKeys
  BY <1>0 DEF Prove, RequestSound, LiftKey, ManagedKeys
<1>6. r.dirty \in BOOLEAN /\ "evaluate" \in Stage
  BY <1>0 DEF RequestRecord, Stage
<1>7. /\ next.pc \in {"managed", "evaluate"}
      /\ next.query = r.query /\ next.kind = r.kind /\ next.lifecycle = r.lifecycle
      /\ next.source = r.source /\ next.db = r.db /\ next.revision = r.revision
      /\ next.disjoint = r.disjoint
      /\ next.pc = "managed" => next.key = LiftKey(r)
      /\ next.pc = "evaluate" => next.key = r.key
  BY <1>0, <1>1, <1>5, <1>6, LiftedType, StagedType
<1>8. next.pc = "managed" /\ r.kind = "speculative" => r.disjoint
  <2>1. CASE next = LiftedAs(r, LiftKey(r)) /\ MayLift(p) /\ Complete(r.query, r.db)
    BY <2>1 DEF MayLift
  <2>2. CASE next = StagedAs(r, "evaluate", r.dirty)
    BY <1>0, <1>6, <2>2, StagedType
  <2> QED
    BY <1>1, <2>1, <2>2
<1>9. LiftKey(next) = LiftKey(r)
  BY <1>7 DEF LiftKey
<1>10. next.pc = "managed" => Complete(next.query, next.db)
  <2>1. CASE next = LiftedAs(r, LiftKey(r)) /\ MayLift(p) /\ Complete(r.query, r.db)
    BY <1>7, <2>1
  <2>2. CASE next = StagedAs(r, "evaluate", r.dirty)
    BY <1>0, <1>6, <2>2, StagedType
  <2> QED
    BY <1>1, <2>1, <2>2
<1>2. next \in RequestRecord
  BY <1>0, <1>1, <1>5, <1>6, LiftedType, StagedType
<1>3. RequestSound(next, logs, lifecycles)
  <2>1. r.pc = "proof" /\ r.key = Null
    BY <1>0 DEF Prove, RequestSound
  <2>2. /\ next.query \in Query /\ next.lifecycle \in 1 .. Len(lifecycles)
        /\ next.source \in lifecycles[next.lifecycle].source .. Len(logs)
        /\ next.db \in Database
        /\ Selected(next, logs[next.source])
        /\ lifecycles[next.lifecycle].source = next.source
    BY <1>0, <1>7, <2>1 DEF RequestSound, Selected
  <2> QED
    BY <1>7, <1>8, <1>9, <1>10, <2>1, <2>2 DEF RequestSound
<1>4. req' = [req EXCEPT ![p] = next]
  BY DEF Prove, IInv
<1> QED
  BY <1>2, <1>3, <1>4, RequestStep DEF Prove, IInv

\* Evaluation without a cache answers for the selected value.
LEMMA BypassStep ==
    ASSUME IInv, NEW p \in Request, Bypass(p)
    PROVE  IInv'
<1> DEFINE r == req[p]
           next == req'[p]
<1>0. r \in RequestRecord /\ RequestSound(r, logs, lifecycles)
  BY DEF IInv
<1>s. r.pc \notin {"idle", "captured", "acquired"}
  BY DEF Bypass
<1>1. PICK stage, value, computed :
        /\ stage \in {"done"}
        /\ Settle(p, stage, value, computed)
        /\ value = Fresh(p) /\ computed = r.revision
  BY DEF Bypass
<1>5. next = SettledAs(r, stage, value, computed) /\ req' = [req EXCEPT ![p] = next]
  BY <1>1, SettleMoves
<1>6. /\ stage \in Stage /\ value \in Values /\ computed \in Nat
      /\ value = Answer(r.query, r.db) /\ computed <= r.revision
  BY <1>0, <1>1, <1>s, SelectedFacts DEF Fresh, Stage
<1>7. /\ next.pc = stage /\ next.answer = value /\ next.computed = computed
      /\ next.query = r.query /\ next.kind = r.kind /\ next.lifecycle = r.lifecycle
      /\ next.source = r.source /\ next.db = r.db /\ next.revision = r.revision
      /\ next.disjoint = r.disjoint /\ next.key = r.key
  BY <1>0, <1>5, <1>6, SettledType
<1>2. next \in RequestRecord
  BY <1>0, <1>5, <1>6, SettledType
<1>3. RequestSound(next, logs, lifecycles)
  <2>1. next.pc = "done"
    BY <1>1, <1>7
  <2>2. Answered(next)
    BY <1>6, <1>7 DEF Answered
  <2>3. Selected(next, logs[next.source])
    BY <1>0, <1>7, <1>s DEF RequestSound, Selected
  <2>4. /\ next.query \in Query /\ next.lifecycle \in 1 .. Len(lifecycles)
        /\ next.source \in lifecycles[next.lifecycle].source .. Len(logs)
        /\ next.db \in Database
        /\ lifecycles[next.lifecycle].source = next.source
    BY <1>0, <1>7, <1>s DEF RequestSound
  <2> HIDE DEF next, r
  <2> QED
    BY <2>1, <2>2, <2>3, <2>4 DEF RequestSound
<1>4. req' = [req EXCEPT ![p] = next]
  BY <1>5
<1> QED
  BY <1>2, <1>3, <1>4, RequestStep DEF Bypass, IInv

\* A resident under the exact key answers for exactly this value.
LEMMA ExactHitStep ==
    ASSUME IInv, NEW p \in Request, ExactHit(p)
    PROVE  IInv'
<1> DEFINE r == req[p]
           next == req'[p]
<1>0. r \in RequestRecord /\ RequestSound(r, logs, lifecycles)
  BY DEF IInv
<1>s. r.pc \notin {"idle", "captured", "acquired"}
  BY DEF ExactHit
<1>1. PICK stage, e, value, computed :
        /\ stage \in {"done"} /\ e \in Answers(p)
        /\ Settle(p, stage, value, computed)
        /\ e.key = ExactKey(p) /\ value = e.value /\ computed = e.computed
  BY DEF ExactHit
<1>5. next = SettledAs(r, stage, value, computed) /\ req' = [req EXCEPT ![p] = next]
  BY <1>1, SettleMoves
<1>6. /\ stage \in Stage /\ value \in Values /\ computed \in Nat
      /\ value = Answer(r.query, r.db) /\ computed <= r.revision
  <2>1. /\ e \in EntryRecord /\ Committed(e, logs[r.source])
        /\ logs[r.source] \in Seq(Database)
        /\ Selected(r, logs[r.source]) /\ r.revision \in Nat
    BY <1>1, <1>s, SelectedFacts
  <2>2. /\ e.key.tier = "exact" /\ e.key.query = r.query
        /\ e.key.basis[2] = r.revision
    BY <1>1 DEF ExactKey
  <2>3. r.kind # "speculative"
    BY <1>0 DEF ExactHit, RequestSound
  <2>4. r.db = logs[r.source][r.revision]
    BY <2>1, <2>3 DEF Selected
  <2>5. /\ e.value = Answer(r.query, r.db)
        /\ e.computed \in 1 .. Len(logs[r.source])
        /\ r.revision \in e.computed .. Len(logs[r.source])
    BY <2>1, <2>2, <2>4 DEF Committed
  <2>6. e.value \in Values /\ e.computed \in Nat
    BY <2>1 DEF EntryRecord
  <2> QED
    BY <1>1, <2>1, <2>5, <2>6 DEF Stage
<1>7. /\ next.pc = stage /\ next.answer = value /\ next.computed = computed
      /\ next.query = r.query /\ next.kind = r.kind /\ next.lifecycle = r.lifecycle
      /\ next.source = r.source /\ next.db = r.db /\ next.revision = r.revision
      /\ next.disjoint = r.disjoint /\ next.key = r.key
  BY <1>0, <1>5, <1>6, SettledType
<1>2. next \in RequestRecord
  BY <1>0, <1>5, <1>6, SettledType
<1>3. RequestSound(next, logs, lifecycles)
  BY <1>0, <1>1, <1>6, <1>7 DEF RequestSound, Selected, LiftKey, Answered, ExactHit
<1>4. req' = [req EXCEPT ![p] = next]
  BY <1>5
<1> QED
  BY <1>2, <1>3, <1>4, RequestStep DEF ExactHit, IInv

\* A resident under the managed key was evaluated on a value with the same
\* descriptor, hence with the same answer.
LEMMA ManagedHitStep ==
    ASSUME IInv, NEW p \in Request, ManagedHit(p)
    PROVE  IInv'
<1> DEFINE r == req[p]
           next == req'[p]
<1>0. r \in RequestRecord /\ RequestSound(r, logs, lifecycles)
  BY DEF IInv
<1>s. r.pc \notin {"idle", "captured", "acquired"}
  BY DEF ManagedHit
<1>1. PICK stage, e, value, computed :
        /\ stage \in {"done", "publishExact"} /\ e \in Answers(p)
        /\ Settle(p, stage, value, computed)
        /\ stage = "publishExact" => r.kind = "ordinary"
        /\ Eligible(p, e) /\ value = e.value /\ computed = e.computed
  BY DEF ManagedHit
<1>a. /\ e \in EntryRecord /\ Committed(e, logs[r.source])
      /\ logs[r.source] \in Seq(Database) /\ Certified(logs[r.source])
      /\ Selected(r, logs[r.source]) /\ r.revision \in Nat /\ r.query \in Query
  BY <1>1, <1>s, SelectedFacts
<1> DEFINE history == logs[r.source]
<1>b. /\ e.key.tier = "managed" /\ e.key.query = r.query
      /\ e.key.basis = Descriptor(r.query, r.db)
      /\ e.computed <= r.revision
  BY <1>0, <1>1 DEF Eligible, ManagedHit, RequestSound, LiftKey
<1>c. /\ e.computed \in 1 .. Len(history)
      /\ e.value = Answer(r.query, history[e.computed])
      /\ Descriptor(r.query, history[e.computed]) = Descriptor(r.query, r.db)
  BY <1>a, <1>b DEF Committed
<1>e. Complete(r.query, history[e.computed])
  <2>1. Complete(r.query, r.db)
    BY <1>0 DEF ManagedHit, RequestSound
  <2> QED
    BY <1>c, <2>1, CompleteByDescriptor
<1>d. e.value = Answer(r.query, r.db)
  <2>1. CASE r.kind # "speculative"
    <3>1. r.revision \in 1 .. Len(history) /\ r.db = history[r.revision]
      BY <1>a, <2>1 DEF Selected
    <3> QED
      BY <1>a, <1>c, <1>e, <3>1, SameDescriptorSameAnswer, SMTT(30)
  <2>2. CASE r.kind = "speculative"
    <3>1. r.disjoint
      BY <1>0, <2>2 DEF ManagedHit, RequestSound
    <3>2. PICK i \in 1 .. Len(history) :
            /\ Answer(r.query, r.db) = Answer(r.query, history[i])
            /\ Descriptor(r.query, r.db) = Descriptor(r.query, history[i])
      BY <1>a, <2>2, <3>1 DEF Selected
    <3>3. Answer(r.query, history[e.computed]) = Answer(r.query, history[i])
      BY <1>a, <1>c, <1>e, <3>2, SameDescriptorSameAnswer
    <3> QED
      BY <1>c, <3>2, <3>3
  <2> QED
    BY <2>1, <2>2
<1>5. next = SettledAs(r, stage, value, computed) /\ req' = [req EXCEPT ![p] = next]
  BY <1>1, SettleMoves
<1>6. /\ stage \in Stage /\ value \in Values /\ computed \in Nat
      /\ value = Answer(r.query, r.db) /\ computed <= r.revision
  <2>1. e.value \in Values /\ e.computed \in Nat
    BY <1>a DEF EntryRecord
  <2> QED
    BY <1>1, <1>b, <1>d, <2>1 DEF Stage
<1>7. /\ next.pc = stage /\ next.answer = value /\ next.computed = computed
      /\ next.query = r.query /\ next.kind = r.kind /\ next.lifecycle = r.lifecycle
      /\ next.source = r.source /\ next.db = r.db /\ next.revision = r.revision
      /\ next.disjoint = r.disjoint /\ next.key = r.key
  BY <1>0, <1>5, <1>6, SettledType
<1>8. /\ e.computed \in 1 .. Len(logs[next.source])
      /\ value = Answer(next.query, logs[next.source][e.computed])
      /\ stage = "publishExact" => next.kind # "speculative"
  BY <1>1, <1>7, <1>c
<1>2. next \in RequestRecord
  BY <1>0, <1>5, <1>6, SettledType
<1>3. RequestSound(next, logs, lifecycles)
  <2>2. /\ next.query \in Query /\ next.lifecycle \in 1 .. Len(lifecycles)
        /\ next.source \in lifecycles[next.lifecycle].source .. Len(logs)
        /\ next.db \in Database
        /\ Selected(next, logs[next.source])
        /\ lifecycles[next.lifecycle].source = next.source
    BY <1>0, <1>7, <1>s DEF RequestSound, Selected
  <2>3. Answered(next)
    BY <1>6, <1>7 DEF Answered
  <2> QED
    BY <1>1, <1>7, <1>8, <2>2, <2>3 DEF RequestSound
<1>4. req' = [req EXCEPT ![p] = next]
  BY <1>5
<1> QED
  BY <1>2, <1>3, <1>4, RequestStep DEF ManagedHit, IInv

\* Evaluation answers for the selected value and owes its publications.
LEMMA EvaluateStep ==
    ASSUME IInv, NEW p \in Request, Evaluate(p)
    PROVE  IInv'
<1> DEFINE r == req[p]
           next == req'[p]
<1>0. r \in RequestRecord /\ RequestSound(r, logs, lifecycles)
  BY DEF IInv
<1>s. r.pc \notin {"idle", "captured", "acquired"}
  BY DEF Evaluate
<1>1. PICK stage, value, computed :
        /\ stage \in {"publishExact", "publishManaged"}
        /\ Settle(p, stage, value, computed)
        /\ stage = "publishManaged" => r.key # Null
        /\ value = Fresh(p) /\ computed = r.revision
  BY DEF Evaluate
<1>5. next = SettledAs(r, stage, value, computed) /\ req' = [req EXCEPT ![p] = next]
  BY <1>1, SettleMoves
<1>6. /\ stage \in Stage /\ value \in Values /\ computed \in Nat
      /\ value = Answer(r.query, r.db) /\ computed <= r.revision
  BY <1>0, <1>1, <1>s, SelectedFacts DEF Fresh, Stage
<1>7. /\ next.pc = stage /\ next.answer = value /\ next.computed = computed
      /\ next.query = r.query /\ next.kind = r.kind /\ next.lifecycle = r.lifecycle
      /\ next.source = r.source /\ next.db = r.db /\ next.revision = r.revision
      /\ next.disjoint = r.disjoint /\ next.key = r.key
  BY <1>0, <1>5, <1>6, SettledType
<1>8. /\ r.kind # "speculative"
      /\ computed \in 1 .. Len(logs[r.source])
      /\ value = Answer(r.query, logs[r.source][computed])
  <2>1. r.kind # "speculative" /\ Selected(r, logs[r.source])
    BY <1>s, SelectedFacts DEF Evaluate
  <2> QED
    BY <1>1, <1>6, <2>1 DEF Selected
<1>2. next \in RequestRecord
  BY <1>0, <1>5, <1>6, SettledType
<1>3. RequestSound(next, logs, lifecycles)
  BY <1>0, <1>1, <1>6, <1>7, <1>8 DEF RequestSound, Selected, LiftKey, Answered, Evaluate
<1>4. req' = [req EXCEPT ![p] = next]
  BY <1>5
<1> QED
  BY <1>2, <1>3, <1>4, RequestStep DEF Evaluate, IInv

\* What a request is about to publish was evaluated on a committed value and is
\* the answer for the value it selected.
LEMMA PublicationFacts ==
    ASSUME NEW r \in RequestRecord, NEW histories, NEW stores,
           RequestSound(r, histories, stores), r.pc \in {"publishManaged", "publishExact"}
    PROVE  /\ r.kind # "speculative" /\ Answered(r)
           /\ r.computed \in 1 .. Len(histories[r.source])
           /\ r.revision \in 1 .. Len(histories[r.source])
           /\ r.db = histories[r.source][r.revision]
           /\ r.answer = Answer(r.query, histories[r.source][r.computed])
<1>1. /\ r.kind # "speculative" /\ r.revision \in Nat
      /\ Selected(r, histories[r.source])
  BY DEF RequestSound, RequestRecord
<1>2. /\ r.revision \in 1 .. Len(histories[r.source])
      /\ r.db = histories[r.source][r.revision]
  BY <1>1 DEF Selected
<1>3. CASE r.pc = "publishManaged"
  BY <1>1, <1>2, <1>3 DEF RequestSound, Answered
<1>4. CASE r.pc = "publishExact"
  BY <1>1, <1>2, <1>4 DEF RequestSound
<1> QED
  BY <1>3, <1>4

\* What is not published is still the answer.
LEMMA SkipPublicationStep ==
    ASSUME IInv, NEW p \in Request, SkipPublication(p)
    PROVE  IInv'
<1> DEFINE r == req[p]
           next == req'[p]
<1>0. r \in RequestRecord /\ RequestSound(r, logs, lifecycles)
  BY DEF IInv
<1> DEFINE stage == IF r.pc = "publishManaged" THEN "publishExact" ELSE "done"
<1>7. stage \in {"publishExact", "done"}
  OBVIOUS
<1>1. next = StagedAs(r, stage, r.dirty) /\ r.dirty \in BOOLEAN
  BY <1>0 DEF SkipPublication, StagedAs, RequestRecord, IInv
<1>5. stage \in Stage
  BY <1>7 DEF Stage
<1>6. /\ next.pc = stage /\ next.answer = r.answer /\ next.computed = r.computed
      /\ next.query = r.query /\ next.kind = r.kind
      /\ next.lifecycle = r.lifecycle /\ next.source = r.source /\ next.db = r.db
      /\ next.revision = r.revision /\ next.disjoint = r.disjoint /\ next.key = r.key
  BY <1>0, <1>1, <1>5, StagedType
<1>8. r.pc \in {"publishManaged", "publishExact"}
  BY DEF SkipPublication
<1>9. /\ r.kind # "speculative" /\ Answered(r)
      /\ r.computed \in 1 .. Len(logs[r.source])
      /\ r.answer = Answer(r.query, logs[r.source][r.computed])
  BY <1>0, <1>8, PublicationFacts
<1> HIDE DEF stage
<1>2. next \in RequestRecord
  BY <1>0, <1>1, <1>5, StagedType
<1>3. RequestSound(next, logs, lifecycles)
  BY <1>0, <1>6, <1>7, <1>8, <1>9 DEF RequestSound, Selected, Answered
<1>4. req' = [req EXCEPT ![p] = next]
  BY DEF SkipPublication, IInv
<1> QED
  BY <1>2, <1>3, <1>4, RequestStep DEF SkipPublication, IInv

\* A notification touches no answer.
LEMMA NotifyStep ==
    ASSUME IInv, NEW p \in Request, Notify(p)
    PROVE  IInv'
<1> DEFINE r == req[p]
           next == req'[p]
<1>0. r \in RequestRecord /\ RequestSound(r, logs, lifecycles)
  BY DEF IInv
<1>1. PICK dirty \in BOOLEAN : next = StagedAs(r, r.pc, dirty)
  BY <1>0 DEF Notify, StagedAs, RequestRecord, IInv
<1>5. r.pc \in Stage
  BY <1>0 DEF RequestRecord
<1>6. /\ next.pc = r.pc /\ next.answer = r.answer /\ next.computed = r.computed
      /\ next.query = r.query /\ next.kind = r.kind
      /\ next.lifecycle = r.lifecycle /\ next.source = r.source /\ next.db = r.db
      /\ next.revision = r.revision /\ next.disjoint = r.disjoint /\ next.key = r.key
  BY <1>0, <1>1, <1>5, StagedType
<1>7. contentRevision' \in Nat
  BY DEF Notify, IInv
<1>2. next \in RequestRecord
  BY <1>0, <1>1, <1>5, StagedType
<1>3. RequestSound(next, logs, lifecycles)
  BY <1>0, <1>6 DEF RequestSound, Selected, LiftKey, Answered
<1>4. req' = [req EXCEPT ![p] = next]
  BY DEF Notify, IInv
<1> QED
  BY <1>2, <1>3, <1>4, <1>7, RequestStep DEF Notify, IInv

ReadAs(r, q, stage, l, value, computed) ==
    [r EXCEPT !.pc = stage, !.query = q, !.key = Null, !.lifecycle = l,
              !.answer = value, !.computed = computed]

LEMMA ReadFields ==
    ASSUME NEW r \in RequestRecord, NEW q, NEW stage, NEW l, NEW value, NEW computed
    PROVE  LET s == ReadAs(r, q, stage, l, value, computed) IN
           /\ s.pc = stage /\ s.answer = value /\ s.computed = computed
           /\ s.query = q /\ s.kind = r.kind /\ s.lifecycle = l
           /\ s.source = r.source /\ s.db = r.db /\ s.revision = r.revision
           /\ s.key = Null
BY DEF RequestRecord, ReadAs

LEMMA ReadType ==
    ASSUME NEW r \in RequestRecord, NEW q \in Query, NEW stage \in Stage, NEW l \in Nat,
           NEW value \in Values \cup {Null}, NEW computed \in Nat
    PROVE  ReadAs(r, q, stage, l, value, computed) \in RequestRecord
BY DEF RequestRecord, ReadAs

\* What a retained snapshot holds.
LEMMA RetainedFacts ==
    ASSUME IInv, NEW p \in Request, Retained(p)
    PROVE  /\ req[p].pc = "done" /\ req[p].kind # "speculative"
           /\ req[p].db \in Database /\ req[p].revision \in Nat
           /\ req[p].source = lifecycles[req[p].lifecycle].source
           /\ req[p].lifecycle \in 1 .. Len(lifecycles) /\ req[p].lifecycle \in Nat
           /\ Selected(req[p], logs[req[p].source])
           /\ req[p].source \in 1 .. Len(logs) /\ Len(logs) \in Nat
           /\ Current \in Nat /\ Current \in 1 .. Len(lifecycles)
           /\ Installed = lifecycles[Current] /\ Installed.source = Len(logs)
<1>1. req[p].pc = "done" /\ req[p].kind # "speculative"
  BY DEF Retained
<1>2. /\ Len(logs) \in Nat /\ Current \in Nat /\ Current \in 1 .. Len(lifecycles)
      /\ Installed = lifecycles[Current] /\ Installed.source = Len(logs)
  BY DEF IInv, World, Current, Installed
<1> QED
  BY <1>1, <1>2, SelectedFacts

\* A retained snapshot reads through the installed store only if that store
\* belongs to the source its value came from.
LEMMA ReadAgainStep ==
    ASSUME IInv, NEW p \in Request, ReadAgain(p)
    PROVE  IInv'
<1> DEFINE r == req[p]
           next == req'[p]
<1>0. r \in RequestRecord /\ RequestSound(r, logs, lifecycles)
  BY DEF IInv
<1>a. /\ Current \in 1 .. Len(lifecycles) /\ Current \in Nat
      /\ lifecycles[Current].source = r.source
      /\ r.source \in 1 .. Len(logs) /\ Len(logs) \in Nat
      /\ r.kind # "speculative" /\ r.db \in Database /\ Selected(r, logs[r.source])
  BY RetainedFacts DEF ReadAgain, SourceReplaced
<1>1. PICK q \in Query, stage \in Stage, value \in Values \cup {Null},
           computed \in Nat, l \in Nat :
        /\ next = ReadAs(r, q, stage, l, value, computed)
        /\ stage = "exact" /\ l = Current
  <2>1. PICK q \in Query : next = ReadAs(r, q, "exact", Current, Null, 0)
    BY DEF ReadAgain, ReadAs, IInv
  <2>2. "exact" \in Stage /\ Null \in Values \cup {Null} /\ 0 \in Nat
    BY DEF Stage
  <2> QED
    BY <1>a, <2>1, <2>2
<1>5. /\ l \in 1 .. Len(lifecycles) /\ lifecycles[l].source = r.source
  BY <1>1, <1>a
<1>6. next \in RequestRecord
  <2>1. ReadAs(r, q, stage, l, value, computed) \in RequestRecord
    BY <1>0, ReadType
  <2> QED
    BY <1>1, <2>1
<1>7. /\ next.pc = stage /\ next.query = q /\ next.kind = r.kind /\ next.lifecycle = l
      /\ next.source = r.source /\ next.db = r.db /\ next.revision = r.revision
      /\ next.key = Null
  BY <1>0, <1>1, ReadFields
<1>2. next \in RequestRecord
  BY <1>6
<1>3. RequestSound(next, logs, lifecycles)
  <2>1. next.pc = "exact" /\ next.kind # "speculative"
    BY <1>1, <1>7, <1>a
  <2>2. next.source \in lifecycles[next.lifecycle].source .. Len(logs)
    BY <1>5, <1>7, <1>a
  <2>3. Selected(next, logs[next.source])
    BY <1>7, <1>a DEF Selected
  <2> QED
    BY <1>1, <1>5, <1>7, <1>a, <2>1, <2>2, <2>3 DEF RequestSound
<1>4. req' = [req EXCEPT ![p] = next]
  BY DEF ReadAgain, IInv
<1> QED
  BY <1>2, <1>3, <1>4, RequestStep DEF ReadAgain, IInv

\* A retired snapshot is evaluated with no cache at all.
LEMMA ReadRetiredStep ==
    ASSUME IInv, NEW p \in Request, ReadRetired(p)
    PROVE  IInv'
<1> DEFINE r == req[p]
           next == req'[p]
<1>0. r \in RequestRecord /\ RequestSound(r, logs, lifecycles)
  BY DEF IInv
<1>1. PICK q \in Query, value \in Values, computed \in Nat, stage \in {"done"} :
        /\ next = ReadAs(r, q, stage, r.lifecycle, value, computed)
        /\ value = Answer(q, r.db) /\ computed = r.revision
  <2>1. PICK q \in Query :
          req' = [req EXCEPT ![p].query = q, ![p].key = Null,
                             ![p].answer = Answer(q, r.db), ![p].computed = r.revision]
    BY DEF ReadRetired
  <2>2. r.pc = "done" /\ r.revision \in Nat /\ Answer(q, r.db) \in Values
    BY <2>1, RetainedFacts DEF ReadRetired, Values
  <2>3. next = ReadAs(r, q, "done", r.lifecycle, Answer(q, r.db), r.revision)
    BY <1>0, <2>1, <2>2 DEF ReadAs, RequestRecord, IInv
  <2> QED
    BY <2>2, <2>3
<1>5. /\ r.lifecycle \in 1 .. Len(lifecycles) /\ r.lifecycle \in Nat
      /\ stage \in Stage /\ value \in Values \cup {Null}
      /\ lifecycles[r.lifecycle].source = r.source /\ r.revision \in Nat
      /\ r.source \in 1 .. Len(logs) /\ Len(logs) \in Nat
      /\ r.kind # "speculative" /\ r.db \in Database /\ Selected(r, logs[r.source])
  BY <1>1, RetainedFacts DEF ReadRetired, Stage
<1>6. next \in RequestRecord
  BY <1>0, <1>1, <1>5, ReadType
<1>7. /\ next.pc = stage /\ next.query = q /\ next.kind = r.kind
      /\ next.lifecycle = r.lifecycle
      /\ next.source = r.source /\ next.db = r.db /\ next.revision = r.revision
      /\ next.answer = value /\ next.computed = computed
  BY <1>0, <1>1, ReadFields
<1>2. next \in RequestRecord
  BY <1>6
<1>3. RequestSound(next, logs, lifecycles)
  <2>1. /\ next.query \in Query /\ next.lifecycle \in 1 .. Len(lifecycles)
        /\ next.source \in lifecycles[next.lifecycle].source .. Len(logs)
        /\ next.db \in Database /\ lifecycles[next.lifecycle].source = next.source
    BY <1>1, <1>5, <1>7
  <2>2. Selected(next, logs[next.source])
    BY <1>5, <1>7 DEF Selected
  <2>3. Answered(next)
    BY <1>1, <1>5, <1>7 DEF Answered
  <2>4. next.pc = "done"
    BY <1>1, <1>7
  <2> QED
    BY <2>1, <2>2, <2>3, <2>4 DEF RequestSound
<1>4. req' = [req EXCEPT ![p] = next]
  BY DEF ReadRetired, IInv
<1> QED
  BY <1>2, <1>3, <1>4, RequestStep DEF ReadRetired, IInv

-----------------------------------------------------------------------------
(* The stores, the histories and the checkpoints.                          *)

\* A step under which histories and stores grow and every request and
\* checkpoint stays sound.
LEMMA WorldStep ==
    ASSUME IInv, World(logs', lifecycles'), Grows(logs, lifecycles, logs', lifecycles'),
           req' \in [Request -> RequestRecord],
           \A o \in Request : RequestSound(req'[o], logs, lifecycles),
           CheckpointSound(saved', restoring', logs', lifecycles'),
           contentRevision' \in Nat, disabled' \subseteq 1 .. Len(lifecycles')
    PROVE  IInv'
<1>1. World(logs, lifecycles)
  BY DEF IInv
<1>2. \A o \in Request : RequestSound(req'[o], logs', lifecycles')
  <2> TAKE o \in Request
  <2>1. req'[o] \in RequestRecord /\ RequestSound(req'[o], logs, lifecycles)
    OBVIOUS
  <2> QED
    BY <1>1, <2>1, GrowthKeepsRequest
<1> QED
  BY <1>2 DEF IInv, Current

\* A history that gains values in place, and the others that do not change.
LEMMA ReplacedOnly ==
    ASSUME NEW h \in Seq(Seq(Database)), h # <<>>, NEW longer \in Seq(Database)
    PROVE  LET h2 == [h EXCEPT ![Len(h)] = longer] IN
           /\ h2 \in Seq(Seq(Database)) /\ h2 # <<>> /\ Len(h2) = Len(h)
           /\ h2[Len(h)] = longer
           /\ \A n \in 1 .. Len(h) : n # Len(h) => h2[n] = h[n]
OBVIOUS

LEMMA LongerHistory ==
    ASSUME NEW h \in Seq(Seq(Database)), h # <<>>, NEW next,
           NEW longer \in Seq(Database), longer = Append(h[Len(h)], next),
           NEW h2, h2 = [h EXCEPT ![Len(h)] = longer]
    PROVE  \A n \in 1 .. Len(h) :
                /\ h[n] \in Seq(Database) /\ h2[n] \in Seq(Database)
                /\ Len(h[n]) <= Len(h2[n])
                /\ \A i \in 1 .. Len(h[n]) : h2[n][i] = h[n][i]
<1> TAKE n \in 1 .. Len(h)
<1>0. /\ h2 \in Seq(Seq(Database)) /\ Len(h2) = Len(h) /\ h2[Len(h)] = longer
      /\ n # Len(h) => h2[n] = h[n]
  BY ReplacedOnly
<1>1. h[n] \in Seq(Database) /\ Len(h[n]) \in Nat
  OBVIOUS
<1>2. h2[n] \in Seq(Database)
  <2>1. CASE n = Len(h)
    BY <1>0, <2>1
  <2>2. CASE n # Len(h)
    BY <1>0, <1>1, <2>2
  <2> QED
    BY <2>1, <2>2
<1>3. CASE n = Len(h)
  <2>1. h2[n] = Append(h[n], next)
    BY <1>0, <1>3
  <2>2. /\ Len(h2[n]) = Len(h[n]) + 1
        /\ \A i \in 1 .. Len(h[n]) : h2[n][i] = h[n][i]
    BY <1>1, <2>1
  <2> QED
    BY <1>1, <1>2, <2>2
<1>4. CASE n # Len(h)
  <2>1. h2[n] = h[n]
    BY <1>0, <1>4
  <2>2. Len(h[n]) <= Len(h2[n])
    BY <1>1, <2>1
  <2> QED
    BY <1>1, <1>2, <2>1, <2>2
<1> QED
  BY <1>3, <1>4

\* Growth when only the histories, or only the stores, gain something.
LEMMA HistoriesGrow ==
    ASSUME NEW h1, NEW h2, NEW s, Len(h1) \in Nat, Len(s) \in Nat, Len(h2) = Len(h1),
           \A n \in 1 .. Len(h1) :
                /\ Len(h1[n]) <= Len(h2[n])
                /\ \A i \in 1 .. Len(h1[n]) : h2[n][i] = h1[n][i]
    PROVE  Grows(h1, s, h2, s)
<1>1. Len(h1) <= Len(h2) /\ Len(s) <= Len(s)
  OBVIOUS
<1> QED
  BY <1>1, Zenon DEF Grows

\* Committing to the installed source's history.
LEMMA CommitStep ==
    ASSUME IInv, NEW longer \in Seq(Database), NEW next,
           longer = Append(History, next), Certified(longer),
           logs' = [logs EXCEPT ![Len(logs)] = longer],
           UNCHANGED <<lifecycles, contentRevision, disabled, req, saved, restoring>>
    PROVE  IInv'
<1>1. World(logs, lifecycles)
  BY DEF IInv
<1>2. /\ Len(logs) \in 1 .. Len(logs) /\ Len(logs) \in Nat
      /\ History = logs[Len(logs)] /\ History \in Seq(Database)
  BY <1>1 DEF World, History
<1>3. /\ Len(longer) = Len(History) + 1 /\ longer # <<>>
      /\ \A i \in 1 .. Len(History) : longer[i] = History[i]
  BY <1>2
<1>4. /\ logs' \in Seq(Seq(Database)) /\ logs' # <<>> /\ Len(logs') = Len(logs)
      /\ logs'[Len(logs)] = longer
      /\ \A n \in 1 .. Len(logs) : n # Len(logs) => logs'[n] = logs[n]
  BY <1>1, ReplacedOnly DEF World
<1>5. \A n \in 1 .. Len(logs) :
        /\ logs[n] \in Seq(Database) /\ logs'[n] \in Seq(Database)
        /\ Len(logs[n]) <= Len(logs'[n])
        /\ \A i \in 1 .. Len(logs[n]) : logs'[n][i] = logs[n][i]
  <2>1. longer = Append(logs[Len(logs)], next)
    BY DEF History
  <2> QED
    BY <1>1, <2>1, LongerHistory DEF World
<1>6. Grows(logs, lifecycles, logs', lifecycles')
  <2>1. Len(lifecycles) \in Nat
    BY <1>1 DEF World
  <2>2. Grows(logs, lifecycles, logs', lifecycles)
    BY <1>2, <1>4, <1>5, <2>1, HistoriesGrow
  <2> QED
    BY <2>2
<1>7. World(logs', lifecycles')
  <2>1. \A n \in 1 .. Len(logs') : logs'[n] # <<>> /\ Certified(logs'[n])
    BY <1>1, <1>3, <1>4 DEF World
  <2>2. \A l \in 1 .. Len(lifecycles) : \A e \in lifecycles[l].answers :
          Committed(e, logs'[lifecycles[l].source])
    BY <1>1, <1>5, GrowthKeepsCommitted DEF World
  <2> QED
    BY <1>1, <1>4, <2>1, <2>2 DEF World
<1>8. CheckpointSound(saved', restoring', logs', lifecycles')
  <2>1. CheckpointSound(saved, restoring, logs', lifecycles')
    BY <1>1, <1>6, <1>7, GrowthKeepsCheckpoint DEF IInv
  <2> QED
    BY <2>1
<1> QED
  BY <1>6, <1>7, <1>8, WorldStep DEF IInv, Current

LEMMA WriteRelationshipsStep ==
    ASSUME IInv, WriteRelationships
    PROVE  IInv'
<1>0. PICK touched \in SUBSET Relation : \E data \in [touched -> Datum] :
        logs' = [logs EXCEPT ![Len(logs)] = ExtendWithRelationships(History, touched, data)]
  BY DEF WriteRelationships
<1>1. PICK data \in [touched -> Datum] :
        logs' = [logs EXCEPT ![Len(logs)] = ExtendWithRelationships(History, touched, data)]
  BY <1>0
<1>2. History \in Seq(Database) /\ History # <<>> /\ Certified(History)
  BY DEF IInv, World, History
<1> DEFINE longer == ExtendWithRelationships(History, touched, data)
<1>3. longer \in Seq(Database) /\ Certified(longer)
  BY <1>1, <1>2, RelationshipCommitFollows
<1>4. PICK next : longer = Append(History, next)
  BY DEF ExtendWithRelationships
<1> HIDE DEF longer
<1> QED
  BY <1>1, <1>3, <1>4, CommitStep DEF WriteRelationships, longer

LEMMA WriteReferencesStep ==
    ASSUME IInv, WriteReferences
    PROVE  IInv'
<1>0. PICK touched \in SUBSET Relation : \E data \in [touched -> Datum] :
        logs' = [logs EXCEPT ![Len(logs)] = ExtendWithReferences(History, touched, data)]
  BY DEF WriteReferences
<1>1. PICK data \in [touched -> Datum] :
        logs' = [logs EXCEPT ![Len(logs)] = ExtendWithReferences(History, touched, data)]
  BY <1>0
<1>2. History \in Seq(Database) /\ History # <<>> /\ Certified(History)
  BY DEF IInv, World, History
<1> DEFINE longer == ExtendWithReferences(History, touched, data)
<1>3. longer \in Seq(Database) /\ Certified(longer)
  BY <1>1, <1>2, ReferenceCommitFollows
<1>4. PICK next : longer = Append(History, next)
  BY DEF ExtendWithReferences
<1> HIDE DEF longer
<1> QED
  BY <1>1, <1>3, <1>4, CommitStep DEF WriteReferences, longer

LEMMA WriteSchemaStep ==
    ASSUME IInv, WriteSchema
    PROVE  IInv'
<1>1. PICK schema \in SchemaText, added \in SUBSET Relation, removed \in SUBSET Relation :
        logs' = [logs EXCEPT ![Len(logs)] = ExtendWithSchema(History, schema, added, removed)]
  BY DEF WriteSchema
<1>2. History \in Seq(Database) /\ History # <<>> /\ Certified(History)
  BY DEF IInv, World, History
<1> DEFINE longer == ExtendWithSchema(History, schema, added, removed)
<1>3. longer \in Seq(Database) /\ Certified(longer)
  BY <1>1, <1>2, SchemaCommitFollows
<1>4. PICK next : longer = Append(History, next)
  BY DEF ExtendWithSchema
<1> HIDE DEF longer
<1> QED
  BY <1>1, <1>3, <1>4, CommitStep DEF WriteSchema, longer

Keeping(s, l, kept) == [s EXCEPT ![l].answers = kept]

\* A store may keep any committed answers.
LEMMA KeptAnswers ==
    ASSUME NEW h, NEW s, World(h, s), NEW l \in 1 .. Len(s), NEW kept \in SUBSET EntryRecord,
           \A e \in kept : Committed(e, h[s[l].source]),
           NEW s2, s2 = Keeping(s, l, kept)
    PROVE  World(h, s2) /\ Grows(h, s, h, s2) /\ Len(s2) = Len(s)
<1>1. /\ s \in Seq(LifecycleRecord) /\ Len(s) \in Nat /\ Len(h) \in Nat
      /\ \A m \in 1 .. Len(s) : s[m] \in LifecycleRecord
  BY DEF World
<1> DEFINE changed == [s[l] EXCEPT !.answers = kept]
<1>2. /\ changed \in LifecycleRecord /\ changed.answers = kept
      /\ changed.source = s[l].source /\ changed.incarnation = s[l].incarnation
  BY <1>1 DEF LifecycleRecord
<1> HIDE DEF changed
<1>3. s2 = [s EXCEPT ![l] = changed]
  BY <1>1 DEF changed, Keeping
<1>4. /\ s2 \in Seq(LifecycleRecord) /\ Len(s2) = Len(s) /\ s2[l] = changed
      /\ \A m \in 1 .. Len(s) : m # l => s2[m] = s[m]
  BY <1>1, <1>2, <1>3
<1>5. \A m \in 1 .. Len(s) :
        s2[m].source = s[m].source /\ s2[m].incarnation = s[m].incarnation
  BY <1>2, <1>4
<1>6. \A m \in 1 .. Len(s) : \A e \in s2[m].answers : Committed(e, h[s2[m].source])
  <2> TAKE m \in 1 .. Len(s)
  <2>1. CASE m = l
    BY <1>2, <1>4, <2>1
  <2>2. CASE m # l
    BY <1>4, <2>2 DEF World
  <2> QED
    BY <2>1, <2>2
<1>7. Len(s) \in 1 .. Len(s) /\ s2 # <<>>
  BY <1>1, <1>4 DEF World
<1>8. World(h, s2)
  BY <1>4, <1>5, <1>6, <1>7 DEF World
<1>9. Grows(h, s, h, s2)
  <2>1. Len(h) <= Len(h) /\ Len(s) <= Len(s2)
    BY <1>1, <1>4
  <2>2. \A n \in 1 .. Len(h) : Len(h[n]) <= Len(h[n])
    BY DEF World
  <2> QED
    BY <1>5, <2>1, <2>2 DEF Grows
<1> QED
  BY <1>4, <1>8, <1>9

Newer(s, incarnation, source, answers) ==
    Append(s, Lifecycle(incarnation, source, answers))

\* A new lifecycle over the newest source, which may be a new one.
LEMMA NewStore ==
    ASSUME NEW h, NEW s, World(h, s),
           NEW h2 \in Seq(Seq(Database)), Len(h) <= Len(h2),
           \A n \in 1 .. Len(h) : h2[n] = h[n],
           \A n \in 1 .. Len(h2) : h2[n] # <<>> /\ Certified(h2[n]),
           NEW incarnation \in 1 .. Len(s) + 1, NEW answers \in SUBSET EntryRecord,
           \A e \in answers : Committed(e, h2[Len(h2)]),
           NEW s2, s2 = Newer(s, incarnation, Len(h2), answers)
    PROVE  World(h2, s2) /\ Grows(h, s, h2, s2) /\ Len(s2) = Len(s) + 1
<1>1. /\ s \in Seq(LifecycleRecord) /\ Len(s) \in Nat /\ Len(h) \in Nat /\ Len(h) # 0
      /\ Len(h2) \in Nat
  BY DEF World
<1> DEFINE new == Lifecycle(incarnation, Len(h2), answers)
<1>2. /\ new \in LifecycleRecord /\ new.answers = answers
      /\ new.source = Len(h2) /\ new.incarnation = incarnation
  BY <1>1 DEF LifecycleRecord, Lifecycle
<1> HIDE DEF new
<1>3. s2 = Append(s, new)
  BY DEF new, Newer
<1>4. /\ s2 \in Seq(LifecycleRecord) /\ Len(s2) = Len(s) + 1 /\ s2 # <<>>
      /\ s2[Len(s2)] = new
      /\ \A m \in 1 .. Len(s) : s2[m] = s[m]
  BY <1>1, <1>2, <1>3
<1>5. \A m \in 1 .. Len(s2) :
        /\ s2[m].incarnation \in 1 .. Len(s2)
        /\ s2[m].source \in 1 .. Len(h2)
        /\ \A e \in s2[m].answers : Committed(e, h2[s2[m].source])
  <2> TAKE m \in 1 .. Len(s2)
  <2>1. CASE m = Len(s2)
    BY <1>1, <1>2, <1>4, <2>1
  <2>2. CASE m # Len(s2)
    <3>1. m \in 1 .. Len(s) /\ s2[m] = s[m]
      BY <1>1, <1>4, <2>2
    <3>2. /\ s[m].incarnation \in 1 .. Len(s)
          /\ s[m].source \in 1 .. Len(h)
          /\ \A e \in s[m].answers : Committed(e, h[s[m].source])
      BY <3>1, Zenon DEF World
    <3>3. h2[s[m].source] = h[s[m].source]
      BY <3>2
    <3>4. /\ s[m].incarnation \in 1 .. Len(s2)
          /\ s[m].source \in 1 .. Len(h2)
      <4>1. \A a, b \in Nat : a <= b => 1 .. a \subseteq 1 .. b
        OBVIOUS
      <4>2. Len(s2) \in Nat /\ Len(s) <= Len(s2)
        BY <1>1, <1>4
      <4>3. 1 .. Len(s) \subseteq 1 .. Len(s2) /\ 1 .. Len(h) \subseteq 1 .. Len(h2)
        BY <1>1, <4>1, <4>2, Zenon
      <4> QED
        BY <3>2, <4>3, Zenon
    <3>5. \A e \in s[m].answers : Committed(e, h2[s[m].source])
      BY <3>2, <3>3
    <3> QED
      BY <3>1, <3>4, <3>5
  <2> QED
    BY <2>1, <2>2
<1>6. h2 # <<>>
  BY <1>1
<1>7. World(h2, s2)
  BY <1>2, <1>4, <1>5, <1>6 DEF World
<1>8. Grows(h, s, h2, s2)
  <2>1. Len(s) <= Len(s2)
    BY <1>1, <1>4
  <2>2. \A n \in 1 .. Len(h) : Len(h[n]) <= Len(h2[n])
    BY SMTT(30) DEF World
  <2> QED
    BY <1>4, <2>1, <2>2 DEF Grows
<1> QED
  BY <1>4, <1>7, <1>8

-----------------------------------------------------------------------------
(* Publication.                                                            *)

\* A request that published is as sound as it was.
LEMMA PublishedRequest ==
    ASSUME NEW r \in RequestRecord, NEW h, NEW s, RequestSound(r, h, s),
           r.pc \in {"publishManaged", "publishExact"},
           NEW stage \in {"publishExact", "done"}, NEW dirty \in BOOLEAN
    PROVE  /\ StagedAs(r, stage, dirty) \in RequestRecord
           /\ RequestSound(StagedAs(r, stage, dirty), h, s)
<1> DEFINE next == StagedAs(r, stage, dirty)
<1>1. stage \in Stage
  BY DEF Stage
<1>2. /\ next \in RequestRecord
      /\ next.pc = stage /\ next.answer = r.answer /\ next.computed = r.computed
      /\ next.query = r.query /\ next.kind = r.kind
      /\ next.lifecycle = r.lifecycle /\ next.source = r.source /\ next.db = r.db
      /\ next.revision = r.revision /\ next.disjoint = r.disjoint /\ next.key = r.key
  BY <1>1, StagedType
<1>3. /\ r.kind # "speculative" /\ Answered(r)
      /\ r.computed \in 1 .. Len(h[r.source])
      /\ r.answer = Answer(r.query, h[r.source][r.computed])
  BY PublicationFacts
<1> HIDE DEF next
<1>4. RequestSound(next, h, s)
  BY <1>2, <1>3 DEF RequestSound, Selected, Answered
<1> QED
  BY <1>2, <1>4 DEF next

\* Publishing a committed answer into the captured lifecycle, attached or not.
LEMMA PublishStep ==
    ASSUME IInv, NEW p \in Request, NEW key \in Keys, NEW stage \in {"publishExact", "done"},
           req[p].pc \in {"publishManaged", "publishExact"},
           Committed(Entry(key, req[p].answer, req[p].computed), logs[req[p].source]),
           Publish(p, key, stage),
           UNCHANGED <<logs, contentRevision, disabled, saved, restoring>>
    PROVE  IInv'
<1> DEFINE r == req[p]
           entry == Entry(key, r.answer, r.computed)
<1>0. r \in RequestRecord /\ RequestSound(r, logs, lifecycles)
  BY DEF IInv
<1>1. PICK dirty \in BOOLEAN :
        /\ req'[p] = StagedAs(r, stage, dirty)
        /\ req' = [req EXCEPT ![p] = StagedAs(r, stage, dirty)]
  <2>1. CASE req' = [req EXCEPT ![p].pc = stage]
    <3>1. StagedAs(r, stage, r.dirty) = [r EXCEPT !.pc = stage] /\ r.dirty \in BOOLEAN
      BY <1>0 DEF StagedAs, RequestRecord
    <3> QED
      BY <2>1, <3>1 DEF IInv
  <2>2. CASE req' = [req EXCEPT ![p].pc = stage, ![p].dirty = TRUE]
    <3>1. PICK dirty \in BOOLEAN : dirty = TRUE
      OBVIOUS
    <3>2. req' = [req EXCEPT ![p].pc = stage, ![p].dirty = dirty]
      BY <2>2, <3>1
    <3> QED
      BY <3>2 DEF IInv, StagedAs
  <2> QED
    BY <2>1, <2>2 DEF Publish
<1>2. /\ StagedAs(r, stage, dirty) \in RequestRecord
      /\ RequestSound(StagedAs(r, stage, dirty), logs, lifecycles)
  BY <1>0, PublishedRequest
<1>3. CASE UNCHANGED lifecycles
  <2>1. /\ req' = [req EXCEPT ![p] = req'[p]] /\ req'[p] \in RequestRecord
        /\ RequestSound(req'[p], logs, lifecycles)
    BY <1>1, <1>2
  <2>2. contentRevision' \in Nat /\ disabled' \subseteq 1 .. Current
    BY DEF IInv
  <2> QED
    BY <1>3, <2>1, <2>2, RequestStep
<1>4. ASSUME NEW kept \in Bounded(Answers(p) \cup {entry}),
             lifecycles' = [lifecycles EXCEPT ![r.lifecycle].answers = kept]
      PROVE  IInv'
  <2>1. /\ r.lifecycle \in 1 .. Len(lifecycles)
        /\ r.source = lifecycles[r.lifecycle].source
        /\ \A e \in Answers(p) : e \in EntryRecord /\ Committed(e, logs[r.source])
    BY SelectedFacts
  <2>2. /\ r.answer = Answer(r.query, r.db) /\ r.query \in Query /\ r.db \in Database
        /\ r.computed \in Nat
    BY <1>0, PublicationFacts DEF RequestSound, RequestRecord, Answered
  <2>3. entry \in EntryRecord
    BY <2>2 DEF EntryRecord, Entry, Values
  <2>4. kept \subseteq Answers(p) \cup {entry}
    BY <1>4 DEF Bounded
  <2>5. kept \in SUBSET EntryRecord /\ \A e \in kept : Committed(e, logs[lifecycles[r.lifecycle].source])
    BY <2>1, <2>3, <2>4
  <2>6. World(logs, lifecycles)
    BY DEF IInv
  <2>7. /\ World(logs, lifecycles') /\ Grows(logs, lifecycles, logs, lifecycles')
        /\ Len(lifecycles') = Len(lifecycles)
    <3>1. PICK l \in 1 .. Len(lifecycles) : l = r.lifecycle
      BY <2>1
    <3>2. /\ \A e \in kept : Committed(e, logs[lifecycles[l].source])
          /\ lifecycles' = Keeping(lifecycles, l, kept)
      BY <1>4, <2>5, <3>1 DEF Keeping
    <3>3. PICK s2 : s2 = lifecycles' /\ s2 = Keeping(lifecycles, l, kept)
      BY <3>2
    <3>4. World(logs, s2) /\ Grows(logs, lifecycles, logs, s2) /\ Len(s2) = Len(lifecycles)
      BY <2>5, <2>6, <3>2, <3>3, KeptAnswers
    <3> QED
      BY <3>3, <3>4
  <2>8. CheckpointSound(saved', restoring', logs', lifecycles')
    <3>1. CheckpointSound(saved, restoring, logs, lifecycles')
      BY <2>6, <2>7, GrowthKeepsCheckpoint DEF IInv
    <3> QED
      BY <3>1
  <2>9. /\ req' \in [Request -> RequestRecord]
        /\ \A o \in Request : RequestSound(req'[o], logs, lifecycles)
    BY <1>1, <1>2 DEF IInv
  <2>10. contentRevision' \in Nat /\ disabled' \subseteq 1 .. Len(lifecycles')
    BY <2>7 DEF IInv, Current
  <2>11. World(logs', lifecycles') /\ Grows(logs, lifecycles, logs', lifecycles')
    BY <2>7
  <2> QED
    BY <2>8, <2>9, <2>10, <2>11, WorldStep
<1> QED
  BY <1>3, <1>4 DEF Publish

\* The managed entry carries the descriptor of the value it was evaluated on.
LEMMA PublishManagedStep ==
    ASSUME IInv, NEW p \in Request, PublishManaged(p)
    PROVE  IInv'
<1> DEFINE r == req[p]
<1>0. r \in RequestRecord /\ RequestSound(r, logs, lifecycles) /\ r.pc = "publishManaged"
  BY DEF IInv, PublishManaged
<1>1. /\ r.key = LiftKey(r) /\ r.computed = r.revision
      /\ r.query \in Query /\ r.db \in Database
  BY <1>0 DEF RequestSound
<1>2. /\ r.revision \in 1 .. Len(logs[r.source])
      /\ r.db = logs[r.source][r.revision]
      /\ r.answer = Answer(r.query, logs[r.source][r.computed])
  BY <1>0, PublicationFacts
<1>3. r.key \in Keys
  BY <1>1 DEF LiftKey, Keys, ManagedKeys
<1>4. Committed(Entry(r.key, r.answer, r.computed), logs[r.source])
  <2> DEFINE e == Entry(r.key, r.answer, r.computed)
  <2>1. /\ e.computed = r.computed /\ e.value = r.answer
        /\ e.key.tier = "managed" /\ e.key.query = r.query
        /\ e.key.basis = Descriptor(r.query, r.db)
    BY <1>1 DEF Entry, LiftKey
  <2> HIDE DEF e
  <2> QED
    BY <1>1, <1>2, <2>1 DEF Committed, e
<1> QED
  BY <1>0, <1>3, <1>4, PublishStep DEF PublishManaged

\* The exact entry's value is the answer for the value its key names.
LEMMA PublishExactStep ==
    ASSUME IInv, NEW p \in Request, PublishExact(p)
    PROVE  IInv'
<1> DEFINE r == req[p]
           key == ExactKey(p)
<1>0. r \in RequestRecord /\ RequestSound(r, logs, lifecycles) /\ r.pc = "publishExact"
  BY DEF IInv, PublishExact
<1>1. /\ Answered(r)
      /\ r.computed \in 1 .. Len(logs[r.source])
      /\ r.revision \in 1 .. Len(logs[r.source])
      /\ r.db = logs[r.source][r.revision]
      /\ r.answer = Answer(r.query, logs[r.source][r.computed])
  BY <1>0, PublicationFacts
<1>2. /\ key.tier = "exact" /\ key.query = r.query /\ key.basis[2] = r.revision
      /\ r.query \in Query /\ r.revision \in Nat /\ r.kind \in KindSet
  BY <1>0 DEF ExactKey, RequestSound, RequestRecord
<1>3. key \in Keys
  BY <1>2 DEF ExactKey, Keys
<1>4. Committed(Entry(key, r.answer, r.computed), logs[r.source])
  <2> DEFINE e == Entry(key, r.answer, r.computed)
  <2>1. e.computed = r.computed /\ e.value = r.answer /\ e.key = key
    BY DEF Entry
  <2>2. /\ r.revision \in r.computed .. Len(logs[r.source])
        /\ r.answer = Answer(r.query, logs[r.source][r.revision])
    BY <1>1 DEF Answered
  <2> HIDE DEF e, key
  <2> QED
    BY <1>1, <1>2, <2>1, <2>2 DEF Committed, e
<1> HIDE DEF key
<1> QED
  BY <1>0, <1>3, <1>4, PublishStep DEF PublishExact, key

-----------------------------------------------------------------------------
(* Host operations.                                                        *)

\* Installing a lifecycle over the newest source.
LEMMA InstallStep ==
    ASSUME IInv,
           NEW h2 \in Seq(Seq(Database)), logs' = h2, Len(logs) <= Len(h2),
           \A n \in 1 .. Len(logs) : h2[n] = logs[n],
           \A n \in 1 .. Len(h2) : h2[n] # <<>> /\ Certified(h2[n]),
           NEW incarnation \in 1 .. Current + 1, NEW answers \in SUBSET EntryRecord,
           \A e \in answers : Committed(e, h2[Len(h2)]),
           Install(Lifecycle(incarnation, Len(h2), answers)),
           UNCHANGED <<disabled, req, saved>>, restoring' \in {restoring, Null}
    PROVE  IInv'
<1>1. World(logs, lifecycles)
  BY DEF IInv
<1>2. PICK s2 : s2 = lifecycles' /\ s2 = Newer(lifecycles, incarnation, Len(h2), answers)
  BY DEF Install, Newer
<1>3. incarnation \in 1 .. Len(lifecycles) + 1
  BY DEF Current
<1>4. /\ World(h2, s2) /\ Grows(logs, lifecycles, h2, s2)
      /\ Len(s2) = Len(lifecycles) + 1
  BY <1>1, <1>2, <1>3, NewStore
<1>5. /\ World(logs', lifecycles') /\ Grows(logs, lifecycles, logs', lifecycles')
  BY <1>2, <1>4
<1>6. CheckpointSound(saved', restoring', logs', lifecycles')
  <2>1. CheckpointSound(saved, restoring, h2, s2)
    BY <1>1, <1>4, GrowthKeepsCheckpoint DEF IInv
  <2>2. CheckpointSound(saved, restoring', h2, s2)
    BY <2>1 DEF CheckpointSound
  <2> QED
    BY <1>2, <2>2
<1>7. contentRevision' \in Nat /\ disabled' \subseteq 1 .. Len(lifecycles')
  <2>1. Len(lifecycles) \in Nat
    BY <1>1 DEF World
  <2>2. 1 .. Len(lifecycles) \subseteq 1 .. Len(lifecycles')
    BY <1>2, <1>4, <2>1
  <2> QED
    BY <2>2 DEF IInv, Install, Current
<1>8. /\ req' \in [Request -> RequestRecord]
      /\ \A o \in Request : RequestSound(req'[o], logs, lifecycles)
  BY DEF IInv
<1> QED
  BY <1>5, <1>6, <1>7, <1>8, WorldStep

\* What is installed.
LEMMA InstalledFacts ==
    ASSUME IInv
    PROVE  /\ logs \in Seq(Seq(Database)) /\ Len(logs) \in Nat /\ Len(logs) \in 1 .. Len(logs)
           /\ \A n \in 1 .. Len(logs) : logs[n] # <<>> /\ Certified(logs[n])
           /\ Current \in Nat /\ Current \in 1 .. Current /\ Current = Len(lifecycles)
           /\ Installed = lifecycles[Current]
           /\ Installed.source = Len(logs) /\ Installed.incarnation \in 1 .. Current
           /\ Installed.answers \subseteq EntryRecord
           /\ \A e \in Installed.answers : Committed(e, logs[Len(logs)])
<1>1. World(logs, lifecycles)
  BY DEF IInv
<1>2. /\ Current \in Nat /\ Current \in 1 .. Current /\ Current = Len(lifecycles)
      /\ Installed = lifecycles[Current] /\ Installed \in LifecycleRecord
  BY <1>1 DEF World, Current, Installed
<1>3. Len(logs) \in Nat /\ Len(logs) \in 1 .. Len(logs)
  BY <1>1 DEF World
<1> QED
  BY <1>1, <1>2, <1>3 DEF World, LifecycleRecord

LEMMA ClearAnswerCacheStep ==
    ASSUME IInv, ClearAnswerCache
    PROVE  IInv'
<1>1. PICK incarnation, answers :
        /\ incarnation = Installed.incarnation /\ answers = {}
        /\ Install(Lifecycle(incarnation, Len(logs), answers))
  BY InstalledFacts DEF ClearAnswerCache
<1>2. /\ incarnation \in 1 .. Current + 1 /\ answers \in SUBSET EntryRecord
      /\ \A e \in answers : Committed(e, logs[Len(logs)])
  BY <1>1, InstalledFacts
<1>3. logs \in Seq(Seq(Database)) /\ logs' = logs /\ Len(logs) <= Len(logs)
  BY InstalledFacts DEF ClearAnswerCache
<1>4. UNCHANGED <<disabled, req, saved>> /\ restoring' \in {restoring, Null}
  BY DEF ClearAnswerCache
<1> QED
  BY <1>1, <1>2, <1>3, <1>4, InstalledFacts, InstallStep

\* A new source starts from a prefix of the old history; nothing enters its
\* first store.
LEMMA ExpireCacheStep ==
    ASSUME IInv, ExpireCache
    PROVE  IInv'
<1>1. PICK h2 \in Seq(Seq(Database)) :
        /\ logs' = h2 /\ Len(logs) <= Len(h2)
        /\ \A n \in 1 .. Len(logs) : h2[n] = logs[n]
        /\ \A n \in 1 .. Len(h2) : h2[n] # <<>> /\ Certified(h2[n])
        /\ Install(Lifecycle(Current + 1, Len(h2), {}))
  <2>1. ASSUME NEW i \in 1 .. Len(History),
               logs' = Append(logs, SubSeq(History, 1, i)),
               Install(Lifecycle(Current + 1, Len(logs) + 1, {}))
        PROVE  \E h2 \in Seq(Seq(Database)) :
                 /\ logs' = h2 /\ Len(logs) <= Len(h2)
                 /\ \A n \in 1 .. Len(logs) : h2[n] = logs[n]
                 /\ \A n \in 1 .. Len(h2) : h2[n] # <<>> /\ Certified(h2[n])
                 /\ Install(Lifecycle(Current + 1, Len(h2), {}))
    <3>1. History \in Seq(Database) /\ History # <<>> /\ Certified(History)
      BY InstalledFacts DEF History
    <3>2. PICK prefix \in Seq(Database) :
            /\ prefix = SubSeq(History, 1, i)
            /\ prefix # <<>> /\ Certified(prefix)
      BY <3>1, PrefixCertified
    <3>3. PICK h2 : h2 = Append(logs, prefix) /\ logs' = h2
      BY <2>1, <3>2
    <3>4. /\ h2 \in Seq(Seq(Database)) /\ Len(h2) = Len(logs) + 1
          /\ \A n \in 1 .. Len(logs) : h2[n] = logs[n]
          /\ h2[Len(h2)] = prefix
      BY <3>2, <3>3, InstalledFacts
    <3>5. \A n \in 1 .. Len(h2) : h2[n] # <<>> /\ Certified(h2[n])
      <4> TAKE n \in 1 .. Len(h2)
      <4>1. CASE n = Len(h2)
        BY <3>2, <3>4, <4>1
      <4>2. CASE n # Len(h2)
        <5>1. n \in 1 .. Len(logs) /\ h2[n] = logs[n]
          BY <3>4, <4>2, InstalledFacts, SMTT(30)
        <5> QED
          BY <5>1, InstalledFacts
      <4> QED
        BY <4>1, <4>2
    <3>6. Len(logs) <= Len(h2)
      BY <3>4, InstalledFacts
    <3>7. Install(Lifecycle(Current + 1, Len(h2), {}))
      BY <2>1, <3>4
    <3> QED
      BY <3>3, <3>4, <3>5, <3>6, <3>7
  <2>2. ASSUME logs' = logs, Install(Lifecycle(Current + 1, Installed.source, {}))
        PROVE  \E h2 \in Seq(Seq(Database)) :
                 /\ logs' = h2 /\ Len(logs) <= Len(h2)
                 /\ \A n \in 1 .. Len(logs) : h2[n] = logs[n]
                 /\ \A n \in 1 .. Len(h2) : h2[n] # <<>> /\ Certified(h2[n])
                 /\ Install(Lifecycle(Current + 1, Len(h2), {}))
    <3>1. Len(logs) <= Len(logs) /\ Install(Lifecycle(Current + 1, Len(logs), {}))
      BY <2>2, InstalledFacts
    <3> QED
      BY <2>2, <3>1, InstalledFacts
  <2> QED
    BY <2>1, <2>2 DEF ExpireCache
<1>2. PICK incarnation, answers :
        /\ incarnation = Current + 1 /\ answers = {}
        /\ Install(Lifecycle(incarnation, Len(h2), answers))
  BY <1>1
<1>3. /\ incarnation \in 1 .. Current + 1 /\ answers \in SUBSET EntryRecord
      /\ \A e \in answers : Committed(e, h2[Len(h2)])
  BY <1>2, InstalledFacts
<1>4. UNCHANGED <<disabled, req, saved>> /\ restoring' \in {restoring, Null}
  BY DEF ExpireCache
<1> QED
  BY <1>1, <1>2, <1>3, <1>4, InstallStep

\* The candidate was committed in the source it was validated against, and that
\* source is still the installed one.
LEMMA InstallRestoredStep ==
    ASSUME IInv, InstallRestored
    PROVE  IInv'
<1>1. PICK incarnation, answers :
        /\ incarnation = Current + 1 /\ answers = restoring.entries
        /\ Install(Lifecycle(incarnation, Len(logs), answers))
  BY InstalledFacts DEF InstallRestored
<1>2. /\ answers \in SUBSET EntryRecord
      /\ \A e \in answers : Committed(e, logs[Len(logs)])
  <2>1. /\ restoring.entries \subseteq EntryRecord
        /\ \A e \in restoring.entries :
             Committed(e, logs[lifecycles[restoring.captured].source])
    BY DEF InstallRestored, IInv, CheckpointSound
  <2>2. lifecycles[restoring.captured].source = Len(logs)
    BY InstalledFacts DEF InstallRestored, SameSource
  <2> QED
    BY <1>1, <2>1, <2>2
<1>3. incarnation \in 1 .. Current + 1
  BY <1>1, InstalledFacts
<1>4. logs \in Seq(Seq(Database)) /\ logs' = logs /\ Len(logs) <= Len(logs)
  BY InstalledFacts DEF InstallRestored
<1>5. UNCHANGED <<disabled, req, saved>> /\ restoring' \in {restoring, Null}
  BY DEF InstallRestored
<1> QED
  BY <1>1, <1>2, <1>3, <1>4, <1>5, InstalledFacts, InstallStep

\* A step that only moves checkpoints.
LEMMA CheckpointStep ==
    ASSUME IInv, UNCHANGED <<logs, lifecycles, contentRevision, disabled, req>>,
           CheckpointSound(saved', restoring', logs, lifecycles)
    PROVE  IInv'
<1>1. /\ World(logs, lifecycles)' /\ CheckpointSound(saved, restoring, logs, lifecycles)'
      /\ Current' = Current
  BY DEF IInv, Current
<1>2. \A o \in Request : RequestSound(req'[o], logs', lifecycles')
  BY DEF IInv
<1> QED
  BY <1>1, <1>2 DEF IInv

LEMMA ExportSnapshotStep ==
    ASSUME IInv, ExportSnapshot
    PROVE  IInv'
<1>1. /\ saved'.source = Len(logs) /\ saved'.entries \subseteq Installed.answers
      /\ restoring' = restoring
  BY InstalledFacts DEF ExportSnapshot, Exportable
<1>2. CheckpointSound(saved', restoring', logs, lifecycles)
  BY <1>1, InstalledFacts DEF CheckpointSound, IInv
<1> QED
  BY <1>2, CheckpointStep DEF ExportSnapshot

\* Entries are accepted only from the source whose store will hold them.
LEMMA BeginRestoreStep ==
    ASSUME IInv, BeginRestore
    PROVE  IInv'
<1>1. /\ restoring'.captured = Current /\ restoring'.entries = saved.entries
      /\ saved' = saved /\ saved # Null
      /\ saved.entries # {} => saved.source = Len(logs)
  BY InstalledFacts DEF BeginRestore
<1>2. /\ saved.entries \subseteq EntryRecord
      /\ \A e \in saved.entries : Committed(e, logs[Len(logs)])
  BY <1>1 DEF IInv, CheckpointSound
<1>3. CheckpointSound(saved', restoring', logs, lifecycles)
  BY <1>1, <1>2, InstalledFacts DEF CheckpointSound, IInv
<1> QED
  BY <1>3, CheckpointStep DEF BeginRestore

LEMMA RestoreConflictStep ==
    ASSUME IInv, RestoreConflict
    PROVE  IInv'
<1>1. CheckpointSound(saved', restoring', logs, lifecycles)
  BY DEF RestoreConflict, CheckpointSound, IInv
<1> QED
  BY <1>1, CheckpointStep DEF RestoreConflict

-----------------------------------------------------------------------------
(* The invariant holds of every behaviour.                                 *)

LEMMA InitIInv == Init => IInv
<1> SUFFICES ASSUME Init PROVE IInv
  OBVIOUS
<1>1. PICK db \in Genesis : logs = <<<<db>>>>
  BY DEF Init
<1>2. /\ logs \in Seq(Seq(Database)) /\ logs # <<>> /\ Len(logs) = 1
      /\ logs[1] # <<>> /\ Certified(logs[1])
  BY <1>1, GenesisCertified
<1>3. /\ lifecycles = <<Lifecycle(1, 1, {})>> /\ Len(lifecycles) = 1 /\ lifecycles # <<>>
      /\ Lifecycle(1, 1, {}) \in LifecycleRecord
      /\ lifecycles[1].incarnation = 1 /\ lifecycles[1].source = 1
      /\ lifecycles[1].answers = {}
  BY DEF Init, LifecycleRecord, Lifecycle
<1>4. lifecycles \in Seq(LifecycleRecord)
  BY <1>3
<1>5. World(logs, lifecycles)
  BY <1>2, <1>3, <1>4 DEF World
<1>6. req \in [Request -> RequestRecord] /\ \A p \in Request : req[p] = Idle
  BY IdleType DEF Init
<1>7. \A p \in Request : RequestSound(req[p], logs, lifecycles)
  BY <1>6 DEF RequestSound, Idle
<1>8. CheckpointSound(saved, restoring, logs, lifecycles)
  BY DEF Init, CheckpointSound
<1> QED
  BY <1>5, <1>6, <1>7, <1>8 DEF IInv, Init

LEMMA StutterStep ==
    ASSUME IInv, UNCHANGED vars
    PROVE  IInv'
<1>1. CheckpointSound(saved', restoring', logs, lifecycles)
  BY DEF vars, IInv
<1> QED
  BY <1>1, CheckpointStep DEF vars

LEMMA NextIInv == IInv /\ [Next]_vars => IInv'
<1> SUFFICES ASSUME IInv, [Next]_vars PROVE IInv'
  OBVIOUS
<1>1. CASE WriteRelationships
  BY <1>1, WriteRelationshipsStep
<1>2. CASE WriteReferences
  BY <1>2, WriteReferencesStep
<1>3. CASE WriteSchema
  BY <1>3, WriteSchemaStep
<1>4. ASSUME NEW p \in Request, Capture(p) \/ Serve(p) \/ Finish(p) \/ ReadAgain(p) \/ ReadRetired(p)
      PROVE  IInv'
  <2>1. CASE Capture(p)             BY <2>1, CaptureStep
  <2>2. CASE Acquire(p)             BY <2>2, AcquireStep
  <2>3. CASE AcquireSpeculative(p)  BY <2>3, AcquireSpeculativeStep
  <2>4. CASE RetrySelection(p)      BY <2>4, RetrySelectionStep
  <2>5. CASE AcceptSelection(p)     BY <2>5, AcceptSelectionStep
  <2>6. CASE Bypass(p)              BY <2>6, BypassStep
  <2>7. CASE ExactHit(p)            BY <2>7, ExactHitStep
  <2>8. CASE ExactMiss(p)           BY <2>8, ExactMissStep
  <2>9. CASE Prove(p)               BY <2>9, ProveStep
  <2>10. CASE ContractViolation(p)  BY <2>10, ContractViolationStep
  <2>11. CASE ManagedHit(p)         BY <2>11, ManagedHitStep
  <2>12. CASE ManagedMiss(p)        BY <2>12, ManagedMissStep
  <2>13. CASE Evaluate(p)           BY <2>13, EvaluateStep
  <2>14. CASE PublishManaged(p)     BY <2>14, PublishManagedStep
  <2>15. CASE PublishExact(p)       BY <2>15, PublishExactStep
  <2>16. CASE SkipPublication(p)    BY <2>16, SkipPublicationStep
  <2>17. CASE Notify(p)             BY <2>17, NotifyStep
  <2>18. CASE Finish(p)             BY <2>18, FinishStep
  <2>19. CASE ReadAgain(p)          BY <2>19, ReadAgainStep
  <2>20. CASE ReadRetired(p)        BY <2>20, ReadRetiredStep
  <2> QED
    BY <1>4, <2>1, <2>2, <2>3, <2>4, <2>5, <2>6, <2>7, <2>8, <2>9, <2>10, <2>11,
       <2>12, <2>13, <2>14, <2>15, <2>16, <2>17, <2>18, <2>19, <2>20 DEF Serve
<1>5. CASE Host
  <2>1. CASE ClearAnswerCache       BY <2>1, ClearAnswerCacheStep
  <2>2. CASE ExpireCache            BY <2>2, ExpireCacheStep
  <2>3. CASE ExportSnapshot         BY <2>3, ExportSnapshotStep
  <2>4. CASE BeginRestore           BY <2>4, BeginRestoreStep
  <2>5. CASE InstallRestored        BY <2>5, InstallRestoredStep
  <2>6. CASE RestoreConflict        BY <2>6, RestoreConflictStep
  <2> QED
    BY <1>5, <2>1, <2>2, <2>3, <2>4, <2>5, <2>6 DEF Host
<1>6. CASE UNCHANGED vars
  BY <1>6, StutterStep
<1> QED
  BY <1>1, <1>2, <1>3, <1>4, <1>5, <1>6 DEF Next

LEMMA Invariance == Spec => []IInv
<1> QED
  BY InitIInv, NextIInv, PTL DEF Spec

-----------------------------------------------------------------------------
(* What a checkpointing host relies on.  A publisher that inserted owes the *)
(* hook of its store one notification, and does nothing else before it.     *)

Owing == {"publishExact", "done"}

\* The snapshot last exported is of this content revision only if every later
\* insertion is still owed.
ExportInv ==
    /\ \A p \in Request : req[p].dirty => req[p].pc \in Owing
    /\ saved # Null => saved.revision \in Nat /\ saved.revision <= contentRevision
    /\ UnchangedRevisionUnchangedExport

\* A request that owes nothing moves, and owes nothing.
LEMMA QuietStep ==
    ASSUME IInv, ExportInv, NEW p \in Request, NEW next,
           req' = [req EXCEPT ![p] = next], ~ req[p].dirty, ~ next.dirty,
           UNCHANGED <<lifecycles, contentRevision, saved>>
    PROVE  ExportInv'
<1>1. /\ req'[p] = next
      /\ \A o \in Request : o # p => req'[o] = req[o]
  BY DEF IInv
<1>2. \A o \in Request : req'[o].dirty => req'[o].pc \in Owing
  BY <1>1 DEF ExportInv
<1>3. /\ Current' = Current /\ Installed' = Installed
      /\ Exportable(Installed.answers)' = Exportable(Installed.answers)
  BY DEF Current, Installed, Exportable
<1>4. (\A o \in Request : req'[o].dirty => req'[o].lifecycle # Current)
        => \A o \in Request : req[o].dirty => req[o].lifecycle # Current
  BY <1>1
<1>5. UnchangedRevisionUnchangedExport'
  BY <1>3, <1>4 DEF ExportInv, UnchangedRevisionUnchangedExport
<1> QED
  BY <1>2, <1>5 DEF ExportInv

\* Whatever a request does but publish and notify, it does owing nothing.
LEMMA QuietActions ==
    ASSUME IInv, ExportInv, NEW p \in Request,
           \/ Capture(p) \/ Acquire(p) \/ AcquireSpeculative(p) \/ RetrySelection(p)
           \/ AcceptSelection(p) \/ Bypass(p) \/ ExactHit(p) \/ ExactMiss(p) \/ Prove(p)
           \/ ContractViolation(p) \/ ManagedHit(p) \/ ManagedMiss(p) \/ Evaluate(p)
           \/ SkipPublication(p) \/ Finish(p) \/ ReadAgain(p) \/ ReadRetired(p)
    PROVE  ExportInv'
<1> DEFINE r == req[p]
<1>1. r \in RequestRecord /\ req \in [Request -> RequestRecord] /\ ~ Idle.dirty
  BY DEF IInv, Idle
<1>2. ASSUME Capture(p) \/ RetrySelection(p) \/ Finish(p) PROVE ExportInv'
  <2>1. ~ r.dirty
    BY <1>2 DEF Capture, RetrySelection, Finish, ExportInv, Owing
  <2>2. PICK next : req' = [req EXCEPT ![p] = next] /\ ~ next.dirty
    <3>1. CASE Finish(p)
      BY <1>1, <3>1 DEF Finish
    <3>2. CASE Capture(p) \/ RetrySelection(p)
      <4>1. PICK q, kind, l : req' = [req EXCEPT ![p] = CapturedAs(q, kind, l)]
        BY <3>2 DEF Capture, RetrySelection, CapturedAs
      <4>2. CapturedAs(q, kind, l).dirty = FALSE
        BY DEF CapturedAs, Idle
      <4> QED
        BY <4>1, <4>2
    <3> QED
      BY <1>2, <3>1, <3>2
  <2>3. UNCHANGED <<lifecycles, contentRevision, saved>>
    BY <1>2 DEF Capture, RetrySelection, Finish
  <2> QED
    BY <2>1, <2>2, <2>3, QuietStep
<1>3. ASSUME Acquire(p) \/ AcquireSpeculative(p) PROVE ExportInv'
  <2>1. ~ r.dirty
    BY <1>3 DEF Acquire, AcquireSpeculative, ExportInv, Owing
  <2>2. PICK db, revision, disjoint : Select(p, db, revision, disjoint)
    BY <1>3 DEF Acquire, AcquireSpeculative
  <2>3. PICK next : req' = [req EXCEPT ![p] = next] /\ ~ next.dirty
    <3>1. req' = [req EXCEPT ![p] = SelectedAs(r, Len(logs), db, revision, disjoint)]
      BY <2>2, SelectMoves
    <3>2. SelectedAs(r, Len(logs), db, revision, disjoint).dirty = r.dirty
      BY <1>1 DEF SelectedAs, RequestRecord
    <3> QED
      BY <2>1, <3>1, <3>2
  <2>4. UNCHANGED <<lifecycles, contentRevision, saved>>
    BY <1>3 DEF Acquire, AcquireSpeculative
  <2> QED
    BY <2>1, <2>3, <2>4, QuietStep
<1>4. ASSUME Bypass(p) \/ ExactHit(p) \/ ManagedHit(p) \/ Evaluate(p) PROVE ExportInv'
  <2>1. ~ r.dirty
    BY <1>4 DEF Bypass, ExactHit, ManagedHit, Evaluate, ExportInv, Owing
  <2>2. PICK stage, value, computed : Settle(p, stage, value, computed)
    BY <1>4 DEF Bypass, ExactHit, ManagedHit, Evaluate
  <2>3. PICK next : req' = [req EXCEPT ![p] = next] /\ ~ next.dirty
    <3>1. req' = [req EXCEPT ![p] = SettledAs(r, stage, value, computed)]
      BY <2>2, SettleMoves
    <3>2. SettledAs(r, stage, value, computed).dirty = r.dirty
      BY <1>1 DEF SettledAs, RequestRecord
    <3> QED
      BY <2>1, <3>1, <3>2
  <2>4. UNCHANGED <<lifecycles, contentRevision, saved>>
    BY <1>4 DEF Bypass, ExactHit, ManagedHit, Evaluate
  <2> QED
    BY <2>1, <2>3, <2>4, QuietStep
<1>5. ASSUME AcceptSelection(p) \/ ExactMiss(p) \/ Prove(p) \/ ContractViolation(p)
               \/ ManagedMiss(p) \/ SkipPublication(p)
      PROVE  ExportInv'
  <2>1. ~ r.dirty
    BY <1>5 DEF AcceptSelection, ExactMiss, Prove, ContractViolation, ManagedMiss,
                SkipPublication, ExportInv, Owing
  <2>2. PICK stage, key : \/ req' = [req EXCEPT ![p].pc = stage]
                          \/ req' = [req EXCEPT ![p].pc = stage, ![p].key = key]
    BY <1>5 DEF AcceptSelection, ExactMiss, Prove, ContractViolation, ManagedMiss,
                SkipPublication
  <2>3. PICK next : req' = [req EXCEPT ![p] = next] /\ ~ next.dirty
    <3>1. /\ [r EXCEPT !.pc = stage].dirty = r.dirty
          /\ [r EXCEPT !.pc = stage, !.key = key].dirty = r.dirty
      BY <1>1 DEF RequestRecord
    <3> QED
      BY <2>1, <2>2, <3>1
  <2>4. UNCHANGED <<lifecycles, contentRevision, saved>>
    BY <1>5 DEF AcceptSelection, ExactMiss, Prove, ContractViolation, ManagedMiss,
                SkipPublication
  <2> QED
    BY <2>1, <2>3, <2>4, QuietStep
<1>6. ASSUME ReadAgain(p) \/ ReadRetired(p) PROVE ExportInv'
  <2>1. ~ r.dirty
    BY <1>6 DEF ReadAgain, ReadRetired, Retained
  <2>2. PICK next : req' = [req EXCEPT ![p] = next] /\ ~ next.dirty
    <3>1. CASE ReadAgain(p)
      <4>1. PICK q \in Query :
              req' = [req EXCEPT ![p].pc = "exact", ![p].query = q, ![p].key = Null,
                                 ![p].lifecycle = Current, ![p].answer = Null, ![p].computed = 0]
        BY <3>1 DEF ReadAgain
      <4>2. [r EXCEPT !.pc = "exact", !.query = q, !.key = Null, !.lifecycle = Current,
                      !.answer = Null, !.computed = 0].dirty = r.dirty
        BY <1>1 DEF RequestRecord
      <4> QED
        BY <2>1, <4>1, <4>2
    <3>2. CASE ReadRetired(p)
      <4>1. PICK q \in Query :
              req' = [req EXCEPT ![p].query = q, ![p].key = Null,
                                 ![p].answer = Answer(q, r.db), ![p].computed = r.revision]
        BY <3>2 DEF ReadRetired
      <4>2. [r EXCEPT !.query = q, !.key = Null, !.answer = Answer(q, r.db),
                      !.computed = r.revision].dirty = r.dirty
        BY <1>1 DEF RequestRecord
      <4> QED
        BY <2>1, <4>1, <4>2
    <3> QED
      BY <1>6, <3>1, <3>2
  <2>3. UNCHANGED <<lifecycles, contentRevision, saved>>
    BY <1>6 DEF ReadAgain, ReadRetired
  <2> QED
    BY <2>1, <2>2, <2>3, QuietStep
<1> QED
  BY <1>2, <1>3, <1>4, <1>5, <1>6

\* An insertion into the installed stores is owed; one into detached stores
\* changes no export.
LEMMA PublishKeepsExport ==
    ASSUME IInv, ExportInv, NEW p \in Request, NEW key, NEW stage \in Owing,
           req[p].lifecycle \in 1 .. Len(lifecycles), ~ req[p].dirty,
           Publish(p, key, stage), UNCHANGED <<contentRevision, saved>>
    PROVE  ExportInv'
<1> DEFINE r == req[p]
<1>1. r \in RequestRecord /\ req \in [Request -> RequestRecord]
  BY DEF IInv
<1>2. ASSUME req' = [req EXCEPT ![p].pc = stage], UNCHANGED lifecycles PROVE ExportInv'
  <2>1. req' = [req EXCEPT ![p] = [r EXCEPT !.pc = stage]] /\ ~ [r EXCEPT !.pc = stage].dirty
    BY <1>1, <1>2 DEF RequestRecord
  <2> QED
    BY <1>2, <2>1, QuietStep
<1>3. ASSUME NEW kept, lifecycles' = [lifecycles EXCEPT ![r.lifecycle].answers = kept],
             req' = [req EXCEPT ![p].pc = stage, ![p].dirty = TRUE]
      PROVE  ExportInv'
  <2>1. /\ req'[p].pc = stage /\ req'[p].dirty /\ req'[p].lifecycle = r.lifecycle
        /\ \A o \in Request : o # p => req'[o] = req[o]
    BY <1>1, <1>3 DEF RequestRecord
  <2>2. \A o \in Request : req'[o].dirty => req'[o].pc \in Owing
    BY <2>1 DEF ExportInv
  <2>3. World(logs, lifecycles)
    BY DEF IInv
  <2>4. Len(lifecycles') = Len(lifecycles) /\ Current' = Current
    BY <1>3, <2>3 DEF World, Current
  <2>5. r.lifecycle # Current => Installed' = Installed
    BY <1>3, <2>3, <2>4 DEF World, Current, Installed
  <2>6. UnchangedRevisionUnchangedExport'
    <3>1. CASE r.lifecycle = Current
      BY <2>1, <2>4, <3>1 DEF UnchangedRevisionUnchangedExport
    <3>2. CASE r.lifecycle # Current
      <4>1. (\A o \in Request : req'[o].dirty => req'[o].lifecycle # Current)
              => \A o \in Request : req[o].dirty => req[o].lifecycle # Current
        BY <2>1
      <4>2. Exportable(Installed.answers)' = Exportable(Installed.answers)
        BY <2>5, <3>2 DEF Exportable
      <4> QED
        BY <2>4, <4>1, <4>2 DEF ExportInv, UnchangedRevisionUnchangedExport
    <3> QED
      BY <3>1, <3>2
  <2> QED
    BY <2>2, <2>6 DEF ExportInv
<1> QED
  BY <1>2, <1>3 DEF Publish

\* The hook of the installed stores moves the revision past every snapshot; that
\* of detached stores pays a debt nobody counts.
LEMMA NotifyKeepsExport ==
    ASSUME IInv, ExportInv, NEW p \in Request, Notify(p)
    PROVE  ExportInv'
<1> DEFINE r == req[p]
<1>1. r \in RequestRecord /\ req \in [Request -> RequestRecord] /\ contentRevision \in Nat
  BY DEF IInv
<1>2. /\ ~ req'[p].dirty
      /\ \A o \in Request : o # p => req'[o] = req[o]
  BY <1>1 DEF Notify, RequestRecord
<1>3. \A o \in Request : req'[o].dirty => req'[o].pc \in Owing
  BY <1>2 DEF ExportInv
<1>4. /\ saved' = saved /\ Current' = Current /\ Installed' = Installed
      /\ Exportable(Installed.answers)' = Exportable(Installed.answers)
  BY DEF Notify, Current, Installed, Exportable
<1>5. CASE r.lifecycle = Current
  <2>1. contentRevision' = contentRevision + 1
    BY <1>5 DEF Notify
  <2> QED
    BY <1>1, <1>3, <1>4, <2>1 DEF ExportInv, UnchangedRevisionUnchangedExport
<1>6. CASE r.lifecycle # Current
  <2>1. contentRevision' = contentRevision
    BY <1>6 DEF Notify
  <2>2. (\A o \in Request : req'[o].dirty => req'[o].lifecycle # Current)
          => \A o \in Request : req[o].dirty => req[o].lifecycle # Current
    BY <1>2, <1>6
  <2> QED
    BY <1>3, <1>4, <2>1, <2>2 DEF ExportInv, UnchangedRevisionUnchangedExport
<1> QED
  BY <1>5, <1>6

\* Replacing the stores moves the revision past every snapshot.
LEMMA InstallKeepsExport ==
    ASSUME IInv, ExportInv, NEW lifecycle, Install(lifecycle), UNCHANGED <<req, saved>>
    PROVE  ExportInv'
<1>1. contentRevision \in Nat /\ contentRevision' = contentRevision + 1
  BY DEF IInv, Install
<1> QED
  BY <1>1 DEF ExportInv, UnchangedRevisionUnchangedExport

LEMMA ExportSnapshotKeepsExport ==
    ASSUME IInv, ExportInv, ExportSnapshot
    PROVE  ExportInv'
<1>1. /\ saved'.revision = contentRevision /\ contentRevision' = contentRevision
      /\ saved'.entries = Exportable(Installed.answers)
      /\ contentRevision \in Nat
  BY DEF ExportSnapshot, IInv
<1>2. Exportable(Installed.answers)' = Exportable(Installed.answers)
  BY DEF ExportSnapshot, Installed, Current, Exportable
<1>3. req' = req
  BY DEF ExportSnapshot
<1> QED
  BY <1>1, <1>2, <1>3 DEF ExportInv, UnchangedRevisionUnchangedExport

LEMMA UnrelatedKeepsExport ==
    ASSUME ExportInv, UNCHANGED <<lifecycles, contentRevision, req, saved>>
    PROVE  ExportInv'
<1>1. /\ Current' = Current
      /\ Exportable(Installed.answers)' = Exportable(Installed.answers)
  BY DEF Installed, Current, Exportable
<1> QED
  BY <1>1 DEF ExportInv, UnchangedRevisionUnchangedExport

LEMMA InitExport == Init => ExportInv
BY DEF Init, Idle, ExportInv, UnchangedRevisionUnchangedExport

LEMMA NextExport == IInv /\ ExportInv /\ [Next]_vars => ExportInv'
<1> SUFFICES ASSUME IInv, ExportInv, [Next]_vars PROVE ExportInv'
  OBVIOUS
<1>1. CASE WriteRelationships \/ WriteReferences \/ WriteSchema
  BY <1>1, UnrelatedKeepsExport DEF WriteRelationships, WriteReferences, WriteSchema
<1>2. ASSUME NEW p \in Request, Capture(p) \/ Serve(p) \/ Finish(p) \/ ReadAgain(p) \/ ReadRetired(p)
      PROVE  ExportInv'
  <2>1. ASSUME PublishManaged(p) \/ PublishExact(p) PROVE ExportInv'
    <3>1. req[p].lifecycle \in 1 .. Len(lifecycles)
      BY <2>1 DEF PublishManaged, PublishExact, IInv, RequestSound
    <3>2. PICK key, stage : stage \in Owing /\ Publish(p, key, stage)
      <4>1. "publishExact" \in Owing /\ "done" \in Owing
        BY DEF Owing
      <4> QED
        BY <2>1, <4>1 DEF PublishManaged, PublishExact
    <3>3. ~ req[p].dirty /\ UNCHANGED <<contentRevision, saved>>
      BY <2>1 DEF PublishManaged, PublishExact
    <3> QED
      BY <3>1, <3>2, <3>3, PublishKeepsExport
  <2>2. CASE Notify(p)
    BY <2>2, NotifyKeepsExport
  <2> QED
    BY <1>2, <2>1, <2>2, QuietActions DEF Serve
<1>3. CASE Host
  <2>1. CASE ClearAnswerCache
    BY <2>1, InstallKeepsExport DEF ClearAnswerCache
  <2>2. CASE ExpireCache
    BY <2>2, InstallKeepsExport DEF ExpireCache
  <2>3. CASE ExportSnapshot
    BY <2>3, ExportSnapshotKeepsExport
  <2>4. CASE InstallRestored
    BY <2>4, InstallKeepsExport DEF InstallRestored
  <2>5. CASE BeginRestore \/ RestoreConflict
    BY <2>5, UnrelatedKeepsExport DEF BeginRestore, RestoreConflict
  <2> QED
    BY <1>3, <2>1, <2>2, <2>3, <2>4, <2>5 DEF Host
<1>4. CASE UNCHANGED vars
  BY <1>4, UnrelatedKeepsExport DEF vars
<1> QED
  BY <1>1, <1>2, <1>3, <1>4 DEF Next

-----------------------------------------------------------------------------
(* The theorems.                                                           *)

\* Whatever was committed, cleared, expired, restored, speculated or published
\* by others in between, an answer is the one evaluation gives on the value the
\* request selected.
THEOREM AnswersAreFresh == Spec => []AnswersFresh
<1>1. IInv => AnswersFresh
  BY DEF IInv, RequestSound, Answered, AnswersFresh, Fresh
<1> QED
  BY <1>1, Invariance, PTL

\* What a request is served was computed no later than the value it selected.
THEOREM ReuseRunsForward == Spec => []NoBackwardReuse
<1>1. IInv => NoBackwardReuse
  BY DEF IInv, RequestSound, Answered, NoBackwardReuse
<1> QED
  BY <1>1, Invariance, PTL

\* A request never resolves a value of one source lifecycle against the store
\* of another.
THEOREM SourcesNeverMix == Spec => []NoCrossSource
<1>1. IInv => NoCrossSource
  BY DEF IInv, RequestSound, NoCrossSource, Served
<1> QED
  BY <1>1, Invariance, PTL

\* Every resident of every store, detached ones included, was evaluated on the
\* committed value it names.
THEOREM StoresHoldCommittedAnswers == Spec => []ResidentsCommitted
<1>1. IInv => ResidentsCommitted
  BY DEF IInv, World, ResidentsCommitted, Current
<1> QED
  BY <1>1, Invariance, PTL

\* The variables keep their types, and the installed lifecycle is always one of
\* the newest source.
THEOREM TypeCorrect == Spec => []TypeOK
<1>1. ASSUME IInv PROVE TypeOK
  <2>1. World(logs, lifecycles) /\ contentRevision \in Nat /\ disabled \subseteq 1 .. Current
    BY <1>1 DEF IInv
  <2>2. /\ logs \in Seq(Seq(Database)) /\ logs # <<>>
        /\ \A n \in 1 .. Len(logs) : logs[n] # <<>>
    BY <2>1 DEF World
  <2>3. /\ \A l \in 1 .. Current : /\ lifecycles[l].incarnation \in 1 .. Current
                                   /\ lifecycles[l].source \in 1 .. Len(logs)
        /\ Installed.source = Len(logs)
    BY <2>1 DEF World, Current, Installed
  <2>4. ASSUME NEW p \in Request
        PROVE  /\ req[p].pc \in Stage
               /\ req[p].pc # "idle" => req[p].query \in Query /\ req[p].lifecycle \in 1 .. Current
               /\ req[p].pc \notin {"idle", "captured"} => req[p].source \in 1 .. Len(logs)
    <3>1. req[p] \in RequestRecord /\ RequestSound(req[p], logs, lifecycles)
      BY <1>1 DEF IInv
    <3>2. req[p].pc \in Stage
      BY <3>1 DEF RequestRecord
    <3>3. req[p].pc # "idle" => req[p].query \in Query /\ req[p].lifecycle \in 1 .. Current
      BY <3>1 DEF RequestSound, Current
    <3>4. ASSUME req[p].pc \notin {"idle", "captured"} PROVE req[p].source \in 1 .. Len(logs)
      <4>1. req[p].source \in lifecycles[req[p].lifecycle].source .. Len(logs)
        BY <3>1, <3>4 DEF RequestSound
      <4>2. lifecycles[req[p].lifecycle].source \in 1 .. Len(logs)
        BY <2>3, <3>3, <3>4
      <4> QED
        BY <4>1, <4>2
    <3> QED
      BY <3>2, <3>3, <3>4
  <2> QED
    BY <2>1, <2>2, <2>3, <2>4 DEF TypeOK
<1> QED
  BY <1>1, Invariance, PTL

\* Once publishers have delivered their notifications, an unchanged content
\* revision means an unchanged export (cache-content-revision).
THEOREM UnchangedRevisionMeansUnchangedExport == Spec => []UnchangedRevisionUnchangedExport
<1>1. ExportInv => UnchangedRevisionUnchangedExport
  BY DEF ExportInv
<1>2. Spec => []ExportInv
  BY InitExport, NextExport, Invariance, PTL DEF Spec
<1> QED
  BY <1>1, <1>2, PTL
=============================================================================
