------------------------- MODULE StampedStore_proofs -------------------------
(***************************************************************************)
(* What a commit does to the proof contract, and that the abstract         *)
(* database keeps it, for every set of relations, contents and schemas and *)
(* for histories of any length.                                            *)
(***************************************************************************)
EXTENDS StampedStore, TLAPS

\* `next` may follow the history: whatever it changes it stamps with its own
\* revision, and whatever it does not stamp it leaves alone.
Follows(history, next) ==
    LET last == history[Len(history)]
        own  == Len(history) + 1
    IN  /\ next.schemaGen \in {last.schemaGen, own}
        /\ next.schemaGen = last.schemaGen => next.schema = last.schema
        /\ \A r \in Relation :
             /\ next.generation[r] \in {last.generation[r], own, NoGeneration}
             /\ next.generation[r] = last.generation[r] => next.data[r] = last.data[r]

\* Appending adds one element at the end and keeps the others.
LEMMA AppendFacts ==
    ASSUME NEW S, NEW history \in Seq(S), NEW next \in S
    PROVE  /\ Append(history, next) \in Seq(S)
           /\ Append(history, next) # <<>>
           /\ Len(Append(history, next)) = Len(history) + 1
           /\ \A i \in 1 .. Len(history) : Append(history, next)[i] = history[i]
           /\ Append(history, next)[Len(history) + 1] = next
OBVIOUS

\* The contract survives every value that may follow: stamps of the past are
\* never larger than the history is long, so the new one is fresh.
LEMMA FollowsKeepsContract ==
    ASSUME NEW history \in Seq(Database), history # <<>>, Certified(history),
           NEW next \in Database, Follows(history, next)
    PROVE  Certified(Append(history, next))
<1> DEFINE n == Len(history)
           extended == Append(history, next)
<1>1. /\ n \in Nat \ {0}
      /\ Len(extended) = n + 1
      /\ \A i \in 1 .. n : extended[i] = history[i] /\ history[i] \in Database
      /\ extended[n + 1] = next
  BY AppendFacts
<1> HIDE DEF extended, n
<1>2. \A i \in 1 .. n :
        /\ history[i].schemaGen \in Nat /\ history[i].schemaGen <= n
        /\ \A r \in Relation :
             /\ history[i].generation[r] \in Generation
             /\ history[i].generation[r] # NoGeneration => history[i].generation[r] <= n
  <2> SUFFICES ASSUME NEW i \in 1 .. n
               PROVE  /\ history[i].schemaGen \in Nat /\ history[i].schemaGen <= n
                      /\ \A r \in Relation :
                           /\ history[i].generation[r] \in Generation
                           /\ history[i].generation[r] # NoGeneration
                                => history[i].generation[r] <= n
    OBVIOUS
  <2>1. history[i] \in Database
    BY <1>1
  <2>2. /\ history[i].schemaGen \in Nat
        /\ \A r \in Relation : history[i].generation[r] \in Generation
    BY <2>1 DEF Database
  <2>3. /\ history[i].schemaGen <= i
        /\ \A r \in Relation :
             history[i].generation[r] # NoGeneration => history[i].generation[r] <= i
    BY DEF Certified, StampsInPast, n
  <2> QED
    BY <1>1, <2>2, <2>3 DEF Generation
<1>3. /\ next.schemaGen \in {history[n].schemaGen, n + 1}
      /\ next.schemaGen = history[n].schemaGen => next.schema = history[n].schema
      /\ \A r \in Relation :
           /\ next.generation[r] \in {history[n].generation[r], n + 1, NoGeneration}
           /\ next.generation[r] = history[n].generation[r]
                => next.data[r] = history[n].data[r]
  BY DEF Follows, n
<1>4. StampsInPast(extended)
  <2> SUFFICES ASSUME NEW i \in 1 .. n + 1
               PROVE  /\ extended[i].schemaGen <= i
                      /\ \A r \in Relation :
                           extended[i].generation[r] # NoGeneration
                             => extended[i].generation[r] <= i
    BY <1>1 DEF StampsInPast
  <2>1. CASE i \in 1 .. n
    BY <1>1, <2>1 DEF Certified, StampsInPast, n
  <2>2. CASE i = n + 1
    <3>1. n \in 1 .. n
      BY <1>1
    <3> QED
      BY <1>1, <1>2, <1>3, <2>2, <3>1 DEF Generation
  <2> QED
    BY <1>1, <2>1, <2>2
<1>5. \A j \in 1 .. n :
        /\ next.schemaGen = history[j].schemaGen => next.schema = history[j].schema
        /\ \A r \in Relation :
             /\ next.generation[r] # NoGeneration
             /\ next.generation[r] = history[j].generation[r]
             => next.data[r] = history[j].data[r]
  <2> SUFFICES ASSUME NEW j \in 1 .. n
               PROVE  /\ next.schemaGen = history[j].schemaGen
                           => next.schema = history[j].schema
                      /\ \A r \in Relation :
                           /\ next.generation[r] # NoGeneration
                           /\ next.generation[r] = history[j].generation[r]
                           => next.data[r] = history[j].data[r]
    OBVIOUS
  <2>1. n \in 1 .. n
    BY <1>1
  <2>2. /\ history[n].schemaGen = history[j].schemaGen
             => history[n].schema = history[j].schema
        /\ \A r \in Relation :
             /\ history[n].generation[r] # NoGeneration
             /\ history[n].generation[r] = history[j].generation[r]
             => history[n].data[r] = history[j].data[r]
    BY <2>1 DEF Certified, EqualStampsEqualData, n
  <2>3. /\ history[j].schemaGen # n + 1
        /\ \A r \in Relation : history[j].generation[r] # n + 1
    BY <1>1, <1>2, NoGenerationAssumption DEF Generation
  <2> QED
    BY <1>3, <2>2, <2>3
<1>6. EqualStampsEqualData(extended)
  <2> SUFFICES ASSUME NEW i \in 1 .. Len(extended), NEW j \in 1 .. Len(extended)
               PROVE  /\ extended[i].schemaGen = extended[j].schemaGen
                           => extended[i].schema = extended[j].schema
                      /\ \A r \in Relation :
                           /\ extended[i].generation[r] # NoGeneration
                           /\ extended[i].generation[r] = extended[j].generation[r]
                           => extended[i].data[r] = extended[j].data[r]
    BY DEF EqualStampsEqualData
  <2>1. CASE i \in 1 .. n /\ j \in 1 .. n
    BY <1>1, <2>1 DEF Certified, EqualStampsEqualData, n
  <2>2. CASE i = n + 1 /\ j \in 1 .. n
    BY <1>1, <1>5, <2>2
  <2>3. CASE i \in 1 .. n /\ j = n + 1
    BY <1>1, <1>5, <2>3
  <2>4. CASE i = n + 1 /\ j = n + 1
    BY <1>1, <2>4
  <2> QED
    BY <1>1, <2>1, <2>2, <2>3, <2>4
<1> QED
  BY <1>4, <1>6 DEF Certified, extended

-----------------------------------------------------------------------------
\* Both kinds of commit produce a database value.
LEMMA RelationshipCommitType ==
    ASSUME NEW db \in Database, NEW revision \in Nat,
           NEW touched \in SUBSET Relation, NEW data \in [touched -> Datum]
    PROVE  RelationshipCommit(db, revision, touched, data) \in Database
BY DEF RelationshipCommit, Database, Generation

LEMMA SchemaCommitType ==
    ASSUME NEW db \in Database, NEW revision \in Nat, NEW schema \in SchemaText,
           NEW added \in SUBSET Relation, NEW removed \in SUBSET Relation
    PROVE  SchemaCommit(db, revision, schema, added, removed) \in Database
BY DEF SchemaCommit, Database, Generation

\* The last value of a certified history carries no stamp of the next one.
LEMMA NextRevisionIsFresh ==
    ASSUME NEW history \in Seq(Database), history # <<>>, Certified(history)
    PROVE  /\ Len(history) \in 1 .. Len(history)
           /\ history[Len(history)] \in Database
           /\ history[Len(history)].schemaGen # Len(history) + 1
           /\ \A r \in Relation :
                history[Len(history)].generation[r] # Len(history) + 1
<1> DEFINE n == Len(history)
<1>1. n \in Nat /\ n \in 1 .. n /\ history[n] \in Database
  OBVIOUS
<1>2. /\ history[n].schemaGen <= n
      /\ \A r \in Relation :
           history[n].generation[r] # NoGeneration => history[n].generation[r] <= n
  BY <1>1 DEF Certified, StampsInPast
<1>3. history[n].schemaGen \in Nat
  BY <1>1 DEF Database
<1>4. history[n].schemaGen # n + 1
  BY <1>1, <1>2, <1>3
<1>5. ASSUME NEW r \in Relation PROVE history[n].generation[r] # n + 1
  <2>1. CASE history[n].generation[r] = NoGeneration
    BY <1>1, <2>1, NoGenerationAssumption
  <2>2. CASE history[n].generation[r] # NoGeneration
    BY <1>1, <1>2, <2>2
  <2> QED
    BY <2>1, <2>2
<1> QED
  BY <1>1, <1>4, <1>5

\* A relationship transaction keeps the contract: every relation whose data it
\* changes it also stamps.
LEMMA RelationshipCommitFollows ==
    ASSUME NEW history \in Seq(Database), history # <<>>, Certified(history),
           NEW touched \in SUBSET Relation, NEW data \in [touched -> Datum]
    PROVE  /\ ExtendWithRelationships(history, touched, data) \in Seq(Database)
           /\ Certified(ExtendWithRelationships(history, touched, data))
<1> DEFINE own  == Len(history) + 1
           last == history[Len(history)]
           next == RelationshipCommit(last, own, touched, data)
<1>1. last \in Database /\ own \in Nat
  BY NextRevisionIsFresh
<1>2. next \in Database
  BY <1>1, RelationshipCommitType
<1>3. Follows(history, next)
  <2>1. /\ next.schemaGen = last.schemaGen
        /\ next.schema = last.schema
        /\ next.generation = [r \in Relation |-> IF r \in touched THEN own
                                                ELSE last.generation[r]]
        /\ next.data = [r \in Relation |-> IF r \in touched THEN data[r] ELSE last.data[r]]
    BY <1>1 DEF RelationshipCommit, Database
  <2>2. \A r \in Relation : last.generation[r] # own
    BY NextRevisionIsFresh
  <2> QED
    BY <2>1, <2>2 DEF Follows
<1>4. Certified(Append(history, next))
  BY <1>2, <1>3, FollowsKeepsContract
<1> QED
  BY <1>2, <1>4 DEF ExtendWithRelationships

\* And so does a relationship commit that advances the schema generation.
LEMMA ReferenceCommitFollows ==
    ASSUME NEW history \in Seq(Database), history # <<>>, Certified(history),
           NEW touched \in SUBSET Relation, NEW data \in [touched -> Datum]
    PROVE  /\ ExtendWithReferences(history, touched, data) \in Seq(Database)
           /\ Certified(ExtendWithReferences(history, touched, data))
<1> DEFINE own  == Len(history) + 1
           last == history[Len(history)]
           base == RelationshipCommit(last, own, touched, data)
           next == ReferenceCommit(last, own, touched, data)
<1>1. last \in Database /\ own \in Nat
  BY NextRevisionIsFresh
<1>2. base \in Database
  BY <1>1 DEF RelationshipCommit, Database, Generation
<1>3. next \in Database
  BY <1>1, <1>2 DEF ReferenceCommit, Database
<1>4. Follows(history, next)
  <2>1. /\ base.generation = [r \in Relation |-> IF r \in touched THEN own ELSE last.generation[r]]
        /\ base.data = [r \in Relation |-> IF r \in touched THEN data[r] ELSE last.data[r]]
    BY <1>1 DEF RelationshipCommit, Database
  <2>2. /\ next.schemaGen = own
        /\ next.generation = base.generation
        /\ next.data = base.data
    BY <1>2 DEF ReferenceCommit, Database
  <2>3. /\ last.schemaGen # own
        /\ \A r \in Relation : last.generation[r] # own
    BY NextRevisionIsFresh
  <2> QED
    BY <2>1, <2>2, <2>3 DEF Follows
<1>5. Certified(Append(history, next))
  BY <1>3, <1>4, FollowsKeepsContract
<1> QED
  BY <1>3, <1>5 DEF ExtendWithReferences

\* A schema replacement keeps it too: schema and generation rotate together.
LEMMA SchemaCommitFollows ==
    ASSUME NEW history \in Seq(Database), history # <<>>, Certified(history),
           NEW schema \in SchemaText,
           NEW added \in SUBSET Relation, NEW removed \in SUBSET Relation
    PROVE  /\ ExtendWithSchema(history, schema, added, removed) \in Seq(Database)
           /\ Certified(ExtendWithSchema(history, schema, added, removed))
<1> DEFINE own  == Len(history) + 1
           last == history[Len(history)]
           next == SchemaCommit(last, own, schema, added, removed)
<1>1. last \in Database /\ own \in Nat
  BY NextRevisionIsFresh
<1>2. next \in Database
  BY <1>1, SchemaCommitType
<1>3. Follows(history, next)
  <2>1. /\ next.schemaGen = own
        /\ next.generation = [r \in Relation |-> IF r \in added THEN own
                                                ELSE IF r \in removed THEN NoGeneration
                                                ELSE last.generation[r]]
        /\ next.data = last.data
    BY <1>1 DEF SchemaCommit, Database
  <2>2. /\ last.schemaGen # own
        /\ \A r \in Relation : last.generation[r] # own
    BY NextRevisionIsFresh
  <2> QED
    BY <2>1, <2>2 DEF Follows
<1>4. Certified(Append(history, next))
  BY <1>2, <1>3, FollowsKeepsContract
<1> QED
  BY <1>2, <1>4 DEF ExtendWithSchema

\* The first value satisfies the contract, and so does every prefix: a backup.
LEMMA GenesisCertified ==
    ASSUME NEW db \in Genesis
    PROVE  /\ db \in Database
           /\ <<db>> \in Seq(Database) /\ <<db>> # <<>>
           /\ Certified(<<db>>)
<1>1. db \in Database
  <2>1. Inherited \subseteq Generation
    BY InheritedAssumption DEF Generation
  <2>2. db.generation \in [Relation -> Generation]
    BY <2>1 DEF Genesis
  <2>3. db = [schema |-> db.schema, schemaGen |-> 1,
              generation |-> db.generation, data |-> db.data]
    BY DEF Genesis
  <2>4. db.schema \in SchemaText /\ db.data \in [Relation -> Datum]
    BY DEF Genesis
  <2> QED
    BY <2>2, <2>3, <2>4 DEF Database
<1>2. /\ Len(<<db>>) = 1 /\ <<db>>[1] = db
      /\ db.schemaGen = 1
      /\ \A r \in Relation : db.generation[r] \in {1, NoGeneration}
  BY InheritedAssumption DEF Genesis
<1>3. StampsInPast(<<db>>)
  BY <1>2 DEF StampsInPast
<1>4. EqualStampsEqualData(<<db>>)
  <2> SUFFICES ASSUME NEW i \in 1 .. 1, NEW j \in 1 .. 1 PROVE i = 1 /\ j = 1
    BY <1>2 DEF EqualStampsEqualData
  <2> QED
    OBVIOUS
<1> QED
  BY <1>1, <1>3, <1>4 DEF Certified

LEMMA PrefixCertified ==
    ASSUME NEW history \in Seq(Database), history # <<>>, Certified(history),
           NEW i \in 1 .. Len(history)
    PROVE  /\ SubSeq(history, 1, i) \in Seq(Database)
           /\ SubSeq(history, 1, i) # <<>>
           /\ Certified(SubSeq(history, 1, i))
<1> DEFINE prefix == SubSeq(history, 1, i)
<1>1. /\ i \in Nat \ {0} /\ Len(history) \in Nat /\ i <= Len(history)
      /\ prefix \in Seq(Database)
      /\ Len(prefix) = i
      /\ \A k \in 1 .. i : prefix[k] = history[k] /\ k \in 1 .. Len(history)
  OBVIOUS
<1> HIDE DEF prefix
<1>2. StampsInPast(prefix)
  BY <1>1 DEF Certified, StampsInPast
<1>3. EqualStampsEqualData(prefix)
  <2> SUFFICES ASSUME NEW j \in 1 .. Len(prefix), NEW k \in 1 .. Len(prefix)
               PROVE  /\ prefix[j].schemaGen = prefix[k].schemaGen
                           => prefix[j].schema = prefix[k].schema
                      /\ \A r \in Relation :
                           /\ prefix[j].generation[r] # NoGeneration
                           /\ prefix[j].generation[r] = prefix[k].generation[r]
                           => prefix[j].data[r] = prefix[k].data[r]
    BY DEF EqualStampsEqualData
  <2>1. /\ prefix[j] = history[j] /\ j \in 1 .. Len(history)
        /\ prefix[k] = history[k] /\ k \in 1 .. Len(history)
    BY <1>1
  <2> QED
    BY <2>1 DEF Certified, EqualStampsEqualData
<1>4. prefix # <<>>
  BY <1>1
<1> QED
  BY <1>1, <1>2, <1>3, <1>4 DEF Certified, prefix

-----------------------------------------------------------------------------
(* The store.                                                              *)

StoreInv == StoreTypeOK /\ ProofContract

LEMMA InitStoreInv == StoreInit => StoreInv
BY GenesisCertified DEF StoreInit, StoreInv, StoreTypeOK, ProofContract

LEMMA NextStoreInv == StoreInv /\ [StoreNext]_log => StoreInv'
<1> SUFFICES ASSUME StoreInv, [StoreNext]_log PROVE StoreInv'
  OBVIOUS
<1>0. log \in Seq(Database) /\ log # <<>> /\ Certified(log)
  BY DEF StoreInv, StoreTypeOK, ProofContract
<1>1. CASE CommitRelationships
  <2>0. PICK touched \in SUBSET Relation :
          \E data \in [touched -> Datum] : log' = ExtendWithRelationships(log, touched, data)
    BY <1>1 DEF CommitRelationships
  <2>1. PICK data \in [touched -> Datum] : log' = ExtendWithRelationships(log, touched, data)
    BY <2>0
  <2>2. log' \in Seq(Database) /\ Certified(log')
    BY <1>0, <2>1, RelationshipCommitFollows
  <2>3. log' # <<>>
    BY <1>0, <2>1, <2>2 DEF ExtendWithRelationships
  <2> QED
    BY <2>2, <2>3 DEF StoreInv, StoreTypeOK, ProofContract
<1>2. CASE CommitReferences
  <2>0. PICK touched \in SUBSET Relation :
          \E data \in [touched -> Datum] : log' = ExtendWithReferences(log, touched, data)
    BY <1>2 DEF CommitReferences
  <2>1. PICK data \in [touched -> Datum] : log' = ExtendWithReferences(log, touched, data)
    BY <2>0
  <2>2. log' \in Seq(Database) /\ Certified(log')
    BY <1>0, <2>1, ReferenceCommitFollows
  <2>3. log' # <<>>
    BY <1>0, <2>1, <2>2 DEF ExtendWithReferences
  <2> QED
    BY <2>2, <2>3 DEF StoreInv, StoreTypeOK, ProofContract
<1>3. CASE CommitSchema
  <2>1. PICK schema \in SchemaText, added \in SUBSET Relation, removed \in SUBSET Relation :
          log' = ExtendWithSchema(log, schema, added, removed)
    BY <1>3 DEF CommitSchema
  <2>2. log' \in Seq(Database) /\ Certified(log')
    BY <1>0, <2>1, SchemaCommitFollows
  <2>3. log' # <<>>
    BY <1>0, <2>1, <2>2 DEF ExtendWithSchema
  <2> QED
    BY <2>2, <2>3 DEF StoreInv, StoreTypeOK, ProofContract
<1>4. CASE UNCHANGED log
  BY <1>0, <1>4 DEF StoreInv, StoreTypeOK, ProofContract
<1> QED
  BY <1>1, <1>2, <1>3, <1>4 DEF StoreNext

\* Every reachable history is a non-empty sequence of database values.
THEOREM StoreTypeCorrect == StoreSpec => []StoreTypeOK
<1>1. StoreInv => StoreTypeOK
  BY DEF StoreInv
<1> QED
  BY InitStoreInv, NextStoreInv, <1>1, PTL DEF StoreSpec

\* Equal stamps of any two values prove equal data and equal schema: what the
\* cache may reuse an answer on (complete-result, managed-descriptor).
THEOREM ContractHolds == StoreSpec => []ProofContract
<1>1. StoreInv => ProofContract
  BY DEF StoreInv
<1> QED
  BY InitStoreInv, NextStoreInv, <1>1, PTL DEF StoreSpec
=============================================================================
