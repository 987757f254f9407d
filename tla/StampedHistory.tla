--------------------------- MODULE StampedHistory ---------------------------
(***************************************************************************)
(* Database values and the histories they form.  Every supported backend   *)
(* publishes, inside the transaction that changes relationship data, WHAT  *)
(* it changed: the touched relations are stamped with the revision of that *)
(* transaction (tx-relation-version-stamp), and a schema replacement       *)
(* stamps the schema generation.  Reuse proofs are built from those stamps *)
(* and from nothing else.  This module has no variables: StampedStore      *)
(* gives one history a life of its own, AuthCache reads a sequence of them.*)
(***************************************************************************)
EXTENDS Integers, Sequences

CONSTANTS
    Relation,       \* native relation identities
    Datum,          \* possible relationship contents of one relation
    SchemaText,     \* possible permission schemas
    NoGeneration,   \* the generation of a relation that was never stamped
    Inherited,      \* generations at the start: {1}, and NoGeneration if upgraded
    MaxRevision     \* bound on the committed revisions explored

ASSUME NoGenerationAssumption == NoGeneration \notin Nat
ASSUME InheritedAssumption == Inherited \subseteq {1, NoGeneration}
ASSUME MaxRevisionAssumption == MaxRevision \in Nat \ {0}

Generation == Nat \cup {NoGeneration}

Database ==
    [ schema     : SchemaText,
      schemaGen  : Nat,
      generation : [Relation -> Generation],
      data       : [Relation -> Datum] ]

\* The value a relationship transaction leaves behind: new data for the
\* relations it touches and, in the same value, their stamps.
RelationshipCommit(db, revision, touched, data) ==
    [ db EXCEPT
        !.data       = [r \in Relation |-> IF r \in touched THEN data[r] ELSE @[r]],
        !.generation = [r \in Relation |-> IF r \in touched THEN revision ELSE @[r]] ]

\* Datomic publishes a relationship that references a caveat under a new schema
\* generation: the data and both kinds of stamps change in one value.
ReferenceCommit(db, revision, touched, data) ==
    [RelationshipCommit(db, revision, touched, data) EXCEPT !.schemaGen = revision]

\* The value a schema replacement leaves behind: the schema text and its
\* generation rotate together, and no relationship changes.  A relation the
\* replacement adds is born stamped; the entity of one it removes is retracted
\* and takes its stamp along.
SchemaCommit(db, revision, schema, added, removed) ==
    [ db EXCEPT
        !.schema     = schema,
        !.schemaGen  = revision,
        !.generation = [r \in Relation |-> IF r \in added THEN revision
                                           ELSE IF r \in removed THEN NoGeneration
                                           ELSE @[r]] ]

ExtendWithRelationships(history, touched, data) ==
    Append(history,
           RelationshipCommit(history[Len(history)], Len(history) + 1, touched, data))

ExtendWithReferences(history, touched, data) ==
    Append(history,
           ReferenceCommit(history[Len(history)], Len(history) + 1, touched, data))

ExtendWithSchema(history, schema, added, removed) ==
    Append(history,
           SchemaCommit(history[Len(history)], Len(history) + 1, schema, added, removed))

\* The first value explored: everything before it is folded into revision 1.
Genesis ==
    [ schema     : SchemaText,
      schemaGen  : {1},
      generation : [Relation -> Inherited],
      data       : [Relation -> Datum] ]

-----------------------------------------------------------------------------
\* A stamp never comes from the future of the value that carries it.  A frame
\* that breaks this is the contract violation complete-result reports.
StampsInPast(history) ==
    \A i \in 1 .. Len(history) :
        /\ history[i].schemaGen <= i
        /\ \A r \in Relation :
             history[i].generation[r] # NoGeneration => history[i].generation[r] <= i

\* Equal stamps mean equal content between ANY two values of one history: not
\* only neighbours, and however often content went away and came back between.
\* The absence of a stamp says nothing.
EqualStampsEqualData(history) ==
    \A i, j \in 1 .. Len(history) :
        /\ history[i].schemaGen = history[j].schemaGen
             => history[i].schema = history[j].schema
        /\ \A r \in Relation :
             /\ history[i].generation[r] # NoGeneration
             /\ history[i].generation[r] = history[j].generation[r]
             => history[i].data[r] = history[j].data[r]

Certified(history) == StampsInPast(history) /\ EqualStampsEqualData(history)
=============================================================================
