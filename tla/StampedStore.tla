---------------------------- MODULE StampedStore ----------------------------
(***************************************************************************)
(* The abstract database the authorization engine is written against: one  *)
(* history that grows by atomic, stamped commits.  The backend contract    *)
(* (writer-obligations: atomic commit, complete relation stamp effects,    *)
(* schema generation advance) is this specification; RelationshipWriters   *)
(* is the detailed model of a backend and implements it.                   *)
(***************************************************************************)
EXTENDS StampedHistory

VARIABLE log        \* log[r] is the immutable database value at revision r

StoreInit == \E db \in Genesis : log = <<db>>

CommitRelationships ==
    /\ Len(log) < MaxRevision
    /\ \E touched \in SUBSET Relation : \E data \in [touched -> Datum] :
         log' = ExtendWithRelationships(log, touched, data)

CommitReferences ==
    /\ Len(log) < MaxRevision
    /\ \E touched \in SUBSET Relation : \E data \in [touched -> Datum] :
         log' = ExtendWithReferences(log, touched, data)

CommitSchema ==
    /\ Len(log) < MaxRevision
    /\ \E schema \in SchemaText, added, removed \in SUBSET Relation :
         log' = ExtendWithSchema(log, schema, added, removed)

StoreNext == CommitRelationships \/ CommitReferences \/ CommitSchema

StoreSpec == StoreInit /\ [][StoreNext]_log

-----------------------------------------------------------------------------
StoreTypeOK == log \in Seq(Database) /\ log # <<>>

\* Equal relation and schema stamps of two database values of one history
\* prove that the values agree on those relations and on the schema, however
\* far apart they are (complete-result, proof_frame.cljc).
ProofContract == Certified(log)
=============================================================================
