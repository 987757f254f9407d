-------------------------- MODULE MCAuthCacheRequests --------------------------
(* Two parts of the space of AuthCache: one request at a time over everything   *)
(* that can happen to the data, and two concurrent requests over everything     *)
(* that can happen to the stores.                                               *)
EXTENDS MCAuthCache

VARIABLE scope      \* the part of the space this behaviour explores; `changes` bounds
                    \* its lifecycles and the insertions into them together

\* Schemas, caveat references, unstamped relations, values of every kind.
Reuse(p) ==
    [ requests |-> {p}, kinds |-> Kind, touchable |-> Relation, rotates |-> TRUE,
      lifecycles |-> 1, changes |-> 3 ]

\* Clears, expiries and replaced sources; one schema, whose queries reach Narrow.
Concurrent ==
    [ requests |-> Request, kinds |-> {"ordinary"}, touchable |-> Narrow, rotates |-> FALSE,
      lifecycles |-> MaxLifecycles, changes |-> 4 ]

MCInit ==
    /\ Init
    /\ scope \in {Reuse(p) : p \in Request} \cup {Concurrent}
    /\ LET db == logs[1][1] IN
       /\ \A r, s \in Relation : db.data[r] = db.data[s]
       /\ \/ scope.rotates
          \/ db.schema = FirstSchema /\ \A r \in Relation : db.generation[r] = 1

Within ==
    /\ Current' <= scope.lifecycles /\ Current' + contentRevision' <= scope.changes
    /\ disabled' \subseteq {1}      \* only the first lifecycle meets a violation
    /\ \A p \in scope.requests : req'[p].kind \in scope.kinds
    /\ logs' # logs =>
         \A n \in DOMAIN logs' : \A i \in DOMAIN logs'[n] :
           \A r \in Relation \ scope.touchable : logs'[n][i].generation[r] = 1

\* Next, of the requests in the scope.
MCNext ==
    /\ \/ WriteRelationships
       \/ scope.rotates /\ WriteReferences
       \/ scope.rotates /\ WriteSchema
       \/ \E p \in scope.requests :
            Capture(p) \/ Serve(p) \/ Finish(p) \/ ReadAgain(p) \/ ReadRetired(p)
       \/ Host
    /\ UNCHANGED scope /\ Within

MCSpec == MCInit /\ [][MCNext]_<<vars, scope>>
=============================================================================
