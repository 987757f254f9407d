------------------------- MODULE MCRelationshipWriters -------------------------
(* Instances of RelationshipWriters.  Two relationships share the object o1;  *)
(* e1 belongs to relation r1 and e2 to r2 when there are two relations.  Under *)
(* the schema full everything is admitted; bare declares the first relation   *)
(* only, and no caveat.                                                       *)
EXTENDS RelationshipWriters, TLC

CONSTANTS e1, e2, o1, o2, o3, r1, r2, full, bare, c1, conditional

MCEnds       == (e1 :> {o1, o2}) @@ (e2 :> {o1, o3})
MCRelationOf == (e1 :> r1) @@ (e2 :> IF r2 \in Relation THEN r2 ELSE r1)
MCCaveatOf   == [v \in Value \cup {Plain} |-> IF v = conditional THEN c1 ELSE NoCaveat]

MCDeclared ==
    [s \in SchemaText |->
        IF s = full
        THEN [ relations |-> Relation, caveats |-> Caveat,
               admits |-> [e \in Edge |-> Caveat \cup {NoCaveat}] ]
        ELSE [ relations |-> {r1}, caveats |-> {},
               admits |-> [e \in Edge |-> IF MCRelationOf[e] = r1 THEN {NoCaveat} ELSE {}] ]]

-----------------------------------------------------------------------------
Write(updates) == [kind |-> "write", updates |-> updates]
Update(operation, value) == [operation |-> operation, value |-> value]

Creates(values) == { Write(e :> Update("create", v)) : e \in Edge, v \in values }
Touches(values) == { Write(e :> Update("touch", v)) : e \in Edge, v \in values }
Deletes         == { Write(e :> Update("delete", Plain)) : e \in Edge }
Pairwise(v)     == { Write((e1 :> Update("touch", v)) @@ (e2 :> Update("create", Plain))) }
Deletions       == { [kind |-> "delete", object |-> o] : o \in {o1} }
Schemas         == { [kind |-> "schema", schema |-> s] : s \in SchemaText }
Retractions     == { [kind |-> "retract", object |-> o2] }
Preparations    == { [kind |-> "prepare", updates |-> e1 :> Update("touch", conditional)] }
Sweeps          == { [kind |-> "sweep"] }

\* A handle is used by naming the operation that prepared it.
WithHandles ==
    { [kind |-> "compose", handle |-> w, updates |-> e1 :> Update(operation, conditional)] :
        w \in Writer, operation \in {"create", "touch"} }
    \cup { [kind |-> "discard", handle |-> w] : w \in Writer }

Clients == Creates({Plain, conditional}) \cup Touches({Plain}) \cup Deletes
           \cup Pairwise(conditional) \cup Schemas \cup Deletions
Hosts   == Preparations \cup WithHandles \cup Sweeps \cup Retractions \cup Schemas
           \cup { Write(e1 :> Update("touch", conditional)), Write(e2 :> Update("create", Plain)) }
Batches == Deletions \cup Deletes

Interchangeable == Permutations(Writer)
=============================================================================
