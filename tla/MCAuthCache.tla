----------------------------- MODULE MCAuthCache -----------------------------
(* Instances of AuthCache.  MCClosure gives every query the first rule set  *)
(* and the relation Narrow under the first schema; under any other schema   *)
(* it also reaches the relations in Wide.                                   *)
EXTENDS AuthCache, TLC

CONSTANTS FirstSchema, Narrow, Wide

MCClosure ==
    [q \in Query |->
        [s \in SchemaText |->
            IF s = FirstSchema THEN [rules |-> s, relations |-> Narrow]
            ELSE [rules |-> s, relations |-> Narrow \cup Wide]]]

Interchangeable == Permutations(Datum) \cup Permutations(Request)

\* Lifecycles and the insertions into them, bounded together.
MaxChanges == MaxLifecycles + MaxContent - 1

CheckpointSpec == Init /\ [][Next /\ Current' + contentRevision' <= MaxChanges]_vars
=============================================================================
