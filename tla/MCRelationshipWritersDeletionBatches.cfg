CONSTANTS
    Writer = {w1, w2}
    e1 = e1
    e2 = e2
    o1 = o1
    o2 = o2
    o3 = o3
    r1 = r1
    r2 = r2
    c1 = c1
    full = full
    bare = bare
    conditional = conditional
    Edge = {e1, e2}
    Object = {o1, o2, o3}
    Relation = {r1}
    Value = {conditional}
    Caveat = {c1}
    SchemaText = {full}
    Plain = Plain
    Absent = Absent
    NoCaveat = NoCaveat
    NoGeneration = NoGeneration
    Inherited = {1}
    Backend = "datomic"
    BatchLimit = 1
    MaxAttempts = 2
    MaxRevision = 8
    Ends <- MCEnds
    RelationOf <- MCRelationOf
    CaveatOf <- MCCaveatOf
    Declared <- MCDeclared
    Requests <- Batches
SPECIFICATION Spec
INVARIANTS DeletionsAreComplete
CHECK_DEADLOCK FALSE
