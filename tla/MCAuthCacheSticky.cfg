CONSTANTS
    Request = {p1}
    Query = {q1}
    Relation = {r1}
    Datum = {a}
    SchemaText = {s1}
    Rules = {s1}
    FirstSchema = s1
    Narrow = {r1}
    Wide = {}
    NoGeneration = NoGeneration
    Inherited = {1}
    Null = Null
    MaxRevision = 1
    MaxEntries = 1
    MaxSources = 1
    MaxLifecycles = 3
    MaxContent = 3
    Kind = {"ordinary"}
    Behaviour = {"checkpoint", "violation"}
    Closure <- MCClosure
SPECIFICATION Spec
PROPERTIES StickyUntilExpiry
CHECK_DEADLOCK FALSE
