CONSTANTS
    Request = {p1, p2}
    Query = {q1}
    Relation = {r1, r2}
    Datum = {a, b}
    SchemaText = {s1, s2}
    Rules = {s1, s2}
    FirstSchema = s1
    Narrow = {r1}
    Wide = {r2}
    NoGeneration = NoGeneration
    Inherited = {1, NoGeneration}
    Null = Null
    MaxRevision = 2
    MaxEntries = 1
    MaxSources = 2
    MaxLifecycles = 2
    MaxContent = 3
    Kind = {"ordinary", "historical", "speculative"}
    Behaviour = {"schema", "violation"}
    Closure <- MCClosure
SPECIFICATION MCSpec
SYMMETRY Interchangeable
INVARIANTS TypeOK AnswersFresh NoCrossSource ResidentsCommitted NoBackwardReuse
CHECK_DEADLOCK FALSE
