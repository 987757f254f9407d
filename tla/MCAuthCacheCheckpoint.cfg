CONSTANTS
    Request = {p1}
    Query = {q1}
    Relation = {r1}
    Datum = {a, b}
    SchemaText = {s1}
    Rules = {s1}
    FirstSchema = s1
    Narrow = {r1}
    Wide = {}
    NoGeneration = NoGeneration
    Inherited = {1}
    Null = Null
    MaxRevision = 2
    MaxEntries = 1
    MaxSources = 2
    MaxLifecycles = 3
    MaxContent = 3
    Kind = {"ordinary"}
    Behaviour = {"checkpoint", "retained"}
    Closure <- MCClosure
SPECIFICATION CheckpointSpec
SYMMETRY Interchangeable
INVARIANTS AnswersFresh ResidentsCommitted UnchangedRevisionUnchangedExport
CHECK_DEADLOCK FALSE
