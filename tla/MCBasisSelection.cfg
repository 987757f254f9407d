SPECIFICATION Spec
CONSTANTS
    Thread = {t1, t2}
    Caller = {t1}
    Wanted <- Tokens
    Backend = {"datalevin", "datomic", "datascript"}
    Handle <- Handles
    MaxRevision = 2
    MaxLifecycle = 2
    MaxFailures = 2
    MaxKept = 1
    Null = Null
INVARIANTS
    TypeOK
    ReleasedOnce
    ReadsAreOpen
    NothingLeaks
    TokensHonoured
CHECK_DEADLOCK FALSE
PROPERTY
    EveryRequestEnds
