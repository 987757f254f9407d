SPECIFICATION MCSpec
CONSTANTS
    a = a
    b = b
    Element <- MCElement
    Literal <- MCLiteral
    Offset <- MCOffset
    Idle = Idle
    Omitted = Omitted
    Undefined = Undefined
    NoVar = NoVar
    NoCall = NoCall
    Absent = Absent
    Internal <- MCInternal
    Ignored <- MCIgnored
    Roots <- MCRoots
    Analyses <- MCAnalyses
    Key <- MCKey
    SetLiteral <- MCSetLiteral
    MapLiteral <- MCMapLiteral
    HashModulus = 2
    Character <- MCCharacter
    Directories <- MCDirectories
    Header <- MCHeader
    Passed <- MCPassed
    Took <- MCTook
    Limit = 2
    LinearLimit = 2
    MaxObjects = 3
    MaxHandles = 4
    MaxLength = 4
INVARIANTS
    TypeOK
    ViewsLookBack
    ClosureExact
    ClosureFailsExactlyWhenInvalid
    EffortsJudged
PROPERTIES
    MaterializesOnce
    ImplementsPersistentSequence
    CallsReturn
    ImplementsPersistentCollections
CHECK_DEADLOCK FALSE
