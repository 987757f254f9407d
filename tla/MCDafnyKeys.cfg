SPECIFICATION CollectionsSpec
CONSTANTS
    Key <- MCKey
    SetLiteral <- MCSetLiteral
    MapLiteral <- MCMapLiteral
    HashModulus = 65536
    LinearLimit = 8
    MaxObjects = 2
    NoCall = NoCall
    Absent = Absent
INVARIANT StructuralMembership
CHECK_DEADLOCK FALSE
