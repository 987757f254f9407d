SPECIFICATION SizesSpec
CONSTANTS
    t1 = t1
    t2 = t2
    t3 = t3
    Thread = {t1, t2, t3}
    Kid = {"k1", "k2", "k3"}
    Opening <- Rings
    MaxKeys = 3
    MaxRetired = 2
    MaxAttempts = 2
    MaxGeneration = 2
    Candidates <- Orders
    Deadline <- Deadlines
    Never = 2
    PageSize = {1, 2}
    MaxRevision = 2
    MaxEntries = 1
    MaxCursors = 1
    Null = Null
INVARIANTS
    PageSizesAreKept
CHECK_DEADLOCK FALSE
