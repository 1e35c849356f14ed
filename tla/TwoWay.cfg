CONSTANTS
    Key <- FiveKeys
    EMPTY <- MCEmpty
    H1 <- MCH1
    H2 <- MCH2
    Value = {1, 2}
    BUCKET = 2
    InitialCapacity = 2
    MaxCapacity = 8
    Addr = {a1, a2, a3}
    NULL = NULL
    Indeterminate = Indeterminate
SPECIFICATION FairSpec
CHECK_DEADLOCK FALSE
INVARIANTS TypeOK Ownership TableSound LookUpsExact GrowthBounded
PROPERTIES MapSpec InsertReturns
