CONSTANTS
    Key = {1, 3, 4, 6}
    Value = {a}
    NoValue = NoValue
    Spare = {2, 5}
    SeedOf = {1, 2}
    BucketHash <- MCBucketHash
    SlotHash <- MCSlotHash
    Word = 3
    InitCeil = 4
    Policies <- MCSmall
    Object = {s, t}
    Dead = Dead
    MovedFrom = MovedFrom
SPECIFICATION Spec
INVARIANT EraseFindsFilled
