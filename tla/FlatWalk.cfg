CONSTANTS
    N = 2
    HashBits = 10
    MaxLoad <- MCMaxLoad
    FloatBits = 8
    Object = {t}
    Key = {1, 2, 3, 4}
    Value = {v}
    Hasher = {"h"}
    HashOf <- MCHashOf
    Allocator = {a}
    Address = {1, 2}
    MaxElements = 4
    AllocMayFail = FALSE
    CopyMayThrow = FALSE
    Policies <- MCPolicies
    NoMap = NoMap
    Loop = t
SPECIFICATION WalkSpec
INVARIANT LoopSeesAll
