CONSTANTS
    N = 1
    HashBits = 10
    MaxLoad <- MCMaxLoad
    FloatBits = 8
    Object = {s, t}
    Key = {1, 2}
    Value = {u, v}
    Hasher = {"h", "g"}
    HashOf <- MCHashOf
    Allocator = {a, b}
    Address = {1, 2, 3, 4}
    MaxElements = 1
    AllocMayFail = TRUE
    CopyMayThrow = TRUE
    Policies <- MCBoth
    NoMap = NoMap
SYMMETRY MCSymmetry
SPECIFICATION Spec
INVARIANTS TypeOK MemoryOwned TableTrue EqualIsSame WholeMapCalls
PROPERTY MapSpec
