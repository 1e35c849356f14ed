CONSTANTS
    N = 3
    HashBits = 14
    MaxLoad <- MCMaxLoad
    FloatBits = 5
    MaxCount = 600
    ElementSizes = {1, 2, 3, 5, 8, 16}
    BaseStep = 4
    HalfBits = 3
SPECIFICATION Spec
INVARIANTS SizesSuffice MixesAlike
CHECK_DEADLOCK FALSE
