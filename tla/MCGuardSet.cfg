SPECIFICATION Spec
CONSTANTS
    k1 = k1
    k2 = k2
    k3 = k3
    k4 = k4
    k5 = k5
    Keys <- MCKeys
    Hash <- MCHash
    Free = Free
    GuardSetMin = 1
    MinSlots = 4
    Sparse = 3
    Lengths = {1, 2, 4, 8, 16, 32}
INVARIANTS
    MirrorsStack
    Searchable
PROPERTIES
    SetIsTransparent
