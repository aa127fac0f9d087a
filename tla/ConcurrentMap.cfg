SPECIFICATION Spec
CONSTANTS
    k1 = k1
    k2 = k2
    k3 = k3
    k4 = k4
    Keys <- MCKeys
    Values = {u, v}
    NullKey = NullKey
    NullValue = NullValue
    Readers = {r}
    Capacity = 4
    maxLoad = 3
    hash <- MCHash
SYMMETRY Symmetry
INVARIANTS
    TypeOK
    ChainsWhole
    SizeExact
    GetCurrent
    GetOwnValue
PROPERTY ImplementsMap
