CONSTANTS
    Base = 1
    End = 4
    PageCells = 2
    vec = vec
    code = code
    Data <- MCData
    Vectors <- MCVectors
    Erased = Erased
    Torn = Torn
    Protected = {3}
    Shipped <- MCShipped
    Blocks <- MCBlocks

SPECIFICATION Spec

INVARIANT TrueResult
