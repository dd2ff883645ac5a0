CONSTANTS
    MaxTicks = 2
    Reach = 9
    MaxJump = 4
    MaxMisses = 2
    MaxLost = 2

SPECIFICATION Spec

INVARIANT TypeOK
INVARIANT NoDrift
INVARIANT InStep
PROPERTY OnlyOverflowIsLost
