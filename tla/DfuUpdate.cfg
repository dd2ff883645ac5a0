CONSTANTS
    Base = 1
    End = 5
    PageCells = 2
    vec = vec
    code = code
    newvec = newvec
    newcode = newcode
    settings = settings
    Data <- MCData
    Vectors <- MCVectors
    Erased = Erased
    Torn = Torn
    Protected = {}
    Shipped <- MCShipped
    Blocks <- MCBlocks
    Images <- MCImages
    MaxFaults = 4

SPECIFICATION USpec

INVARIANT ToolInStep
INVARIANT AcknowledgedBlocks
INVARIANT DoneIsInstalled
INVARIANT AllBlocksApplied
PROPERTY SettingsUntouched
PROPERTY UpdateCompletes
