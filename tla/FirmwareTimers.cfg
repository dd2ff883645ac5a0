CONSTANTS
    Wrap = 12
    kVccSettleMs = 2
    kPassGapMs = 3
    DPI_HOLD_MS = 6
    LoopMs = 1
    PassMs = 2

SPECIFICATION Spec

INVARIANT TypeOK
INVARIANT VccSettled
INVARIANT GapAlmostKept
INVARIANT NoEarlyReboot
INVARIANT NoLateReboot
INVARIANT BringupInTime
PROPERTY BringupCompletes
