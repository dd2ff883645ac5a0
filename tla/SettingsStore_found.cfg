CONSTANTS
    HalfMod = 2
    PayloadLen = 2
    Magic = 1
    Version = 2
    OldVersion = 1
    Stored <- MCStored
    Defaults <- MCDefaults
    Crc <- MCCrc
    Shipped <- MCShipped
    CutErase <- MCCutErase
SPECIFICATION Spec

INVARIANT SavedIsFound
