CONSTANTS
    SYSTICK_RELOAD = 32
    FADE_MS = 4
    Wrap = 20
    PassTime = 2

SPECIFICATION Spec

INVARIANT TypeOK
PROPERTIES Smooth DutyKept EachLights
