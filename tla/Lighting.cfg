CONSTANTS
    N = 2
    K = 3
    Top = 2
    StepMs = 2
    Wrap = 12
    CntMod = 16
    Colours <- MCColours
    MaxLate = 2
    MaxGap = 3

SPECIFICATION Spec

INVARIANTS TypeOK Spliced
PROPERTIES PhaseLength NoJump Refreshes
