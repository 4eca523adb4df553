SPECIFICATION Spec
CONSTANTS
    recordHeadLen = 2
    HeaderSize = 1
    PayloadSize = 1
    MaxFrameLen = 8
    Points <- MCPoints
    MaxTs = 2
    BatchMax = 2
    segSize = 8
    MaxSeg = 8
    MaxSeq = 14
    Budgets <- MCBudgets
INVARIANT TornTailHarmless
