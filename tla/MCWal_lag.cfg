SPECIFICATION Spec
CONSTANTS
    recordHeadLen = 2
    HeaderSize = 1
    PayloadSize = 1
    MaxFrameLen = 8
    Points <- OneSeries
    MaxTs = 3
    BatchMax = 1
    segSize = 8
    MaxSeg = 8
    MaxSeq = 14
    Budgets <- MCBudgets
INVARIANT LagHarmless
