SPECIFICATION Spec
CONSTANTS
    Points <- MCPoints
    History <- MCHistory
    Settings <- OnlyAll
    Watermark = 1
    cfgExportLag = 0
    DefaultExportVisibilityLag = 2
    StartTime = 8
    MaxTime = 10
    Budgets <- KillThenProbeFails
INVARIANT NothingOwedSkipped
