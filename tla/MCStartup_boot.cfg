SPECIFICATION FairSpec
CONSTANTS
    Points <- MCPoints
    History <- MCHistory
    Settings <- MCSettings
    Watermark = 1
    cfgExportLag = 0
    DefaultExportVisibilityLag = 2
    StartTime = 8
    MaxTime = 10
    Budgets <- MCBudgets
INVARIANTS
    TypeOK
    ProbeFindsOldest
    NothingOwedSkipped
    OneRewindPerSetting
PROPERTIES
    OwedCaptured
