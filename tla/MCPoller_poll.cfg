SPECIFICATION FairSpec
CONSTANTS
    Points <- PastAndLive
    Series = 3
    Window = 4
    MaxWindow = 8
    Watermark = 1
    WindowTarget = 3
    cfgExportLag = 0
    DefaultExportVisibilityLag = 3
    emptySkipMaxWindow = 16
    oversizeMinWindow = 1
    FrameLines = 2
    FrameBytes = 3
    maxExportRespBytes = 6
    MaxFrameLen = 3
    bpYellow = 1
    bpRed = 3
    VisibilityLag = 3
    StartTime = 14
    MaxTime = 18
    MaxStreak = 2
    MaxFaults = 2
INVARIANTS
    TypeOK
    NoPointSkipped
    PrefetchFits
    DiskBounded
    FramesPartitionLines
PROPERTIES
    ImplementsCapture
    EveryPointCaptured
