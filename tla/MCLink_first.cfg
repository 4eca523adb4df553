SPECIFICATION Spec
CONSTANTS
    Seqs = {1, 2}
    Contents = {0}
    CRC <- MCCRC
    Pipelines = {2}
    MaxInflight = 2
    MaxConns = 2
    MaxWire = 4
    MaxBeats = 0
    MaxFaults = 1
    Rebuilds = 0
INVARIANT FirstFrameIsHead
