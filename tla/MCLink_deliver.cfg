SPECIFICATION FairSpec
CONSTANTS
    Seqs = {1, 2, 3}
    Contents = {0, 1}
    CRC <- MCCRC
    Pipelines = {1, 3}
    MaxInflight = 2
    MaxConns = 2
    MaxWire = 7
    MaxBeats = 1
    MaxFaults = 1
    Rebuilds = 1
INVARIANT TypeOK
INVARIANT CommittedMeansStored
INVARIANT AcksInOrder
INVARIANT CommitNeverPanics
PROPERTY AllCommitted
