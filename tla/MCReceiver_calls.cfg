SPECIFICATION FairSpec
CONSTANTS
    h1 = h1
    h2 = h2
    Seqs = {1, 2}
    Contents = {0, 1}
    CRC <- MCCRC
    Handlers = {h1, h2}
    seqJumpLimit = 2
    seqPendingLimit = 1
    dedupWindowCap = 1
    MaxCalls = 2
    MaxRestarts = 1
INVARIANT TypeOK
INVARIANT AckMeansStored
INVARIANT DedupMeansStored
PROPERTY ImplementsFrameHandler
PROPERTY CallsReturn
