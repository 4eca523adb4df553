SPECIFICATION Spec
CONSTANTS
    h1 = h1
    h2 = h2
    Seqs = {1, 3, 4}
    Contents = {0}
    CRC <- MCCRC
    Handlers = {h1, h2}
    seqJumpLimit = 3
    seqPendingLimit = 1
    dedupWindowCap = 1
    MaxCalls = 3
    MaxRestarts = 1
INVARIANT DedupWindowConsistent
INVARIANT SeqsAgree
INVARIANT NoAdvanceLost
INVARIANT InflightCounts
PROPERTY SeqsMonotone
SYMMETRY Symmetry
