SPECIFICATION Spec
CONSTANTS
    N = 3
    Writer = {w1, w2}
    Compactor = {c1}
    max_replication_lag = 1
    MaxLsn = 2
    MaxBatch = 2
    MaxTerm = 2
    w1 = w1
    w2 = w2
    c1 = c1
INVARIANTS
    TypeOK
    OneHistory
    CommitOnQuorum
    AnswerCoversBatch
    PageIsReplay
CHECK_DEADLOCK FALSE
