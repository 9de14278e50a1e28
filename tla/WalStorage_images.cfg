SPECIFICATION Spec
CONSTANTS
    N = 3
    Writer = {w1}
    Compactor = {c1, c2}
    max_replication_lag = 1
    MaxLsn = 2
    MaxBatch = 2
    MaxTerm = 1
    w1 = w1
    c1 = c1
    c2 = c2
INVARIANT PageIsReplay
CHECK_DEADLOCK FALSE
