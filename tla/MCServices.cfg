SPECIFICATION ServicesSpec
CONSTANTS
    Writer = {w1, w2}
    Driver = driver
    Refusable = {1}
    Messages = 3
    FrameLen = 3
    Client = {c1, c2}
    Key = {1, 2}
    Val = {1, 2}
    Absent = Absent
    Shards = 2
    ShardOf <- MCShardOf
    MaxCalls = 3
    Row = {1, 2}
    MaxCommits = 2
    MaxClock = 2
    Request = {r1, r2}
    IssuedKey = {k1, k2}
    Ttl = 1
    MaxNow = 1
    Entry = {"a", "b", "c"}
    Starred = {"a", "b"}
    Crawler = {daily, operator}
    Pages <- MCPages
    MaxCrawls = 3
    Template <- MCTemplate
    Batch <- MCBatch
    Param <- MCParam
    Common <- MCCommon
    MaxSends = 2
    Sources <- MCSources
    Limit = 2
    MaxChanges = 1
    Proposer = {p1, p2}
    Invalid = {p2}
    Theirs = theirs
    MaxRaftTerm = 3
    MaxLog = 2
    NodeId = {1, 2, 3}
    FirstNode = 1
    MaxRanges = 3
    BackupIds = 2
    Page = 3
    MaxReads = 1
    MaxTroubles = 1
    Releases = 3
    MaxStarts = 3
    Asker = {a1}
    PodTable = {"t", "u"}
    PipeSize = 1
    Chunks = 2
    MaxEdits = 2
    Applying = {tick, conn}
    LearnerLog <- MCLearnerLog
INVARIANTS
    ServicesOK
    NoGaps
    ResultReady
    ArrivesInOrder
    SaidIsDone
    AnswersAreOwn
    OperatorsDecide
PROPERTIES
    EverythingArrives
    ShardedIsOneMap
CHECK_DEADLOCK FALSE
