CONSTANTS
    s1 = s1
    s2 = s2
    f1 = f1
    f2 = f2
    UserTable = user
    LogTable = log
    UserKey = {1, 2}
    LogKey = {3}
    MaxVal = 2
    Session = {s1, s2}
    Main = main
    OtherBranch = other
    MaxCommit = 4
    Refresher = {f1, f2}
    SegmentRows = 1
    Observer = observer
    Threshold = 2
    BitsOf <- KeyBits
    Committer = {s1, s2, observer}
    MaxSnapshot = 6
    Manifest = manifest
    x1 = x1
    Source = {x1}
    Setting = {1, 2}
    Default = 1
    MaxEdit = 2
    Broken = broken
    NoConfig = noconfig
    Unset = unset
    Row <- RowSet
    Workloads <- AllWorkloads
SPECIFICATION Spec
INVARIANTS TypeOK StoreFollowsMemory ExecutedOnce MirrorCatchesUp OneLockCycle CommitsStayReachable OlapCatchesUp ReplicaFollowsTable RestoreIsSnapshot DiffIsComplete FileInForce
PROPERTIES AppendOnly
CHECK_DEADLOCK FALSE
