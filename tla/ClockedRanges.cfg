\* Two keys, up to two splits, timestamps 0..2; each scenario lists the actors at work in it.
CONSTANTS
    MaxKey = 2
    MaxRange = 3
    Tracked = {1, 2, 3}
    MaxTs = 2
    Lag = {0, 1}
    DefaultLag = 0
    MaxOffset = 1
    MaxOrdinal = 2
    MaxLogical = 1
    MaxClockOffset = 1
    ClockActor = hlc
    Advancer = {a1, a2}
    Reader = {r1}
    Writer = {w1, w2}
    Resharder = {s1, s2, s3}
    Publisher = {p1}
    Scenarios = {{w1, w2, s1, a1}, {s1, s2, w1}, {w1, a1, a2}, {w1, a1, r1, p1}, {s1, a1, r1}, {s1, s2, r1}, {s1, s2, s3}, {hlc, w1, w2, a1}}
SPECIFICATION ClockedSpec
INVARIANTS
    TypeOK
    RoutedRangesServe
    ClosedBelowCovered
    FollowersServeClosed
    HappensAfter
PROPERTIES
    ClosedNeverRegresses
    FreshTimestampsAreOpen
CHECK_DEADLOCK FALSE
