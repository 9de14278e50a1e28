SPECIFICATION StableSpec
CONSTANTS
    Voter = {n1, n2}
    Learner = {l1}
    Command = {c1, c2}
    None = None
    MaxTerm = 1
    MaxFailure = 2
    First = n1
    Second = n2
    Opening = c1
    n1 = n1
    n2 = n2
    c1 = c1
    c2 = c2
    l1 = l1
INVARIANT FollowersTrailLeader
PROPERTY EveryoneApplies
