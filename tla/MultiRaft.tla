----------------------------- MODULE MultiRaft ------------------------------
(***************************************************************************)
(* MultiRaftCluster (multi_raft.rs): the topology, one Raft group for each *)
(* range and the closed timestamps of the ranges, each behind a lock of    *)
(* its own.  propose_at and commit_and_apply_at, split and merge take      *)
(* these locks one after the other, so clients, resharding requests,       *)
(* advances of the closed timestamps and readers interleave between them.  *)
(*                                                                         *)
(* ClusterTopology (shard/topology.rs) is the key space cut into ranges,   *)
(* kept as a vector; each of its operations is one critical section.       *)
(* Replicas, leaders and sizes do not influence routing and are left out.  *)
(*                                                                         *)
(* A group is modelled by its presence: what RaftNode does with an entry   *)
(* in single-node mode is RaftApply.  next_range_id never goes back, so an *)
(* id names one range, one group and one tracker for good.                 *)
(***************************************************************************)
EXTENDS ClosedTimestamps, Sequences, FiniteSets

CONSTANTS
    MaxKey,    \* keys are 1..MaxKey
    MaxRange,  \* bound on the range ids given out
    Writer,    \* clients that write once through propose_at and commit_and_apply_at
    Resharder, \* requests that split or merge
    Publisher, \* the operator's requests to publish and to change the lag
    Scenarios  \* sets of the actors at work in one behaviour

ASSUME TopologyAssumption == MaxKey \in Nat \ {0} /\ MaxRange \in Nat \ {0}

Key == 1..MaxKey
NoKey == 0  \* a start_key or end_key of None
RangeId == 1..MaxRange
NoRange == 0

RangeRecord == [range_id : RangeId, start_key : Key \cup {NoKey}, end_key : Key \cup {NoKey}]

ASSUME MultiRaftAssumption == Tracked = RangeId

VARIABLES
    ranges,           \* the topology's vector, in key order as long as split keys are in range
    next_range_id,
    active,           \* the actors at work
    groups,           \* ids with a Raft group
    writer, rid, wts, \* what each writer does next, its range and its timestamp
    resharder, new_id,\* what each request does next, and the id it adds or removes
    covered           \* history: writers whose registration holds closed back

topologyVars == <<ranges, next_range_id>>
writerVars == <<writer, rid, wts>>
reshardVars == <<resharder, new_id>>
vars == <<topologyVars, closedVars, active, groups, writerVars, reshardVars, covered>>
-----------------------------------------------------------------------------
\* ClusterTopology::single_node: range 1 covers everything.
TopologyInit ==
    /\ ranges = <<[range_id |-> 1, start_key |-> NoKey, end_key |-> NoKey]>>
    /\ next_range_id = 2

Contains(r, key) ==
    /\ r.start_key = NoKey \/ key >= r.start_key
    /\ r.end_key = NoKey \/ key < r.end_key

Covering(key) == {i \in DOMAIN ranges : Contains(ranges[i], key)}

\* The first range of the vector that contains the key; NoRange stands for None.
FindRange(key) ==
    IF Covering(key) = {} THEN NoRange
    ELSE ranges[CHOOSE i \in Covering(key) : \A j \in Covering(key) : i <= j].range_id

Routed == {ranges[i].range_id : i \in DOMAIN ranges}

\* Variant: the new id is counted from the ranges that exist.
SplitWithCountedId(id, key) ==
    /\ next_range_id <= MaxRange
    /\ \E i \in DOMAIN ranges :
          /\ ranges[i].range_id = id
          /\ ranges' = [j \in 1..(Len(ranges) + 1) |->
                CASE j < i -> ranges[j]
                  [] j = i -> [ranges[i] EXCEPT !.end_key = key]
                  [] j = i + 1 -> [ranges[i] EXCEPT !.range_id = Len(ranges) + 1, !.start_key = key]
                  [] OTHER -> ranges[j - 1]]
    /\ next_range_id' = Len(ranges) + 2

\* split_range: the key is taken as it comes, inside the range or not.
SplitRange(id, key) ==
    /\ next_range_id <= MaxRange
    /\ \E i \in DOMAIN ranges :
          /\ ranges[i].range_id = id
          /\ ranges' = [j \in 1..(Len(ranges) + 1) |->
                CASE j < i -> ranges[j]
                  [] j = i -> [ranges[i] EXCEPT !.end_key = key]
                  [] j = i + 1 -> [ranges[i] EXCEPT !.range_id = next_range_id, !.start_key = key]
                  [] OTHER -> ranges[j - 1]]
    /\ next_range_id' = next_range_id + 1

MergedId(i) ==
    IF ranges[i].range_id < ranges[i + 1].range_id THEN ranges[i].range_id ELSE ranges[i + 1].range_id

\* merge_ranges of the ranges at i and i + 1, which meet in the key space: the smaller id stays.
MergeRanges(i) ==
    /\ i \in DOMAIN ranges /\ i + 1 \in DOMAIN ranges
    /\ ranges[i].end_key = ranges[i + 1].start_key
    /\ ranges' = [j \in 1..(Len(ranges) - 1) |->
          CASE j < i -> ranges[j]
            [] j = i -> [range_id |-> MergedId(i),
                         start_key |-> ranges[i].start_key, end_key |-> ranges[i + 1].end_key]
            [] OTHER -> ranges[j + 1]]
    /\ UNCHANGED next_range_id

TopologyOK == ranges \in Seq(RangeRecord) /\ next_range_id \in 2..(MaxRange + 1)
-----------------------------------------------------------------------------
Init ==
    /\ TopologyInit
    /\ ClosedInit(1)
    /\ active \in Scenarios
    /\ groups = {1}
    /\ writer = [w \in Writer |-> "propose"]
    /\ rid = [w \in Writer |-> NoRange]
    /\ wts = [w \in Writer |-> 0]
    /\ resharder = [x \in Resharder |-> "idle"]
    /\ new_id = [x \in Resharder |-> NoRange]
    /\ covered = {}

Goto(w, p) == writer' = [writer EXCEPT ![w] = p]

\* propose: the range of the key, under the topology's lock ...
FindWriteRange(w, key, ts) ==
    /\ w \in active /\ writer[w] = "propose"
    /\ rid' = [rid EXCEPT ![w] = FindRange(key)]
    /\ wts' = [wts EXCEPT ![w] = ts]
    /\ Goto(w, IF FindRange(key) = NoRange THEN "refused" ELSE "group")
    /\ UNCHANGED <<topologyVars, closedVars, active, groups, reshardVars, covered>>

\* ... then its group, which takes the entry: from here on it may be applied ...
ProposeToGroup(w) ==
    /\ writer[w] = "group"
    /\ Goto(w, IF rid[w] \in groups THEN "register" ELSE "refused")
    /\ UNCHANGED <<topologyVars, closedVars, active, groups, rid, wts, reshardVars, covered>>

\* A registration holds closed back if it comes in time: the timestamp is not closed yet and
\* no advance has already computed a bound that passes it.
InTime(r, ts) ==
    /\ r \in trackers /\ closed[r] < ts
    /\ \A a \in Advancer : (r \in todo[a] /\ \A q \in todo[a] : r <= q) =>
          bound[a] = NoBound \/ bound[a] < ts

\* ... and only then propose_at registers the write with the tracker.
RegisterWrite(w) ==
    /\ writer[w] = "register"
    /\ BeginWrite(rid[w], wts[w])
    /\ covered' = IF InTime(rid[w], wts[w]) THEN covered \cup {w} ELSE covered
    /\ Goto(w, IF rid[w] \in trackers THEN "commit" ELSE "commit_unregistered")
    /\ UNCHANGED <<topologyVars, active, groups, rid, wts, reshardVars>>

\* commit_and_apply: nothing to commit when the group is gone.
CommitAndApply(w) ==
    /\ writer[w] \in {"commit", "commit_unregistered"}
    /\ Goto(w, IF rid[w] \notin groups THEN "end_lost"
               ELSE IF writer[w] = "commit" THEN "end" ELSE "end_unregistered")
    /\ UNCHANGED <<topologyVars, closedVars, active, groups, rid, wts, reshardVars, covered>>

SameWrite(w) == {v \in Writer : rid[v] = rid[w] /\ wts[v] = wts[w]}

\* end_write, whether or not this write is among those that the tracker counts: one that is not
\* may take the count of another with its timestamp.
EndRegistration(w) ==
    /\ writer[w] \in {"end", "end_unregistered", "end_lost"}
    /\ EndWrite(rid[w], wts[w])
    /\ covered' = covered \ (IF w \in covered THEN {w} ELSE SameWrite(w))
    /\ Goto(w, IF writer[w] = "end_lost" THEN "lost" ELSE "applied")
    /\ UNCHANGED <<topologyVars, active, groups, rid, wts, reshardVars>>
-----------------------------------------------------------------------------
\* split: the topology ...
SplitTopology(x, id, key) ==
    /\ x \in active /\ resharder[x] = "idle"
    /\ SplitRange(id, key)
    /\ new_id' = [new_id EXCEPT ![x] = next_range_id]
    /\ resharder' = [resharder EXCEPT ![x] = "insert"]
    /\ UNCHANGED <<closedVars, active, groups, writerVars, covered>>

\* ... the new group, an empty log ...
InsertGroup(x) ==
    /\ resharder[x] = "insert"
    /\ groups' = groups \cup {new_id[x]}
    /\ resharder' = [resharder EXCEPT ![x] = "register"]
    /\ UNCHANGED <<topologyVars, closedVars, active, writerVars, new_id, covered>>

\* ... and the new tracker.
RegisterNewRange(x) ==
    /\ resharder[x] = "register"
    /\ RegisterRange(new_id[x])
    /\ resharder' = [resharder EXCEPT ![x] = "done"]
    /\ UNCHANGED <<topologyVars, active, groups, writerVars, new_id, covered>>

\* merge: the topology; the other id of the two goes ...
MergeTopology(x, i) ==
    /\ x \in active /\ resharder[x] = "idle"
    /\ MergeRanges(i)
    /\ new_id' = [new_id EXCEPT ![x] =
          IF MergedId(i) = ranges[i].range_id THEN ranges[i + 1].range_id ELSE ranges[i].range_id]
    /\ resharder' = [resharder EXCEPT ![x] = "remove"]
    /\ UNCHANGED <<closedVars, active, groups, writerVars, covered>>

\* ... with its group, whatever its log holds ...
RemoveGroup(x) ==
    /\ resharder[x] = "remove"
    /\ groups' = groups \ {new_id[x]}
    /\ resharder' = [resharder EXCEPT ![x] = "forget"]
    /\ UNCHANGED <<topologyVars, closedVars, active, writerVars, new_id, covered>>

\* ... and its tracker.
ForgetOldRange(x) ==
    /\ resharder[x] = "forget"
    /\ ForgetRange(new_id[x])
    /\ resharder' = [resharder EXCEPT ![x] = "done"]
    /\ UNCHANGED <<topologyVars, active, groups, writerVars, new_id, covered>>
-----------------------------------------------------------------------------
clusterVars == <<topologyVars, active, groups, writerVars, reshardVars, covered>>

\* plan_bounded_staleness_read looks the keys up in the topology and then negotiates;
\* plan_follower_read is given the ids.
PlanRead(c) ==
    /\ c \in active
    /\ \/ \E at \in {"leaseholder", "follower"}, ids \in SUBSET Routed :
             \/ \E oldest \in Ts : PlanBounded(c, at, ids, oldest)
             \/ \E read_ts \in Ts, offset \in {0, MaxOffset} : PlanExact(c, at, ids, read_ts, offset)
       \/ \E r \in Tracked : ReadClosed(c, r)
    /\ UNCHANGED clusterVars

Advance(a) ==
    /\ a \in active
    /\ \/ \E n \in Ts : StartAdvance(a, n)
       \/ \E r \in Tracked : ReadLowest(a, r) \/ Close(a, r)
    /\ UNCHANGED clusterVars

Distribute ==
    /\ active \cap Publisher # {}
    /\ \/ \E lag \in Lag : SetTargetLag(lag)
       \/ \E r \in Tracked : Publish(r) \/ ReceiveRange(r)
       \/ \E u \in sent : ReceiveUpdate(u)
    /\ UNCHANGED clusterVars

Write(w) ==
    \/ \E key \in Key, ts \in Ts \ {0} : FindWriteRange(w, key, ts)
    \/ ProposeToGroup(w)
    \/ RegisterWrite(w)
    \/ CommitAndApply(w)
    \/ EndRegistration(w)

Reshard(x) ==
    \/ \E id \in Routed, key \in Key : SplitTopology(x, id, key)
    \/ InsertGroup(x)
    \/ RegisterNewRange(x)
    \/ \E i \in 1..MaxRange : MergeTopology(x, i)
    \/ RemoveGroup(x)
    \/ ForgetOldRange(x)

Next ==
    \/ \E w \in Writer : Write(w)
    \/ \E x \in Resharder : Reshard(x)
    \/ \E a \in Advancer : Advance(a)
    \/ \E c \in Reader : PlanRead(c)
    \/ Distribute

Spec == Init /\ [][Next]_vars
-----------------------------------------------------------------------------
\* The types of all three parts.
MultiRaftOK ==
    /\ TopologyOK /\ ClosedOK
    /\ active \in Scenarios
    /\ groups \subseteq RangeId
    /\ writer \in [Writer -> {"propose", "group", "register", "commit", "commit_unregistered",
          "end", "end_unregistered", "end_lost", "applied", "lost", "refused"}]
    /\ rid \in [Writer -> RangeId \cup {NoRange}]
    /\ wts \in [Writer -> Ts]
    /\ resharder \in [Resharder -> {"idle", "insert", "register", "remove", "forget", "done"}]
    /\ new_id \in [Resharder -> RangeId \cup {NoRange}]
    /\ covered \subseteq Writer

Splitting(r) == \E x \in Resharder : resharder[x] \in {"insert", "register"} /\ new_id[x] = r

\* The ranges chain up from the smallest key to the largest, so that every key is routed: also
\* after splits at keys outside of the range (split_range does not look) and merges of what they
\* leave behind.  split and merge update topology, groups and trackers under three locks: a routed
\* range has a group and a tracker but for the split that is creating it, and a write is lost only
\* on a range that a merge took away.
RoutedRangesServe ==
    /\ \A i \in 1..(Len(ranges) - 1) : ranges[i].end_key = ranges[i + 1].start_key
    /\ \A key \in Key : FindRange(key) # NoRange
    /\ \A r \in Routed : r \in groups \cap trackers \/ Splitting(r)
    /\ \A w \in Writer : writer[w] = "lost" => rid[w] \notin Routed

\* No step takes back a closed timestamp while its tracker lives, neither an advance that was
\* overtaken by another nor an update that arrives late.
ClosedNeverRegresses ==
    [][\A r \in Tracked :
        /\ r \in trackers /\ r \in trackers' => closed'[r] >= closed[r]
        /\ follower_closed'[r] >= follower_closed[r]]_vars

\* A write that was registered in time stays above the closed timestamp until its registration
\* ends, whoever else writes at the same timestamp.
ClosedBelowCovered ==
    \A w \in covered : rid[w] \in trackers => closed[rid[w]] < wts[w]

\* The follower never runs ahead of the leaseholder.
FollowerNeverAhead ==
    \A r \in known \cap trackers : follower_closed[r] <= closed[r]

\* A follower read that was planned sees no write to come: as long as the tracker of a range
\* lives, what the read relies on stays closed there, below the writes registered in time.
PlansStayClosed ==
    \A c \in Reader : plan[c].state = "follower_read" =>
        /\ \A r \in plan[c].range_ids \cap trackers : UpTo(plan[c]) <= closed[r]
        /\ \A w \in covered : rid[w] \in plan[c].range_ids \cap trackers => wts[w] > UpTo(plan[c])

\* Reads from the follower are as good as closed: it never runs ahead, and no plan is overtaken.
FollowersServeClosed == FollowerNeverAhead /\ PlansStayClosed
=============================================================================
