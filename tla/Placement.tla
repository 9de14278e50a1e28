------------------------------ MODULE Placement ------------------------------
(***************************************************************************)
(* Which nodes hold which range (shard/topology.rs and the operators'      *)
(* endpoints in admin.rs): nodes join and are decommissioned, ranges are   *)
(* split and merged, and a rebalance gives replicas to ranges that have    *)
(* too few.  Each call has the topology's lock.  MultiRaft has the keys.   *)
(***************************************************************************)
EXTENDS Naturals, SequencesExt

CONSTANTS NodeId,       \* nodes; one of them is the first
          FirstNode,
          MaxRanges     \* bound on range ids, for TLC

ASSUME PlacementAssumption == MaxRanges \in Nat \ {0}

VARIABLES
    nodes,               \* in the order they joined: [node_id, alive]
    placed,              \* ranges in key order: [range_id, replicas, leader]
    replication_factor,
    fresh_id

placementVars == <<nodes, placed, replication_factor, fresh_id>>

PlacementInit ==
    /\ nodes = <<[node_id |-> FirstNode, alive |-> TRUE]>>
    /\ placed = <<[range_id |-> 1, replicas |-> <<FirstNode>>, leader |-> FirstNode]>>
    /\ replication_factor = 1 /\ fresh_id = 2

KnownNodes == {nodes[i].node_id : i \in DOMAIN nodes}

\* The members of a sequence at some of its places, in their order.
Chosen(q, places) ==
    [n \in 1 .. Cardinality(places) |-> q[CHOOSE p \in places : Cardinality({m \in places : m < p}) = n - 1]]

\* ... and those that are not in a set.
Others(q, S) == Chosen(q, {p \in DOMAIN q : q[p] \notin S})

AliveNodes == LET alive == Chosen(nodes, {i \in DOMAIN nodes : nodes[i].alive}) IN [i \in DOMAIN alive |-> alive[i].node_id]
Lesser(a, b) == IF a < b THEN a ELSE b
-----------------------------------------------------------------------------
\* cluster_node "add": a node that is known already, decommissioned or not, stays as it is; the
\* replication factor follows the number of nodes, decommissioned ones too, up to three.
AddNode ==
    \E n \in NodeId :
       /\ nodes' = IF n \in KnownNodes THEN nodes ELSE Append(nodes, [node_id |-> n, alive |-> TRUE])
       /\ replication_factor' = Lesser(Len(nodes'), 3)
       /\ UNCHANGED <<placed, fresh_id>>

\* cluster_node "decommission": its replicas stay.
Decommission ==
    \E n \in NodeId :
       /\ nodes' = [i \in DOMAIN nodes |-> IF nodes[i].node_id = n THEN [nodes[i] EXCEPT !.alive = FALSE] ELSE nodes[i]]
       /\ UNCHANGED <<placed, replication_factor, fresh_id>>

\* under_replicated.
UnderReplicated == {i \in DOMAIN placed : Len(placed[i].replicas) < replication_factor}

\* The nodes that rebalance_plan takes for one range: alive ones that do not hold it, in the order
\* they joined, until it has enough of them.
Candidates(i, planned) ==
    LET free == Others(AliveNodes, ToSet(placed[i].replicas))
        missing == replication_factor - (Len(placed[i].replicas) + planned) IN
    SubSeq(free, 1, IF missing < 0 THEN 0 ELSE Lesser(missing, Len(free)))

\* Variant: what is planned for ranges before counts for this one too.
PlannedForAll(i) ==
    Candidates(i, Cardinality({j \in UnderReplicated : j < i}))

\* rebalance_plan, for one range.
Planned(i) == Candidates(i, 0)

\* cluster_rebalance: the plan is made and carried out in one critical section.
Rebalance ==
    /\ placed' = [i \in DOMAIN placed |->
                    IF i \in UnderReplicated THEN [placed[i] EXCEPT !.replicas = @ \o Planned(i)] ELSE placed[i]]
    /\ UNCHANGED <<nodes, replication_factor, fresh_id>>

\* split_range: both halves keep replicas and leader.
SplitPlaced ==
    /\ fresh_id <= MaxRanges
    /\ \E i \in DOMAIN placed :
          placed' = SubSeq(placed, 1, i) \o <<[placed[i] EXCEPT !.range_id = fresh_id]>> \o SubSeq(placed, i + 1, Len(placed))
    /\ fresh_id' = fresh_id + 1
    /\ UNCHANGED <<nodes, replication_factor>>

\* merge_ranges: the lower id with its leader, and the replicas of both.
MergedRange(left, right) ==
    LET kept == IF left.range_id < right.range_id THEN left ELSE right IN
    [kept EXCEPT !.replicas = left.replicas \o Others(right.replicas, ToSet(left.replicas))]

MergePlaced ==
    \E i \in 1 .. Len(placed) - 1 :
       LET range == MergedRange(placed[i], placed[i + 1]) IN
       /\ placed' = SubSeq(placed, 1, i - 1) \o <<range>> \o SubSeq(placed, i + 2, Len(placed))
       /\ UNCHANGED <<nodes, replication_factor, fresh_id>>

PlacementStep == AddNode \/ Decommission \/ Rebalance \/ SplitPlaced \/ MergePlaced
-----------------------------------------------------------------------------
\* status_snapshot, as far as operators act on it.
HealthyNodes == Len(AliveNodes)

PlacementOK ==
    /\ \A i, j \in DOMAIN nodes : nodes[i].node_id = nodes[j].node_id => i = j
    /\ replication_factor \in 1 .. 3 /\ Len(placed) \in 1 .. MaxRanges
    /\ \A i \in DOMAIN placed : ToSet(placed[i].replicas) \subseteq KnownNodes

\* However nodes and ranges come and go, every range has a leader among its replicas, none of them
\* twice, and a rebalance can always give it as many as there are nodes for, up to the factor, and
\* never more.  A replica on a decommissioned node counts like any other: topology.rs:156-175 does not
\* replace it.
EveryRangePlaced ==
    \A i \in DOMAIN placed :
        LET r == placed[i]
            held_or_alive == Cardinality(ToSet(AliveNodes) \cup ToSet(r.replicas))
            after == Len(r.replicas) + (IF i \in UnderReplicated THEN Len(Planned(i)) ELSE 0) IN
        /\ r.leader \in ToSet(r.replicas)
        /\ Cardinality(ToSet(r.replicas)) = Len(r.replicas)
        /\ after >= Lesser(replication_factor, held_or_alive)
        /\ i \in UnderReplicated => after <= replication_factor
=============================================================================
