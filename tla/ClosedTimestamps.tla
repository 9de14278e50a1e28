-------------------------- MODULE ClosedTimestamps --------------------------
(***************************************************************************)
(* Closed timestamps (closed_ts.rs): the trackers of a leaseholder's       *)
(* coordinator, the coordinator of a follower that it publishes to, and    *)
(* the planner of follower reads.  A tracker has a lock for `closed` and   *)
(* one for `in_flight`, the coordinator one for its map of trackers; a     *)
(* step is what a task does under one of them.  advance_all and the        *)
(* planners hold the map's lock for reading all along, so no range is      *)
(* registered or forgotten meanwhile.                                      *)
(***************************************************************************)
EXTENDS Naturals

CONSTANTS
    Tracked,   \* ids of ranges
    MaxTs,     \* timestamps are 0..MaxTs; sums saturate there
    Lag,       \* values of target_lag_nanos ...
    DefaultLag,\* ... and the one it starts with
    MaxOffset, \* the clock's max_offset_nanos, for uncertainty-safe reads
    Advancer,  \* tasks that run advance_all
    Reader     \* tasks that plan a follower read

ASSUME ClosedTimestampsAssumption ==
    /\ MaxTs \in Nat \ {0} /\ MaxOffset \in Nat
    /\ Lag \subseteq Nat /\ DefaultLag \in Lag /\ Tracked \subseteq Nat

Ts == 0..MaxTs

VARIABLES
    trackers,         \* ranges the leaseholder's coordinator has a tracker for
    closed,           \* their closed timestamps; 0 without a tracker
    in_flight,        \* how many writes of a timestamp are in flight in a range
    target_lag,       \* shared by all trackers
    todo, now, bound, \* advance_all: ranges left, `now`, and the bound computed from in_flight
    sent,             \* updates <<range, closed>> on their way to the follower
    known,            \* ranges the follower's coordinator has a tracker for
    follower_closed,  \* their closed timestamps
    plan              \* each reader's plan of a read

trackerVars == <<trackers, closed, in_flight>>
advanceVars == <<todo, now, bound>>
sideVars == <<sent, known, follower_closed>>
closedVars == <<trackerVars, target_lag, advanceVars, sideVars, plan>>
-----------------------------------------------------------------------------
NoBound == MaxTs + 1  \* also Timestamp::MAX, the start of a minimum

NoPlan == [state |-> "none", at |-> "leaseholder", exact |-> FALSE, range_ids |-> {}, left |-> {},
           ts |-> 0, offset |-> 0, oldest |-> 0]

ClosedInit(first) ==
    /\ trackers = {first}
    /\ closed = [r \in Tracked |-> 0]
    /\ in_flight = [r \in Tracked |-> [t \in Ts |-> 0]]
    /\ target_lag = DefaultLag
    /\ todo = [a \in Advancer |-> {}]
    /\ now = [a \in Advancer |-> 0]
    /\ bound = [a \in Advancer |-> NoBound]
    /\ sent = {}
    /\ known = {}
    /\ follower_closed = [r \in Tracked |-> 0]
    /\ plan = [c \in Reader |-> NoPlan]

AtMost(x, y) == IF x <= y THEN x ELSE y
AtLeast(x, y) == IF x >= y THEN x ELSE y
SaturatingSub(x, y) == IF x > y THEN x - y ELSE 0

Reading(at) == \E c \in Reader : plan[c].state = "reading" /\ plan[c].at = at

\* The map of trackers is locked by an advance or a plan under way.
MapFree == (\A a \in Advancer : todo[a] = {}) /\ ~Reading("leaseholder")

SetTargetLag(lag) ==
    /\ target_lag' = lag
    /\ UNCHANGED <<trackerVars, advanceVars, sideVars, plan>>

\* register_range keeps a tracker that is there.
RegisterRange(r) ==
    /\ MapFree
    /\ trackers' = trackers \cup {r}
    /\ UNCHANGED <<closed, in_flight, target_lag, advanceVars, sideVars, plan>>

\* Variant: forget_range leaves the writes in flight behind.
ForgetClosed(r) ==
    /\ MapFree
    /\ trackers' = trackers \ {r}
    /\ closed' = [closed EXCEPT ![r] = 0]
    /\ UNCHANGED <<in_flight, target_lag, advanceVars, sideVars, plan>>

\* forget_range drops the tracker, the writes in flight with it.
ForgetRange(r) ==
    /\ MapFree
    /\ trackers' = trackers \ {r}
    /\ closed' = [closed EXCEPT ![r] = 0]
    /\ in_flight' = [in_flight EXCEPT ![r] = [t \in Ts |-> 0]]
    /\ UNCHANGED <<target_lag, advanceVars, sideVars, plan>>

\* begin_write of the tracker, if there is one; the timestamp is not compared with closed.
BeginWrite(r, ts) ==
    /\ in_flight' = IF r \in trackers
                    THEN [in_flight EXCEPT ![r][ts] = @ + 1] ELSE in_flight
    /\ UNCHANGED <<trackers, closed, target_lag, advanceVars, sideVars, plan>>

\* Variant: the entry is removed with its first write.
EndAllWrites(r, ts) ==
    /\ in_flight' = [in_flight EXCEPT ![r][ts] = 0]
    /\ UNCHANGED <<trackers, closed, target_lag, advanceVars, sideVars, plan>>

\* end_write of the tracker, if there is one.
EndWrite(r, ts) ==
    /\ in_flight' = [in_flight EXCEPT ![r][ts] = SaturatingSub(@, 1)]
    /\ UNCHANGED <<trackers, closed, target_lag, advanceVars, sideVars, plan>>

\* advance_all takes the map's lock ...
StartAdvance(a, n) ==
    /\ todo[a] = {}
    /\ todo' = [todo EXCEPT ![a] = trackers]
    /\ now' = [now EXCEPT ![a] = n]
    /\ UNCHANGED <<bound, trackerVars, target_lag, sideVars, plan>>

InFlight(r) == {t \in Ts : in_flight[r][t] > 0}

\* now - lag, but below every write in flight.
Bound(r, n) ==
    LET target == SaturatingSub(n, target_lag) IN
    IF InFlight(r) = {} THEN target
    ELSE AtMost(target, SaturatingSub(CHOOSE t \in InFlight(r) : \A u \in InFlight(r) : t <= u, 1))

\* ... and takes the ranges in order: it computes the bound from the writes in flight ...
ReadLowest(a, r) ==
    /\ r \in todo[a] /\ \A q \in todo[a] : r <= q
    /\ bound[a] = NoBound
    /\ bound' = [bound EXCEPT ![a] = Bound(r, now[a])]
    /\ UNCHANGED <<todo, now, trackerVars, target_lag, sideVars, plan>>

\* Variant: closed is set to the bound, whatever another advance has set.
CloseAt(a, r) ==
    /\ r \in todo[a] /\ \A q \in todo[a] : r <= q
    /\ bound[a] # NoBound
    /\ closed' = [closed EXCEPT ![r] = bound[a]]
    /\ bound' = [bound EXCEPT ![a] = NoBound]
    /\ todo' = [todo EXCEPT ![a] = @ \ {r}]
    /\ UNCHANGED <<now, trackers, in_flight, target_lag, sideVars, plan>>

\* ... and then, under another lock, moves closed forward to it.
Close(a, r) ==
    /\ r \in todo[a] /\ \A q \in todo[a] : r <= q
    /\ bound[a] # NoBound
    /\ closed' = [closed EXCEPT ![r] = AtLeast(@, bound[a])]
    /\ bound' = [bound EXCEPT ![a] = NoBound]
    /\ todo' = [todo EXCEPT ![a] = @ \ {r}]
    /\ UNCHANGED <<now, trackers, in_flight, target_lag, sideVars, plan>>

\* Variant: what is published is where closed would be without writes in flight.
PublishTarget(r) ==
    /\ r \in trackers
    /\ sent' = sent \cup {<<r, SaturatingSub(MaxTs, target_lag)>>}
    /\ UNCHANGED <<trackerVars, target_lag, advanceVars, known, follower_closed, plan>>

\* A snapshot is sent; it is applied entry by entry, so each entry travels on its own.
Publish(r) ==
    /\ r \in trackers
    /\ sent' = sent \cup {<<r, closed[r]>>}
    /\ UNCHANGED <<trackerVars, target_lag, advanceVars, known, follower_closed, plan>>

\* apply_closed_timestamp_updates registers the range of an update ...
ReceiveRange(r) ==
    /\ \E u \in sent : u[1] = r
    /\ ~Reading("follower")
    /\ known' = known \cup {r}
    /\ UNCHANGED <<sent, follower_closed, trackerVars, target_lag, advanceVars, plan>>

\* ... and takes it if it is ahead; updates come late, again, out of order or never.
ReceiveUpdate(u) ==
    /\ u \in sent /\ u[1] \in known
    /\ follower_closed' = [follower_closed EXCEPT ![u[1]] = AtLeast(@, u[2])]
    /\ UNCHANGED <<sent, known, trackerVars, target_lag, advanceVars, plan>>

\* A planner locks the map of its coordinator.  Bounded staleness takes the least closed
\* timestamp of the ranges unless it is below `oldest` (now - max_staleness); exact and
\* uncertainty-safe reads fix the timestamp and ask that it, plus the offset, is closed.
StartPlan(c, p) ==
    /\ plan[c].state = "none" /\ p.range_ids # {}
    /\ plan' = [plan EXCEPT ![c] = p]
    /\ UNCHANGED <<trackerVars, target_lag, advanceVars, sideVars>>

PlanBounded(c, at, ids, oldest) ==
    StartPlan(c, [state |-> "reading", at |-> at, exact |-> FALSE, range_ids |-> ids, left |-> ids,
                  ts |-> NoBound, offset |-> 0, oldest |-> oldest])

PlanExact(c, at, ids, read_ts, offset) ==
    StartPlan(c, [state |-> "reading", at |-> at, exact |-> TRUE, range_ids |-> ids, left |-> ids,
                  ts |-> read_ts, offset |-> offset, oldest |-> 0])

\* The highest timestamp a plan has to be sure of.
UpTo(p) == AtMost(p.ts + p.offset, MaxTs)

\* Variant: a range without a tracker is passed over.
PlanAfterSkipping(p, r, has_tracker, closed_ts) ==
    LET ts == IF p.exact \/ ~has_tracker THEN p.ts ELSE AtMost(p.ts, closed_ts)
        left == p.left \ {r}
    IN [p EXCEPT !.ts = ts, !.left = left,
                 !.state = IF left = {} THEN "follower_read" ELSE "reading"]

\* The plan after it has read the closed timestamp of range r.
PlanAfter(p, r, has_tracker, closed_ts) ==
    LET ts == IF p.exact THEN p.ts ELSE AtMost(p.ts, closed_ts)
        left == p.left \ {r}
        denied == \/ ~has_tracker
                  \/ p.exact /\ (p.ts = 0 \/ UpTo(p) > closed_ts)
                  \/ ~p.exact /\ left = {} /\ (ts = 0 \/ ts < p.oldest)
    IN [p EXCEPT !.ts = ts, !.left = left,
                 !.state = IF denied THEN "route_to_leaseholder"
                           ELSE IF left = {} THEN "follower_read" ELSE "reading"]

\* The planner reads the closed timestamps range by range.
ReadClosed(c, r) ==
    /\ plan[c].state = "reading" /\ r \in plan[c].left
    /\ plan' = [plan EXCEPT ![c] =
          IF @.at = "follower" THEN PlanAfter(@, r, r \in known, follower_closed[r])
          ELSE PlanAfter(@, r, r \in trackers, closed[r])]
    /\ UNCHANGED <<trackerVars, target_lag, advanceVars, sideVars>>

PlanOK(p) ==
    /\ p.state \in {"none", "reading", "follower_read", "route_to_leaseholder"}
    /\ p.at \in {"leaseholder", "follower"} /\ p.exact \in BOOLEAN
    /\ p.range_ids \subseteq Tracked /\ p.left \subseteq p.range_ids
    /\ p.ts \in 0..NoBound /\ p.offset \in Nat /\ p.oldest \in Ts
    /\ p.state = "follower_read" => p.left = {} /\ p.ts \in 1..MaxTs

ClosedOK ==
    /\ trackers \subseteq Tracked
    /\ closed \in [Tracked -> Ts]
    /\ in_flight \in [Tracked -> [Ts -> Nat]]
    /\ target_lag \in Lag
    /\ todo \in [Advancer -> SUBSET trackers]
    /\ now \in [Advancer -> Ts]
    /\ bound \in [Advancer -> 0..NoBound]
    /\ sent \subseteq Tracked \X Ts
    /\ known \subseteq Tracked
    /\ follower_closed \in [Tracked -> Ts]
    /\ \A c \in Reader : PlanOK(plan[c])
    /\ \A r \in Tracked \ trackers : closed[r] = 0 /\ \A t \in Ts : in_flight[r][t] = 0
=============================================================================
