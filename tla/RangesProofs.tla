---------------------------- MODULE RangesProofs -----------------------------
(***************************************************************************)
(* The ranges of MultiRaftCluster and the clock that dates their writes,   *)
(* for any number of keys, ranges and tasks: routing stays complete,       *)
(* closed timestamps are kept, and followers never run ahead of them.      *)
(***************************************************************************)
EXTENDS ClockedRanges, FiniteSetTheorems, SequenceTheorems, WellFoundedInduction, TLAPS

-----------------------------------------------------------------------------
(***************************************************************************)
(* The hybrid logical clock alone, for every width of its words, every     *)
(* offset and every reading of the system clock: its types, that it grows, *)
(* and that it is after what it has heard.                                 *)
(***************************************************************************)
LEMMA AdvancedType ==
    ASSUME NEW t \in HlcTimestamp, NEW wall_now \in Ordinal
    PROVE  Advanced(t, wall_now) \in HlcTimestamp
BY HlcAssumption DEF Advanced, FromOrdinal, Capped, HlcTimestamp, Ordinal

\* advance_locked goes forward, except at the last nanosecond.
LEMMA AdvancedGrows ==
    ASSUME NEW t \in HlcTimestamp, NEW wall_now \in Ordinal
    PROVE  /\ t.wall_nanos < MaxOrdinal => Before(t, Advanced(t, wall_now))
           /\ t.wall_nanos <= Advanced(t, wall_now).wall_nanos
BY HlcAssumption DEF Advanced, FromOrdinal, Capped, Before, HlcTimestamp, Ordinal

\* The projection of a timestamp to one word is such a word.
LEMMA AsOrdinalType == ASSUME NEW t \in HlcTimestamp PROVE AsOrdinal(t) \in Ordinal
BY HlcAssumption DEF AsOrdinal, Capped, HlcTimestamp, Ordinal

\* update's merge of clock, remote and wall clock is a timestamp.
LEMMA MergedType ==
    ASSUME clock \in HlcTimestamp, NEW remote \in HlcTimestamp, NEW wall_now \in Ordinal
    PROVE  Merged(remote, wall_now) \in HlcTimestamp
<1> DEFINE wall == Later(Later(clock.wall_nanos, remote.wall_nanos), wall_now)
<1>1. wall \in Ordinal
  BY DEF Later, HlcTimestamp, Ordinal
<1>2. Merged(remote, wall_now).wall_nanos = wall
  BY DEF Merged
<1>3. Merged(remote, wall_now).logical \in 0..MaxLogical
  BY <1>1, HlcAssumption DEF Merged, Capped, Later, HlcTimestamp, Ordinal
<1>4. PICK l \in 0..MaxLogical : Merged(remote, wall_now) = [wall_nanos |-> wall, logical |-> l]
  BY <1>3 DEF Merged
<1> QED BY <1>1, <1>4 DEF HlcTimestamp

\* What update merges to is after the remote timestamp, unless its logical part is exhausted.
LEMMA MergedIsAfter ==
    ASSUME clock \in HlcTimestamp, NEW remote \in HlcTimestamp, NEW wall_now \in Ordinal,
           remote.logical < MaxLogical
    PROVE  Before(remote, Merged(remote, wall_now))
BY HlcAssumption DEF Merged, Capped, Later, Before, HlcTimestamp, Ordinal

\* Before is a linear order.
LEMMA BeforeIsTransitive ==
    ASSUME NEW s \in HlcTimestamp, NEW t \in HlcTimestamp, NEW u \in HlcTimestamp,
           ~Before(t, s), Before(t, u)
    PROVE  Before(s, u)
BY DEF Before, HlcTimestamp, Ordinal

\* Before is total: what is not before t is at or after it.
LEMMA BeforeOrAtMost ==
    ASSUME NEW s \in HlcTimestamp, NEW t \in HlcTimestamp, NEW u \in HlcTimestamp,
           Before(s, t), ~Before(u, t)
    PROVE  Before(s, u)
BY DEF Before, HlcTimestamp, Ordinal
-----------------------------------------------------------------------------
\* What every step of the clock does: it keeps the types and does not go back, and strictly
\* forward when it moves before the last nanosecond.
Forward ==
    /\ clock' \in HlcTimestamp
    /\ clock.wall_nanos <= clock'.wall_nanos
    /\ clock.wall_nanos < MaxOrdinal => clock' = clock \/ Before(clock, clock')

\* A local event moves the clock forward and keeps it after what it heard.
LEMMA AdvanceStep ==
    ASSUME HlcOK, HappensAfter, NEW wall_now \in Ordinal, clock' = Advanced(clock, wall_now),
           heard' = heard
    PROVE  Forward /\ HappensAfter'
<1>1. Forward
  BY AdvancedType, AdvancedGrows DEF HlcOK, Forward
<1>2. HappensAfter'
  <2> SUFFICES ASSUME clock'.wall_nanos < MaxOrdinal, heard.logical < MaxLogical, heard # Zero
               PROVE  Before(heard, clock')
    BY DEF HappensAfter
  <2>1. clock.wall_nanos < MaxOrdinal
    BY <1>1, HlcAssumption DEF Forward, HlcOK, HlcTimestamp, Ordinal
  <2>2. Before(heard, clock) /\ Before(clock, clock')
    BY <2>1, AdvancedGrows DEF HappensAfter, HlcOK
  <2> QED BY <1>1, <2>2 DEF Forward, HlcOK, Before, HlcTimestamp, Ordinal
<1> QED BY <1>1, <1>2

\* update moves the clock forward and after the remote timestamp, or refuses it for its skew.
LEMMA UpdateStep ==
    ASSUME HlcOK, HappensAfter, NEW remote \in HlcTimestamp, NEW wall_now \in Ordinal,
           Update(remote, wall_now)
    PROVE  HlcOK' /\ Forward /\ HappensAfter'
<1>1. CASE ~SkewOk(remote, wall_now)
  <2>1. NowHlc(wall_now)
    BY <1>1 DEF Update
  <2>2. Forward /\ HappensAfter'
    BY <2>1, AdvanceStep DEF NowHlc
  <2>3. last_ordinal' \in Ordinal /\ last_ordinal' >= AsOrdinal(clock')
    BY <2>1, <2>2, AsOrdinalType DEF NowHlc, Forward, HlcOK, Later, Ordinal
  <2> QED BY <2>1, <2>2, <2>3 DEF NowHlc, Forward, HlcOK, AsOrdinal
<1>2. CASE SkewOk(remote, wall_now)
  <2> DEFINE m == Merged(remote, wall_now)
  <2>1. /\ clock' = IF Before(clock, m) THEN m ELSE clock
        /\ last_ordinal' = Later(last_ordinal, AsOrdinal(clock'))
        /\ heard' = IF Before(heard, remote) THEN remote ELSE heard
    BY <1>2 DEF Update
  <2>2. m \in HlcTimestamp
    BY MergedType DEF HlcOK
  <2> HIDE DEF m
  <2>3. Forward /\ ~Before(clock', m) /\ ~Before(clock', clock)
    BY <2>1, <2>2 DEF Forward, HlcOK, Before, HlcTimestamp, Ordinal
  <2>4. HlcOK'
    <3>1. last_ordinal' \in Ordinal /\ last_ordinal' >= AsOrdinal(clock')
      BY <2>1, <2>3, AsOrdinalType DEF Forward, HlcOK, Later, Ordinal
    <3> QED BY <2>1, <2>3, <3>1 DEF Forward, HlcOK, AsOrdinal
  <2>5. HappensAfter'
    <3> SUFFICES ASSUME clock'.wall_nanos < MaxOrdinal, heard'.logical < MaxLogical, heard' # Zero
                 PROVE  Before(heard', clock')
      BY DEF HappensAfter
    <3>1. CASE Before(heard, remote)
      <4>1. heard' = remote
        BY <2>1, <3>1
      <4>2. Before(remote, m)
        BY <4>1, MergedIsAfter DEF HlcOK, m
      <4> QED BY <2>2, <2>3, <4>1, <4>2, BeforeOrAtMost DEF Forward
    <3>2. CASE ~Before(heard, remote)
      <4>1. heard' = heard
        BY <2>1, <3>2
      <4>2. clock.wall_nanos < MaxOrdinal
        BY <2>3, HlcAssumption DEF Forward, HlcOK, HlcTimestamp, Ordinal
      <4>3. Before(heard, clock)
        BY <4>1, <4>2 DEF HappensAfter
      <4> QED BY <2>3, <4>1, <4>3, BeforeOrAtMost DEF Forward, HlcOK
    <3> QED BY <3>1, <3>2
  <2> QED BY <2>3, <2>4, <2>5
<1> QED BY <1>1, <1>2

\* Every step of the clock keeps its types and moves it forward.
LEMMA HlcStep ==
    HlcOK /\ HappensAfter /\ [HlcNext]_hlcVars
        => HlcOK' /\ HappensAfter' /\ [clock.wall_nanos < MaxOrdinal => Before(clock, clock')]_clock
<1> SUFFICES ASSUME HlcOK, HappensAfter, [HlcNext]_hlcVars
             PROVE  HlcOK' /\ HappensAfter' /\ [clock.wall_nanos < MaxOrdinal => Before(clock, clock')]_clock
  OBVIOUS
<1>1. CASE UNCHANGED hlcVars
  BY <1>1 DEF hlcVars, HlcOK, HappensAfter, AsOrdinal, Before
<1>2. ASSUME NEW wall_now \in Ordinal, NowHlc(wall_now) \/ NowOrdinal(wall_now)
      PROVE  HlcOK' /\ HappensAfter' /\ Forward
  <2>1. clock' = Advanced(clock, wall_now) /\ heard' = heard
    BY <1>2 DEF NowHlc, NowOrdinal
  <2>2. Forward /\ HappensAfter'
    BY <2>1, AdvanceStep
  <2>3. last_ordinal' \in Ordinal /\ last_ordinal' >= AsOrdinal(clock')
    <3>1. AsOrdinal(clock') \in Ordinal /\ last_ordinal \in Ordinal
      BY <2>2, AsOrdinalType DEF Forward, HlcOK
    <3>2. \/ last_ordinal' = Later(last_ordinal, AsOrdinal(clock'))
          \/ last_ordinal' = Later(AsOrdinal(clock'), Capped(last_ordinal + 1, MaxOrdinal))
      BY <1>2, <2>1 DEF NowHlc, NowOrdinal, NextOrdinal
    <3> QED BY <3>1, <3>2, HlcAssumption DEF Later, Capped, Ordinal
  <2> QED BY <2>1, <2>2, <2>3 DEF Forward, HlcOK, AsOrdinal
<1>3. ASSUME NEW wall_now \in Ordinal, NEW o \in Ordinal, ObserveOrdinal(o, wall_now)
      PROVE  HlcOK' /\ HappensAfter' /\ Forward
  <2>1. FromOrdinal(o) \in HlcTimestamp
    BY HlcAssumption DEF FromOrdinal, HlcTimestamp
  <2> QED BY <1>3, <2>1, UpdateStep DEF ObserveOrdinal
<1>4. ASSUME NEW wall_now \in Ordinal, NEW remote \in HlcTimestamp, Update(remote, wall_now)
      PROVE  HlcOK' /\ HappensAfter' /\ Forward
  BY <1>4, UpdateStep
<1> QED BY <1>1, <1>2, <1>3, <1>4 DEF HlcNext, Forward

\* The clock starts at zero, having heard nothing.
LEMMA HlcStart == HlcInit => HlcOK /\ HappensAfter
<1> SUFFICES ASSUME HlcInit PROVE HlcOK /\ HappensAfter
  OBVIOUS
<1>1. Zero \in HlcTimestamp
  BY HlcAssumption DEF Zero, HlcTimestamp, Ordinal
<1>2. AsOrdinal(clock) = 0
  BY HlcAssumption DEF HlcInit, Zero, AsOrdinal, Capped
<1> QED BY <1>1, <1>2, HlcAssumption DEF HlcInit, HlcOK, HappensAfter, Ordinal
-----------------------------------------------------------------------------
\* The types of the clock: words keep their width, and no ordinal was handed out below it.
THEOREM ClockTypes == HlcSpec => []HlcOK
BY HlcStart, HlcStep, PTL DEF HlcSpec

\* The clock only goes forward, however the system clock jumps and whatever remote timestamps
\* arrive (advance_locked, update).
THEOREM ClockOnlyGrows == HlcSpec => ClockGrows
BY HlcStart, HlcStep, PTL DEF HlcSpec, ClockGrows

\* What happens here happens after every remote event that update accepted.
THEOREM EventsHappenAfter == HlcSpec => []HappensAfter
BY HlcStart, HlcStep, PTL DEF HlcSpec

\* Two ordinals are never the same: now_ordinal hands out more than it ever did, until u64 is
\* exhausted.
THEOREM OrdinalsAreFresh ==
    ASSUME HlcOK, NEW wall_now \in Ordinal, NowOrdinal(wall_now), last_ordinal < MaxOrdinal
    PROVE  last_ordinal' > last_ordinal
<1>1. AsOrdinal(Advanced(clock, wall_now)) \in Ordinal
  BY AdvancedType, AsOrdinalType DEF HlcOK
<1> QED BY <1>1, HlcAssumption DEF HlcOK, NowOrdinal, NextOrdinal, Later, Capped, Ordinal

-----------------------------------------------------------------------------
(***************************************************************************)
(* The inductive invariant.                                                *)
(***************************************************************************)

\* Ids that were given out; next_range_id never goes back.
Given == 1..(next_range_id - 1)

\* The plans as records; exact ones have their timestamp, bounded ones no offset.
PlanRecord == [state : {"none", "reading", "follower_read", "route_to_leaseholder"},
               at : {"leaseholder", "follower"}, exact : BOOLEAN, range_ids : SUBSET Tracked,
               left : SUBSET Tracked, ts : 0..NoBound, offset : Nat, oldest : Ts]

PlansTyped ==
    /\ plan \in [Reader -> PlanRecord]
    /\ \A c \in Reader : IF plan[c].exact THEN plan[c].ts \in Ts ELSE plan[c].offset = 0

TypeInv == MultiRaftOK /\ PlansTyped

\* The ranges chain up from end to end, and ids are used once.
ChainInv ==
    /\ ranges # <<>>
    /\ ranges[1].start_key = NoKey /\ ranges[Len(ranges)].end_key = NoKey
    /\ \A i \in 1..(Len(ranges) - 1) : ranges[i].end_key = ranges[i + 1].start_key
    /\ \A i \in DOMAIN ranges : ranges[i].range_id \in Given
    /\ \A i, j \in DOMAIN ranges : ranges[i].range_id = ranges[j].range_id => i = j

\* A range that was merged away does not come back, and two splits never create the same range.
IdsInv ==
    /\ \A x \in Resharder : resharder[x] # "idle" => new_id[x] \in Given
    /\ \A x \in Resharder : resharder[x] \in {"remove", "forget"} => new_id[x] \notin Routed
    /\ \A x, y \in Resharder :
          resharder[x] \in {"insert", "register"} /\ resharder[y] \in {"insert", "register"}
          /\ new_id[x] = new_id[y] => x = y

\* A routed range has its group and its tracker, unless the split that created it is still at it.
ServedInv ==
    \A r \in Routed :
        /\ r \in groups \/ \E x \in Resharder : resharder[x] = "insert" /\ new_id[x] = r
        /\ r \in trackers \/ Splitting(r)

\* A writer that has found a group loses it only to a merge.
FoundGroup == {"register", "commit", "commit_unregistered", "end", "end_unregistered", "end_lost",
               "applied", "lost"}

WritersInv ==
    \A w \in Writer :
        /\ writer[w] \in FoundGroup \cup {"group"} => rid[w] \in Given
        /\ writer[w] \in FoundGroup => rid[w] \in groups \/ rid[w] \notin Routed
        /\ writer[w] \in {"end_lost", "lost"} => rid[w] \notin Routed

\* Nobody has heard of a range whose tracker a split has yet to register.
Unborn(r) == r \notin Given \/ Splitting(r)

FreshInv ==
    \A r \in Tracked : Unborn(r) =>
        /\ r \notin trackers
        /\ r \notin known /\ follower_closed[r] = 0
        /\ \A u \in sent : u[1] # r
        /\ \A w \in covered : rid[w] # r
        /\ \A c \in Reader : plan[c].state \in {"reading", "follower_read"} =>
              r \notin plan[c].range_ids \ plan[c].left

\* The tracker counts at least the writes that were registered in time ...
Counted(r, t) == {w \in covered : rid[w] = r /\ wts[w] = t}

CountInv ==
    /\ IsFiniteSet(covered)
    /\ \A r \in trackers, t \in Ts : Cardinality(Counted(r, t)) <= in_flight[r][t]

\* ... which stay above closed, and above any bound that an advance is about to close.
AtRange(a, r) == r \in todo[a] /\ \A q \in todo[a] : r <= q

CoveredInv ==
    /\ \A a \in Advancer : todo[a] = {} => bound[a] = NoBound
    /\ \A w \in covered :
          /\ writer[w] \in {"commit", "end", "end_lost"}
          /\ wts[w] > 0
          /\ rid[w] \in trackers =>
                /\ closed[rid[w]] < wts[w]
                /\ \A a \in Advancer : AtRange(a, rid[w]) => bound[a] = NoBound \/ bound[a] < wts[w]

\* What was published, and what a follower made of it, was closed and stays so.
FollowerInv ==
    /\ \A u \in sent : u[1] \in trackers => u[2] <= closed[u[1]]
    /\ \A r \in trackers : follower_closed[r] <= closed[r]
    /\ \A r \in known : \E u \in sent : u[1] = r

\* So does what a plan has read.
PlanInv ==
    \A c \in Reader : plan[c].state \in {"reading", "follower_read"} =>
        \A r \in plan[c].range_ids \ plan[c].left : r \in trackers => UpTo(plan[c]) <= closed[r]

RangesInv ==
    /\ TypeInv /\ ChainInv /\ IdsInv /\ ServedInv /\ WritersInv
    /\ FreshInv /\ CountInv /\ CoveredInv /\ FollowerInv /\ PlanInv

\* With timestamps from the clock, nothing has passed the last ordinal it gave out.
ClockInv ==
    Clocked =>
        /\ \A w \in Writer : wts[w] <= last_ordinal
        /\ \A r \in Tracked : closed[r] <= last_ordinal
        /\ \A a \in Advancer :
              now[a] <= last_ordinal /\ (bound[a] = NoBound \/ bound[a] <= last_ordinal)

\* Each part depends on a few variables only.
LEMMA Frames ==
    /\ ChainInv /\ UNCHANGED topologyVars => ChainInv'
    /\ IdsInv /\ UNCHANGED <<topologyVars, reshardVars>> => IdsInv'
    /\ ServedInv /\ UNCHANGED <<topologyVars, groups, trackers, reshardVars>> => ServedInv'
    /\ WritersInv /\ UNCHANGED <<topologyVars, groups, writer, rid>> => WritersInv'
    /\ FreshInv /\ UNCHANGED <<topologyVars, reshardVars, trackers, known, follower_closed, sent,
                               covered, rid, plan>> => FreshInv'
    /\ CountInv /\ UNCHANGED <<covered, rid, wts, trackers, in_flight>> => CountInv'
    /\ CoveredInv /\ UNCHANGED <<covered, rid, wts, writer, trackers, closed, todo, bound>> => CoveredInv'
    /\ FollowerInv /\ UNCHANGED <<sent, trackers, closed, follower_closed, known>> => FollowerInv'
    /\ PlanInv /\ UNCHANGED <<plan, trackers, closed>> => PlanInv'
<1>1. ChainInv /\ UNCHANGED topologyVars => ChainInv'
  BY DEF ChainInv, Given, topologyVars
<1>2. IdsInv /\ UNCHANGED <<topologyVars, reshardVars>> => IdsInv'
  BY DEF IdsInv, Given, Routed, topologyVars, reshardVars
<1>3. ServedInv /\ UNCHANGED <<topologyVars, groups, trackers, reshardVars>> => ServedInv'
  BY DEF ServedInv, Routed, Splitting, topologyVars, reshardVars
<1>4. WritersInv /\ UNCHANGED <<topologyVars, groups, writer, rid>> => WritersInv'
  BY DEF WritersInv, Given, Routed, topologyVars
<1>5. FreshInv /\ UNCHANGED <<topologyVars, reshardVars, trackers, known, follower_closed, sent,
                              covered, rid, plan>> => FreshInv'
  BY DEF FreshInv, Unborn, Given, Splitting, topologyVars, reshardVars
<1>6. CountInv /\ UNCHANGED <<covered, rid, wts, trackers, in_flight>> => CountInv'
  BY DEF CountInv, Counted
<1>7. CoveredInv /\ UNCHANGED <<covered, rid, wts, writer, trackers, closed, todo, bound>> => CoveredInv'
  BY DEF CoveredInv, AtRange
<1>8. FollowerInv /\ UNCHANGED <<sent, trackers, closed, follower_closed, known>> => FollowerInv'
  BY DEF FollowerInv
<1>9. PlanInv /\ UNCHANGED <<plan, trackers, closed>> => PlanInv'
  BY DEF PlanInv, UpTo
<1> QED BY <1>1, <1>2, <1>3, <1>4, <1>5, <1>6, <1>7, <1>8, <1>9
-----------------------------------------------------------------------------
(***************************************************************************)
(* What the helpers return.                                                *)
(***************************************************************************)

\* A non-empty set of naturals has a least element ...
LEMMA LeastExists ==
    ASSUME NEW S, S \subseteq Nat, S # {}
    PROVE  \E x \in S : \A y \in S : x <= y
<1> DEFINE R == OpToRel(<, Nat)
<1>1. IsWellFoundedOn(R, Nat)
  BY NatLessThanWellFounded
<1>2. \E x \in S : \A y \in S : ~(<<y, x>> \in R)
  <2> HIDE DEF R
  <2> QED
    BY <1>1, WFMin
<1>3. \A x, y \in Nat : y < x => <<y, x>> \in R
  BY DEF OpToRel
<1> HIDE DEF R
<1>4. \A x, y \in Nat : ~(y < x) => x <= y
  OBVIOUS
<1> QED
  BY <1>2, <1>3, <1>4

\* ... and with an upper bound a greatest one.
LEMMA GreatestExists ==
    ASSUME NEW S, S \subseteq Nat, S # {}, NEW b \in Nat, \A y \in S : y <= b
    PROVE  \E x \in S : \A y \in S : y <= x
<1> DEFINE T == {b - y : y \in S}
<1>1. \A y \in S : b - y \in Nat
  OBVIOUS
<1>2. PICK t \in T : \A u \in T : t <= u
  BY <1>1, LeastExists
<1>3. PICK x \in S : t = b - x
  OBVIOUS
<1>4. \A y \in S : b - x <= b - y
  BY <1>2, <1>3
<1> QED
  BY <1>4

\* find_range answers with a routed range, if any covers the key.
LEMMA FindRangeIsRouted ==
    ASSUME TopologyOK, NEW key \in Key
    PROVE  /\ FindRange(key) \in Routed \cup {NoRange}
           /\ Covering(key) # {} => FindRange(key) \in Routed
<1>1. CASE Covering(key) = {}
  BY <1>1 DEF FindRange
<1>2. CASE Covering(key) # {}
  <2>1. Covering(key) \subseteq Nat /\ Covering(key) \subseteq DOMAIN ranges
    BY DEF Covering, TopologyOK
  <2>2. PICK i \in Covering(key) : \A j \in Covering(key) : i <= j
    BY <1>2, <2>1, LeastExists
  <2>3. (CHOOSE k \in Covering(key) : \A j \in Covering(key) : k <= j) \in DOMAIN ranges
    BY <2>1, <2>2
  <2> QED BY <1>2, <2>3 DEF FindRange, Routed
<1> QED BY <1>1, <1>2

\* Ranges that chain up contain every key: take the last that starts at or below it.
LEMMA EveryKeyIsCovered ==
    ASSUME TopologyOK, ChainInv, NEW key \in Key
    PROVE  Covering(key) # {}
<1> DEFINE Below == {i \in DOMAIN ranges : ranges[i].start_key = NoKey \/ ranges[i].start_key <= key}
<1>1. /\ DOMAIN ranges = 1..Len(ranges) /\ Len(ranges) \in Nat \ {0}
      /\ \A i \in DOMAIN ranges : ranges[i] \in RangeRecord
  BY EmptySeq DEF TopologyOK, ChainInv
<1>2. 1 \in Below /\ Below \subseteq Nat /\ \A i \in Below : i <= Len(ranges)
  BY <1>1 DEF ChainInv
<1>3. PICK i \in Below : \A j \in Below : j <= i
  BY <1>1, <1>2, GreatestExists
<1>4. CASE i = Len(ranges)
  BY <1>1, <1>4 DEF ChainInv, Covering, Contains, Key, NoKey, RangeRecord
<1>5. CASE i # Len(ranges)
  <2>1. i + 1 \in DOMAIN ranges /\ i + 1 \notin Below /\ i \in 1..(Len(ranges) - 1)
    BY <1>1, <1>3, <1>5
  <2>2. ranges[i].end_key = ranges[i + 1].start_key
    BY <2>1 DEF ChainInv
  <2> QED BY <1>1, <2>1, <2>2 DEF Covering, Contains, Key, NoKey, RangeRecord
<1> QED BY <1>4, <1>5

\* The bound of an advance stays below every write in flight.
LEMMA BoundIsLow ==
    ASSUME ClosedOK, NEW r \in Tracked, NEW n \in Ts
    PROVE  /\ Bound(r, n) \in Ts /\ Bound(r, n) <= n
           /\ \A t \in Ts : t > 0 /\ in_flight[r][t] > 0 => Bound(r, n) < t
<1> DEFINE target == SaturatingSub(n, target_lag)
<1>1. target \in Ts /\ target <= n
  BY ClosedTimestampsAssumption DEF ClosedOK, SaturatingSub, Ts
<1>2. CASE InFlight(r) = {}
  BY <1>1, <1>2 DEF Bound, InFlight
<1>3. CASE InFlight(r) # {}
  <2> DEFINE least == CHOOSE t \in InFlight(r) : \A u \in InFlight(r) : t <= u
  <2>1. InFlight(r) \subseteq Nat
    BY DEF InFlight, Ts
  <2>2. \E t \in InFlight(r) : \A u \in InFlight(r) : t <= u
    BY <1>3, <2>1, LeastExists
  <2>3. least \in Ts /\ \A u \in InFlight(r) : least <= u
    BY <2>2 DEF InFlight
  <2>4. Bound(r, n) = AtMost(target, SaturatingSub(least, 1))
    BY <1>3 DEF Bound
  <2> HIDE DEF least
  <2>5. \A t \in Ts : in_flight[r][t] > 0 => least <= t
    BY <2>3 DEF InFlight
  <2> QED BY <1>1, <2>3, <2>4, <2>5, ClosedTimestampsAssumption DEF AtMost, SaturatingSub, Ts
<1> QED BY <1>2, <1>3
-----------------------------------------------------------------------------
(***************************************************************************)
(* Types.                                                                  *)
(***************************************************************************)

\* What a split leaves: the ranges up to the one split, its two halves, and the rest.
LEMMA SplitTypes ==
    ASSUME TopologyOK, NEW id, NEW key \in Key, SplitRange(id, key)
    PROVE  /\ TopologyOK'
           /\ Len(ranges') = Len(ranges) + 1
           /\ next_range_id \in RangeId
           /\ \E i \in DOMAIN ranges :
                 \A j \in 1..(Len(ranges) + 1) : ranges'[j] =
                    CASE j < i -> ranges[j]
                      [] j = i -> [ranges[i] EXCEPT !.end_key = key]
                      [] j = i + 1 -> [ranges[i] EXCEPT !.range_id = next_range_id, !.start_key = key]
                      [] OTHER -> ranges[j - 1]
<1>1. PICK i \in DOMAIN ranges :
          ranges' = [j \in 1..(Len(ranges) + 1) |->
                CASE j < i -> ranges[j]
                  [] j = i -> [ranges[i] EXCEPT !.end_key = key]
                  [] j = i + 1 -> [ranges[i] EXCEPT !.range_id = next_range_id, !.start_key = key]
                  [] OTHER -> ranges[j - 1]]
  BY DEF SplitRange
<1>2. Len(ranges) \in Nat /\ DOMAIN ranges = 1..Len(ranges) /\ \A j \in DOMAIN ranges : ranges[j] \in RangeRecord
  BY DEF TopologyOK
<1>3. next_range_id \in RangeId /\ next_range_id' \in 2..(MaxRange + 1)
  BY TopologyAssumption DEF TopologyOK, SplitRange, RangeId
<1>4. [ranges[i] EXCEPT !.end_key = key] \in RangeRecord
  BY <1>2 DEF RangeRecord
<1>5. [ranges[i] EXCEPT !.range_id = next_range_id, !.start_key = key] \in RangeRecord
  BY <1>2, <1>3 DEF RangeRecord
<1>6. \A j \in 1..(Len(ranges) + 1) : ranges'[j] \in RangeRecord
  BY <1>1, <1>2, <1>4, <1>5
<1>7. ranges' \in Seq(RangeRecord) /\ Len(ranges') = Len(ranges) + 1
  BY <1>1, <1>2, <1>6, IsASeq, LenProperties
<1> QED BY <1>1, <1>3, <1>7 DEF TopologyOK

\* What a merge leaves: the ranges before, the merged one, and the rest.
LEMMA MergeTypes ==
    ASSUME TopologyOK, NEW i \in 1..MaxRange, MergeRanges(i)
    PROVE  /\ TopologyOK'
           /\ i \in 1..(Len(ranges) - 1) /\ Len(ranges') = Len(ranges) - 1
           /\ MergedId(i) \in RangeId
           /\ \A j \in 1..(Len(ranges) - 1) : ranges'[j] =
                    CASE j < i -> ranges[j]
                      [] j = i -> [range_id |-> MergedId(i),
                                   start_key |-> ranges[i].start_key, end_key |-> ranges[i + 1].end_key]
                      [] OTHER -> ranges[j + 1]
<1>1. ranges' = [j \in 1..(Len(ranges) - 1) |->
                CASE j < i -> ranges[j]
                  [] j = i -> [range_id |-> MergedId(i),
                               start_key |-> ranges[i].start_key, end_key |-> ranges[i + 1].end_key]
                  [] OTHER -> ranges[j + 1]]
  BY DEF MergeRanges
<1>2. Len(ranges) \in Nat /\ DOMAIN ranges = 1..Len(ranges) /\ \A j \in DOMAIN ranges : ranges[j] \in RangeRecord
  BY DEF TopologyOK
<1>3. i \in 1..(Len(ranges) - 1) /\ i + 1 \in DOMAIN ranges
  BY <1>2 DEF MergeRanges
<1>4. MergedId(i) \in RangeId
  BY <1>2, <1>3 DEF MergedId, RangeRecord
<1>5. [range_id |-> MergedId(i), start_key |-> ranges[i].start_key, end_key |-> ranges[i + 1].end_key]
        \in RangeRecord
  BY <1>2, <1>3, <1>4 DEF RangeRecord
<1>6. \A j \in 1..(Len(ranges) - 1) : ranges'[j] \in RangeRecord
  BY <1>1, <1>2, <1>3, <1>5
<1>7. ranges' \in Seq(RangeRecord) /\ Len(ranges') = Len(ranges) - 1
  BY <1>1, <1>2, <1>3, <1>6, IsASeq, LenProperties
<1> QED BY <1>1, <1>3, <1>4, <1>7 DEF TopologyOK, MergeRanges

\* The plan after a range was read: what it is sure of has only come down to what is closed.
LEMMA PlanAfterFacts ==
    ASSUME NEW p \in PlanRecord, p.state = "reading", NEW r \in p.left, PlanOK(p),
           IF p.exact THEN p.ts \in Ts ELSE p.offset = 0,
           NEW has_tracker \in BOOLEAN, NEW closed_ts \in Ts
    PROVE  LET q == PlanAfter(p, r, has_tracker, closed_ts) IN
           /\ q \in PlanRecord /\ PlanOK(q)
           /\ IF q.exact THEN q.ts \in Ts ELSE q.offset = 0
           /\ q.range_ids = p.range_ids /\ q.left = p.left \ {r}
           /\ UpTo(q) <= UpTo(p) /\ UpTo(q) \in Ts
           /\ q.state \in {"reading", "follower_read"} => has_tracker /\ UpTo(q) <= closed_ts
<1> DEFINE ts == IF p.exact THEN p.ts ELSE AtMost(p.ts, closed_ts)
           left == p.left \ {r}
           q == PlanAfter(p, r, has_tracker, closed_ts)
<1>1. q.state \in {"reading", "follower_read", "route_to_leaseholder"} /\ q.at = p.at /\ q.exact = p.exact
      /\ q.range_ids = p.range_ids /\ q.left = left /\ q.ts = ts /\ q.offset = p.offset /\ q.oldest = p.oldest
  BY DEF PlanAfter, PlanRecord
<1>2. q = [p EXCEPT !.ts = ts, !.left = left, !.state = q.state]
  BY DEF PlanAfter, PlanRecord
<1>3. ts \in Ts
  BY ClosedTimestampsAssumption DEF AtMost, Ts, NoBound, PlanRecord
<1>4. q \in PlanRecord
  <2>1. \A s \in {"reading", "follower_read", "route_to_leaseholder"}, u \in 0..NoBound, l \in SUBSET Tracked :
           [p EXCEPT !.ts = u, !.left = l, !.state = s] \in PlanRecord
    BY DEF PlanRecord
  <2>2. ts \in 0..NoBound /\ left \in SUBSET Tracked
    BY <1>3, ClosedTimestampsAssumption DEF PlanRecord, NoBound, Ts
  <2>3. PICK s \in {"reading", "follower_read", "route_to_leaseholder"} :
           q = [p EXCEPT !.ts = ts, !.left = left, !.state = s]
    BY <1>1, <1>2
  <2> HIDE DEF q, ts, left
  <2> QED BY <2>1, <2>2, <2>3
<1>5. q.state = "follower_read" => left = {} /\ ts # 0
  BY ClosedTimestampsAssumption DEF PlanAfter, PlanRecord, AtMost
<1>6. PlanOK(q)
  <2> HIDE DEF q
  <2> QED BY <1>1, <1>3, <1>4, <1>5, ClosedTimestampsAssumption DEF PlanOK, PlanRecord, Ts, NoBound
<1>7. UpTo(q) <= UpTo(p) /\ UpTo(q) \in Ts
  <2> HIDE DEF q
  <2> QED BY <1>1, <1>3, ClosedTimestampsAssumption DEF UpTo, AtMost, PlanRecord, Ts, NoBound
<1>8. q.state \in {"reading", "follower_read"} => has_tracker
  BY DEF PlanAfter, PlanRecord
<1>9. ASSUME q.state \in {"reading", "follower_read"} PROVE UpTo(q) <= closed_ts
  <2>1. CASE p.exact
    <3>1. UpTo(p) <= closed_ts
      <4>1. ~(UpTo(p) > closed_ts)
        BY <1>9, <2>1 DEF PlanAfter, PlanRecord
      <4>2. UpTo(p) \in Nat
        BY ClosedTimestampsAssumption DEF UpTo, AtMost, PlanRecord, NoBound
      <4> QED BY <4>1, <4>2 DEF Ts
    <3>2. UpTo(q) = UpTo(p)
      <4> HIDE DEF q
      <4> QED BY <1>1, <2>1 DEF UpTo
    <3> QED BY <3>1, <3>2
  <2>2. CASE ~p.exact
    <3> HIDE DEF q
    <3> QED BY <1>1, <2>2, ClosedTimestampsAssumption DEF UpTo, AtMost, PlanRecord, Ts, NoBound
  <2> QED BY <2>1, <2>2
<1> QED BY <1>1, <1>3, <1>4, <1>6, <1>7, <1>8, <1>9

\* Types stay where nothing is assigned.
LEMMA TypeFrames ==
    /\ TopologyOK /\ UNCHANGED topologyVars => TopologyOK'
    /\ ClosedOK /\ PlansTyped /\ UNCHANGED closedVars => ClosedOK' /\ PlansTyped'
    /\ ClosedOK /\ UNCHANGED plan => \A c \in Reader : PlanOK(plan'[c])
    /\ PlansTyped /\ UNCHANGED plan => PlansTyped'
<1>1. TopologyOK /\ UNCHANGED topologyVars => TopologyOK'
  BY DEF TopologyOK, topologyVars
<1>2. PlansTyped /\ UNCHANGED plan => PlansTyped'
  BY DEF PlansTyped
<1>3. ClosedOK /\ UNCHANGED plan => \A c \in Reader : PlanOK(plan'[c])
  BY DEF ClosedOK
<1>4. ClosedOK /\ UNCHANGED closedVars => ClosedOK'
  BY DEF ClosedOK, closedVars, trackerVars, advanceVars, sideVars
<1> QED BY <1>1, <1>2, <1>3, <1>4 DEF closedVars

\* What the invariant says of ids.
LEMMA IdFacts ==
    ASSUME RangesInv
    PROVE  /\ Routed \subseteq Given /\ Given \subseteq RangeId /\ RangeId = Tracked
           /\ next_range_id \in Nat /\ trackers \subseteq Tracked /\ known \subseteq Tracked
           /\ covered \subseteq Writer
           /\ \A w \in covered : rid[w] \in Given
           /\ \A w \in Writer : rid[w] \in RangeId \cup {NoRange} /\ wts[w] \in Ts
           /\ \A a \in Advancer : todo[a] \subseteq trackers
<1> USE DEF RangesInv, TypeInv, MultiRaftOK
<1>1. Routed \subseteq Given
  BY DEF ChainInv, Routed
<1>2. Given \subseteq RangeId /\ next_range_id \in Nat
  BY TopologyAssumption DEF TopologyOK, Given, RangeId
<1>3. \A w \in covered : rid[w] \in Given
  BY DEF WritersInv, CoveredInv, FoundGroup
<1>4. \A a \in Advancer : todo[a] \subseteq trackers
  BY DEF ClosedOK
<1> QED BY <1>1, <1>2, <1>3, <1>4, MultiRaftAssumption DEF ClosedOK
-----------------------------------------------------------------------------
(***************************************************************************)
(* The steps of a write.                                                   *)
(***************************************************************************)

\* A writer that has not registered is not counted: its steps do not matter to the tracker.
LEMMA UncountedSteps ==
    ASSUME RangesInv, UNCHANGED <<closedVars, covered>>,
           \A v \in covered : rid'[v] = rid[v] /\ wts'[v] = wts[v] /\ writer'[v] \in {"commit", "end", "end_lost"}
    PROVE  CountInv' /\ CoveredInv'
<1>1. CountInv'
  <2>1. \A r \in trackers, t \in Ts : Counted(r, t)' = Counted(r, t)
    BY DEF Counted
  <2> QED BY <2>1 DEF RangesInv, CountInv, closedVars, trackerVars
<1>2. CoveredInv'
  BY DEF RangesInv, CoveredInv, AtRange, closedVars, trackerVars, advanceVars
<1> QED BY <1>1, <1>2

\* A write looks its range up.
LEMMA FindWriteRangeStep ==
    ASSUME RangesInv, NEW w \in Writer, NEW key \in Key, NEW ts \in Ts, FindWriteRange(w, key, ts)
    PROVE  RangesInv'
<1> USE DEF RangesInv, FindWriteRange, Goto
<1>1. FindRange(key) \in Routed \cup {NoRange}
  BY FindRangeIsRouted DEF TypeInv, MultiRaftOK
<1>2. TypeInv'
  <2>1. FindRange(key) \in RangeId \cup {NoRange}
    BY <1>1, IdFacts
  <2>2. TopologyOK' /\ ClosedOK' /\ PlansTyped'
    BY TypeFrames DEF TypeInv, MultiRaftOK
  <2> QED BY <2>1, <2>2 DEF TypeInv, MultiRaftOK, reshardVars
<1>3. ChainInv' /\ IdsInv' /\ ServedInv' /\ FollowerInv' /\ PlanInv'
  BY Frames DEF closedVars, trackerVars, sideVars
<1>4. WritersInv'
  <2>1. \A v \in Writer \ {w} : writer'[v] = writer[v] /\ rid'[v] = rid[v]
    BY DEF TypeInv, MultiRaftOK
  <2>2. rid'[w] = FindRange(key) /\ writer'[w] = IF FindRange(key) = NoRange THEN "refused" ELSE "group"
    BY DEF TypeInv, MultiRaftOK
  <2> QED BY <1>1, <2>1, <2>2, IdFacts DEF WritersInv, FoundGroup, Routed, Given, topologyVars
<1>5. w \notin covered /\ covered \subseteq Writer
  BY IdFacts DEF CoveredInv
<1>6. \A v \in covered : rid'[v] = rid[v] /\ wts'[v] = wts[v] /\ writer'[v] = writer[v]
  BY <1>5 DEF TypeInv, MultiRaftOK
<1>7. FreshInv'
  BY <1>6 DEF FreshInv, Unborn, Given, Splitting, topologyVars, reshardVars, closedVars, trackerVars, sideVars
<1>8. CountInv' /\ CoveredInv'
  BY <1>6, UncountedSteps DEF CoveredInv
<1> QED BY <1>2, <1>3, <1>4, <1>7, <1>8

\* A write gets its timestamp.
LEMMA TakeTimestampStep ==
    ASSUME RangesInv, NEW w \in Writer, NEW ts \in Ts, writer[w] = "propose",
           wts' = [wts EXCEPT ![w] = ts],
           UNCHANGED <<topologyVars, closedVars, active, groups, writer, rid, reshardVars, covered>>
    PROVE  RangesInv'
<1> USE DEF RangesInv
<1>1. TypeInv'
  BY TypeFrames DEF TypeInv, MultiRaftOK, reshardVars
<1>2. ChainInv' /\ IdsInv' /\ ServedInv' /\ WritersInv' /\ FreshInv' /\ FollowerInv' /\ PlanInv'
  BY Frames DEF closedVars, trackerVars, sideVars
<1>3. \A v \in covered : rid'[v] = rid[v] /\ wts'[v] = wts[v] /\ writer'[v] = writer[v]
  BY IdFacts DEF TypeInv, MultiRaftOK, CoveredInv
<1>4. CountInv' /\ CoveredInv'
  BY <1>3, UncountedSteps DEF CoveredInv
<1> QED BY <1>1, <1>2, <1>4

\* A write finds its group, or is refused.
LEMMA ProposeToGroupStep ==
    ASSUME RangesInv, NEW w \in Writer, ProposeToGroup(w)
    PROVE  RangesInv'
<1> USE DEF RangesInv, ProposeToGroup, Goto
<1>1. TypeInv'
  BY TypeFrames DEF TypeInv, MultiRaftOK, reshardVars
<1>2. ChainInv' /\ IdsInv' /\ ServedInv' /\ FreshInv' /\ FollowerInv' /\ PlanInv'
  BY Frames DEF closedVars, trackerVars, sideVars
<1>3. \A v \in Writer \ {w} : writer'[v] = writer[v]
  BY DEF TypeInv, MultiRaftOK
<1>4. WritersInv'
  <2>1. writer'[w] = IF rid[w] \in groups THEN "register" ELSE "refused"
    BY DEF TypeInv, MultiRaftOK
  <2> QED BY <1>3, <2>1 DEF WritersInv, FoundGroup, Routed, Given, topologyVars
<1>5. \A v \in covered : writer'[v] = writer[v]
  BY <1>3, IdFacts DEF CoveredInv
<1>6. CountInv' /\ CoveredInv'
  BY <1>5, UncountedSteps DEF CoveredInv
<1> QED BY <1>1, <1>2, <1>4, <1>6

\* A write commits through its group, or finds that a merge took it away.
LEMMA CommitAndApplyStep ==
    ASSUME RangesInv, NEW w \in Writer, CommitAndApply(w)
    PROVE  RangesInv'
<1> USE DEF RangesInv, CommitAndApply, Goto
<1>1. TypeInv'
  BY TypeFrames DEF TypeInv, MultiRaftOK, reshardVars
<1>2. ChainInv' /\ IdsInv' /\ ServedInv' /\ FreshInv' /\ FollowerInv' /\ PlanInv'
  BY Frames DEF closedVars, trackerVars, sideVars
<1>3. \A v \in Writer \ {w} : writer'[v] = writer[v]
  BY DEF TypeInv, MultiRaftOK
<1>4. writer'[w] = IF rid[w] \notin groups THEN "end_lost"
                   ELSE IF writer[w] = "commit" THEN "end" ELSE "end_unregistered"
  BY DEF TypeInv, MultiRaftOK
<1>5. WritersInv'
  BY <1>3, <1>4 DEF WritersInv, FoundGroup, Routed, Given, topologyVars
<1>6. \A v \in covered : writer'[v] \in {"commit", "end", "end_lost"}
  BY <1>3, <1>4, IdFacts DEF CoveredInv
<1>7. CountInv' /\ CoveredInv'
  BY <1>6, UncountedSteps
<1> QED BY <1>1, <1>2, <1>5, <1>7

\* begin_write counts the write in flight, unless its range is closed or gone.
LEMMA RegisterWriteStep ==
    ASSUME RangesInv, NEW w \in Writer, RegisterWrite(w)
    PROVE  RangesInv'
<1> USE DEF RangesInv, RegisterWrite, BeginWrite, Goto
<1> DEFINE r == rid[w]
           t == wts[w]
<1>1. r \in Given /\ r \in Tracked /\ t \in Ts /\ w \notin covered
  BY IdFacts DEF WritersInv, FoundGroup, CoveredInv
<1>2. \A v \in Writer \ {w} : writer'[v] = writer[v]
  BY DEF TypeInv, MultiRaftOK
<1>3. writer'[w] = IF r \in trackers THEN "commit" ELSE "commit_unregistered"
  BY DEF TypeInv, MultiRaftOK
<1>4. covered' \subseteq covered \cup {w} /\ covered \subseteq covered' /\ (w \in covered' => InTime(r, t))
  BY <1>1
<1>5. /\ in_flight' \in [Tracked -> [Ts -> Nat]]
      /\ \A s \in Tracked, u \in Ts : in_flight'[s][u] =
            IF s = r /\ u = t /\ r \in trackers THEN in_flight[s][u] + 1 ELSE in_flight[s][u]
  BY <1>1 DEF TypeInv, MultiRaftOK, ClosedOK
<1>6. TypeInv'
  <2>1. TopologyOK' /\ PlansTyped'
    BY TypeFrames DEF TypeInv, MultiRaftOK
  <2>2. ClosedOK'
    BY <1>1, <1>5, TypeFrames DEF TypeInv, MultiRaftOK, ClosedOK, advanceVars, sideVars
  <2> QED BY <1>4, <2>1, <2>2 DEF TypeInv, MultiRaftOK, reshardVars
<1>7. ChainInv' /\ IdsInv' /\ ServedInv' /\ FollowerInv' /\ PlanInv'
  BY Frames DEF sideVars
<1>8. WritersInv'
  BY <1>2, <1>3 DEF WritersInv, FoundGroup, Routed, Given, topologyVars
<1>9. FreshInv'
  <2>1. \A s \in Tracked : Unborn(s) => \A v \in covered' : rid[v] # s
    BY <1>4 DEF FreshInv, InTime
  <2> QED BY <2>1 DEF FreshInv, Unborn, Given, Splitting, topologyVars, reshardVars, sideVars
<1>10. CountInv'
  <2>1. IsFiniteSet(covered')
    BY FS_AddElement DEF CountInv
  <2>2. ASSUME NEW s \in trackers, NEW u \in Ts
        PROVE  Cardinality(Counted(s, u)') <= in_flight'[s][u]
    <3>1. IsFiniteSet(Counted(s, u)) /\ Cardinality(Counted(s, u)) <= in_flight[s][u]
      BY <2>2, FS_Subset DEF CountInv, Counted
    <3>2. in_flight[s][u] \in Nat /\ s \in Tracked /\ Cardinality(Counted(s, u)) \in Nat
      BY <2>2, <3>1, IdFacts, FS_CardinalityType DEF TypeInv, MultiRaftOK, ClosedOK
    <3>3. CASE Counted(s, u)' = Counted(s, u)
      BY <1>5, <3>1, <3>2, <3>3
    <3>4. CASE Counted(s, u)' # Counted(s, u)
      <4>1. Counted(s, u)' = Counted(s, u) \cup {w} /\ s = r /\ u = t /\ r \in trackers
        BY <1>4, <3>4 DEF Counted, InTime
      <4>2. Cardinality(Counted(s, u) \cup {w}) = Cardinality(Counted(s, u)) + 1
        <5>1. w \notin Counted(s, u)
          BY <1>1 DEF Counted
        <5> QED BY <3>1, <5>1, FS_AddElement
      <4>3. in_flight'[s][u] = in_flight[s][u] + 1
        BY <1>5, <3>2, <4>1
      <4>4. \A m, n \in Nat : m <= n => m + 1 <= n + 1
        OBVIOUS
      <4> QED BY <3>1, <3>2, <4>1, <4>2, <4>3, <4>4
    <3> QED BY <3>3, <3>4
  <2> QED BY <2>1, <2>2 DEF CountInv
<1>11. CoveredInv'
  <2>1. \A v \in covered : writer'[v] \in {"commit", "end", "end_lost"}
    BY <1>1, <1>2, IdFacts DEF CoveredInv
  <2>2. w \in covered' => /\ writer'[w] = "commit" /\ closed[r] < t
                          /\ \A a \in Advancer : AtRange(a, r) => bound[a] = NoBound \/ bound[a] < t
    BY <1>3, <1>4 DEF InTime, AtRange
  <2>3. w \in covered' => t > 0
    BY <1>1, <2>2 DEF TypeInv, MultiRaftOK, ClosedOK, Ts
  <2> QED BY <1>1, <1>4, <2>1, <2>2, <2>3 DEF CoveredInv, AtRange, advanceVars
<1> QED BY <1>6, <1>7, <1>8, <1>9, <1>10, <1>11

\* end_write takes one registration of that time away, not necessarily the writer's own.
LEMMA EndRegistrationStep ==
    ASSUME RangesInv, NEW w \in Writer, EndRegistration(w)
    PROVE  RangesInv'
<1> USE DEF RangesInv, EndRegistration, EndWrite, Goto
<1> DEFINE r == rid[w]
           t == wts[w]
<1>1. r \in Given /\ r \in Tracked /\ t \in Ts
  BY IdFacts DEF WritersInv, FoundGroup
<1>2. \A v \in Writer \ {w} : writer'[v] = writer[v]
  BY DEF TypeInv, MultiRaftOK
<1>3. writer'[w] = IF writer[w] = "end_lost" THEN "lost" ELSE "applied"
  BY DEF TypeInv, MultiRaftOK
<1>4. covered' \subseteq covered /\ w \notin covered'
  BY DEF SameWrite
<1>5. /\ in_flight' \in [Tracked -> [Ts -> Nat]]
      /\ \A s \in Tracked, u \in Ts : in_flight'[s][u] =
            IF s = r /\ u = t THEN SaturatingSub(in_flight[s][u], 1) ELSE in_flight[s][u]
  BY <1>1 DEF TypeInv, MultiRaftOK, ClosedOK, SaturatingSub
<1>6. TypeInv'
  <2>1. TopologyOK' /\ PlansTyped'
    BY TypeFrames DEF TypeInv, MultiRaftOK
  <2>2. \A s \in Tracked \ trackers, u \in Ts : in_flight'[s][u] = 0
    BY <1>5 DEF TypeInv, MultiRaftOK, ClosedOK, SaturatingSub
  <2>3. ClosedOK'
    BY <1>1, <1>5, <2>2, TypeFrames DEF TypeInv, MultiRaftOK, ClosedOK, advanceVars, sideVars
  <2> QED BY <1>4, <2>1, <2>3 DEF TypeInv, MultiRaftOK, reshardVars
<1>7. ChainInv' /\ IdsInv' /\ ServedInv' /\ FollowerInv' /\ PlanInv'
  BY Frames DEF sideVars
<1>8. WritersInv'
  BY <1>2, <1>3 DEF WritersInv, FoundGroup, Routed, Given, topologyVars
<1>9. FreshInv'
  BY <1>4 DEF FreshInv, Unborn, Given, Splitting, topologyVars, reshardVars, sideVars
<1>10. CountInv'
  <2>1. IsFiniteSet(covered')
    BY <1>4, FS_Subset DEF CountInv
  <2>2. ASSUME NEW s \in trackers, NEW u \in Ts
        PROVE  Cardinality(Counted(s, u)') <= in_flight'[s][u]
    <3>1. IsFiniteSet(Counted(s, u)) /\ Cardinality(Counted(s, u)) <= in_flight[s][u]
      BY <2>2, FS_Subset DEF CountInv, Counted
    <3>2. in_flight[s][u] \in Nat /\ s \in Tracked /\ Cardinality(Counted(s, u)) \in Nat
      BY <2>2, <3>1, IdFacts, FS_CardinalityType DEF TypeInv, MultiRaftOK, ClosedOK
    <3>3. Counted(s, u)' \subseteq Counted(s, u)
      BY <1>4 DEF Counted
    <3>4. Cardinality(Counted(s, u)') <= Cardinality(Counted(s, u)) /\ Cardinality(Counted(s, u)') \in Nat
      BY <3>1, <3>3, FS_Subset, FS_CardinalityType
    <3>5. CASE s # r \/ u # t
      BY <1>5, <3>1, <3>2, <3>4, <3>5
    <3>6. CASE s = r /\ u = t /\ w \in covered
      <4>1. Counted(s, u)' = Counted(s, u) \ {w} /\ w \in Counted(s, u)
        BY <3>6, IdFacts DEF Counted
      <4>2. Cardinality(Counted(s, u)') = Cardinality(Counted(s, u)) - 1
        BY <3>1, <4>1, FS_RemoveElement
      <4> QED BY <1>5, <3>1, <3>2, <3>4, <3>6, <4>2 DEF SaturatingSub
    <3>7. CASE s = r /\ u = t /\ w \notin covered
      <4>1. Counted(s, u)' = {}
        BY <3>7, IdFacts DEF Counted, SameWrite
      <4> QED BY <1>5, <3>2, <3>7, <4>1, FS_EmptySet DEF SaturatingSub
    <3> QED BY <3>5, <3>6, <3>7
  <2> QED BY <2>1, <2>2 DEF CountInv
<1>11. CoveredInv'
  BY <1>2, <1>4, IdFacts DEF CoveredInv, AtRange, advanceVars
<1> QED BY <1>6, <1>7, <1>8, <1>9, <1>10, <1>11
-----------------------------------------------------------------------------
(***************************************************************************)
(* Splits and merges.                                                      *)
(***************************************************************************)

\* A split adds one range, with the next id, and the ranges still chain up.
LEMMA SplitKeepsChain ==
    ASSUME TopologyOK, ChainInv, NEW id, NEW key \in Key, SplitRange(id, key)
    PROVE  ChainInv' /\ Routed' = Routed \cup {next_range_id}
<1> DEFINE n == Len(ranges)
<1>1. n \in Nat \ {0} /\ DOMAIN ranges = 1..n /\ \A j \in 1..n : ranges[j] \in RangeRecord
  BY EmptySeq DEF TopologyOK, ChainInv
<1>2. Len(ranges') = n + 1 /\ DOMAIN ranges' = 1..(n + 1)
  <2>1. TopologyOK' /\ Len(ranges') = n + 1
    BY SplitTypes
  <2>2. ranges' \in Seq(RangeRecord)
    BY <2>1 DEF TopologyOK
  <2> QED BY <2>1, <2>2
<1>3. PICK i \in 1..n : \A j \in 1..(n + 1) : ranges'[j] =
          CASE j < i -> ranges[j]
            [] j = i -> [ranges[i] EXCEPT !.end_key = key]
            [] j = i + 1 -> [ranges[i] EXCEPT !.range_id = next_range_id, !.start_key = key]
            [] OTHER -> ranges[j - 1]
  BY <1>1, SplitTypes, ZenonT(30)
<1>4. \A j \in 1..(n + 1) :
          /\ ranges'[j].range_id =
                IF j <= i THEN ranges[j].range_id ELSE IF j = i + 1 THEN next_range_id ELSE ranges[j - 1].range_id
          /\ ranges'[j].start_key =
                IF j <= i THEN ranges[j].start_key ELSE IF j = i + 1 THEN key ELSE ranges[j - 1].start_key
          /\ ranges'[j].end_key =
                IF j < i THEN ranges[j].end_key ELSE IF j = i THEN key ELSE ranges[j - 1].end_key
  <2> TAKE j \in 1..(n + 1)
  <2>1. ranges[i] \in RangeRecord
    BY <1>1
  <2>2. CASE j < i
    BY <1>1, <1>3, <2>2
  <2>3. CASE j = i
    BY <1>1, <1>3, <2>1, <2>3 DEF RangeRecord
  <2>4. CASE j = i + 1
    <3>1. ranges'[j] = [ranges[i] EXCEPT !.range_id = next_range_id, !.start_key = key]
      BY <1>1, <1>3, <2>4
    <3> QED BY <1>1, <2>1, <2>4, <3>1 DEF RangeRecord
  <2>5. CASE j > i + 1
    BY <1>1, <1>3, <2>5
  <2> QED BY <1>1, <2>2, <2>3, <2>4, <2>5
<1>5. next_range_id' = next_range_id + 1 /\ next_range_id \in Nat \ {0}
  BY TopologyAssumption DEF SplitRange, TopologyOK
<1>6. \A j \in 1..n : ranges[j].range_id \in 1..(next_range_id - 1)
  BY <1>1 DEF ChainInv, Given
<1>7. ranges' # <<>> /\ ranges'[1].start_key = NoKey /\ ranges'[n + 1].end_key = NoKey
  BY <1>1, <1>2, <1>4, EmptySeq DEF ChainInv
<1>8. \A j \in 1..n : ranges'[j].end_key = ranges'[j + 1].start_key
  <2> TAKE j \in 1..n
  <2>1. CASE j < i
    BY <1>1, <1>4, <2>1 DEF ChainInv
  <2>2. CASE j = i
    BY <1>1, <1>4, <2>2
  <2>3. CASE j > i
    <3>1. j - 1 \in 1..(n - 1) /\ j + 1 \in 1..(n + 1) /\ (j - 1) + 1 = j /\ (j + 1) - 1 = j
      BY <1>1, <2>3
    <3>2. ranges[j - 1].end_key = ranges[j].start_key
      BY <3>1 DEF ChainInv
    <3> QED BY <1>4, <2>3, <3>1, <3>2
  <2> QED BY <1>1, <2>1, <2>2, <2>3
<1>9. \A j \in 1..(n + 1) : ranges'[j].range_id \in 1..next_range_id
  BY <1>1, <1>4, <1>5, <1>6, SMTT(30)
<1>10. \A j, k \in 1..(n + 1) : ranges'[j].range_id = ranges'[k].range_id => j = k
  <2>1. \A j, k \in 1..n : ranges[j].range_id = ranges[k].range_id => j = k
    BY <1>1 DEF ChainInv
  <2> DEFINE old(j) == IF j <= i THEN j ELSE j - 1
  <2>2. \A j \in 1..(n + 1) : j # i + 1 =>
            old(j) \in 1..n /\ ranges'[j].range_id = ranges[old(j)].range_id
            /\ ranges'[j].range_id # next_range_id
    BY <1>1, <1>4, <1>5, <1>6, SMTT(30)
  <2>3. ranges'[i + 1].range_id = next_range_id
    BY <1>1, <1>4
  <2> QED BY <1>1, <2>1, <2>2, <2>3
<1>11. Routed' = Routed \cup {next_range_id}
  <2>1. \A j \in 1..n : \E k \in 1..(n + 1) : ranges'[k].range_id = ranges[j].range_id
    <3> TAKE j \in 1..n
    <3>1. CASE j <= i
      BY <1>1, <1>4, <3>1
    <3>2. CASE j > i
      <4>1. j + 1 \in 1..(n + 1) /\ (j + 1) - 1 = j /\ j + 1 > i + 1
        BY <1>1, <3>2
      <4>2. ranges'[j + 1].range_id = ranges[j].range_id
        BY <1>1, <1>4, <4>1
      <4> QED BY <4>1, <4>2
    <3> QED BY <1>1, <3>1, <3>2
  <2>2. i + 1 \in 1..(n + 1) /\ ranges'[i + 1].range_id = next_range_id
    BY <1>1, <1>4
  <2>3. \A j \in 1..(n + 1) : ranges'[j].range_id \in Routed \cup {next_range_id}
    <3> TAKE j \in 1..(n + 1)
    <3>1. CASE j <= i
      BY <1>1, <1>4, <3>1, SMTT(30) DEF Routed
    <3>2. CASE j = i + 1
      BY <1>1, <1>4, <3>2
    <3>3. CASE j > i + 1
      <4>1. j - 1 \in 1..n
        BY <1>1, <3>3
      <4> QED BY <1>1, <1>4, <3>3, <4>1 DEF Routed
    <3> QED BY <1>1, <3>1, <3>2, <3>3
  <2> QED BY <1>1, <1>2, <2>1, <2>2, <2>3 DEF Routed
<1> QED BY <1>2, <1>5, <1>7, <1>8, <1>9, <1>10, <1>11, SMTT(30) DEF ChainInv, Given

\* The id of the two that a merge drops.
Dropped(i) ==
    IF MergedId(i) = ranges[i].range_id THEN ranges[i + 1].range_id ELSE ranges[i].range_id

\* A merge takes one range away for good, and the ranges still chain up.
LEMMA MergeKeepsChain ==
    ASSUME TopologyOK, ChainInv, NEW i \in 1..MaxRange, MergeRanges(i)
    PROVE  ChainInv' /\ Dropped(i) \in Routed /\ Routed' = Routed \ {Dropped(i)}
<1> DEFINE n == Len(ranges)
<1>1. n \in Nat \ {0} /\ DOMAIN ranges = 1..n /\ \A j \in 1..n : ranges[j] \in RangeRecord
  BY EmptySeq DEF TopologyOK, ChainInv
<1>2. Len(ranges') = n - 1 /\ DOMAIN ranges' = 1..(n - 1) /\ i \in 1..(n - 1) /\ i + 1 \in 1..n
  <2>1. TopologyOK' /\ Len(ranges') = n - 1 /\ i \in 1..(n - 1)
    BY MergeTypes
  <2>2. ranges' \in Seq(RangeRecord)
    BY <2>1 DEF TopologyOK
  <2> QED BY <1>1, <2>1, <2>2
<1>3. \A j \in 1..(n - 1) :
          /\ ranges'[j].range_id =
                IF j < i THEN ranges[j].range_id ELSE IF j = i THEN MergedId(i) ELSE ranges[j + 1].range_id
          /\ ranges'[j].start_key = IF j <= i THEN ranges[j].start_key ELSE ranges[j + 1].start_key
          /\ ranges'[j].end_key = IF j < i THEN ranges[j].end_key ELSE ranges[j + 1].end_key
  BY <1>1, <1>2, MergeTypes
<1>4. \A j, k \in 1..n : ranges[j].range_id = ranges[k].range_id => j = k
  BY <1>1 DEF ChainInv
<1>5. /\ MergedId(i) # Dropped(i)
      /\ MergedId(i) \in {ranges[i].range_id, ranges[i + 1].range_id}
      /\ Dropped(i) \in {ranges[i].range_id, ranges[i + 1].range_id}
  BY <1>2, <1>4 DEF MergedId, Dropped
<1>6. ranges' # <<>> /\ ranges'[1].start_key = NoKey /\ ranges'[n - 1].end_key = NoKey
  BY <1>1, <1>2, <1>3, EmptySeq DEF ChainInv
<1>7. \A j \in 1..(n - 2) : ranges'[j].end_key = ranges'[j + 1].start_key
  <2> TAKE j \in 1..(n - 2)
  <2>1. CASE j < i
    BY <1>1, <1>2, <1>3, <2>1 DEF ChainInv
  <2>2. CASE j >= i
    <3>1. j + 1 \in 1..(n - 1) /\ (j + 1) + 1 \in 1..n /\ j \in 1..(n - 1)
      BY <1>1, <1>2, <2>2
    <3>2. ranges[j + 1].end_key = ranges[(j + 1) + 1].start_key
      BY <3>1 DEF ChainInv
    <3> QED BY <1>2, <1>3, <2>2, <3>1, <3>2
  <2> QED BY <1>1, <1>2, <2>1, <2>2
<1>8. \A j \in 1..(n - 1) : ranges'[j].range_id \in Given
  BY <1>1, <1>2, <1>3, <1>5, SMTT(30) DEF ChainInv
<1> DEFINE old(j) == IF j < i THEN j
                     ELSE IF j = i THEN (IF MergedId(i) = ranges[i].range_id THEN i ELSE i + 1)
                     ELSE j + 1
<1>9. \A j \in 1..(n - 1) :
          old(j) \in 1..n /\ ranges'[j].range_id = ranges[old(j)].range_id /\ ranges[old(j)].range_id # Dropped(i)
  <2> TAKE j \in 1..(n - 1)
  <2>1. CASE j = i
    BY <1>1, <1>2, <1>3, <1>5, <2>1 DEF MergedId
  <2>2. CASE j # i
    <3>1. old(j) \in 1..n /\ old(j) # i /\ old(j) # i + 1 /\ ranges'[j].range_id = ranges[old(j)].range_id
      BY <1>1, <1>2, <1>3, <2>2
    <3> QED BY <1>2, <1>4, <1>5, <3>1
  <2> QED BY <2>1, <2>2
<1>10. \A j, k \in 1..(n - 1) : ranges'[j].range_id = ranges'[k].range_id => j = k
  <2>1. \A j, k \in 1..(n - 1) : old(j) = old(k) => j = k
    BY <1>1, <1>2
  <2> HIDE DEF old
  <2> QED BY <1>4, <1>9, <2>1
<1>11. Routed' = Routed \ {Dropped(i)}
  <2>1. \A j \in 1..(n - 1) : ranges'[j].range_id \in Routed \ {Dropped(i)}
    <3> HIDE DEF old
    <3> QED BY <1>1, <1>9 DEF Routed
  <2>2. ASSUME NEW j \in 1..n, ranges[j].range_id # Dropped(i)
        PROVE  \E k \in 1..(n - 1) : ranges'[k].range_id = ranges[j].range_id
    <3>1. CASE j < i
      BY <1>1, <1>2, <1>3, <3>1
    <3>2. CASE j = i \/ j = i + 1
      BY <1>1, <1>2, <1>3, <1>5, <2>2, <3>2
    <3>3. CASE j > i + 1
      <4>1. j - 1 \in 1..(n - 1) /\ (j - 1) + 1 = j /\ j - 1 > i
        BY <1>1, <1>2, <3>3
      <4> QED BY <1>2, <1>3, <4>1, SMTT(30)
    <3> QED BY <1>1, <1>2, <3>1, <3>2, <3>3
  <2>3. \A q \in Routed : \E j \in 1..n : q = ranges[j].range_id
    BY <1>1 DEF Routed
  <2>4. Routed' = {ranges'[j].range_id : j \in 1..(n - 1)}
    BY <1>2 DEF Routed
  <2> QED BY <2>1, <2>2, <2>3, <2>4, SMTT(30)
<1>12. Dropped(i) \in Routed
  BY <1>1, <1>2, <1>5 DEF Routed
<1>13. Given' = Given
  BY DEF MergeRanges, Given
<1>14. ChainInv'
  <2>1. Len(ranges') - 1 = n - 2
    BY <1>1, <1>2
  <2>2. \A j \in 1..(Len(ranges') - 1) : ranges'[j].end_key = ranges'[j + 1].start_key
    BY <1>7, <2>1
  <2>3. \A j \in DOMAIN ranges' : ranges'[j].range_id \in Given'
    BY <1>2, <1>8, <1>13
  <2> HIDE DEF n
  <2> QED BY <1>2, <1>6, <1>10, <2>2, <2>3 DEF ChainInv
<1> QED BY <1>11, <1>12, <1>14

\* Steps of the topology leave trackers and writes as they are.
LEMMA TopologySteps ==
    ASSUME RangesInv, UNCHANGED <<closedVars, active, groups, writerVars, covered>>
    PROVE  CountInv' /\ CoveredInv' /\ FollowerInv' /\ PlanInv' /\ ClosedOK' /\ PlansTyped'
BY Frames, TypeFrames
   DEF RangesInv, TypeInv, MultiRaftOK, closedVars, trackerVars, advanceVars, sideVars, writerVars

\* The split of the topology: a new range that has no group and no tracker yet.
LEMMA SplitTopologyStep ==
    ASSUME RangesInv, NEW x \in Resharder, NEW id, NEW key \in Key, SplitTopology(x, id, key)
    PROVE  RangesInv'
<1> USE DEF RangesInv, SplitTopology
<1>1. TopologyOK' /\ next_range_id \in RangeId
  BY SplitTypes DEF TypeInv, MultiRaftOK
<1>2. ChainInv' /\ Routed' = Routed \cup {next_range_id}
  BY SplitKeepsChain DEF TypeInv, MultiRaftOK
<1>3. Given' = Given \cup {next_range_id} /\ next_range_id \notin Given
  BY TopologyAssumption DEF SplitRange, TypeInv, MultiRaftOK, TopologyOK, Given
<1>4. /\ \A y \in Resharder \ {x} : resharder'[y] = resharder[y] /\ new_id'[y] = new_id[y]
      /\ resharder'[x] = "insert" /\ new_id'[x] = next_range_id
  BY DEF TypeInv, MultiRaftOK
<1>5. CountInv' /\ CoveredInv' /\ FollowerInv' /\ PlanInv' /\ ClosedOK' /\ PlansTyped'
  BY TopologySteps
<1>6. TypeInv'
  BY <1>1, <1>5 DEF TypeInv, MultiRaftOK, writerVars
<1>7. IdsInv'
  BY <1>2, <1>3, <1>4 DEF IdsInv
<1>8. \A r \in RangeId : Splitting(r)' <=> Splitting(r) \/ r = next_range_id
  BY <1>4 DEF Splitting
<1>9. ServedInv'
  <2>1. \A r \in Routed : r \in groups \/ \E y \in Resharder : resharder'[y] = "insert" /\ new_id'[y] = r
    BY <1>4 DEF ServedInv
  <2>2. \A r \in Routed : r \in trackers \/ Splitting(r)'
    BY <1>8, IdFacts DEF ServedInv
  <2> QED BY <1>1, <1>2, <1>4, <1>8, <2>1, <2>2 DEF ServedInv, closedVars, trackerVars
<1>10. WritersInv'
  BY <1>2, <1>3 DEF WritersInv, FoundGroup, writerVars
<1>11. FreshInv'
  BY <1>3, <1>8, IdFacts DEF FreshInv, Unborn, closedVars, trackerVars, sideVars, writerVars
<1> QED BY <1>2, <1>5, <1>6, <1>7, <1>9, <1>10, <1>11

\* The merge of the topology: of two ranges only one id is still routed.
LEMMA MergeTopologyStep ==
    ASSUME RangesInv, NEW x \in Resharder, NEW i \in 1..MaxRange, MergeTopology(x, i)
    PROVE  RangesInv'
<1> USE DEF RangesInv, MergeTopology
<1>1. TopologyOK'
  BY MergeTypes DEF TypeInv, MultiRaftOK
<1>2. ChainInv' /\ Dropped(i) \in Routed /\ Routed' = Routed \ {Dropped(i)}
  BY MergeKeepsChain DEF TypeInv, MultiRaftOK
<1>3. Given' = Given
  BY DEF MergeRanges, Given
<1>4. Dropped(i) \in Given /\ Dropped(i) \in RangeId
  BY <1>2, IdFacts
<1>5. /\ \A y \in Resharder \ {x} : resharder'[y] = resharder[y] /\ new_id'[y] = new_id[y]
      /\ resharder'[x] = "remove" /\ new_id'[x] = Dropped(i)
  BY DEF TypeInv, MultiRaftOK, Dropped
<1>6. CountInv' /\ CoveredInv' /\ FollowerInv' /\ PlanInv' /\ ClosedOK' /\ PlansTyped'
  BY TopologySteps
<1>7. TypeInv'
  <2>1. new_id' = [new_id EXCEPT ![x] = Dropped(i)]
    BY DEF Dropped
  <2> QED BY <1>1, <1>4, <1>6, <2>1 DEF TypeInv, MultiRaftOK, writerVars
<1>8. IdsInv'
  BY <1>2, <1>3, <1>4, <1>5 DEF IdsInv
<1>9. \A r \in RangeId : Splitting(r)' <=> Splitting(r)
  BY <1>5 DEF Splitting
<1>10. ServedInv'
  <2>1. \A r \in Routed : r \in groups \/ \E y \in Resharder : resharder'[y] = "insert" /\ new_id'[y] = r
    BY <1>5 DEF ServedInv
  <2>2. \A r \in Routed : r \in trackers \/ Splitting(r)'
    BY <1>9, IdFacts DEF ServedInv
  <2> QED BY <1>2, <2>1, <2>2 DEF ServedInv, closedVars, trackerVars
<1>11. WritersInv'
  BY <1>2, <1>3 DEF WritersInv, FoundGroup, writerVars
<1>12. FreshInv'
  BY <1>3, <1>9, IdFacts DEF FreshInv, Unborn, closedVars, trackerVars, sideVars, writerVars
<1> QED BY <1>2, <1>6, <1>7, <1>8, <1>10, <1>11, <1>12

\* The new range gets its group.
LEMMA InsertGroupStep ==
    ASSUME RangesInv, NEW x \in Resharder, InsertGroup(x)
    PROVE  RangesInv'
<1> USE DEF RangesInv, InsertGroup
<1>1. new_id[x] \in Given /\ new_id[x] \in RangeId
  BY IdFacts DEF IdsInv
<1>2. (\A y \in Resharder \ {x} : resharder'[y] = resharder[y]) /\ resharder'[x] = "register"
  BY DEF TypeInv, MultiRaftOK
<1>3. CountInv' /\ CoveredInv' /\ FollowerInv' /\ PlanInv' /\ ClosedOK' /\ PlansTyped' /\ ChainInv'
  BY Frames, TypeFrames
     DEF TypeInv, MultiRaftOK, closedVars, trackerVars, advanceVars, sideVars, writerVars
<1>4. TypeInv'
  BY <1>1, <1>3, TypeFrames DEF TypeInv, MultiRaftOK, writerVars
<1>5. Routed' = Routed /\ Given' = Given
  BY DEF Routed, Given, topologyVars
<1>6. IdsInv'
  BY <1>2, <1>5 DEF IdsInv
<1>7. \A r : Splitting(r)' <=> Splitting(r)
  BY <1>2 DEF Splitting
<1>8. ServedInv'
  BY <1>2, <1>5, <1>7 DEF ServedInv, closedVars, trackerVars
<1>9. WritersInv'
  BY <1>5 DEF WritersInv, writerVars
<1>10. FreshInv'
  BY <1>5, <1>7 DEF FreshInv, Unborn, closedVars, trackerVars, sideVars, writerVars
<1> QED BY <1>3, <1>4, <1>6, <1>8, <1>9, <1>10

\* The new range gets its tracker, which has closed nothing yet.
LEMMA RegisterNewRangeStep ==
    ASSUME RangesInv, NEW x \in Resharder, RegisterNewRange(x)
    PROVE  RangesInv'
<1> USE DEF RangesInv, RegisterNewRange, RegisterRange
<1>1. new_id[x] \in Given /\ new_id[x] \in Tracked
  BY IdFacts DEF IdsInv
<1>2. (\A y \in Resharder \ {x} : resharder'[y] = resharder[y]) /\ resharder'[x] = "done"
  BY DEF TypeInv, MultiRaftOK
<1>3. Unborn(new_id[x])
  BY DEF Unborn, Splitting
<1>4. \A r : Splitting(r)' <=> Splitting(r) /\ r # new_id[x]
  BY <1>2 DEF Splitting, IdsInv
<1>5. Routed' = Routed /\ Given' = Given
  BY DEF Routed, Given, topologyVars
<1>6. TypeInv'
  <2>1. TopologyOK' /\ PlansTyped'
    BY TypeFrames DEF TypeInv, MultiRaftOK
  <2>2. todo' \in [Advancer -> SUBSET trackers']
    BY DEF TypeInv, MultiRaftOK, ClosedOK, advanceVars
  <2>3. ClosedOK'
    BY <1>1, <2>2, TypeFrames DEF TypeInv, MultiRaftOK, ClosedOK, advanceVars, sideVars
  <2> QED BY <2>1, <2>3 DEF TypeInv, MultiRaftOK, writerVars
<1>7. ChainInv' /\ WritersInv'
  BY Frames DEF writerVars
<1>8. IdsInv'
  BY <1>2, <1>5 DEF IdsInv
<1>9. ServedInv'
  BY <1>2, <1>4, <1>5 DEF ServedInv
<1>10. FreshInv'
  <2>1. \A r \in Tracked : Unborn(r)' => Unborn(r) /\ r # new_id[x]
    BY <1>1, <1>4, <1>5 DEF Unborn
  <2> QED BY <2>1 DEF FreshInv, sideVars, writerVars
<1>11. /\ new_id[x] \notin trackers /\ new_id[x] \notin known /\ follower_closed[new_id[x]] = 0
       /\ \A u \in sent : u[1] # new_id[x]
       /\ \A w \in covered : rid[w] # new_id[x]
       /\ \A c \in Reader : plan[c].state \in {"reading", "follower_read"} =>
             new_id[x] \notin plan[c].range_ids \ plan[c].left
  BY <1>1, <1>3 DEF FreshInv
<1>12. CountInv'
  <2>1. \A t : Counted(new_id[x], t) = {}
    BY <1>11 DEF Counted
  <2>2. \A r, t : Counted(r, t)' = Counted(r, t)
    BY DEF Counted, writerVars
  <2>3. \A t \in Ts : in_flight[new_id[x]][t] \in Nat
    BY <1>1 DEF TypeInv, MultiRaftOK, ClosedOK
  <2> QED BY <2>1, <2>2, <2>3, FS_EmptySet DEF CountInv
<1>13. CoveredInv'
  BY <1>11 DEF CoveredInv, AtRange, writerVars, advanceVars
<1>14. FollowerInv'
  <2>1. closed[new_id[x]] \in Nat
    BY <1>1 DEF TypeInv, MultiRaftOK, ClosedOK, Ts
  <2> QED BY <1>11, <2>1 DEF FollowerInv, sideVars
<1>15. PlanInv'
  BY <1>11 DEF PlanInv, UpTo
<1> QED BY <1>6, <1>7, <1>8, <1>9, <1>10, <1>12, <1>13, <1>14, <1>15

\* The group of the range merged away goes.
LEMMA RemoveGroupStep ==
    ASSUME RangesInv, NEW x \in Resharder, RemoveGroup(x)
    PROVE  RangesInv'
<1> USE DEF RangesInv, RemoveGroup
<1>1. new_id[x] \in Given /\ new_id[x] \notin Routed
  BY DEF IdsInv
<1>2. (\A y \in Resharder \ {x} : resharder'[y] = resharder[y]) /\ resharder'[x] = "forget"
  BY DEF TypeInv, MultiRaftOK
<1>3. CountInv' /\ CoveredInv' /\ FollowerInv' /\ PlanInv' /\ ClosedOK' /\ PlansTyped' /\ ChainInv'
  BY Frames, TypeFrames
     DEF TypeInv, MultiRaftOK, closedVars, trackerVars, advanceVars, sideVars, writerVars
<1>4. TypeInv'
  BY <1>3, TypeFrames DEF TypeInv, MultiRaftOK, writerVars
<1>5. Routed' = Routed /\ Given' = Given
  BY DEF Routed, Given, topologyVars
<1>6. IdsInv'
  BY <1>1, <1>2, <1>5 DEF IdsInv
<1>7. \A r : Splitting(r)' <=> Splitting(r)
  BY <1>2 DEF Splitting
<1>8. ServedInv'
  BY <1>1, <1>2, <1>5, <1>7 DEF ServedInv, closedVars, trackerVars
<1>9. WritersInv'
  BY <1>1, <1>5 DEF WritersInv, writerVars
<1>10. FreshInv'
  BY <1>5, <1>7 DEF FreshInv, Unborn, closedVars, trackerVars, sideVars, writerVars
<1> QED BY <1>3, <1>4, <1>6, <1>8, <1>9, <1>10

\* Its tracker goes, with whatever was registered there.
LEMMA ForgetOldRangeStep ==
    ASSUME RangesInv, NEW x \in Resharder, ForgetOldRange(x)
    PROVE  RangesInv'
<1> USE DEF RangesInv, ForgetOldRange, ForgetRange
<1>1. new_id[x] \in Given /\ new_id[x] \in Tracked /\ new_id[x] \notin Routed
  BY IdFacts DEF IdsInv
<1>2. (\A y \in Resharder \ {x} : resharder'[y] = resharder[y]) /\ resharder'[x] = "done"
  BY DEF TypeInv, MultiRaftOK
<1>3. \A r : Splitting(r)' <=> Splitting(r)
  BY <1>2 DEF Splitting
<1>4. Routed' = Routed /\ Given' = Given
  BY DEF Routed, Given, topologyVars
<1>5. /\ closed' \in [Tracked -> Ts] /\ in_flight' \in [Tracked -> [Ts -> Nat]]
      /\ closed'[new_id[x]] = 0 /\ \A t \in Ts : in_flight'[new_id[x]][t] = 0
      /\ \A r \in Tracked \ {new_id[x]} : closed'[r] = closed[r] /\ in_flight'[r] = in_flight[r]
  BY <1>1, ClosedTimestampsAssumption DEF TypeInv, MultiRaftOK, ClosedOK, Ts
<1>6. TypeInv'
  <2>1. TopologyOK' /\ PlansTyped'
    BY TypeFrames DEF TypeInv, MultiRaftOK
  <2>2. todo' \in [Advancer -> SUBSET trackers']
    BY DEF MapFree, TypeInv, MultiRaftOK, ClosedOK, advanceVars
  <2>3. ClosedOK'
    BY <1>1, <1>5, <2>2, TypeFrames DEF TypeInv, MultiRaftOK, ClosedOK, advanceVars, sideVars
  <2> QED BY <2>1, <2>3 DEF TypeInv, MultiRaftOK, writerVars
<1>7. ChainInv' /\ WritersInv'
  BY Frames DEF writerVars
<1>8. IdsInv'
  BY <1>2, <1>4 DEF IdsInv
<1>9. ServedInv'
  BY <1>1, <1>2, <1>3, <1>4 DEF ServedInv
<1>10. FreshInv'
  BY <1>3, <1>4 DEF FreshInv, Unborn, sideVars, writerVars
<1>11. \A r \in trackers' : r \in trackers /\ closed'[r] = closed[r] /\ in_flight'[r] = in_flight[r]
  BY <1>5, IdFacts
<1>12. CountInv'
  <2>1. \A r, t : Counted(r, t)' = Counted(r, t)
    BY DEF Counted, writerVars
  <2> QED BY <1>11, <2>1 DEF CountInv
<1>13. CoveredInv'
  BY <1>11 DEF CoveredInv, AtRange, writerVars, advanceVars
<1>14. FollowerInv'
  BY <1>11 DEF FollowerInv, sideVars
<1>15. PlanInv'
  BY <1>11 DEF PlanInv, UpTo
<1> QED BY <1>6, <1>7, <1>8, <1>9, <1>10, <1>12, <1>13, <1>14, <1>15
-----------------------------------------------------------------------------
(***************************************************************************)
(* Advances, plans and the follower: the cluster stands still.             *)
(***************************************************************************)

\* Whatever leaves topology, groups and writers alone keeps what is said of them.
LEMMA ClusterStandsStill ==
    ASSUME RangesInv, UNCHANGED clusterVars
    PROVE  /\ ChainInv' /\ IdsInv' /\ WritersInv'
           /\ trackers' = trackers => ServedInv'
           /\ ClosedOK' /\ PlansTyped' => TypeInv'
           /\ UNCHANGED <<trackers, known, follower_closed, sent, plan>> => FreshInv'
           /\ UNCHANGED <<trackers, in_flight>> => CountInv'
           /\ \A r : Unborn(r)' <=> Unborn(r)
<1> USE DEF RangesInv, clusterVars
<1>1. ChainInv' /\ IdsInv' /\ WritersInv' /\ (trackers' = trackers => ServedInv')
  BY Frames DEF writerVars
<1>2. ClosedOK' /\ PlansTyped' => TypeInv'
  BY TypeFrames DEF TypeInv, MultiRaftOK, writerVars, reshardVars
<1>3. UNCHANGED <<trackers, known, follower_closed, sent, plan>> => FreshInv'
  BY Frames DEF writerVars
<1>4. UNCHANGED <<trackers, in_flight>> => CountInv'
  BY Frames DEF writerVars
<1>5. \A r : Unborn(r)' <=> Unborn(r)
  BY DEF Unborn, Given, Splitting, topologyVars, reshardVars
<1> QED BY <1>1, <1>2, <1>3, <1>4, <1>5

\* An advance starts over all the trackers there are.
LEMMA StartAdvanceStep ==
    ASSUME RangesInv, NEW a \in Advancer, NEW n \in Ts, StartAdvance(a, n), UNCHANGED clusterVars
    PROVE  RangesInv'
<1> USE DEF RangesInv, StartAdvance
<1>1. ClosedOK' /\ PlansTyped'
  BY TypeFrames DEF TypeInv, MultiRaftOK, ClosedOK, trackerVars, sideVars
<1>2. FollowerInv' /\ PlanInv'
  BY Frames DEF trackerVars, sideVars
<1>3. CoveredInv'
  <2>1. \A b \in Advancer \ {a} : todo'[b] = todo[b]
    BY DEF TypeInv, MultiRaftOK, ClosedOK
  <2>2. bound[a] = NoBound
    BY DEF CoveredInv
  <2>3. UNCHANGED <<covered, rid, wts, writer>>
    BY DEF clusterVars, writerVars
  <2> QED BY <2>1, <2>2, <2>3 DEF CoveredInv, AtRange, NoBound, trackerVars
<1> QED BY <1>1, <1>2, <1>3, ClusterStandsStill DEF trackerVars, sideVars

\* It bounds what it may close by the oldest write in flight and by the lag.
LEMMA ReadLowestStep ==
    ASSUME RangesInv, NEW a \in Advancer, NEW r \in Tracked, ReadLowest(a, r), UNCHANGED clusterVars
    PROVE  RangesInv'
<1> USE DEF RangesInv, ReadLowest
<1>1. now[a] \in Ts /\ ClosedOK
  BY DEF TypeInv, MultiRaftOK, ClosedOK
<1>2. Bound(r, now[a]) \in Ts /\ \A t \in Ts : t > 0 /\ in_flight[r][t] > 0 => Bound(r, now[a]) < t
  BY <1>1, BoundIsLow
<1>3. Bound(r, now[a]) \in 0..NoBound
  BY <1>2, ClosedTimestampsAssumption DEF NoBound, Ts
<1>4. ClosedOK' /\ PlansTyped'
  BY <1>3, TypeFrames DEF TypeInv, MultiRaftOK, ClosedOK, trackerVars, sideVars
<1>5. FollowerInv' /\ PlanInv'
  BY Frames DEF trackerVars, sideVars
<1>6. bound'[a] = Bound(r, now[a]) /\ \A b \in Advancer \ {a} : bound'[b] = bound[b]
  BY DEF TypeInv, MultiRaftOK, ClosedOK
<1>7. \A w \in covered : rid[w] = r => Bound(r, now[a]) < wts[w]
  <2> SUFFICES ASSUME NEW w \in covered, rid[w] = r PROVE Bound(r, now[a]) < wts[w]
    OBVIOUS
  <2>1. r \in trackers /\ wts[w] \in Ts /\ wts[w] > 0
    BY IdFacts DEF CoveredInv
  <2>2. w \in Counted(r, wts[w]) /\ IsFiniteSet(Counted(r, wts[w]))
    BY FS_Subset DEF Counted, CountInv
  <2>3. Cardinality(Counted(r, wts[w])) \in Nat \ {0}
    BY <2>2, FS_CardinalityType, FS_EmptySet
  <2>4. in_flight[r][wts[w]] \in Nat /\ Cardinality(Counted(r, wts[w])) <= in_flight[r][wts[w]]
    BY <2>1, <1>1 DEF CountInv, ClosedOK
  <2>5. in_flight[r][wts[w]] > 0
    BY <2>3, <2>4
  <2> QED BY <1>2, <2>1, <2>5
<1>8. CoveredInv'
  <2>1. UNCHANGED <<covered, rid, wts, writer>>
    BY DEF clusterVars, writerVars
  <2>2. \A w \in covered : AtRange(a, rid[w]) => rid[w] = r
    <3> SUFFICES ASSUME NEW w \in covered, AtRange(a, rid[w]) PROVE rid[w] = r
      OBVIOUS
    <3>1. rid[w] \in todo[a] /\ rid[w] <= r /\ r <= rid[w]
      BY DEF AtRange
    <3>2. rid[w] \in Nat /\ r \in Nat
      BY <3>1, IdFacts, ClosedTimestampsAssumption
    <3> HIDE DEF RangesInv, ReadLowest
    <3> QED BY <3>1, <3>2
  <2>3. todo[a] # {}
    OBVIOUS
  <2> HIDE DEF RangesInv
  <2>4. CoveredInv
    BY DEF RangesInv
  <2> QED BY <1>6, <1>7, <2>1, <2>2, <2>3, <2>4 DEF CoveredInv, AtRange, trackerVars
<1> QED BY <1>4, <1>5, <1>8, ClusterStandsStill DEF trackerVars, sideVars

\* It closes up to that bound, which may be late but never takes the closed timestamp back.
LEMMA CloseStep ==
    ASSUME RangesInv, NEW a \in Advancer, NEW r \in Tracked, Close(a, r), UNCHANGED clusterVars
    PROVE  RangesInv'
<1> USE DEF RangesInv, Close
<1>1. bound[a] \in Ts /\ r \in trackers /\ closed[r] \in Ts
  BY IdFacts, ClosedTimestampsAssumption DEF TypeInv, MultiRaftOK, ClosedOK, NoBound, Ts
<1>2. closed'[r] = AtLeast(closed[r], bound[a]) /\ \A q \in Tracked \ {r} : closed'[q] = closed[q]
  BY DEF TypeInv, MultiRaftOK, ClosedOK
<1>3. AtLeast(closed[r], bound[a]) \in Ts /\ closed[r] <= AtLeast(closed[r], bound[a])
  BY <1>1 DEF AtLeast, Ts
<1>4. closed' \in [Tracked -> Ts] /\ \A q \in Tracked : closed[q] <= closed'[q]
  <2>1. closed \in [Tracked -> Ts]
    BY DEF TypeInv, MultiRaftOK, ClosedOK
  <2>2. closed' = [closed EXCEPT ![r] = AtLeast(closed[r], bound[a])]
    OBVIOUS
  <2> HIDE DEF RangesInv, Close
  <2>3. closed' \in [Tracked -> Ts]
    BY <1>3, <2>1, <2>2
  <2>4. ASSUME NEW q \in Tracked PROVE closed[q] <= closed'[q]
    <3>1. closed[q] \in Ts
      BY <2>1
    <3> QED BY <1>2, <1>3, <3>1 DEF Ts
  <2> QED BY <2>3, <2>4
<1>5. /\ bound'[a] = NoBound /\ \A b \in Advancer \ {a} : bound'[b] = bound[b] /\ todo'[b] = todo[b]
      /\ bound' \in [Advancer -> 0..NoBound] /\ todo' \in [Advancer -> SUBSET trackers]
  BY ClosedTimestampsAssumption DEF TypeInv, MultiRaftOK, ClosedOK, NoBound
<1>6. ClosedOK' /\ PlansTyped'
  BY <1>1, <1>2, <1>4, <1>5, TypeFrames DEF TypeInv, MultiRaftOK, ClosedOK, sideVars
<1>7. CoveredInv'
  <2>1. UNCHANGED <<covered, rid, wts, writer>>
    BY DEF clusterVars, writerVars
  <2>2. ASSUME NEW w \in covered, rid[w] \in trackers PROVE closed'[rid[w]] < wts[w]
    <3>1. CASE rid[w] = r
      <4>1. AtRange(a, r)
        BY DEF AtRange
      <4>2. closed[r] < wts[w] /\ bound[a] < wts[w]
        BY <2>2, <3>1, <4>1 DEF CoveredInv
      <4> QED BY <1>2, <3>1, <4>2 DEF AtLeast
    <3>2. CASE rid[w] # r
      BY <1>2, <2>2, <3>2, IdFacts DEF CoveredInv
    <3> QED BY <3>1, <3>2
  <2> QED BY <1>5, <2>1, <2>2 DEF CoveredInv, AtRange, NoBound
<1>8. FollowerInv'
  <2>1. \A u \in sent : u[1] \in Tracked /\ u[2] \in Nat
    <3>1. \A u \in Tracked \X Ts : u[1] \in Tracked /\ u[2] \in Nat
      BY DEF Ts
    <3>2. sent \subseteq Tracked \X Ts
      BY DEF TypeInv, MultiRaftOK, ClosedOK
    <3> QED BY <3>1, <3>2
  <2>2. \A q \in Tracked : follower_closed[q] \in Nat /\ closed[q] \in Nat /\ closed'[q] \in Nat
    BY <1>4 DEF TypeInv, MultiRaftOK, ClosedOK, Ts
  <2> QED BY <1>4, <2>1, <2>2, IdFacts DEF FollowerInv, sideVars
<1>9. PlanInv'
  <2>1. \A c \in Reader : UpTo(plan[c]) \in Nat
    BY ClosedTimestampsAssumption DEF TypeInv, PlansTyped, PlanRecord, UpTo, AtMost, NoBound
  <2>2. \A q \in Tracked : closed[q] \in Nat /\ closed'[q] \in Nat
    BY <1>4 DEF TypeInv, MultiRaftOK, ClosedOK, Ts
  <2>3. \A c \in Reader : plan[c].range_ids \subseteq Tracked
    BY DEF TypeInv, PlansTyped, PlanRecord
  <2>4. plan' = plan
    OBVIOUS
  <2> QED BY <1>4, <2>1, <2>2, <2>3, <2>4 DEF PlanInv, UpTo
<1> QED BY <1>6, <1>7, <1>8, <1>9, ClusterStandsStill DEF sideVars

\* A follower read is planned.
LEMMA StartPlanStep ==
    ASSUME RangesInv, NEW c \in Reader, NEW p \in PlanRecord, PlanOK(p), p.left = p.range_ids,
           IF p.exact THEN p.ts \in Ts ELSE p.offset = 0, StartPlan(c, p), UNCHANGED clusterVars
    PROVE  RangesInv'
<1> USE DEF RangesInv, StartPlan
<1>1. plan'[c] = p /\ \A d \in Reader \ {c} : plan'[d] = plan[d]
  BY DEF TypeInv, PlansTyped
<1>2. PlansTyped'
  BY <1>1 DEF TypeInv, PlansTyped
<1>3. ClosedOK'
  BY <1>1 DEF TypeInv, MultiRaftOK, ClosedOK, trackerVars, advanceVars, sideVars
<1>4. CoveredInv' /\ FollowerInv'
  BY Frames DEF trackerVars, advanceVars, sideVars, clusterVars, writerVars
<1>5. PlanInv'
  BY <1>1 DEF PlanInv, trackerVars
<1>6. FreshInv'
  <2>1. \A r : Unborn(r)' <=> Unborn(r)
    BY ClusterStandsStill
  <2>2. \A d \in Reader, r \in Tracked : plan[d].state \in {"reading", "follower_read"} /\ Unborn(r) =>
            r \notin plan[d].range_ids \ plan[d].left
    BY DEF FreshInv
  <2> QED BY <1>1, <2>1, <2>2 DEF FreshInv, trackerVars, sideVars, clusterVars, writerVars
<1> QED BY <1>2, <1>3, <1>4, <1>5, <1>6, ClusterStandsStill DEF trackerVars

\* A bounded-staleness plan takes the lowest of what it read.
LEMMA PlanBoundedStep ==
    ASSUME RangesInv, NEW c \in Reader, NEW at \in {"leaseholder", "follower"}, NEW ids \in SUBSET Routed,
           NEW oldest \in Ts, PlanBounded(c, at, ids, oldest), UNCHANGED clusterVars
    PROVE  RangesInv'
<1> DEFINE p == [state |-> "reading", at |-> at, exact |-> FALSE, range_ids |-> ids, left |-> ids,
                 ts |-> NoBound, offset |-> 0, oldest |-> oldest]
<1>1. ids \subseteq Tracked
  BY IdFacts
<1>2. p \in PlanRecord /\ PlanOK(p)
  BY <1>1, ClosedTimestampsAssumption DEF PlanRecord, PlanOK, NoBound
<1>3. p.left = p.range_ids /\ p.exact = FALSE /\ p.offset = 0
  OBVIOUS
<1>4. StartPlan(c, p)
  BY DEF PlanBounded
<1> HIDE DEF p
<1> QED BY <1>2, <1>3, <1>4, StartPlanStep

\* An exact-staleness plan compares its time with what it read.
LEMMA PlanExactStep ==
    ASSUME RangesInv, NEW c \in Reader, NEW at \in {"leaseholder", "follower"}, NEW ids \in SUBSET Routed,
           NEW read_ts \in Ts, NEW offset \in {0, MaxOffset}, PlanExact(c, at, ids, read_ts, offset),
           UNCHANGED clusterVars
    PROVE  RangesInv'
<1> DEFINE p == [state |-> "reading", at |-> at, exact |-> TRUE, range_ids |-> ids, left |-> ids,
                 ts |-> read_ts, offset |-> offset, oldest |-> 0]
<1>1. ids \subseteq Tracked /\ offset \in Nat
  BY IdFacts, ClosedTimestampsAssumption
<1>2. read_ts \in 0..NoBound /\ 0 \in Ts
  BY ClosedTimestampsAssumption DEF Ts, NoBound
<1>3. p \in PlanRecord /\ PlanOK(p)
  BY <1>1, <1>2 DEF PlanRecord, PlanOK
<1>4. p.left = p.range_ids /\ p.exact = TRUE /\ p.ts \in Ts
  OBVIOUS
<1>5. StartPlan(c, p)
  BY DEF PlanExact
<1> HIDE DEF p
<1> QED BY <1>3, <1>4, <1>5, StartPlanStep

\* A plan reads the closed timestamp of one more range.
LEMMA ReadClosedStep ==
    ASSUME RangesInv, NEW c \in Reader, NEW r \in Tracked, ReadClosed(c, r), UNCHANGED clusterVars
    PROVE  RangesInv'
<1> USE DEF RangesInv
<1> DEFINE p == plan[c]
           atFollower == p.at = "follower"
           has_tracker == IF atFollower THEN r \in known ELSE r \in trackers
           closed_ts == IF atFollower THEN follower_closed[r] ELSE closed[r]
           q == PlanAfter(p, r, has_tracker, closed_ts)
<1>1. p \in PlanRecord /\ PlanOK(p) /\ IF p.exact THEN p.ts \in Ts ELSE p.offset = 0
  BY DEF TypeInv, MultiRaftOK, ClosedOK, PlansTyped
<1>2. p.state = "reading" /\ r \in p.left
  BY DEF ReadClosed
<1>3. has_tracker \in BOOLEAN /\ closed_ts \in Ts
  <2>1. (r \in known) \in BOOLEAN /\ (r \in trackers) \in BOOLEAN
    OBVIOUS
  <2>2. has_tracker \in BOOLEAN
    <3>1. CASE atFollower
      BY <2>1, <3>1
    <3>2. CASE ~atFollower
      BY <2>1, <3>2
    <3> QED BY <3>1, <3>2
  <2>3. closed_ts \in Ts
    BY DEF TypeInv, MultiRaftOK, ClosedOK
  <2> QED BY <2>2, <2>3
<1>4. /\ q \in PlanRecord /\ PlanOK(q) /\ IF q.exact THEN q.ts \in Ts ELSE q.offset = 0
      /\ q.range_ids = p.range_ids /\ q.left = p.left \ {r}
      /\ UpTo(q) <= UpTo(p) /\ UpTo(q) \in Ts
      /\ q.state \in {"reading", "follower_read"} => has_tracker /\ UpTo(q) <= closed_ts
  <2> HIDE DEF has_tracker, closed_ts, p
  <2> QED BY <1>1, <1>2, <1>3, PlanAfterFacts
<1>5. plan' = [plan EXCEPT ![c] = q]
  <2>1. plan' = [plan EXCEPT ![c] =
           IF p.at = "follower" THEN PlanAfter(p, r, r \in known, follower_closed[r])
           ELSE PlanAfter(p, r, r \in trackers, closed[r])]
    BY DEF ReadClosed
  <2>2. (IF p.at = "follower" THEN PlanAfter(p, r, r \in known, follower_closed[r])
         ELSE PlanAfter(p, r, r \in trackers, closed[r])) = q
    <3>1. CASE atFollower
      BY <3>1
    <3>2. CASE ~atFollower
      BY <3>2
    <3> QED BY <3>1, <3>2
  <2> HIDE DEF q
  <2> QED BY <2>1, <2>2
<1>6. plan'[c] = q /\ \A d \in Reader \ {c} : plan'[d] = plan[d]
  <2> HIDE DEF q, p
  <2> QED BY <1>5 DEF TypeInv, PlansTyped
<1>7. PlansTyped'
  <2> HIDE DEF q, p
  <2> QED BY <1>4, <1>5, <1>6 DEF TypeInv, PlansTyped
<1>8. ClosedOK'
  <2>1. \A d \in Reader : PlanOK(plan'[d])
    <3> HIDE DEF q, p
    <3> QED BY <1>4, <1>6 DEF TypeInv, MultiRaftOK, ClosedOK
  <2> QED BY <2>1 DEF TypeInv, MultiRaftOK, ClosedOK, ReadClosed, trackerVars, advanceVars, sideVars
<1>9. UNCHANGED <<trackerVars, target_lag, advanceVars, sideVars>>
  BY DEF ReadClosed
<1>10. CoveredInv' /\ FollowerInv'
  BY <1>9, Frames DEF trackerVars, advanceVars, sideVars, clusterVars, writerVars
<1>11. UpTo(p) \in Nat
  BY <1>1, ClosedTimestampsAssumption DEF UpTo, AtMost, PlanRecord, NoBound
<1>12. PlanInv'
  <2>1. ASSUME q.state \in {"reading", "follower_read"}, NEW s \in q.range_ids \ q.left, s \in trackers
        PROVE  UpTo(q) <= closed[s]
    <3>1. closed[s] \in Nat /\ closed[r] \in Nat /\ follower_closed[r] \in Nat
      BY <2>1, IdFacts DEF TypeInv, MultiRaftOK, ClosedOK, Ts
    <3>2. UpTo(q) \in Nat /\ UpTo(q) <= closed_ts /\ UpTo(q) <= UpTo(p)
      <4> HIDE DEF q, closed_ts, p, has_tracker
      <4> QED BY <1>4, <2>1 DEF Ts
    <3>3. CASE s = r
      <4>1. closed_ts <= closed[r]
        BY <2>1, <3>1, <3>3 DEF FollowerInv
      <4>2. closed_ts \in Nat
        BY <3>1
      <4> HIDE DEF q, closed_ts
      <4> QED BY <3>1, <3>2, <3>3, <4>1, <4>2
    <3>4. CASE s # r
      <4>1. s \in p.range_ids \ p.left
        <5> HIDE DEF q, p
        <5> QED BY <1>4, <2>1, <3>4
      <4>2. UpTo(p) <= closed[s]
        BY <1>2, <2>1, <4>1 DEF PlanInv
      <4> HIDE DEF q, p
      <4> QED BY <1>11, <3>1, <3>2, <4>2
    <3> QED BY <3>3, <3>4
  <2>2. \A d \in Reader \ {c} : plan[d].state \in {"reading", "follower_read"} =>
           \A s \in plan[d].range_ids \ plan[d].left : s \in trackers => UpTo(plan[d]) <= closed[s]
    BY DEF PlanInv
  <2> HIDE DEF q, p, RangesInv
  <2> QED BY <1>6, <1>9, <2>1, <2>2 DEF PlanInv, trackerVars
<1>13. FreshInv'
  <2>1. \A s : Unborn(s)' <=> Unborn(s)
    BY ClusterStandsStill
  <2>2. ASSUME q.state \in {"reading", "follower_read"}, NEW s \in q.range_ids \ q.left, s \in Tracked
        PROVE  ~Unborn(s)
    <3>1. CASE s = r
      BY <1>4, <2>2, <3>1 DEF FreshInv
    <3>2. CASE s # r
      <4>1. s \in p.range_ids \ p.left
        <5> HIDE DEF q, p
        <5> QED BY <1>4, <2>2, <3>2
      <4> QED BY <1>2, <2>2, <4>1 DEF FreshInv
    <3> QED BY <3>1, <3>2
  <2>3. UNCHANGED <<covered, rid, trackers, known, follower_closed, sent>>
    BY <1>9 DEF clusterVars, writerVars, trackerVars, sideVars
  <2>4. FreshInv
    OBVIOUS
  <2> HIDE DEF q, p, RangesInv
  <2> QED BY <1>6, <2>1, <2>2, <2>3, <2>4 DEF FreshInv
<1> QED BY <1>7, <1>8, <1>9, <1>10, <1>12, <1>13, ClusterStandsStill DEF trackerVars

\* The lag is set.
LEMMA SetTargetLagStep ==
    ASSUME RangesInv, NEW lag \in Lag, SetTargetLag(lag), UNCHANGED clusterVars
    PROVE  RangesInv'
<1> USE DEF RangesInv, SetTargetLag
<1>1. ClosedOK' /\ PlansTyped'
  BY TypeFrames DEF TypeInv, MultiRaftOK, ClosedOK, trackerVars, advanceVars, sideVars
<1>2. CoveredInv' /\ FollowerInv' /\ PlanInv'
  BY Frames DEF trackerVars, advanceVars, sideVars, clusterVars, writerVars
<1> QED BY <1>1, <1>2, ClusterStandsStill DEF trackerVars, sideVars

\* The leaseholder publishes what is closed.
LEMMA PublishStep ==
    ASSUME RangesInv, NEW r \in Tracked, Publish(r), UNCHANGED clusterVars
    PROVE  RangesInv'
<1> USE DEF RangesInv, Publish
<1>1. closed[r] \in Ts
  BY DEF TypeInv, MultiRaftOK, ClosedOK
<1>2. ClosedOK' /\ PlansTyped'
  BY <1>1, TypeFrames DEF TypeInv, MultiRaftOK, ClosedOK, trackerVars, advanceVars
<1>3. CoveredInv' /\ PlanInv'
  BY Frames DEF trackerVars, advanceVars, clusterVars, writerVars
<1>4. FollowerInv'
  BY <1>1 DEF FollowerInv, trackerVars, Ts
<1>5. FreshInv'
  BY ClusterStandsStill DEF FreshInv, trackerVars, clusterVars, writerVars
<1> QED BY <1>2, <1>3, <1>4, <1>5, ClusterStandsStill DEF trackerVars

\* A follower hears of a range.
LEMMA ReceiveRangeStep ==
    ASSUME RangesInv, NEW r \in Tracked, ReceiveRange(r), UNCHANGED clusterVars
    PROVE  RangesInv'
<1> USE DEF RangesInv, ReceiveRange
<1>1. ClosedOK' /\ PlansTyped'
  BY TypeFrames DEF TypeInv, MultiRaftOK, ClosedOK, trackerVars, advanceVars
<1>2. CoveredInv' /\ PlanInv'
  BY Frames DEF trackerVars, advanceVars, clusterVars, writerVars
<1>3. FollowerInv'
  BY DEF FollowerInv, trackerVars
<1>4. FreshInv'
  BY ClusterStandsStill DEF FreshInv, trackerVars, clusterVars, writerVars
<1> QED BY <1>1, <1>2, <1>3, <1>4, ClusterStandsStill DEF trackerVars

\* A follower takes in an update, late or repeated, and keeps the higher timestamp.
LEMMA ReceiveUpdateStep ==
    ASSUME RangesInv, NEW u, ReceiveUpdate(u), UNCHANGED clusterVars
    PROVE  RangesInv'
<1> USE DEF RangesInv, ReceiveUpdate
<1>1. u[1] \in Tracked /\ u[2] \in Ts
  BY DEF TypeInv, MultiRaftOK, ClosedOK
<1>2. /\ follower_closed'[u[1]] = AtLeast(follower_closed[u[1]], u[2])
      /\ \A r \in Tracked \ {u[1]} : follower_closed'[r] = follower_closed[r]
  BY DEF TypeInv, MultiRaftOK, ClosedOK
<1>3. follower_closed' \in [Tracked -> Ts]
  BY <1>1 DEF TypeInv, MultiRaftOK, ClosedOK, AtLeast
<1>4. ClosedOK' /\ PlansTyped'
  BY <1>3, TypeFrames DEF TypeInv, MultiRaftOK, ClosedOK, trackerVars, advanceVars
<1>5. CoveredInv' /\ PlanInv'
  BY Frames DEF trackerVars, advanceVars, clusterVars, writerVars
<1>6. FollowerInv'
  BY <1>1, <1>2, IdFacts DEF FollowerInv, trackerVars, AtLeast
<1>7. FreshInv'
  BY <1>2, ClusterStandsStill DEF FreshInv, trackerVars, clusterVars, writerVars
<1> QED BY <1>4, <1>5, <1>6, <1>7, ClusterStandsStill DEF trackerVars
-----------------------------------------------------------------------------
(***************************************************************************)
(* Every step of either specification.                                     *)
(***************************************************************************)

WriteMove(w) ==
    \/ \E key \in Key, ts \in Ts : FindWriteRange(w, key, ts)
    \/ ProposeToGroup(w) \/ RegisterWrite(w) \/ CommitAndApply(w) \/ EndRegistration(w)

\* The client of a write takes its timestamp.
DateMove(w) ==
    /\ writer[w] = "propose"
    /\ \E ts \in Ts : wts' = [wts EXCEPT ![w] = ts]
    /\ UNCHANGED <<topologyVars, closedVars, active, groups, writer, rid, reshardVars, covered>>

AdvanceMove(a) ==
    /\ \/ \E n \in Ts : StartAdvance(a, n)
       \/ \E r \in Tracked : ReadLowest(a, r) \/ Close(a, r)
    /\ UNCHANGED clusterVars

Moves ==
    \/ \E w \in Writer : WriteMove(w) \/ DateMove(w)
    \/ \E x \in Resharder : Reshard(x)
    \/ \E a \in Advancer : AdvanceMove(a)
    \/ \E c \in Reader : PlanRead(c)
    \/ Distribute

\* Every step of MultiRaft is one of the moves that the invariant is checked against.
LEMMA NextMoves == Next => Moves
BY DEF Next, Moves, Write, WriteMove, Advance, AdvanceMove, Ts

\* The clock's invariant does not depend on the ranges.
LEMMA ClockStillTyped == HlcOK /\ HappensAfter /\ [ClockedNext]_allVars => HlcOK' /\ HappensAfter'
<1> SUFFICES ASSUME HlcOK, HappensAfter, [ClockedNext]_allVars PROVE HlcOK' /\ HappensAfter'
  OBVIOUS
<1>1. [HlcNext]_hlcVars
  BY DEF ClockedNext, HlcNext, TakeTimestamp, ClockedWrite, ClockedStartAdvance, ClockedAdvance,
         ClockStep, allVars
<1> QED BY <1>1, HlcStep

\* So is every step in which timestamps come from the clock: they are timestamps.
LEMMA ClockedMoves ==
    ASSUME HlcOK, HlcOK', RangesInv, [ClockedNext]_allVars
    PROVE  [Moves]_vars
<1>1. last_ordinal' \in Ts
  BY ClockedAssumption DEF HlcOK, Ordinal, Ts
<1>2. CASE Next
  BY <1>2, NextMoves
<1>3. ASSUME NEW w \in Writer, NEW wall_now \in Ordinal, TakeTimestamp(w, wall_now) PROVE Moves
  BY <1>1, <1>3 DEF TakeTimestamp, Moves, DateMove
<1>4. ASSUME NEW w \in Writer, ClockedWrite(w) PROVE Moves
  <2>1. wts[w] \in Ts
    BY IdFacts
  <2> QED BY <1>4, <2>1 DEF ClockedWrite, Moves, WriteMove
<1>5. ASSUME NEW a \in Advancer, NEW wall_now \in Ordinal, ClockedStartAdvance(a, wall_now) PROVE Moves
  BY <1>1, <1>5 DEF ClockedStartAdvance, Moves, AdvanceMove
<1>6. ASSUME NEW a \in Advancer, ClockedAdvance(a) PROVE Moves
  BY <1>6 DEF ClockedAdvance, Moves, AdvanceMove
<1>7. CASE UNCHANGED vars
  BY <1>7
<1> QED BY <1>2, <1>3, <1>4, <1>5, <1>6, <1>7 DEF ClockedNext, ClockStep, allVars

\* One range over all the keys, tracked and served, and nothing under way.
LEMMA RangesStart == Init => RangesInv
<1> SUFFICES ASSUME Init PROVE RangesInv
  OBVIOUS
<1> USE DEF Init, TopologyInit, ClosedInit
<1> DEFINE first == [range_id |-> 1, start_key |-> NoKey, end_key |-> NoKey]
<1>1. first \in RangeRecord /\ 1 \in RangeId
  BY TopologyAssumption DEF RangeRecord, RangeId, NoKey
<1>2. ranges \in Seq(RangeRecord) /\ Len(ranges) = 1 /\ ranges[1] = first /\ ranges # <<>> /\ DOMAIN ranges = {1}
  BY <1>1
<1>3. TopologyOK
  BY <1>2, TopologyAssumption DEF TopologyOK
<1>4. 1 \in Tracked /\ RangeId = Tracked
  BY <1>1, MultiRaftAssumption
<1>5. 0 \in Ts /\ NoBound \in Nat /\ NoBound \in 0..NoBound
  BY ClosedTimestampsAssumption DEF Ts, NoBound
<1>6. NoPlan \in PlanRecord /\ PlanOK(NoPlan) /\ ~NoPlan.exact /\ NoPlan.offset = 0 /\ NoPlan.state = "none"
  BY <1>5 DEF NoPlan, PlanRecord, PlanOK
<1>7. PlansTyped
  BY <1>6 DEF PlansTyped
<1>8. ClosedOK
  BY <1>4, <1>5, <1>6, ClosedTimestampsAssumption DEF ClosedOK
<1>9. TypeInv
  BY <1>1, <1>3, <1>5, <1>7, <1>8 DEF TypeInv, MultiRaftOK
<1>10. Given = {1} /\ Routed = {1}
  <2>1. Given = {1}
    BY DEF Given
  <2>2. Routed = {1}
    BY <1>2 DEF Routed
  <2> QED BY <2>1, <2>2
<1>11. ChainInv
  BY <1>2, <1>10 DEF ChainInv
<1>12. IdsInv /\ ServedInv /\ WritersInv
  BY <1>10 DEF IdsInv, ServedInv, WritersInv, FoundGroup
<1>13. FreshInv
  BY <1>6, <1>10 DEF FreshInv, Unborn, Splitting
<1>14. CountInv
  <2>1. \A r, t : Counted(r, t) = {}
    BY DEF Counted
  <2>2. trackers = {1} /\ \A t \in Ts : in_flight[1][t] = 0
    BY <1>4
  <2>3. IsFiniteSet(covered) /\ Cardinality({}) = 0
    BY FS_EmptySet
  <2> HIDE DEF Init
  <2> QED BY <2>1, <2>2, <2>3 DEF CountInv
<1>15. CoveredInv /\ FollowerInv
  BY <1>4 DEF CoveredInv, FollowerInv
<1>16. PlanInv
  BY <1>6 DEF PlanInv
<1> QED BY <1>9, <1>11, <1>12, <1>13, <1>14, <1>15, <1>16 DEF RangesInv

\* Every move keeps the invariant.
LEMMA RangesStep == RangesInv /\ [Moves]_vars => RangesInv'
<1> SUFFICES ASSUME RangesInv, [Moves]_vars PROVE RangesInv'
  OBVIOUS
<1>1. ASSUME NEW w \in Writer, WriteMove(w) PROVE RangesInv'
  BY <1>1, FindWriteRangeStep, ProposeToGroupStep, RegisterWriteStep, CommitAndApplyStep, EndRegistrationStep
     DEF WriteMove
<1>2. ASSUME NEW w \in Writer, DateMove(w) PROVE RangesInv'
  BY <1>2, TakeTimestampStep DEF DateMove
<1>3. ASSUME NEW x \in Resharder, Reshard(x) PROVE RangesInv'
  BY <1>3, SplitTopologyStep, InsertGroupStep, RegisterNewRangeStep, MergeTopologyStep, RemoveGroupStep,
     ForgetOldRangeStep DEF Reshard
<1>4. ASSUME NEW a \in Advancer, AdvanceMove(a) PROVE RangesInv'
  BY <1>4, StartAdvanceStep, ReadLowestStep, CloseStep DEF AdvanceMove
<1>5. ASSUME NEW c \in Reader, PlanRead(c) PROVE RangesInv'
  BY <1>5, PlanBoundedStep, PlanExactStep, ReadClosedStep DEF PlanRead
<1>6. CASE Distribute
  BY <1>6, SetTargetLagStep, PublishStep, ReceiveRangeStep, ReceiveUpdateStep DEF Distribute
<1>7. CASE UNCHANGED vars
  <2>1. UNCHANGED clusterVars /\ UNCHANGED closedVars
    BY <1>7 DEF vars, clusterVars
  <2>2. ClosedOK' /\ PlansTyped' /\ CoveredInv' /\ FollowerInv' /\ PlanInv'
    BY <2>1, TypeFrames, Frames
       DEF RangesInv, TypeInv, MultiRaftOK, closedVars, clusterVars, writerVars, trackerVars, advanceVars, sideVars
  <2> QED BY <2>1, <2>2, ClusterStandsStill DEF RangesInv, closedVars, trackerVars, sideVars
<1> QED BY <1>1, <1>2, <1>3, <1>4, <1>5, <1>6, <1>7 DEF Moves

\* No step takes back a closed timestamp whose tracker stays.
LEMMA ClosedGrows ==
    ASSUME RangesInv, [Moves]_vars
    PROVE  \A r \in Tracked :
              /\ r \in trackers /\ r \in trackers' => closed'[r] >= closed[r]
              /\ follower_closed'[r] >= follower_closed[r]
<1> SUFFICES ASSUME NEW r \in Tracked
             PROVE  /\ r \in trackers /\ r \in trackers' => closed'[r] >= closed[r]
                    /\ follower_closed'[r] >= follower_closed[r]
  OBVIOUS
<1>1. closed[r] \in Ts /\ follower_closed[r] \in Ts /\ closed \in [Tracked -> Ts] /\ follower_closed \in [Tracked -> Ts]
  BY DEF RangesInv, TypeInv, MultiRaftOK, ClosedOK
<1>2. CASE UNCHANGED <<closed, follower_closed>>
  BY <1>1, <1>2 DEF Ts
<1>3. ASSUME NEW x \in Resharder, ForgetOldRange(x) PROVE (r \in trackers' => closed'[r] = closed[r]) /\ UNCHANGED follower_closed
  BY <1>1, <1>3, IdFacts DEF ForgetOldRange, ForgetRange, sideVars
<1>4. ASSUME NEW a \in Advancer, NEW q \in Tracked, Close(a, q)
      PROVE  closed'[r] >= closed[r] /\ UNCHANGED follower_closed
  <2>1. bound[a] \in Nat
    BY DEF RangesInv, TypeInv, MultiRaftOK, ClosedOK
  <2> QED BY <1>1, <1>4, <2>1 DEF Close, AtLeast, sideVars, Ts
<1>5. ASSUME NEW u \in sent, ReceiveUpdate(u)
      PROVE  follower_closed'[r] >= follower_closed[r] /\ UNCHANGED closed
  <2>1. u[1] \in Tracked /\ u[2] \in Nat
    <3>1. \A v \in Tracked \X Ts : v[1] \in Tracked /\ v[2] \in Nat
      BY DEF Ts
    <3> QED BY <3>1 DEF RangesInv, TypeInv, MultiRaftOK, ClosedOK
  <2> QED BY <1>1, <1>5, <2>1 DEF ReceiveUpdate, AtLeast, trackerVars, Ts
<1>6. ASSUME NEW w \in Writer, WriteMove(w) \/ DateMove(w) PROVE UNCHANGED <<closed, follower_closed>>
  BY <1>6 DEF WriteMove, DateMove, FindWriteRange, ProposeToGroup, RegisterWrite, BeginWrite, CommitAndApply,
              EndRegistration, EndWrite, closedVars, trackerVars, sideVars
<1>7. ASSUME NEW x \in Resharder, Reshard(x) PROVE ForgetOldRange(x) \/ UNCHANGED <<closed, follower_closed>>
  BY <1>7 DEF Reshard, SplitTopology, InsertGroup, RegisterNewRange, RegisterRange, MergeTopology, RemoveGroup,
              closedVars, trackerVars, sideVars
<1>8. ASSUME NEW a \in Advancer, AdvanceMove(a)
      PROVE  (\E q \in Tracked : Close(a, q)) \/ UNCHANGED <<closed, follower_closed>>
  BY <1>8 DEF AdvanceMove, StartAdvance, ReadLowest, trackerVars, sideVars
<1>9. ASSUME NEW c \in Reader, PlanRead(c) PROVE UNCHANGED <<closed, follower_closed>>
  BY <1>9 DEF PlanRead, PlanBounded, PlanExact, StartPlan, ReadClosed, trackerVars, sideVars
<1>10. ASSUME Distribute PROVE (\E u \in sent : ReceiveUpdate(u)) \/ UNCHANGED <<closed, follower_closed>>
  BY <1>10 DEF Distribute, SetTargetLag, Publish, ReceiveRange, trackerVars, sideVars
<1>11. CASE UNCHANGED vars
  BY <1>2, <1>11 DEF vars, closedVars, trackerVars, sideVars
<1>12. CASE \E w \in Writer : WriteMove(w) \/ DateMove(w)
  BY <1>2, <1>6, <1>12
<1>13. CASE \E x \in Resharder : Reshard(x)
  BY <1>1, <1>2, <1>3, <1>7, <1>13 DEF Ts
<1>14. CASE \E a \in Advancer : AdvanceMove(a)
  BY <1>1, <1>2, <1>4, <1>8, <1>14 DEF Ts
<1>15. CASE \E c \in Reader : PlanRead(c)
  BY <1>2, <1>9, <1>15
<1>16. CASE Distribute
  BY <1>1, <1>2, <1>5, <1>10, <1>16 DEF Ts
<1> QED BY <1>11, <1>12, <1>13, <1>14, <1>15, <1>16 DEF Moves

\* The chain of ranges covers every key, and who is routed is served.
LEMMA RoutingHolds == RangesInv => RoutedRangesServe
<1> SUFFICES ASSUME RangesInv PROVE RoutedRangesServe
  OBVIOUS
<1> USE DEF RangesInv
<1>1. \A key \in Key : FindRange(key) # NoRange
  <2> TAKE key \in Key
  <2>1. FindRange(key) \in Routed
    BY EveryKeyIsCovered, FindRangeIsRouted DEF TypeInv, MultiRaftOK
  <2> QED BY <2>1, IdFacts DEF RangeId, NoRange
<1>2. \A r \in Routed : r \in groups \cap trackers \/ Splitting(r)
  BY DEF ServedInv, Splitting
<1> QED BY <1>1, <1>2 DEF RoutedRangesServe, ChainInv, WritersInv

\* What CoveredInv says of the writes still registered.
LEMMA CoveredHolds == RangesInv => ClosedBelowCovered
BY DEF RangesInv, CoveredInv, ClosedBelowCovered

\* What a follower has, and what is planned on it, is closed.
LEMMA FollowersHold == RangesInv => FollowersServeClosed
<1> SUFFICES ASSUME RangesInv PROVE FollowersServeClosed
  OBVIOUS
<1> USE DEF RangesInv
<1>1. FollowerNeverAhead
  BY DEF FollowerNeverAhead, FollowerInv
<1>2. ASSUME NEW c \in Reader, plan[c].state = "follower_read", NEW r \in plan[c].range_ids \cap trackers
      PROVE  UpTo(plan[c]) <= closed[r] /\ UpTo(plan[c]) \in Nat /\ closed[r] \in Nat
  <2>1. PlanOK(plan[c]) /\ closed[r] \in Nat
    BY DEF TypeInv, MultiRaftOK, ClosedOK, Ts
  <2>2. plan[c].left = {}
    BY <1>2, <2>1 DEF PlanOK
  <2>3. UpTo(plan[c]) <= closed[r]
    BY <1>2, <2>2 DEF PlanInv
  <2>4. UpTo(plan[c]) \in Nat
    BY <2>1, ClosedTimestampsAssumption DEF PlanOK, UpTo, AtMost, NoBound
  <2> QED BY <2>1, <2>3, <2>4
<1>3. ASSUME NEW c \in Reader, plan[c].state = "follower_read", NEW w \in covered,
             rid[w] \in plan[c].range_ids \cap trackers
      PROVE  wts[w] > UpTo(plan[c])
  <2>1. closed[rid[w]] < wts[w] /\ wts[w] \in Nat
    BY <1>3, IdFacts DEF CoveredInv, Ts
  <2> HIDE DEF RangesInv
  <2> QED BY <1>2, <1>3, <2>1
<1> QED BY <1>1, <1>2, <1>3 DEF FollowersServeClosed, PlansStayClosed
-----------------------------------------------------------------------------
\* In every behaviour, whatever splits, merges, writes, advances and reads interleave and wherever
\* the timestamps come from, the invariant holds, and with it the types of ranges and clock.
LEMMA ClockedInvariant == ClockedSpec => [](RangesInv /\ HlcOK)
<1>1. ClockedInit => RangesInv /\ HlcOK /\ HappensAfter
  BY RangesStart, HlcStart DEF ClockedInit
<1>2. (RangesInv /\ HlcOK /\ HappensAfter) /\ [ClockedNext]_allVars => (RangesInv /\ HlcOK /\ HappensAfter)'
  BY ClockStillTyped, ClockedMoves, RangesStep
<1> QED BY <1>1, <1>2, PTL DEF ClockedSpec

\* Ranges, trackers, followers, writes and clock keep their types, with or without the clock
\* (multi_raft.rs, closed_ts.rs, hlc.rs).
THEOREM RangesAreTyped == ClockedSpec => []TypeOK
<1>1. RangesInv /\ HlcOK => TypeOK
  BY DEF RangesInv, TypeInv, TypeOK
<1> QED BY <1>1, ClockedInvariant, PTL

\* Every key is routed after any sequence of splits and merges, a routed range has its group and its
\* tracker but for the split that is creating it, and only a merge loses a write
\* (multi_raft.rs split, merge, propose_at, commit_and_apply_at).
THEOREM RoutingIsComplete == ClockedSpec => []RoutedRangesServe
BY RoutingHolds, ClockedInvariant, PTL

\* A write that is registered in time stays above the closed timestamp of its range until its
\* registration ends (RangeClosedTimestampTracker::begin_write, advance, end_write).
THEOREM WritesStayOpen == ClockedSpec => []ClosedBelowCovered
BY CoveredHolds, ClockedInvariant, PTL

\* What a follower serves is closed at the leaseholder and stays so: its closed timestamps are
\* never ahead, and no write comes in below a planned read (apply_closed_timestamp_updates,
\* the planners of follower reads).
THEOREM FollowersAreBehind == ClockedSpec => []FollowersServeClosed
BY FollowersHold, ClockedInvariant, PTL

\* No advance that was overtaken, and no update that comes late, takes a closed timestamp back.
THEOREM ClosedIsKept == ClockedSpec => ClosedNeverRegresses
<1>1. RangesInv /\ HlcOK /\ (RangesInv /\ HlcOK)' /\ [ClockedNext]_allVars =>
         [\A r \in Tracked :
             /\ r \in trackers /\ r \in trackers' => closed'[r] >= closed[r]
             /\ follower_closed'[r] >= follower_closed[r]]_vars
  BY ClockedMoves, ClosedGrows
<1> QED BY <1>1, ClockedInvariant, PTL DEF ClockedSpec, ClosedNeverRegresses

\* The same without a clock: timestamps may be given by the callers (MultiRaft alone).
THEOREM RangesWithoutClock ==
    Spec => /\ [](MultiRaftOK /\ RoutedRangesServe /\ ClosedBelowCovered /\ FollowersServeClosed)
            /\ ClosedNeverRegresses
<1>1. RangesInv /\ [Next]_vars => RangesInv'
  BY NextMoves, RangesStep
<1>2. RangesInv => MultiRaftOK /\ RoutedRangesServe /\ ClosedBelowCovered /\ FollowersServeClosed
  BY RoutingHolds, CoveredHolds, FollowersHold DEF RangesInv, TypeInv
<1>3. RangesInv /\ [Next]_vars =>
         [\A r \in Tracked :
             /\ r \in trackers /\ r \in trackers' => closed'[r] >= closed[r]
             /\ follower_closed'[r] >= follower_closed[r]]_vars
  BY NextMoves, ClosedGrows
<1> QED BY RangesStart, <1>1, <1>2, <1>3, PTL DEF Spec, ClosedNeverRegresses
-----------------------------------------------------------------------------
(***************************************************************************)
(* Timestamps from the clock.                                              *)
(***************************************************************************)

\* The last ordinal handed out never falls.
LEMMA OrdinalsGrow ==
    ASSUME HlcOK, [HlcNext]_hlcVars
    PROVE  last_ordinal <= last_ordinal'
<1>1. last_ordinal \in Ordinal
  BY DEF HlcOK
<1>2. ASSUME NEW wall_now \in Ordinal, NowHlc(wall_now) PROVE last_ordinal <= last_ordinal'
  BY <1>1, <1>2 DEF NowHlc, Later, Ordinal
<1>3. ASSUME NEW wall_now \in Ordinal, NowOrdinal(wall_now) PROVE last_ordinal <= last_ordinal'
  <2>1. AsOrdinal(Advanced(clock, wall_now)) \in Ordinal
    BY AdvancedType, AsOrdinalType DEF HlcOK
  <2> QED BY <1>1, <1>3, <2>1, HlcAssumption DEF NowOrdinal, NextOrdinal, Later, Capped, Ordinal
<1>4. ASSUME NEW remote \in HlcTimestamp, NEW wall_now \in Ordinal, Update(remote, wall_now)
      PROVE  last_ordinal <= last_ordinal'
  <2>1. CASE SkewOk(remote, wall_now)
    <3>1. clock' \in HlcTimestamp
      BY <1>4, <2>1, MergedType DEF Update, HlcOK
    <3>2. AsOrdinal(clock') \in Ordinal
      BY <3>1, AsOrdinalType
    <3>3. last_ordinal' = Later(last_ordinal, AsOrdinal(clock'))
      BY <1>4, <2>1 DEF Update
    <3> QED BY <1>1, <3>2, <3>3 DEF Later, Ordinal
  <2>2. CASE ~SkewOk(remote, wall_now)
    BY <1>2, <1>4, <2>2 DEF Update
  <2> QED BY <2>1, <2>2
<1>5. CASE UNCHANGED hlcVars
  BY <1>1, <1>5 DEF hlcVars, Ordinal
<1>6. \A o \in Ordinal : FromOrdinal(o) \in HlcTimestamp
  BY HlcAssumption DEF FromOrdinal, HlcTimestamp
<1> QED BY <1>2, <1>3, <1>4, <1>5, <1>6 DEF HlcNext, ObserveOrdinal

\* Together with the ranges the clock still only makes steps of its own.
LEMMA ClockedIsHlc == [ClockedNext]_allVars => [HlcNext]_hlcVars
BY DEF ClockedNext, HlcNext, TakeTimestamp, ClockedWrite, ClockedStartAdvance, ClockedAdvance, ClockStep, allVars

\* Writes, closed timestamps and advances stay at or below the last ordinal.
LEMMA ClockStays ==
    ASSUME RangesInv, HlcOK, HlcOK', ClockInv, [ClockedNext]_allVars
    PROVE  ClockInv'
<1>1. last_ordinal \in Nat /\ last_ordinal' \in Nat /\ last_ordinal <= last_ordinal' /\ last_ordinal' \in Ts
  BY OrdinalsGrow, ClockedIsHlc, ClockedAssumption DEF HlcOK, Ordinal, Ts
<1>2. /\ wts \in [Writer -> Nat] /\ closed \in [Tracked -> Nat] /\ now \in [Advancer -> Nat]
      /\ bound \in [Advancer -> Nat]
  BY DEF RangesInv, TypeInv, MultiRaftOK, ClosedOK, Ts
<1>3. Clocked' = Clocked
  BY DEF ClockedNext, Next, Write, Reshard, Advance, PlanRead, Distribute, FindWriteRange, ProposeToGroup, RegisterWrite,
         CommitAndApply, EndRegistration, SplitTopology, InsertGroup, RegisterNewRange, MergeTopology, RemoveGroup,
         ForgetOldRange, TakeTimestamp, ClockedWrite, ClockedStartAdvance, ClockedAdvance, ClockStep, clusterVars,
         allVars, vars, Clocked
<1> SUFFICES ASSUME Clocked
             PROVE  /\ \A w \in Writer : wts'[w] <= last_ordinal'
                    /\ \A r \in Tracked : closed'[r] <= last_ordinal'
                    /\ \A a \in Advancer :
                          now'[a] <= last_ordinal' /\ (bound'[a] = NoBound \/ bound'[a] <= last_ordinal')
  BY <1>3 DEF ClockInv, NoBound
<1>4. /\ \A w \in Writer : wts[w] <= last_ordinal'
      /\ \A r \in Tracked : closed[r] <= last_ordinal'
      /\ \A a \in Advancer : now[a] <= last_ordinal' /\ (bound[a] = NoBound \/ bound[a] <= last_ordinal')
  BY <1>1, <1>2 DEF ClockInv
<1>5. ASSUME NEW w \in Writer, NEW wall_now \in Ordinal, TakeTimestamp(w, wall_now)
      PROVE  wts' = [wts EXCEPT ![w] = last_ordinal'] /\ UNCHANGED <<closed, now, bound>>
  BY <1>5 DEF TakeTimestamp, closedVars, trackerVars, advanceVars
<1>6. ASSUME NEW w \in Writer, ClockedWrite(w) PROVE UNCHANGED <<wts, closed, now, bound>>
  BY <1>2, <1>6 DEF ClockedWrite, FindWriteRange, ProposeToGroup, RegisterWrite, BeginWrite, CommitAndApply,
                    EndRegistration, EndWrite, closedVars, trackerVars, advanceVars
<1>7. ASSUME NEW a \in Advancer, NEW wall_now \in Ordinal, ClockedStartAdvance(a, wall_now)
      PROVE  now' = [now EXCEPT ![a] = last_ordinal'] /\ UNCHANGED <<wts, closed, bound>>
  BY <1>7 DEF ClockedStartAdvance, StartAdvance, clusterVars, writerVars, trackerVars
<1>8. ASSUME NEW a \in Advancer, NEW r \in Tracked, ReadLowest(a, r)
      PROVE  bound' = [bound EXCEPT ![a] = Bound(r, now[a])] /\ UNCHANGED <<closed, now>> /\ Bound(r, now[a]) <= last_ordinal'
  <2>1. now[a] \in Ts /\ Bound(r, now[a]) \in Ts /\ Bound(r, now[a]) <= now[a]
    BY BoundIsLow DEF RangesInv, TypeInv, MultiRaftOK, ClosedOK
  <2> QED BY <1>1, <1>4, <1>8, <2>1 DEF ReadLowest, trackerVars, Ts
<1>9. ASSUME NEW a \in Advancer, NEW r \in Tracked, Close(a, r)
      PROVE  /\ closed' = [closed EXCEPT ![r] = AtLeast(closed[r], bound[a])] /\ bound[a] <= last_ordinal'
             /\ bound' = [bound EXCEPT ![a] = NoBound] /\ UNCHANGED now
  BY <1>4, <1>9 DEF Close
<1>10. CASE \E w \in Writer : (\E wall_now \in Ordinal : TakeTimestamp(w, wall_now)) \/ ClockedWrite(w)
  BY <1>1, <1>2, <1>4, <1>5, <1>6, <1>10
<1>11. CASE \E a \in Advancer : (\E wall_now \in Ordinal : ClockedStartAdvance(a, wall_now))
  BY <1>1, <1>2, <1>4, <1>7, <1>11
<1>12. CASE \E a \in Advancer : ClockedAdvance(a)
  <2>1. PICK a \in Advancer, r \in Tracked : ReadLowest(a, r) \/ Close(a, r)
    BY <1>12 DEF ClockedAdvance
  <2>2. UNCHANGED wts
    BY <1>12 DEF ClockedAdvance, clusterVars, writerVars
  <2>3. CASE ReadLowest(a, r)
    BY <1>2, <1>4, <1>8, <2>2, <2>3
  <2>4. CASE Close(a, r)
    BY <1>1, <1>2, <1>4, <1>9, <2>2, <2>4 DEF AtLeast
  <2> QED BY <2>1, <2>3, <2>4
<1>13. CASE UNCHANGED vars
  BY <1>4, <1>13 DEF vars, closedVars, trackerVars, advanceVars, writerVars
<1> QED BY <1>10, <1>11, <1>12, <1>13 DEF ClockedNext, ClockStep, allVars

\* A timestamp that is taken is above all that ClockInv speaks of.
LEMMA TakenIsOpen ==
    ASSUME RangesInv, HlcOK, ClockInv, [ClockedNext]_allVars, Clocked, ~Saturated,
           NEW w \in Writer, wts[w] = 0, wts'[w] # 0
    PROVE  /\ \A r \in Tracked : closed[r] < wts'[w]
           /\ \A v \in Writer \ {w} : wts[v] < wts'[w]
<1>1. wts \in [Writer -> Nat] /\ closed \in [Tracked -> Nat] /\ last_ordinal \in Nat /\ last_ordinal < MaxOrdinal
  BY HlcAssumption DEF RangesInv, TypeInv, MultiRaftOK, ClosedOK, Ts, HlcOK, Ordinal, Saturated
<1>2. ASSUME NEW v \in Writer, ClockedWrite(v) PROVE UNCHANGED wts
  BY <1>1, <1>2 DEF ClockedWrite, FindWriteRange, ProposeToGroup, RegisterWrite, CommitAndApply, EndRegistration
<1>3. ASSUME NEW a \in Advancer,
             (\E wall_now \in Ordinal : ClockedStartAdvance(a, wall_now)) \/ ClockedAdvance(a)
      PROVE  UNCHANGED wts
  BY <1>3 DEF ClockedStartAdvance, ClockedAdvance, clusterVars, writerVars
<1>4. CASE UNCHANGED vars
  BY <1>4 DEF vars, writerVars
<1>5. PICK v \in Writer, wall_now \in Ordinal : TakeTimestamp(v, wall_now)
  <2>1. wts' # wts
    OBVIOUS
  <2>2. ~UNCHANGED vars
    BY <1>4, <2>1 DEF vars, writerVars
  <2>3. \/ \E v \in Writer : (\E wall_now \in Ordinal : TakeTimestamp(v, wall_now)) \/ ClockedWrite(v)
        \/ \E a \in Advancer :
              (\E wall_now \in Ordinal : ClockedStartAdvance(a, wall_now)) \/ ClockedAdvance(a)
    BY <2>2 DEF ClockedNext, ClockStep, allVars
  <2> QED BY <1>2, <1>3, <2>1, <2>3
<1>6. v = w /\ wts'[w] = last_ordinal'
  BY <1>1, <1>5 DEF TakeTimestamp
<1>7. last_ordinal < last_ordinal'
  BY <1>1, <1>5, OrdinalsAreFresh DEF TakeTimestamp
<1>8. last_ordinal' \in Nat
  <2>1. AsOrdinal(Advanced(clock, wall_now)) \in Ordinal
    BY AdvancedType, AsOrdinalType DEF HlcOK
  <2> QED BY <1>1, <1>5, <2>1, HlcAssumption
          DEF TakeTimestamp, NowOrdinal, NextOrdinal, Later, Capped, Ordinal
<1> QED BY <1>1, <1>6, <1>7, <1>8 DEF ClockInv

\* A timestamp taken from the clock is above every closed timestamp and every timestamp taken
\* before, whatever the system clock reads, until u64 is exhausted (now_default_nanos).
THEOREM TimestampsAreOpen == ClockedSpec => FreshTimestampsAreOpen
<1>1. ClockedInit => ClockInv
  BY HlcAssumption DEF ClockedInit, Init, ClosedInit, HlcInit, ClockInv
<1>2. RangesInv /\ HlcOK /\ (RangesInv /\ HlcOK)' /\ ClockInv /\ [ClockedNext]_allVars => ClockInv'
  BY ClockStays
<1>3. RangesInv /\ HlcOK /\ ClockInv /\ [ClockedNext]_allVars =>
         [\A w \in Writer : wts[w] = 0 /\ wts'[w] # 0 /\ Clocked /\ ~Saturated =>
             /\ \A r \in Tracked : closed[r] < wts'[w]
             /\ \A v \in Writer \ {w} : wts[v] < wts'[w]]_allVars
  BY TakenIsOpen
<1> QED BY <1>1, <1>2, <1>3, ClockedInvariant, PTL DEF ClockedSpec, FreshTimestampsAreOpen
=============================================================================
