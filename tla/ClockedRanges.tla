--------------------------- MODULE ClockedRanges ----------------------------
(***************************************************************************)
(* The ranges together with the clock that dates their writes and their    *)
(* advances: now_default_nanos (admin_resolvers.rs) takes an ordinal from  *)
(* the HLC unless the caller gives a time of its own.  Both uses are here: *)
(* behaviours in which "hlc" is active take every timestamp from the       *)
(* clock, while remote timestamps arrive and the system clock jumps; in    *)
(* the others timestamps are arbitrary.                                    *)
(***************************************************************************)
EXTENDS MultiRaft, Hlc

CONSTANT ClockActor  \* stands for the use of the HLC in a scenario

ASSUME ClockedAssumption == MaxOrdinal = MaxTs

allVars == <<vars, hlcVars>>
Clocked == ClockActor \in active

ClockedInit == Init /\ HlcInit

\* A client takes the timestamp of its write.
TakeTimestamp(w, wall_now) ==
    /\ w \in active /\ writer[w] = "propose" /\ wts[w] = 0
    /\ NowOrdinal(wall_now)
    /\ wts' = [wts EXCEPT ![w] = last_ordinal']
    /\ UNCHANGED <<topologyVars, closedVars, active, groups, writer, rid, reshardVars, covered>>

\* It writes with it, and the other steps of a write do not touch the clock.
ClockedWrite(w) ==
    /\ \/ wts[w] # 0 /\ \E key \in Key : FindWriteRange(w, key, wts[w])
       \/ ProposeToGroup(w) \/ RegisterWrite(w) \/ CommitAndApply(w) \/ EndRegistration(w)
    /\ UNCHANGED hlcVars

\* closedTsAdvance without nowNanos.
ClockedStartAdvance(a, wall_now) ==
    /\ a \in active
    /\ NowOrdinal(wall_now)
    /\ StartAdvance(a, last_ordinal')
    /\ UNCHANGED clusterVars

ClockedAdvance(a) ==
    /\ \E r \in Tracked : ReadLowest(a, r) \/ Close(a, r)
    /\ UNCHANGED <<clusterVars, hlcVars>>

\* hlcNow, and timestamps of other nodes.
ClockStep ==
    /\ \E wall_now \in Ordinal :
          \/ NowHlc(wall_now)
          \/ \E o \in Ordinal : ObserveOrdinal(o, wall_now)
          \/ \E remote \in HlcTimestamp : Update(remote, wall_now)
    /\ UNCHANGED vars

ClockedNext ==
    \/ ~Clocked /\ Next /\ UNCHANGED hlcVars
    \/ Clocked /\ \E w \in Writer : (\E wall_now \in Ordinal : TakeTimestamp(w, wall_now)) \/ ClockedWrite(w)
    \/ Clocked /\ \E a \in Advancer :
          (\E wall_now \in Ordinal : ClockedStartAdvance(a, wall_now)) \/ ClockedAdvance(a)
    \/ Clocked /\ ClockStep

ClockedSpec == ClockedInit /\ [][ClockedNext]_allVars
-----------------------------------------------------------------------------
\* The types of the ranges and of the clock.
TypeOK == MultiRaftOK /\ HlcOK

Saturated == last_ordinal = MaxOrdinal

\* With timestamps from the clock, one that is taken is open: above every closed timestamp and
\* above every timestamp taken before, whatever the system clock reads and whatever remote
\* timestamps came in, until the ordinals are exhausted.
FreshTimestampsAreOpen ==
    [][\A w \in Writer : wts[w] = 0 /\ wts'[w] # 0 /\ Clocked /\ ~Saturated =>
          /\ \A r \in Tracked : closed[r] < wts'[w]
          /\ \A v \in Writer \ {w} : wts[v] < wts'[w]]_allVars
=============================================================================
