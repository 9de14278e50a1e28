-------------------------------- MODULE Hlc ---------------------------------
(***************************************************************************)
(* The hybrid logical clock (hlc.rs).  Every method does its work under    *)
(* one mutex.  The reading of the system clock is an input of each call:   *)
(* it is taken before the mutex and may stand still or go back.  Words     *)
(* keep their width: a wall time and an ordinal saturate at MaxOrdinal     *)
(* (u64), the logical part at MaxLogical (u32).  The `synthetic` flag is   *)
(* no part of any comparison and left out.                                 *)
(***************************************************************************)
EXTENDS Naturals

CONSTANTS
    MaxOrdinal,    \* the largest u64
    MaxLogical,    \* the largest u32
    MaxClockOffset \* max_offset_nanos; 0 accepts every remote timestamp

ASSUME HlcAssumption ==
    MaxOrdinal \in Nat \ {0} /\ MaxLogical \in Nat \ {0} /\ MaxClockOffset \in Nat

Ordinal == 0..MaxOrdinal
HlcTimestamp == [wall_nanos : Ordinal, logical : 0..MaxLogical]

VARIABLES
    clock,        \* wall_nanos and logical of HlcState
    last_ordinal, \* the last ordinal handed out or passed
    heard         \* history: the latest remote timestamp that update accepted

hlcVars == <<clock, last_ordinal, heard>>
-----------------------------------------------------------------------------
Zero == [wall_nanos |-> 0, logical |-> 0]

HlcInit ==
    /\ clock = Zero
    /\ last_ordinal = 0
    /\ heard = Zero

\* Saturating arithmetic.
Capped(n, top) == IF n <= top THEN n ELSE top
Later(x, y) == IF x >= y THEN x ELSE y

\* The order of timestamps.
Before(s, t) ==
    \/ s.wall_nanos < t.wall_nanos
    \/ s.wall_nanos = t.wall_nanos /\ s.logical < t.logical

AsOrdinal(t) == Capped(t.wall_nanos + t.logical, MaxOrdinal)

\* from_ordinal: the logical part is lost.
FromOrdinal(o) == [wall_nanos |-> o, logical |-> 0]

\* Variant: the wall clock is taken as it reads.
AdvancedToWall(t, wall_now) ==
    IF wall_now = t.wall_nanos THEN [t EXCEPT !.logical = Capped(@ + 1, MaxLogical)]
    ELSE FromOrdinal(wall_now)

\* advance_locked: follow the wall clock if it is ahead, else count.
Advanced(t, wall_now) ==
    IF wall_now > t.wall_nanos THEN FromOrdinal(wall_now)
    ELSE IF t.logical = MaxLogical THEN FromOrdinal(Capped(t.wall_nanos + 1, MaxOrdinal))
    ELSE [t EXCEPT !.logical = @ + 1]

\* now_hlc.
NowHlc(wall_now) ==
    /\ clock' = Advanced(clock, wall_now)
    /\ last_ordinal' = Later(last_ordinal, AsOrdinal(clock'))
    /\ UNCHANGED heard

\* Variant: the projection of the clock is handed out as it is.
NextOrdinalUnclamped(wall_now) == AsOrdinal(Advanced(clock, wall_now))

\* The ordinal that now_ordinal hands out: clamped, because the projection may fall.
NextOrdinal(wall_now) ==
    Later(AsOrdinal(Advanced(clock, wall_now)), Capped(last_ordinal + 1, MaxOrdinal))

NowOrdinal(wall_now) ==
    /\ clock' = Advanced(clock, wall_now)
    /\ last_ordinal' = NextOrdinal(wall_now)
    /\ UNCHANGED heard

SkewOk(remote, wall_now) ==
    MaxClockOffset = 0 \/ remote.wall_nanos <= Capped(wall_now + MaxClockOffset, MaxOrdinal)

\* Variant: a remote time on the same nanosecond does not count.
MergedLocally(remote, wall_now) ==
    LET wall == Later(Later(clock.wall_nanos, remote.wall_nanos), wall_now)
        logical == IF wall = clock.wall_nanos THEN Capped(clock.logical + 1, MaxLogical)
                   ELSE IF wall = remote.wall_nanos THEN remote.logical ELSE 0
    IN [wall_nanos |-> wall, logical |-> logical]

\* update: the largest of the three wall times, one step after the logical part that came with it.
Merged(remote, wall_now) ==
    LET wall == Later(Later(clock.wall_nanos, remote.wall_nanos), wall_now)
        logical ==
            CASE wall = clock.wall_nanos /\ wall = remote.wall_nanos
                   -> Capped(Later(clock.logical, remote.logical) + 1, MaxLogical)
              [] wall = clock.wall_nanos /\ wall # remote.wall_nanos -> Capped(clock.logical + 1, MaxLogical)
              [] wall # clock.wall_nanos /\ wall = remote.wall_nanos -> Capped(remote.logical + 1, MaxLogical)
              [] OTHER -> 0
    IN [wall_nanos |-> wall, logical |-> logical]

\* update of a remote timestamp; one too far ahead of the wall clock is passed over, and the
\* clock only ticks.  (try_update refuses it and leaves the clock alone.)
Update(remote, wall_now) ==
    IF SkewOk(remote, wall_now)
    THEN /\ clock' = IF Before(clock, Merged(remote, wall_now)) THEN Merged(remote, wall_now) ELSE clock
         /\ last_ordinal' = Later(last_ordinal, AsOrdinal(clock'))
         /\ heard' = IF Before(heard, remote) THEN remote ELSE heard
    ELSE NowHlc(wall_now)

\* observe_ordinal.
ObserveOrdinal(o, wall_now) == Update(FromOrdinal(o), wall_now)

HlcNext ==
    \E wall_now \in Ordinal :
        \/ NowHlc(wall_now)
        \/ NowOrdinal(wall_now)
        \/ \E o \in Ordinal : ObserveOrdinal(o, wall_now)
        \/ \E remote \in HlcTimestamp : Update(remote, wall_now)

HlcSpec == HlcInit /\ [][HlcNext]_hlcVars
-----------------------------------------------------------------------------
HlcOK ==
    /\ clock \in HlcTimestamp /\ heard \in HlcTimestamp
    /\ last_ordinal \in Ordinal /\ last_ordinal >= AsOrdinal(clock)

\* A call that moves the clock moves it forward, however the system clock jumps; only at the
\* very last nanosecond does the logical part wrap.
ClockGrows == [][clock.wall_nanos < MaxOrdinal => Before(clock, clock')]_clock

\* Whatever happens here happens after every remote event that was accepted, unless the remote
\* logical part was exhausted.
HappensAfter ==
    clock.wall_nanos < MaxOrdinal /\ heard.logical < MaxLogical /\ heard # Zero => Before(heard, clock)
=============================================================================
