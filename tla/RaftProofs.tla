----------------------------- MODULE RaftProofs -----------------------------
(***************************************************************************)
(* Raft, for any set of voters, learners and commands and any bounds: type *)
(* correctness, finality of votes and election safety; then log matching   *)
(* and the order of terms, although append_entries cuts logs wherever a    *)
(* late request says and a deposed leader sends on under its earlier term. *)
(***************************************************************************)
EXTENDS Raft, FiniteSetTheorems, SequenceTheorems, TLAPS

-----------------------------------------------------------------------------
(***************************************************************************)
(* A driver awaits one call at a time: its loop over the peers is          *)
(* sequential (driver.rs:112-131, 158-173).                                *)
(***************************************************************************)
LoopOf(m) ==
    IF m.kind \in {"RequestVote", "VoteResult"} THEN "elect" ELSE "replicate"

CallsMatchLoops ==
    \A n \in Node : \A m \in net : CallOf(n, m) => phase[n] = LoopOf(m)

OneCallEach ==
    \A n \in Node : \A m1, m2 \in net : CallOf(n, m1) /\ CallOf(n, m2) => m1 = m2

VotersArePolled == \A n \in Node : phase[n] = "elect" => todo[n] \subseteq Voter

TypeInv == TypeOK /\ CallsMatchLoops /\ OneCallEach /\ VotersArePolled

\* `others` is what is on its way once n's call, if any, is over.
FreedOf(n, others) ==
    /\ others \subseteq Message
    /\ \A m \in others : ~CallOf(n, m)
    /\ \A m \in others : \A p \in Node : CallOf(p, m) => m \in net

-----------------------------------------------------------------------------
(***************************************************************************)
(* The operators have the types one expects.                               *)
(***************************************************************************)

\* The smaller of two indices is an index.
LEMMA LesserOfNat ==
    ASSUME NEW a \in Nat, NEW b \in Nat
    PROVE  LesserOf(a, b) \in Nat /\ LesserOf(a, b) <= b /\ LesserOf(a, b) <= a
BY DEF LesserOf

\* commit_to yields an index.
LEMMA CommitToNat ==
    ASSUME NEW l \in Seq(Entry), NEW c \in Nat, NEW i \in Nat
    PROVE  CommitTo(l, c, i) \in Nat
<1>1. Len(l) \in Nat
  BY LenProperties
<1> QED
  BY <1>1, LesserOfNat DEF CommitTo

\* truncate_from and entries_from cut a log out of a log.
LEMMA CutsAreLogs ==
    ASSUME NEW l \in Seq(Entry), NEW i \in Nat \ {0}
    PROVE  /\ TruncateFrom(l, i) \in Seq(Entry)
           /\ EntriesFrom(l, i) \in Seq(Entry)
<1>1. /\ Len(l) \in Nat
      /\ \A k \in 1 .. Len(l) : l[k] \in Entry
  BY ElementOfSeq, LenProperties
<1>2. EntriesFrom(l, i) \in Seq(Entry)
  <2>1. \A k \in i .. Len(l) : l[k] \in Entry
    BY <1>1
  <2> QED
    BY <1>1, <2>1, SubSeqProperties DEF EntriesFrom
<1>3. TruncateFrom(l, i) \in Seq(Entry)
  <2> DEFINE e == LesserOf(i - 1, Len(l))
  <2>0. i - 1 \in Nat
    OBVIOUS
  <2>1. e \in Nat /\ e <= Len(l)
    BY <1>1, <2>0, LesserOfNat
  <2>2. \A k \in 1 .. e : l[k] \in Entry
    BY <1>1, <2>1
  <2>3. SubSeq(l, 1, e) \in Seq(Entry)
    <3> HIDE DEF e
    <3> QED
      BY <2>1, <2>2, SubSeqProperties
  <2> QED
    BY <2>3 DEF TruncateFrom
<1> QED
  BY <1>2, <1>3

\* The term of the last entry, or of an entry that may be missing, is a number.
LEMMA TermsAreNat ==
    ASSUME NEW l \in Seq(Entry), NEW i \in Nat
    PROVE  TermOrZero(l, i) \in Nat /\ LastTerm(l) \in Nat
<1>1. /\ Len(l) \in Nat
      /\ DOMAIN l = 1 .. Len(l)
      /\ \A k \in 1 .. Len(l) : l[k] \in Entry
  BY ElementOfSeq, LenProperties
<1>2. \A k \in 1 .. Len(l) : l[k].term \in Nat
  BY <1>1 DEF Entry
<1>3. TermOrZero(l, i) \in Nat
  BY <1>1, <1>2 DEF TermOrZero
<1>4. l # << >> => Len(l) \in 1 .. Len(l)
  BY <1>1, EmptySeq
<1>5. LastTerm(l) \in Nat
  BY <1>2, <1>4 DEF LastTerm
<1> QED
  BY <1>3, <1>5

\* What the applier has received is a sequence of commands.
LEMMA AppliedIsSeq ==
    ASSUME NEW done \in Seq(Command), NEW l \in Seq(Entry), NEW c \in Nat
    PROVE  Applied(done, l, c) \in Seq(Command)
<1>1. /\ Len(l) \in Nat
      /\ Len(done) \in Nat
      /\ \A k \in 1 .. Len(l) : l[k] \in Entry
  BY ElementOfSeq, LenProperties
<1>2. CASE c > Len(done) /\ c <= Len(l)
  <2> DEFINE fresh == [i \in 1 .. c - Len(done) |-> l[Len(done) + i].cmd]
  <2>1. \A i \in 1 .. c - Len(done) : l[Len(done) + i].cmd \in Command
    BY <1>1, <1>2 DEF Entry
  <2>2. c - Len(done) \in Nat
    BY <1>1, <1>2
  <2>3. fresh \in [1 .. c - Len(done) -> Command]
    BY <2>1
  <2>4. fresh \in Seq(Command)
    <3> HIDE DEF fresh
    <3> QED
      BY <2>2, <2>3, SeqDef
  <2>5. done \o fresh \in Seq(Command)
    BY <2>4, ConcatProperties
  <2> QED
    BY <1>2, <2>5 DEF Applied
<1>3. CASE ~(c > Len(done) /\ c <= Len(l))
  BY <1>3 DEF Applied
<1> QED
  BY <1>2, <1>3

\* A vote request is well formed.
LEMMA RequestVoteToType ==
    ASSUME NEW n \in Voter, NEW p \in Voter, NEW t \in Nat,
           NEW pos \in [index : Nat, term : Nat]
    PROVE  RequestVoteTo(n, p, t, pos) \in RequestVoteReq
BY DEF RequestVoteTo, RequestVoteReq

\* An append request built from the leader's log is well formed.
LEMMA AppendEntriesToType ==
    ASSUME LogType, NEW n \in Voter, NEW p \in Node, NEW t \in Nat, NEW mi \in [Node -> Nat]
    PROVE  AppendEntriesTo(n, p, t, mi) \in AppendEntriesReq
<1>1. n \in Node /\ log[n] \in Seq(Entry) /\ commit_index[n] \in Nat /\ mi[p] \in Nat
  BY DEF LogType, Node
<1>2. mi[p] + 1 \in Nat \ {0}
  BY <1>1
<1>3. EntriesFrom(log[n], mi[p] + 1) \in Seq(Entry)
  BY <1>1, <1>2, CutsAreLogs
<1>4. TermOrZero(log[n], mi[p]) \in Nat
  BY <1>1, TermsAreNat
<1> QED
  BY <1>1, <1>3, <1>4 DEF AppendEntriesTo, AppendEntriesReq

-----------------------------------------------------------------------------
(***************************************************************************)
(* What is on its way when a call begins or ends.                          *)
(***************************************************************************)

\* An idle driver waits for nothing.
LEMMA IdleHasNoCall ==
    ASSUME TypeInv, NEW n \in Node, phase[n] = "idle"
    PROVE  FreedOf(n, net)
BY DEF TypeInv, TypeOK, CallsMatchLoops, LoopOf, FreedOf

\* Once the only call of a driver is consumed or lost it waits for nothing.
LEMMA ConsumedIsFreed ==
    ASSUME TypeInv, NEW n \in Node, NEW m \in net, CallOf(n, m)
    PROVE  FreedOf(n, net \ {m})
BY DEF TypeInv, TypeOK, OneCallEach, FreedOf

\* A request that is given up is nobody's call any more.
LEMMA OrphanIsNobodys ==
    ASSUME TypeInv, NEW n \in Node, NEW m \in net, CallOf(n, m), IsRequest(m)
    PROVE  FreedOf(n, Orphaned(m))
<1> DEFINE o == [m EXCEPT !.live = FALSE]
<1>1. m \in RequestVoteReq \cup AppendEntriesReq
  BY DEF TypeInv, TypeOK, Message, IsRequest, RequestVoteResp, AppendEntriesResp
<1>2. /\ o \in RequestVoteReq \cup AppendEntriesReq
      /\ IsRequest(o)
      /\ o.live = FALSE
  BY <1>1 DEF RequestVoteReq, AppendEntriesReq, IsRequest
<1>3. \A p : ~CallOf(p, o)
  BY <1>2 DEF CallOf
<1>4. Orphaned(m) = (net \ {m}) \cup {o}
  BY DEF Orphaned
<1>5. o \in Message
  BY <1>2 DEF Message
<1> HIDE DEF o
<1> QED
  BY <1>3, <1>4, <1>5, ConsumedIsFreed DEF FreedOf

\* A tick that applies what is committed leaves the types of the log.
LEMMA ApplyCommittedTypes ==
    ASSUME LogType, NEW n \in Node, UNCHANGED <<log, commit_index>>,
           ApplyCommitted(n, log[n], commit_index[n])
    PROVE  LogType'
<1>1. Applied(applied[n], log[n], commit_index[n]) \in Seq(Command)
  BY AppliedIsSeq DEF LogType
<1> QED
  BY <1>1 DEF ApplyCommitted, LogType

\* The loop of an election calls the next voter or ends.
LEMMA PollNextTypes ==
    ASSUME TypeInv, NEW n \in Voter, NEW r \in {"Leader", "Follower", "Candidate"},
           NEW v \in SUBSET Voter, NEW rest \in SUBSET Voter,
           NEW others, FreedOf(n, others),
           ballot' \in [Node -> Nat], position' \in [Node -> [index : Nat, term : Nat]],
           UNCHANGED <<log, commit_index>>, PollNext(n, r, v, rest, others)
    PROVE  /\ RoleType' /\ LogType'
           /\ DriverType'
           /\ net' \subseteq Message
           /\ CallsMatchLoops' /\ OneCallEach' /\ VotersArePolled'
<1>1. n \in Node /\ n \notin Learner /\ Voter \subseteq Node
  BY LearnerAssumption DEF Node
<1>2. /\ match_index' \in [Node -> [Node -> Nat]]
      /\ votes' \in [Node -> SUBSET Voter]
      /\ RoleType' /\ LogType'
  <2>1. \E x \in {"Leader", "Follower", "Candidate"} : role' = [role EXCEPT ![n] = x]
    BY DEF PollNext
  <2>2. RoleType'
    BY <1>1, <2>1 DEF TypeInv, TypeOK, RoleType
  <2>3. \/ match_index' = match_index
        \/ match_index' = [match_index EXCEPT ![n] = [p \in Node |-> 0]]
    BY DEF PollNext
  <2>4. match_index' \in [Node -> [Node -> Nat]]
    <3>1. [p \in Node |-> 0] \in [Node -> Nat]
      OBVIOUS
    <3>2. match_index \in [Node -> [Node -> Nat]]
      BY DEF TypeInv, TypeOK, DriverType
    <3> QED
      BY <2>3, <3>1, <3>2
  <2>5. votes' \in [Node -> SUBSET Voter]
    BY <1>1 DEF PollNext, TypeInv, TypeOK, DriverType
  <2>6. applied' = applied \/ ApplyCommitted(n, log[n], commit_index[n])
    BY DEF PollNext
  <2>7. LogType'
    BY <1>1, <2>6, ApplyCommittedTypes DEF TypeInv, TypeOK, LogType
  <2> QED
    BY <2>2, <2>4, <2>5, <2>7
<1>3. CASE rest = {} /\ net' = others /\ phase' = [phase EXCEPT ![n] = "idle"]
           /\ todo' = [todo EXCEPT ![n] = {}]
  <2>1. DriverType'
    BY <1>1, <1>2, <1>3 DEF TypeInv, TypeOK, DriverType
  <2>2. net' \subseteq Message
    BY <1>3 DEF FreedOf
  <2>3. CallsMatchLoops' /\ OneCallEach'
    BY <1>1, <1>3 DEF FreedOf, TypeInv, CallsMatchLoops, OneCallEach, CallOf, IsRequest, LoopOf,
                      TypeOK, DriverType
  <2>4. VotersArePolled'
    BY <1>1, <1>3 DEF TypeInv, TypeOK, DriverType, VotersArePolled
  <2> QED
    BY <1>2, <2>1, <2>2, <2>3, <2>4
<1>4. ASSUME NEW p \in rest,
             phase' = [phase EXCEPT ![n] = "elect"],
             todo' = [todo EXCEPT ![n] = rest \ {p}],
             net' = others \cup {RequestVoteTo(n, p, ballot'[n], position'[n])}
      PROVE  DriverType' /\ net' \subseteq Message
             /\ CallsMatchLoops' /\ OneCallEach' /\ VotersArePolled'
  <2> DEFINE q == RequestVoteTo(n, p, ballot'[n], position'[n])
  <2>1. q \in RequestVoteReq
    BY <1>1, RequestVoteToType
  <2>2. DriverType'
    BY <1>1, <1>2, <1>4 DEF TypeInv, TypeOK, DriverType
  <2>3. net' \subseteq Message
    BY <1>4, <2>1 DEF FreedOf, Message
  <2>4. q.kind = "RequestVote" /\ q.live = TRUE /\ q.from = n
    BY DEF RequestVoteTo
  <2>5. \A k \in Node : CallOf(k, q) <=> k = n
    BY <1>1, <2>4 DEF CallOf, IsRequest
  <2>6. LoopOf(q) = "elect"
    BY <2>4 DEF LoopOf
  <2> HIDE DEF q
  <2>7. net' = others \cup {q}
    BY <1>4 DEF q
  <2>8. \A k \in Node : phase'[k] = IF k = n THEN "elect" ELSE phase[k]
    BY <1>1, <1>4 DEF TypeInv, TypeOK, DriverType
  <2>9. CallsMatchLoops' /\ OneCallEach'
    <3>1. ASSUME NEW k \in Node, NEW m \in net', CallOf(k, m)
          PROVE  phase'[k] = LoopOf(m)
      BY <2>5, <2>6, <2>7, <2>8, <3>1 DEF FreedOf, TypeInv, CallsMatchLoops
    <3>2. ASSUME NEW k \in Node, NEW m1 \in net', NEW m2 \in net',
                 CallOf(k, m1), CallOf(k, m2)
          PROVE  m1 = m2
      BY <2>5, <2>7, <3>2 DEF FreedOf, TypeInv, OneCallEach
    <3> QED
      BY <3>1, <3>2 DEF CallsMatchLoops, OneCallEach, CallOf, IsRequest, LoopOf
  <2>10. VotersArePolled'
    BY <1>1, <1>4, <2>8 DEF TypeInv, TypeOK, DriverType, VotersArePolled
  <2> QED
    BY <2>2, <2>3, <2>9, <2>10
<1> QED
  BY <1>2, <1>3, <1>4 DEF PollNext

\* maybe_commit yields an index.
LEMMA CommittedIsNat ==
    ASSUME LogType, NEW n \in Node, NEW mi \in [Node -> Nat]
    PROVE  CommittedByMajority(n, mi) \in Nat
<1> DEFINE i == MajorityIndex(n, mi)
<1>1. log[n] \in Seq(Entry) /\ commit_index[n] \in Nat
  BY DEF LogType
<1>2. DOMAIN log[n] = 1 .. Len(log[n]) /\ Len(log[n]) \in Nat
  BY <1>1, LenProperties
<1> HIDE DEF i
<1>3. HasTermAt(log[n], i, current_term[n]) => i \in Nat
  BY <1>2 DEF HasTermAt
<1>4. i \in Nat => CommitTo(log[n], commit_index[n], i) \in Nat
  BY <1>1, CommitToNat
<1> QED
  BY <1>1, <1>3, <1>4 DEF CommittedByMajority, i

\* The loop of a replication round calls the next node or ends the round.
LEMMA ReplicateNextTypes ==
    ASSUME TypeInv, NEW n \in Voter, NEW t \in Nat, NEW mi \in [Node -> Nat],
           NEW rest \in SUBSET Node,
           NEW others, FreedOf(n, others), ballot' \in [Node -> Nat], failures' \in Nat,
           ReplicateNext(n, t, mi, rest, others)
    PROVE  TypeInv'
<1>1. n \in Node /\ n \notin Learner /\ Voter \subseteq Node
  BY LearnerAssumption DEF Node
<1>2. /\ RoleType' /\ TermType' /\ issued' \subseteq Command
      /\ log' = log
      /\ match_index' \in [Node -> [Node -> Nat]]
      /\ position' \in [Node -> [index : Nat, term : Nat]]
      /\ votes' \in [Node -> SUBSET Voter]
  BY <1>1 DEF ReplicateNext, nodeVars, TypeInv, TypeOK, RoleType, TermType, DriverType
<1>3. CASE /\ rest = {} /\ net' = others /\ phase' = [phase EXCEPT ![n] = "idle"]
           /\ todo' = [todo EXCEPT ![n] = {}]
           /\ commit_index' = [commit_index EXCEPT ![n] = CommittedByMajority(n, mi)]
           /\ applied' = [applied EXCEPT ![n] =
                            Applied(@, log[n], CommittedByMajority(n, mi))]
  <2>1. DriverType'
    BY <1>1, <1>2, <1>3 DEF TypeInv, TypeOK, DriverType
  <2>2. net' \subseteq Message
    BY <1>3 DEF FreedOf
  <2>3. CallsMatchLoops' /\ OneCallEach'
    BY <1>1, <1>3 DEF FreedOf, TypeInv, CallsMatchLoops, OneCallEach, CallOf, IsRequest, LoopOf,
                      TypeOK, DriverType
  <2>4. VotersArePolled'
    BY <1>1, <1>3 DEF TypeInv, TypeOK, DriverType, VotersArePolled
  <2>5. CommittedByMajority(n, mi) \in Nat
    BY <1>1, CommittedIsNat DEF TypeInv, TypeOK
  <2>6. log[n] \in Seq(Entry) /\ applied[n] \in Seq(Command)
    BY <1>1 DEF TypeInv, TypeOK, LogType
  <2>7. Applied(applied[n], log[n], CommittedByMajority(n, mi)) \in Seq(Command)
    BY <2>5, <2>6, AppliedIsSeq
  <2>8. LogType'
    BY <1>1, <1>2, <1>3, <2>5, <2>7 DEF TypeInv, TypeOK, LogType
  <2> QED
    BY <1>2, <2>1, <2>2, <2>3, <2>4, <2>8 DEF TypeInv, TypeOK
<1>4. ASSUME NEW p \in rest,
             phase' = [phase EXCEPT ![n] = "replicate"],
             todo' = [todo EXCEPT ![n] = rest \ {p}],
             net' = others \cup {AppendEntriesTo(n, p, t, mi)},
             UNCHANGED <<commit_index, applied>>
      PROVE  TypeInv'
  <2> DEFINE q == AppendEntriesTo(n, p, t, mi)
  <2>1. q \in AppendEntriesReq
    BY <1>1, AppendEntriesToType DEF TypeInv, TypeOK
  <2>2. DriverType'
    BY <1>1, <1>2, <1>4 DEF TypeInv, TypeOK, DriverType
  <2>3. net' \subseteq Message
    BY <1>4, <2>1 DEF FreedOf, Message
  <2>4. q.kind = "AppendEntries" /\ q.live = TRUE /\ q.from = n
    BY DEF AppendEntriesTo
  <2>5. \A k \in Node : CallOf(k, q) <=> k = n
    BY <1>1, <2>4 DEF CallOf, IsRequest
  <2>6. LoopOf(q) = "replicate"
    BY <2>4 DEF LoopOf
  <2> HIDE DEF q
  <2>7. net' = others \cup {q}
    BY <1>4 DEF q
  <2>8. \A k \in Node : phase'[k] = IF k = n THEN "replicate" ELSE phase[k]
    BY <1>1, <1>4 DEF TypeInv, TypeOK, DriverType
  <2>9. CallsMatchLoops' /\ OneCallEach'
    <3>1. ASSUME NEW k \in Node, NEW m \in net', CallOf(k, m)
          PROVE  phase'[k] = LoopOf(m)
      BY <2>5, <2>6, <2>7, <2>8, <3>1 DEF FreedOf, TypeInv, CallsMatchLoops
    <3>2. ASSUME NEW k \in Node, NEW m1 \in net', NEW m2 \in net',
                 CallOf(k, m1), CallOf(k, m2)
          PROVE  m1 = m2
      BY <2>5, <2>7, <3>2 DEF FreedOf, TypeInv, OneCallEach
    <3> QED
      BY <3>1, <3>2 DEF CallsMatchLoops, OneCallEach, CallOf, IsRequest, LoopOf
  <2>10. VotersArePolled'
    BY <1>1, <1>4, <2>8 DEF TypeInv, TypeOK, DriverType, VotersArePolled
  <2>11. LogType'
    BY <1>2, <1>4 DEF TypeInv, TypeOK, LogType
  <2> QED
    BY <1>2, <2>2, <2>3, <2>9, <2>10, <2>11 DEF TypeInv, TypeOK
<1> QED
  BY <1>3, <1>4 DEF ReplicateNext, ApplyCommitted

\* A handler turns a live request into the answer its caller waits for.
LEMMA AnswerTypes ==
    ASSUME TypeInv, NEW m \in net, IsRequest(m),
           NEW resp \in Message, ~IsRequest(resp), resp.to = m.from,
           LoopOf(resp) = LoopOf(m),
           Answer(m, resp), UNCHANGED <<phase, todo>>
    PROVE  /\ net' \subseteq Message
           /\ CallsMatchLoops' /\ OneCallEach' /\ VotersArePolled'
<1>1. net' \subseteq Message
  BY DEF Answer, TypeInv, TypeOK
<1>2. \A k \in Node : CallOf(k, resp) <=> k = m.from
  BY DEF CallOf
<1>3. ASSUME NEW k \in Node, NEW x \in net', CallOf(k, x)
      PROVE  x \in net \/ (x = resp /\ CallOf(k, m))
  BY <1>2, <1>3 DEF Answer, CallOf
<1>4. ASSUME NEW k \in Node, NEW x \in net', CallOf(k, x)
      PROVE  phase'[k] = LoopOf(x)
  BY <1>3, <1>4 DEF TypeInv, CallsMatchLoops
<1>5. ASSUME NEW k \in Node, NEW x \in net', NEW y \in net', CallOf(k, x), CallOf(k, y)
      PROVE  x = y
  <2>1. CASE x = resp /\ CallOf(k, m) /\ y \in net
    <3>1. y = m
      BY <1>5, <2>1 DEF TypeInv, OneCallEach
    <3> QED
      BY <1>5, <2>1, <3>1 DEF Answer
  <2>2. CASE y = resp /\ CallOf(k, m) /\ x \in net
    <3>1. x = m
      BY <1>5, <2>2 DEF TypeInv, OneCallEach
    <3> QED
      BY <1>5, <2>2, <3>1 DEF Answer
  <2>3. CASE x \in net /\ y \in net
    BY <1>5, <2>3 DEF TypeInv, OneCallEach
  <2> QED
    BY <1>3, <1>5, <2>1, <2>2, <2>3
<1>6. CallsMatchLoops' /\ OneCallEach'
  BY <1>4, <1>5 DEF CallsMatchLoops, OneCallEach, CallOf, IsRequest, LoopOf
<1>7. VotersArePolled'
  BY DEF TypeInv, VotersArePolled
<1> QED
  BY <1>1, <1>6, <1>7

\* What an accepted request leaves in the log and as commit index.
LEMMA AppendOutcomeTypes ==
    ASSUME LogType, NEW n \in Node, NEW m \in AppendEntriesReq
    PROVE  /\ LogAfter(n, m) \in Seq(Entry)
           /\ Len(LogAfter(n, m)) \in Nat
           /\ CommitAfter(n, m) \in Nat
<1>1. /\ log[n] \in Seq(Entry) /\ commit_index[n] \in Nat
      /\ m.prev_log_index \in Nat /\ m.entries \in Seq(Entry) /\ m.leader_commit \in Nat
  BY DEF LogType, AppendEntriesReq
<1>2. m.prev_log_index + 1 \in Nat \ {0}
  BY <1>1
<1>3. TruncateFrom(log[n], m.prev_log_index + 1) \in Seq(Entry)
  BY <1>1, <1>2, CutsAreLogs
<1>4. LogAfter(n, m) \in Seq(Entry)
  BY <1>1, <1>3, ConcatProperties DEF LogAfter
<1>5. LesserOf(commit_index[n], m.prev_log_index) \in Nat
  BY <1>1, LesserOfNat
<1>6. CommitAfter(n, m) \in Nat
  BY <1>1, <1>4, <1>5, CommitToNat DEF CommitAfter
<1> QED
  BY <1>4, <1>6, LenProperties

-----------------------------------------------------------------------------
(***************************************************************************)
(* TypeInv holds initially and every step keeps it.                        *)
(***************************************************************************)

\* The initial state has the types.
LEMMA TypeInvInit == Init => TypeInv
<1> SUFFICES ASSUME Init PROVE TypeInv
  OBVIOUS
<1>1. << >> \in Seq(Entry) /\ << >> \in Seq(Command)
  BY EmptySeq
<1>2. RoleType /\ TermType
  BY LearnerAssumption DEF Init, RoleType, TermType, Node
<1>3. LogType
  BY <1>1 DEF Init, LogType
<1>4. DriverType
  BY DEF Init, DriverType
<1>5. net \subseteq Message /\ issued \subseteq Command /\ failures \in Nat
  BY DEF Init
<1>6. CallsMatchLoops /\ OneCallEach /\ VotersArePolled
  BY DEF Init, CallsMatchLoops, OneCallEach, VotersArePolled
<1> QED
  BY <1>2, <1>3, <1>4, <1>5, <1>6 DEF TypeInv, TypeOK

\* An election starts.
LEMMA StartElectionTypes ==
    ASSUME TypeInv, NEW n \in Node, StartElection(n)
    PROVE  TypeInv'
<1>1. n \in Voter
  BY DEF StartElection, TypeInv, TypeOK, RoleType, Node
<1>2. log[n] \in Seq(Entry) /\ current_term[n] \in Nat
  BY DEF TypeInv, TypeOK, LogType, TermType
<1>3. Len(log[n]) \in Nat /\ LastTerm(log[n]) \in Nat
  BY <1>2, LenProperties, TermsAreNat
<1>4. ballot' \in [Node -> Nat] /\ position' \in [Node -> [index : Nat, term : Nat]]
  BY <1>2, <1>3 DEF StartElection, TypeInv, TypeOK, DriverType
<1>5. FreedOf(n, net)
  BY IdleHasNoCall DEF StartElection
<1>6. Peers(n) \in SUBSET Voter /\ {n} \in SUBSET Voter
  BY <1>1 DEF Peers
<1>7. PollNext(n, "Candidate", {n}, Peers(n), net) /\ UNCHANGED <<log, commit_index>>
  BY DEF StartElection
<1>8. /\ RoleType' /\ LogType' /\ DriverType' /\ net' \subseteq Message
      /\ CallsMatchLoops' /\ OneCallEach' /\ VotersArePolled'
  BY <1>1, <1>4, <1>5, <1>6, <1>7, PollNextTypes
<1>9. TermType'
  BY <1>1, <1>2 DEF StartElection, TypeInv, TypeOK, TermType
<1>10. issued' \subseteq Command /\ failures' \in Nat
  BY DEF StartElection, TypeInv, TypeOK
<1> QED
  BY <1>8, <1>9, <1>10 DEF TypeInv, TypeOK

\* A voter answers a vote request.
LEMMA HandleRequestVoteTypes ==
    ASSUME TypeInv, NEW n \in Node, NEW m \in net, HandleRequestVote(n, m)
    PROVE  TypeInv'
<1>1. /\ m \in RequestVoteReq /\ m.kind = "RequestVote" /\ n \in Voter /\ n \notin Learner
      /\ m.from \in Voter /\ m.term \in Nat
  BY LearnerAssumption DEF HandleRequestVote, TypeInv, TypeOK, Message, RequestVoteReq,
     RequestVoteResp, AppendEntriesReq, AppendEntriesResp
<1>2. TermType' /\ RoleType'
  BY <1>1 DEF HandleRequestVote, VoteInTerm, TypeInv, TypeOK, TermType, RoleType
<1>3. LogType' /\ DriverType' /\ issued' \subseteq Command /\ failures' \in Nat
  BY DEF HandleRequestVote, TypeInv, TypeOK, LogType, DriverType, logVars, driverVars
<1>4. PICK resp : /\ resp = [kind |-> "VoteResult", from |-> n, to |-> m.from,
                             term |-> current_term'[n], granted |-> Grants(n, m)]
                  /\ Answer(m, resp)
  BY DEF HandleRequestVote
<1>5. current_term'[n] \in Nat
  BY <1>2 DEF TermType
<1>6. Grants(n, m) \in BOOLEAN
  BY DEF Grants
<1>7. resp \in RequestVoteResp
  BY <1>1, <1>4, <1>5, <1>6 DEF RequestVoteResp
<1>8. /\ resp \in Message /\ resp.kind = "VoteResult" /\ resp.to = m.from
  BY <1>4, <1>7 DEF Message
<1>9. ~IsRequest(resp) /\ LoopOf(resp) = LoopOf(m) /\ IsRequest(m)
  BY <1>1, <1>8 DEF IsRequest, LoopOf
<1>10. UNCHANGED <<phase, todo>>
  BY DEF HandleRequestVote, driverVars
<1>11. /\ net' \subseteq Message
       /\ CallsMatchLoops' /\ OneCallEach' /\ VotersArePolled'
  BY <1>4, <1>8, <1>9, <1>10, AnswerTypes
<1> QED
  BY <1>2, <1>3, <1>11 DEF TypeInv, TypeOK

\* A driver steps down.
LEMMA StepDownTypes ==
    ASSUME TypeInv, NEW n \in Voter, NEW m \in net, CallOf(n, m), m.term \in Nat,
           StepDown(n, m)
    PROVE  TypeInv'
<1>1. n \in Node /\ n \notin Learner
  BY LearnerAssumption DEF Node
<1>2. FreedOf(n, net \ {m})
  BY <1>1, ConsumedIsFreed
<1>3. TermType' /\ RoleType'
  BY <1>1 DEF StepDown, TypeInv, TypeOK, TermType, RoleType
<1>4. DriverType' /\ issued' \subseteq Command /\ failures' \in Nat
  BY <1>1 DEF StepDown, TypeInv, TypeOK, DriverType
<1>8. LogType'
  BY <1>1, ApplyCommittedTypes DEF StepDown, TypeInv, TypeOK
<1>5. net' \subseteq Message
  BY <1>2 DEF StepDown, FreedOf
<1>6. CallsMatchLoops' /\ OneCallEach'
  BY <1>1, <1>2 DEF StepDown, FreedOf, TypeInv, CallsMatchLoops, OneCallEach, CallOf, IsRequest,
                    LoopOf, TypeOK, DriverType
<1>7. VotersArePolled'
  BY <1>1 DEF StepDown, TypeInv, TypeOK, DriverType, VotersArePolled
<1> QED
  BY <1>3, <1>4, <1>5, <1>6, <1>7, <1>8 DEF TypeInv, TypeOK

\* A candidate's loop gets an answer.
LEMMA HandleVoteResultTypes ==
    ASSUME TypeInv, NEW n \in Node, NEW m \in net, HandleVoteResult(n, m)
    PROVE  TypeInv'
<1>1. /\ m.kind = "VoteResult" /\ n \in Voter /\ m.from \in Voter /\ m.term \in Nat
      /\ ~IsRequest(m) /\ CallOf(n, m)
  BY DEF HandleVoteResult, TypeInv, TypeOK, Message, RequestVoteReq, IsRequest, CallOf,
     RequestVoteResp, AppendEntriesReq, AppendEntriesResp
<1>2. CASE StepDown(n, m)
  BY <1>1, <1>2, StepDownTypes
<1>3. CASE /\ UNCHANGED <<current_term, voted_for, ballot, position, log, commit_index,
                          issued, failures>>
           /\ PollNext(n, role[n], IF m.granted THEN votes[n] \cup {m.from} ELSE votes[n],
                       todo[n], net \ {m})
  <2>1. phase[n] = "elect"
    BY <1>1 DEF TypeInv, CallsMatchLoops, LoopOf
  <2>2. n \notin Learner /\ role[n] \in {"Leader", "Follower", "Candidate"}
    BY <1>1, LearnerAssumption DEF TypeInv, TypeOK, RoleType
  <2>3. todo[n] \in SUBSET Voter
    BY <2>1 DEF TypeInv, VotersArePolled
  <2>4. (IF m.granted THEN votes[n] \cup {m.from} ELSE votes[n]) \in SUBSET Voter
    BY <1>1 DEF TypeInv, TypeOK, DriverType
  <2>5. FreedOf(n, net \ {m})
    BY <1>1, ConsumedIsFreed
  <2>6. ballot' \in [Node -> Nat] /\ position' \in [Node -> [index : Nat, term : Nat]]
    BY <1>3 DEF TypeInv, TypeOK, DriverType
  <2>7. /\ RoleType' /\ LogType' /\ DriverType' /\ net' \subseteq Message
        /\ CallsMatchLoops' /\ OneCallEach' /\ VotersArePolled'
    BY <1>1, <1>3, <2>2, <2>3, <2>4, <2>5, <2>6, PollNextTypes
  <2>8. TermType' /\ issued' \subseteq Command /\ failures' \in Nat
    BY <1>3 DEF TypeInv, TypeOK, TermType
  <2> QED
    BY <2>7, <2>8 DEF TypeInv, TypeOK
<1> QED
  BY <1>2, <1>3 DEF HandleVoteResult

\* A leader appends a command.
LEMMA ProposeTypes ==
    ASSUME TypeInv, NEW n \in Node, NEW c \in Command, Propose(n, c)
    PROVE  TypeInv'
<1>1. log[n] \in Seq(Entry) /\ current_term[n] \in Nat
  BY DEF TypeInv, TypeOK, LogType, TermType
<1>2. [term |-> current_term[n], cmd |-> c] \in Entry
  BY <1>1 DEF Entry
<1>3. Append(log[n], [term |-> current_term[n], cmd |-> c]) \in Seq(Entry)
  BY <1>1, <1>2, AppendProperties
<1>4. LogType' /\ issued' \subseteq Command
  BY <1>3 DEF Propose, TypeInv, TypeOK, LogType
<1>5. RoleType' /\ TermType' /\ DriverType' /\ net' \subseteq Message /\ failures' \in Nat
  BY DEF Propose, nodeVars, driverVars, TypeInv, TypeOK, RoleType, TermType, DriverType
<1>6. CallsMatchLoops' /\ OneCallEach' /\ VotersArePolled'
  BY DEF Propose, driverVars, TypeInv, CallsMatchLoops, OneCallEach, VotersArePolled,
         CallOf, IsRequest, LoopOf
<1> QED
  BY <1>4, <1>5, <1>6 DEF TypeInv, TypeOK

\* A leader starts a round.
LEMMA StartReplicateTypes ==
    ASSUME TypeInv, NEW n \in Node, StartReplicate(n)
    PROVE  TypeInv'
<1>1. n \in Voter
  BY DEF StartReplicate, TypeInv, TypeOK, RoleType, Node
<1>2. current_term[n] \in Nat /\ match_index[n] \in [Node -> Nat]
  BY DEF TypeInv, TypeOK, TermType, DriverType
<1>3. ballot' \in [Node -> Nat]
  BY <1>2 DEF StartReplicate, TypeInv, TypeOK, DriverType
<1>4. FreedOf(n, net)
  BY IdleHasNoCall DEF StartReplicate
<1>5. Peers(n) \cup Learner \in SUBSET Node
  BY DEF Peers, Node
<1>6. /\ ReplicateNext(n, current_term[n], match_index[n], Peers(n) \cup Learner, net)
      /\ failures' \in Nat
  BY DEF StartReplicate, TypeInv, TypeOK
<1> QED
  BY <1>1, <1>2, <1>3, <1>4, <1>5, <1>6, ReplicateNextTypes

\* A leader's loop gets an answer.
LEMMA HandleAppendResultTypes ==
    ASSUME TypeInv, NEW n \in Node, NEW m \in net, HandleAppendResult(n, m)
    PROVE  TypeInv'
<1>1. /\ m.kind = "AppendResult" /\ n \in Voter /\ m.from \in Node /\ m.term \in Nat
      /\ m.match_index \in Nat /\ CallOf(n, m)
  BY DEF HandleAppendResult, TypeInv, TypeOK, Message, RequestVoteReq, IsRequest, CallOf,
     RequestVoteResp, AppendEntriesReq, AppendEntriesResp
<1>2. CASE StepDown(n, m)
  BY <1>1, <1>2, StepDownTypes
<1>3. CASE /\ UNCHANGED <<ballot, failures>>
           /\ ReplicateNext(n, ballot[n], MatchAfter(n, m), todo[n], net \ {m})
  <2>1. match_index[n] \in [Node -> Nat] /\ todo[n] \in SUBSET Node /\ ballot[n] \in Nat
    BY DEF TypeInv, TypeOK, DriverType
  <2>2. MatchAfter(n, m) \in [Node -> Nat]
    BY <1>1, <2>1 DEF MatchAfter
  <2>3. FreedOf(n, net \ {m})
    BY <1>1, ConsumedIsFreed
  <2>4. ballot' \in [Node -> Nat] /\ failures' \in Nat
    BY <1>3 DEF TypeInv, TypeOK, DriverType
  <2> QED
    BY <1>1, <1>3, <2>1, <2>2, <2>3, <2>4, ReplicateNextTypes
<1> QED
  BY <1>2, <1>3 DEF HandleAppendResult

\* A stale append request is refused.
LEMMA HandleStaleAppendEntriesTypes ==
    ASSUME TypeInv, NEW n \in Node, NEW m \in net, HandleStaleAppendEntries(n, m)
    PROVE  TypeInv'
<1>1. /\ m \in AppendEntriesReq /\ m.kind = "AppendEntries" /\ m.from \in Voter
  BY DEF HandleStaleAppendEntries, TypeInv, TypeOK, Message, RequestVoteReq,
     RequestVoteResp, AppendEntriesReq, AppendEntriesResp
<1>2. /\ RoleType' /\ TermType' /\ LogType' /\ DriverType'
      /\ issued' \subseteq Command /\ failures' \in Nat
      /\ UNCHANGED <<phase, todo>>
  BY DEF HandleStaleAppendEntries, TypeInv, TypeOK, RoleType, TermType, LogType, DriverType,
         nodeVars, logVars, driverVars
<1>3. PICK resp : /\ resp = [kind |-> "AppendResult", from |-> n, to |-> m.from,
                             term |-> current_term[n], success |-> FALSE, match_index |-> 0]
                  /\ Answer(m, resp)
  BY DEF HandleStaleAppendEntries
<1>4. resp \in AppendEntriesResp
  BY <1>1, <1>3 DEF AppendEntriesResp, TypeInv, TypeOK, TermType
<1>5. resp \in Message /\ resp.kind = "AppendResult" /\ resp.to = m.from
  BY <1>3, <1>4 DEF Message
<1>6. ~IsRequest(resp) /\ LoopOf(resp) = LoopOf(m) /\ IsRequest(m)
  BY <1>1, <1>5 DEF IsRequest, LoopOf
<1>7. net' \subseteq Message /\ CallsMatchLoops' /\ OneCallEach' /\ VotersArePolled'
  BY <1>2, <1>3, <1>5, <1>6, AnswerTypes
<1> QED
  BY <1>2, <1>7 DEF TypeInv, TypeOK

\* A current append request is accepted, or refused for its predecessor.
LEMMA HandleAppendEntriesTypes ==
    ASSUME TypeInv, NEW n \in Node, NEW m \in net, HandleAppendEntries(n, m)
    PROVE  TypeInv'
<1>1. /\ m \in AppendEntriesReq /\ m.kind = "AppendEntries" /\ m.from \in Voter /\ m.term \in Nat
  BY DEF HandleAppendEntries, TypeInv, TypeOK, Message, RequestVoteReq,
     RequestVoteResp, AppendEntriesReq, AppendEntriesResp
<1>2. RoleType' /\ TermType'
  BY <1>1 DEF HandleAppendEntries, TypeInv, TypeOK, RoleType, TermType, Node
<1>3. /\ DriverType' /\ issued' \subseteq Command /\ failures' \in Nat
      /\ UNCHANGED <<phase, todo>>
  BY DEF HandleAppendEntries, TypeInv, TypeOK, DriverType, driverVars
<1>4. /\ LogAfter(n, m) \in Seq(Entry)
      /\ Len(LogAfter(n, m)) \in Nat
      /\ CommitAfter(n, m) \in Nat
  BY <1>1, AppendOutcomeTypes DEF TypeInv, TypeOK
<1>5. Applied(applied[n], LogAfter(n, m), CommitAfter(n, m)) \in Seq(Command)
  BY <1>4, AppliedIsSeq DEF TypeInv, TypeOK, LogType
<1>6. LogType'
  <2>1. CASE UNCHANGED logVars
    BY <2>1 DEF logVars, TypeInv, TypeOK, LogType
  <2>2. CASE /\ log' = [log EXCEPT ![n] = LogAfter(n, m)]
             /\ commit_index' = [commit_index EXCEPT ![n] = CommitAfter(n, m)]
             /\ applied' = [applied EXCEPT ![n] =
                              Applied(@, LogAfter(n, m), CommitAfter(n, m))]
    BY <1>4, <1>5, <2>2 DEF TypeInv, TypeOK, LogType
  <2> QED
    BY <2>1, <2>2 DEF HandleAppendEntries, ApplyCommitted
<1>7. \E s \in BOOLEAN, i \in Nat :
        Answer(m, [kind |-> "AppendResult", from |-> n, to |-> m.from,
                   term |-> m.term, success |-> s, match_index |-> i])
  BY <1>4 DEF HandleAppendEntries
<1>8. PICK s \in BOOLEAN, i \in Nat :
        Answer(m, [kind |-> "AppendResult", from |-> n, to |-> m.from,
                   term |-> m.term, success |-> s, match_index |-> i])
  BY <1>7
<1>9. PICK resp : /\ resp = [kind |-> "AppendResult", from |-> n, to |-> m.from,
                             term |-> m.term, success |-> s, match_index |-> i]
                  /\ Answer(m, resp)
  BY <1>8
<1>10. resp \in AppendEntriesResp
  BY <1>1, <1>9 DEF AppendEntriesResp
<1>11. resp \in Message /\ resp.kind = "AppendResult" /\ resp.to = m.from
  BY <1>9, <1>10 DEF Message
<1>12. ~IsRequest(resp) /\ LoopOf(resp) = LoopOf(m) /\ IsRequest(m)
  BY <1>1, <1>11 DEF IsRequest, LoopOf
<1>13. net' \subseteq Message /\ CallsMatchLoops' /\ OneCallEach' /\ VotersArePolled'
  BY <1>3, <1>9, <1>11, <1>12, AnswerTypes
<1> QED
  BY <1>2, <1>3, <1>6, <1>13 DEF TypeInv, TypeOK

\* A tick applies what is committed.
LEMMA IdleTickTypes ==
    ASSUME TypeInv, NEW n \in Node, IdleTick(n)
    PROVE  TypeInv'
<1>1. Applied(applied[n], log[n], commit_index[n]) \in Seq(Command)
  BY AppliedIsSeq DEF TypeInv, TypeOK, LogType
<1>2. LogType'
  BY <1>1 DEF IdleTick, ApplyCommitted, TypeInv, TypeOK, LogType
<1>3. /\ RoleType' /\ TermType' /\ DriverType' /\ net' \subseteq Message
      /\ issued' \subseteq Command /\ failures' \in Nat
  BY DEF IdleTick, nodeVars, driverVars, TypeInv, TypeOK, RoleType, TermType, DriverType
<1>4. CallsMatchLoops' /\ OneCallEach' /\ VotersArePolled'
  BY DEF IdleTick, driverVars, TypeInv, CallsMatchLoops, OneCallEach, VotersArePolled,
         CallOf, IsRequest, LoopOf
<1> QED
  BY <1>2, <1>3, <1>4 DEF TypeInv, TypeOK

\* A call fails at its caller.
LEMMA CallFailsTypes ==
    ASSUME TypeInv, NEW n \in Node, NEW m \in net, NEW others, FreedOf(n, others),
           CallFails(n, m, others)
    PROVE  TypeInv'
<1>1. CallOf(n, m)
  BY DEF CallFails
<1>2. n \in Voter
  BY <1>1 DEF TypeInv, TypeOK, Message, RequestVoteReq, IsRequest, CallOf,
     RequestVoteResp, AppendEntriesReq, AppendEntriesResp
<1>3. /\ ballot' \in [Node -> Nat] /\ ballot[n] \in Nat /\ failures' \in Nat
      /\ issued' \subseteq Command
  BY DEF CallFails, TypeInv, TypeOK, DriverType
<1>4. n \notin Learner /\ role[n] \in {"Leader", "Follower", "Candidate"}
  BY <1>2, LearnerAssumption DEF TypeInv, TypeOK, RoleType
<1>5. CASE /\ phase[n] = "elect"
           /\ UNCHANGED <<current_term, voted_for, position, log, commit_index>>
           /\ PollNext(n, role[n], votes[n], todo[n], others)
  <2>1. todo[n] \in SUBSET Voter /\ votes[n] \in SUBSET Voter
    BY <1>5 DEF TypeInv, TypeOK, DriverType, VotersArePolled
  <2>2. position' \in [Node -> [index : Nat, term : Nat]]
    BY <1>5 DEF TypeInv, TypeOK, DriverType
  <2>3. /\ RoleType' /\ LogType' /\ DriverType' /\ net' \subseteq Message
        /\ CallsMatchLoops' /\ OneCallEach' /\ VotersArePolled'
    BY <1>2, <1>3, <1>4, <1>5, <2>1, <2>2, PollNextTypes
  <2>4. TermType'
    BY <1>5 DEF TypeInv, TypeOK, TermType
  <2> QED
    BY <1>3, <2>3, <2>4 DEF TypeInv, TypeOK
<1>6. CASE ReplicateNext(n, ballot[n], match_index[n], todo[n], others)
  <2>1. match_index[n] \in [Node -> Nat] /\ todo[n] \in SUBSET Node
    BY DEF TypeInv, TypeOK, DriverType
  <2> QED
    BY <1>2, <1>3, <1>6, <2>1, ReplicateNextTypes
<1> QED
  BY <1>5, <1>6 DEF CallFails

\* No step leaves the types.
LEMMA TypeInvStep == TypeInv /\ [Next]_vars => TypeInv'
<1> SUFFICES ASSUME TypeInv, [Next]_vars PROVE TypeInv'
  OBVIOUS
<1>1. CASE UNCHANGED vars
  BY <1>1 DEF vars, nodeVars, logVars, driverVars, TypeInv, TypeOK, RoleType, TermType, LogType,
     DriverType, CallsMatchLoops, OneCallEach, VotersArePolled, CallOf, IsRequest, LoopOf
<1>2. ASSUME NEW n \in Node, DriverStep(n) PROVE TypeInv'
  BY <1>2, StartElectionTypes, StartReplicateTypes, IdleTickTypes, HandleVoteResultTypes,
     HandleAppendResultTypes DEF DriverStep
<1>3. ASSUME NEW n \in Node, HandlerStep(n) PROVE TypeInv'
  BY <1>3, HandleRequestVoteTypes, HandleStaleAppendEntriesTypes, HandleAppendEntriesTypes
     DEF HandlerStep
<1>4. ASSUME NEW n \in Node, TransportStep(n) PROVE TypeInv'
  <2>1. ASSUME NEW m \in net, CallLost(n, m) PROVE TypeInv'
    <3>1. CallFails(n, m, net \ {m}) /\ CallOf(n, m)
      BY <2>1 DEF CallLost, Lost, CallFails
    <3> QED
      BY <3>1, ConsumedIsFreed, CallFailsTypes
  <2>2. ASSUME NEW m \in net, CallAbandoned(n, m) PROVE TypeInv'
    <3>1. CallFails(n, m, Orphaned(m)) /\ CallOf(n, m) /\ IsRequest(m)
      BY <2>2 DEF CallAbandoned, CallFails
    <3> QED
      BY <3>1, OrphanIsNobodys, CallFailsTypes
  <2> QED
    BY <1>4, <2>1, <2>2 DEF TransportStep
<1>5. ASSUME NEW n \in Node, ClientStep(n) PROVE TypeInv'
  BY <1>5, ProposeTypes DEF ClientStep
<1> QED
  BY <1>1, <1>2, <1>3, <1>4, <1>5 DEF Next

\* Every reachable state of any instance is well typed, and every driver awaits at
\* most one call (driver.rs:98-173).
THEOREM TypeCorrect == Spec => []TypeOK
<1>1. Spec => []TypeInv
  BY TypeInvInit, TypeInvStep, PTL DEF Spec
<1>2. TypeInv => TypeOK
  BY DEF TypeInv
<1> QED
  BY <1>1, <1>2, PTL

-----------------------------------------------------------------------------
(***************************************************************************)
(* Votes.  Terms never fall, and a vote is final within its term.          *)
(***************************************************************************)
TermsRise == \A n \in Node : current_term'[n] >= current_term[n]

VotesFinal ==
    \A n \in Node : current_term'[n] = current_term[n] /\ voted_for[n] # None
                        => voted_for'[n] = voted_for[n]

\* A step that leaves terms and votes alone is harmless.
LEMMA SameTermsAndVotes ==
    ASSUME TypeInv, UNCHANGED <<current_term, voted_for>>
    PROVE  TermsRise /\ VotesFinal
BY DEF TypeInv, TypeOK, TermType, TermsRise, VotesFinal

\* Every step, whatever it handles, keeps the votes of its term.
LEMMA TermsAndVotes ==
    ASSUME TypeInv, [Next]_vars
    PROVE  TermsRise /\ VotesFinal
<1>1. CASE UNCHANGED vars
  BY <1>1, SameTermsAndVotes DEF vars, nodeVars
<1>2. ASSUME NEW n \in Node, DriverStep(n) PROVE TermsRise /\ VotesFinal
  <2>1. CASE StartElection(n)
    BY <2>1 DEF StartElection, TypeInv, TypeOK, TermType, TermsRise, VotesFinal
  <2>2. CASE StartReplicate(n) \/ IdleTick(n)
    BY <2>2, SameTermsAndVotes DEF StartReplicate, ReplicateNext, IdleTick, nodeVars
  <2>3. ASSUME NEW m \in net, StepDown(n, m), m.term \in Nat
        PROVE  TermsRise /\ VotesFinal
    BY <2>3 DEF StepDown, TypeInv, TypeOK, TermType, TermsRise, VotesFinal
  <2>4. ASSUME NEW m \in net, HandleVoteResult(n, m) \/ HandleAppendResult(n, m)
        PROVE  TermsRise /\ VotesFinal
    <3>1. m.term \in Nat
      BY <2>4 DEF HandleVoteResult, HandleAppendResult, TypeInv, TypeOK, Message, RequestVoteReq,
         RequestVoteResp, AppendEntriesReq, AppendEntriesResp
    <3>2. StepDown(n, m) \/ UNCHANGED <<current_term, voted_for>>
      BY <2>4 DEF HandleVoteResult, HandleAppendResult, ReplicateNext, nodeVars
    <3> QED
      BY <2>3, <3>1, <3>2, SameTermsAndVotes
  <2> QED
    BY <1>2, <2>1, <2>2, <2>4 DEF DriverStep
<1>3. ASSUME NEW n \in Node, HandlerStep(n) PROVE TermsRise /\ VotesFinal
  <2>1. ASSUME NEW m \in net, HandleRequestVote(n, m) PROVE TermsRise /\ VotesFinal
    <3>1. m.term \in Nat
      BY <2>1 DEF HandleRequestVote, TypeInv, TypeOK, Message, RequestVoteReq,
         RequestVoteResp, AppendEntriesReq, AppendEntriesResp
    <3> QED
      BY <2>1, <3>1 DEF HandleRequestVote, Grants, VoteInTerm, TypeInv, TypeOK, TermType,
                        TermsRise, VotesFinal
  <2>2. ASSUME NEW m \in net, HandleStaleAppendEntries(n, m) PROVE TermsRise /\ VotesFinal
    BY <2>2, SameTermsAndVotes DEF HandleStaleAppendEntries, nodeVars
  <2>3. ASSUME NEW m \in net, HandleAppendEntries(n, m) PROVE TermsRise /\ VotesFinal
    <3>1. m.term \in Nat
      BY <2>3 DEF HandleAppendEntries, TypeInv, TypeOK, Message, RequestVoteReq,
         RequestVoteResp, AppendEntriesReq, AppendEntriesResp
    <3> QED
      BY <2>3, <3>1 DEF HandleAppendEntries, TypeInv, TypeOK, TermType, TermsRise, VotesFinal
  <2> QED
    BY <1>3, <2>1, <2>2, <2>3 DEF HandlerStep
<1>4. ASSUME NEW n \in Node, TransportStep(n) PROVE TermsRise /\ VotesFinal
  BY <1>4, SameTermsAndVotes
     DEF TransportStep, CallLost, CallAbandoned, CallFails, ReplicateNext, nodeVars
<1>5. ASSUME NEW n \in Node, ClientStep(n) PROVE TermsRise /\ VotesFinal
  BY <1>5, SameTermsAndVotes DEF ClientStep, Propose, nodeVars
<1> QED
  BY <1>1, <1>2, <1>3, <1>4, <1>5 DEF Next

\* A vote given in a term is never given to another candidate of that term
\* (request_vote and append_entries, node.rs:222-340), in any instance.
THEOREM VotesAreFinal == Spec => VoteIsFinal
<1>1. Spec => []TypeInv
  BY TypeInvInit, TypeInvStep, PTL DEF Spec
<1>2. TypeInv /\ [Next]_vars => VotesFinal
  BY TermsAndVotes
<1>3. VotesFinal => \A n \in Node : current_term'[n] = current_term[n] /\ voted_for[n] # None
                        => voted_for'[n] = voted_for[n]
  BY DEF VotesFinal
<1> QED
  BY <1>1, <1>2, <1>3, PTL DEF Spec, VoteIsFinal

-----------------------------------------------------------------------------
(***************************************************************************)
(* Election safety.  A voter backs n when n has counted its vote for n's   *)
(* latest ballot, or the granting answer is on its way to n.               *)
(***************************************************************************)
Backs(v, n) ==
    \/ v \in votes[n]
    \/ \E m \in net : m.kind = "VoteResult" /\ m.granted /\ m.to = n /\ m.from = v

\* A vote request that somebody awaits is about its sender's latest ballot.
RequestsAreCurrent ==
    \A m \in net : m.kind = "RequestVote" /\ m.live => m.term = ballot[m.from]

\* A backer has kept its vote or has left the term of the ballot.
BackersStay ==
    \A n, v \in Voter : Backs(v, n) =>
        \/ current_term[v] > ballot[n]
        \/ current_term[v] = ballot[n] /\ voted_for[v] = n

\* Nobody backs two ballots of the same term.
BackersOfOne ==
    \A n1, n2, v \in Voter :
        Backs(v, n1) /\ Backs(v, n2) /\ ballot[n1] = ballot[n2] => n1 = n2

\* Whoever leads was elected, in its present term, by a majority.
LeadersElected ==
    \A n \in Voter :
        /\ role[n] \in {"Candidate", "Leader"} => ballot[n] = current_term[n]
        /\ role[n] = "Leader" => IsMajority(votes[n])

ElectionInv == RequestsAreCurrent /\ BackersStay /\ BackersOfOne /\ LeadersElected

\* More votes are still a majority.
LEMMA MajorityGrows ==
    ASSUME NEW S, NEW T, S \subseteq T, T \subseteq Voter, IsMajority(S)
    PROVE  IsMajority(T)
<1>1. IsFiniteSet(T)
  BY VoterAssumption, FS_Subset
<1>2. IsFiniteSet(S) /\ Cardinality(S) <= Cardinality(T)
  BY <1>1, FS_Subset
<1>3. Cardinality(S) \in Nat /\ Cardinality(T) \in Nat /\ Cardinality(Voter) \in Nat
  BY <1>1, <1>2, VoterAssumption, FS_CardinalityType
<1> QED
  BY <1>2, <1>3 DEF IsMajority

\* Two majorities share a voter.
LEMMA MajoritiesMeet ==
    ASSUME NEW S, NEW T, S \subseteq Voter, T \subseteq Voter, IsMajority(S), IsMajority(T)
    PROVE  S \cap T # {}
<1>1. IsFiniteSet(S) /\ IsFiniteSet(T)
  BY VoterAssumption, FS_Subset
<1>2. Cardinality(S) \in Nat /\ Cardinality(T) \in Nat /\ Cardinality(Voter) \in Nat
  BY <1>1, VoterAssumption, FS_CardinalityType
<1>3. Cardinality(S) + Cardinality(T) > Cardinality(Voter)
  BY <1>2 DEF IsMajority
<1> QED
  BY <1>3, VoterAssumption, FS_MajoritiesIntersect

\* A step that starts no ballot and makes no backer keeps what is known of backers.
LEMMA NoNewBacker ==
    ASSUME TypeInv, ElectionInv, [Next]_vars, ballot' = ballot,
           \A n, v \in Voter : Backs(v, n)' => Backs(v, n)
    PROVE  BackersStay' /\ BackersOfOne'
<1>1. TermsRise /\ VotesFinal
  BY TermsAndVotes
<1>2. Voter \subseteq Node
  BY DEF Node
<1>3. BackersStay'
  <2> SUFFICES ASSUME NEW n \in Voter, NEW v \in Voter, Backs(v, n)'
               PROVE  \/ current_term'[v] > ballot'[n]
                      \/ current_term'[v] = ballot'[n] /\ voted_for'[v] = n
    BY DEF BackersStay
  <2>1. \/ current_term[v] > ballot[n]
        \/ current_term[v] = ballot[n] /\ voted_for[v] = n
    BY DEF ElectionInv, BackersStay
  <2>2. current_term[v] \in Nat /\ current_term'[v] \in Nat /\ ballot[n] \in Nat
    BY <1>2, TypeInvStep DEF TypeInv, TypeOK, TermType, DriverType
  <2>3. n # None
    BY NoneAssumption
  <2> QED
    BY <1>1, <1>2, <2>1, <2>2, <2>3 DEF TermsRise, VotesFinal
<1>4. BackersOfOne'
  BY DEF ElectionInv, BackersOfOne
<1> QED
  BY <1>3, <1>4

\* What the next turn of an election's loop may add to the backers and requests.
LEMMA PollNextElection ==
    ASSUME TypeInv, NEW n \in Voter, NEW r \in {"Leader", "Follower", "Candidate"},
           NEW v, NEW rest, NEW others, FreedOf(n, others),
           PollNext(n, r, v, rest, others)
    PROVE  /\ votes' = [votes EXCEPT ![n] = v]
           /\ \A m \in net' : m \in others
                \/ (m.kind = "RequestVote" /\ m.from = n /\ m.term = ballot'[n])
           /\ \/ role' = [role EXCEPT ![n] = r]
              \/ /\ role' = [role EXCEPT ![n] = "Leader"]
                 /\ IsMajority(v) /\ r = "Candidate"
<1>1. votes' = [votes EXCEPT ![n] = v]
  BY DEF PollNext
<1>2. \A m \in net' : m \in others
                \/ (m.kind = "RequestVote" /\ m.from = n /\ m.term = ballot'[n])
  <2>1. CASE net' = others
    BY <2>1
  <2>2. ASSUME NEW p \in rest,
               net' = others \cup {RequestVoteTo(n, p, ballot'[n], position'[n])}
        PROVE  \A m \in net' : m \in others
                 \/ (m.kind = "RequestVote" /\ m.from = n /\ m.term = ballot'[n])
    <3> DEFINE q == RequestVoteTo(n, p, ballot'[n], position'[n])
    <3>1. q.kind = "RequestVote" /\ q.from = n /\ q.term = ballot'[n]
      BY DEF RequestVoteTo
    <3> HIDE DEF q
    <3>2. net' = others \cup {q}
      BY <2>2 DEF q
    <3> QED
      BY <3>1, <3>2
  <2> QED
    BY <2>1, <2>2 DEF PollNext
<1>3. \/ role' = [role EXCEPT ![n] = r]
      \/ role' = [role EXCEPT ![n] = "Leader"] /\ IsMajority(v) /\ r = "Candidate"
  BY DEF PollNext
<1> QED
  BY <1>1, <1>2, <1>3

\* A new ballot has one backer, its candidate.
LEMMA StartElectionInv ==
    ASSUME TypeInv, ElectionInv, [Next]_vars, NEW n \in Node, StartElection(n)
    PROVE  ElectionInv'
<1>1. n \in Voter /\ Voter \subseteq Node
  BY DEF StartElection, TypeInv, TypeOK, RoleType, Node
<1>2. FreedOf(n, net)
  BY IdleHasNoCall DEF StartElection
<1>3. /\ current_term[n] \in Nat
      /\ current_term' = [current_term EXCEPT ![n] = @ + 1]
      /\ voted_for' = [voted_for EXCEPT ![n] = n]
      /\ ballot' = [ballot EXCEPT ![n] = current_term[n] + 1]
  BY DEF StartElection, TypeInv, TypeOK, TermType
<1>4. PollNext(n, "Candidate", {n}, Peers(n), net)
  BY DEF StartElection
<1>5. /\ votes' = [votes EXCEPT ![n] = {n}]
      /\ \A m \in net' : m \in net
           \/ (m.kind = "RequestVote" /\ m.from = n /\ m.term = ballot'[n])
      /\ \/ role' = [role EXCEPT ![n] = "Candidate"]
         \/ role' = [role EXCEPT ![n] = "Leader"] /\ IsMajority({n})
  BY <1>1, <1>2, <1>4, PollNextElection
<1>6. TypeInv' /\ TermsRise /\ VotesFinal
  BY TypeInvStep, TermsAndVotes
<1>7. ballot'[n] = current_term[n] + 1 /\ current_term'[n] = current_term[n] + 1
      /\ voted_for'[n] = n /\ votes'[n] = {n}
  BY <1>1, <1>3, <1>5 DEF TypeInv, TypeOK, TermType, DriverType
<1>8. \A k \in Voter : k # n => ballot'[k] = ballot[k] /\ votes'[k] = votes[k]
  BY <1>1, <1>3, <1>5 DEF TypeInv, TypeOK, TermType, DriverType
<1>9. \A m \in net : m.kind = "VoteResult" => m.to # n
  BY <1>2 DEF FreedOf, CallOf, IsRequest
<1>10. \A k, v \in Voter : Backs(v, k)' => IF k = n THEN v = n ELSE Backs(v, k)
  BY <1>5, <1>7, <1>8, <1>9 DEF Backs
<1>11. RequestsAreCurrent'
  <2> SUFFICES ASSUME NEW m \in net', m.kind = "RequestVote", m.live
               PROVE  m.term = ballot'[m.from]
    BY DEF RequestsAreCurrent
  <2>1. CASE m \in net
    <3>1. m.from \in Voter /\ m.from # n
      BY <1>1, <1>2, <2>1 DEF FreedOf, CallOf, IsRequest, TypeInv, TypeOK, Message, RequestVoteReq,
         RequestVoteResp, AppendEntriesReq, AppendEntriesResp
    <3> QED
      BY <1>8, <2>1, <3>1 DEF ElectionInv, RequestsAreCurrent
  <2> QED
    BY <1>5, <2>1
<1>12. BackersStay'
  <2> SUFFICES ASSUME NEW k \in Voter, NEW v \in Voter, Backs(v, k)'
               PROVE  \/ current_term'[v] > ballot'[k]
                      \/ current_term'[v] = ballot'[k] /\ voted_for'[v] = k
    BY DEF BackersStay
  <2>1. CASE k = n
    BY <1>7, <1>10, <2>1
  <2>2. CASE k # n
    <3>1. \/ current_term[v] > ballot[k]
          \/ current_term[v] = ballot[k] /\ voted_for[v] = k
      BY <1>10, <2>2 DEF ElectionInv, BackersStay
    <3>2. current_term[v] \in Nat /\ current_term'[v] \in Nat /\ ballot[k] \in Nat
      BY <1>1, <1>6 DEF TypeInv, TypeOK, TermType, DriverType
    <3> QED
      BY <1>1, <1>6, <1>8, <2>2, <3>1, <3>2, NoneAssumption DEF TermsRise, VotesFinal
  <2> QED
    BY <2>1, <2>2
<1>13. \A k \in Voter : k # n /\ Backs(n, k) => ballot[k] # current_term[n] + 1
  <2> SUFFICES ASSUME NEW k \in Voter, Backs(n, k)
               PROVE  ballot[k] # current_term[n] + 1
    OBVIOUS
  <2>1. ballot[k] \in Nat
    BY <1>1 DEF TypeInv, TypeOK, DriverType
  <2>2. current_term[n] > ballot[k] \/ current_term[n] = ballot[k]
    BY <1>1 DEF ElectionInv, BackersStay
  <2> QED
    BY <1>3, <2>1, <2>2
<1>14. BackersOfOne'
  <2> SUFFICES ASSUME NEW n1 \in Voter, NEW n2 \in Voter, NEW v \in Voter,
                      Backs(v, n1)', Backs(v, n2)', ballot'[n1] = ballot'[n2]
               PROVE  n1 = n2
    BY DEF BackersOfOne
  <2>1. CASE n1 # n /\ n2 # n
    BY <1>8, <1>10, <2>1 DEF ElectionInv, BackersOfOne
  <2>2. CASE n1 = n /\ n2 # n
    BY <1>7, <1>8, <1>10, <1>13, <2>2
  <2>3. CASE n1 # n /\ n2 = n
    BY <1>7, <1>8, <1>10, <1>13, <2>3
  <2> QED
    BY <2>1, <2>2, <2>3
<1>15. LeadersElected'
  <2> SUFFICES ASSUME NEW k \in Voter
               PROVE  /\ role'[k] \in {"Candidate", "Leader"} => ballot'[k] = current_term'[k]
                      /\ role'[k] = "Leader" => IsMajority(votes'[k])
    BY DEF LeadersElected, IsMajority
  <2>1. CASE k = n
    BY <1>1, <1>5, <1>7, <2>1 DEF TypeInv, TypeOK, RoleType
  <2>2. CASE k # n
    <3>1. role'[k] = role[k] /\ current_term'[k] = current_term[k]
      BY <1>1, <1>3, <1>5, <2>2 DEF TypeInv, TypeOK, RoleType, TermType
    <3> QED
      BY <1>8, <2>2, <3>1 DEF ElectionInv, LeadersElected
  <2> QED
    BY <2>1, <2>2
<1> QED
  BY <1>11, <1>12, <1>14, <1>15 DEF ElectionInv

\* A voter grants at most one candidate of a term, and the awaited grant backs the
\* latest ballot of that candidate.
LEMMA HandleRequestVoteInv ==
    ASSUME TypeInv, ElectionInv, [Next]_vars, NEW n \in Node, NEW m \in net,
           HandleRequestVote(n, m)
    PROVE  ElectionInv'
<1>1. /\ m \in RequestVoteReq /\ m.kind = "RequestVote" /\ n \in Voter /\ Voter \subseteq Node
      /\ m.from \in Voter /\ m.term \in Nat
  BY DEF HandleRequestVote, TypeInv, TypeOK, Message, RequestVoteReq,
     RequestVoteResp, AppendEntriesReq, AppendEntriesResp, Node
<1>2. TypeInv' /\ TermsRise /\ VotesFinal
  BY TypeInvStep, TermsAndVotes
<1>3. ballot' = ballot /\ votes' = votes
  BY DEF HandleRequestVote, driverVars
<1>4. Grants(n, m) => current_term'[n] = m.term /\ voted_for'[n] = m.from
                      /\ current_term[n] <= m.term
                      /\ (current_term[n] = m.term => voted_for[n] \in {None, m.from})
  BY <1>1 DEF HandleRequestVote, Grants, VoteInTerm, TypeInv, TypeOK, TermType
<1>5. \A x \in net' : \/ x \in net
                      \/ /\ m.live
                         /\ x = [kind |-> "VoteResult", from |-> n, to |-> m.from,
                                 term |-> current_term'[n], granted |-> Grants(n, m)]
  BY DEF HandleRequestVote, Answer
<1>6. \A x \in net' : x.kind = "RequestVote" => x \in net
  BY <1>5
<1>7. \A k, v \in Voter : Backs(v, k)' =>
        Backs(v, k) \/ (v = n /\ k = m.from /\ m.live /\ Grants(n, m))
  BY <1>3, <1>5 DEF Backs
<1>8. m.live => m.term = ballot[m.from]
  BY <1>1 DEF ElectionInv, RequestsAreCurrent
<1>9. RequestsAreCurrent'
  BY <1>3, <1>6 DEF ElectionInv, RequestsAreCurrent
<1>10. BackersStay'
  <2> SUFFICES ASSUME NEW k \in Voter, NEW v \in Voter, Backs(v, k)'
               PROVE  \/ current_term'[v] > ballot'[k]
                      \/ current_term'[v] = ballot'[k] /\ voted_for'[v] = k
    BY DEF BackersStay
  <2>1. CASE Backs(v, k)
    <3>1. \/ current_term[v] > ballot[k]
          \/ current_term[v] = ballot[k] /\ voted_for[v] = k
      BY <2>1 DEF ElectionInv, BackersStay
    <3>2. current_term[v] \in Nat /\ current_term'[v] \in Nat /\ ballot[k] \in Nat
      BY <1>1, <1>2 DEF TypeInv, TypeOK, TermType, DriverType
    <3> QED
      BY <1>1, <1>2, <1>3, <3>1, <3>2, NoneAssumption DEF TermsRise, VotesFinal
  <2>2. CASE v = n /\ k = m.from /\ m.live /\ Grants(n, m)
    BY <1>3, <1>4, <1>8, <2>2
  <2> QED
    BY <1>7, <2>1, <2>2
<1>11. ASSUME m.live, Grants(n, m), NEW k \in Voter, Backs(n, k), ballot[k] = ballot[m.from]
       PROVE  k = m.from
  <2>1. \/ current_term[n] > ballot[k]
        \/ current_term[n] = ballot[k] /\ voted_for[n] = k
    BY <1>1, <1>11 DEF ElectionInv, BackersStay
  <2>2. ballot[k] = m.term /\ current_term[n] \in Nat
    BY <1>1, <1>8, <1>11 DEF TypeInv, TypeOK, TermType
  <2> QED
    BY <1>1, <1>4, <1>11, <2>1, <2>2, NoneAssumption
<1>12. BackersOfOne'
  <2> SUFFICES ASSUME NEW n1 \in Voter, NEW n2 \in Voter, NEW v \in Voter,
                      Backs(v, n1)', Backs(v, n2)', ballot[n1] = ballot[n2]
               PROVE  n1 = n2
    BY <1>3 DEF BackersOfOne
  <2>1. CASE Backs(v, n1) /\ Backs(v, n2)
    BY <2>1 DEF ElectionInv, BackersOfOne
  <2>2. CASE ~Backs(v, n1) \/ ~Backs(v, n2)
    BY <1>7, <1>11, <2>2
  <2> QED
    BY <2>1, <2>2
<1>13. LeadersElected'
  <2> SUFFICES ASSUME NEW k \in Voter
               PROVE  /\ role'[k] \in {"Candidate", "Leader"} => ballot'[k] = current_term'[k]
                      /\ role'[k] = "Leader" => IsMajority(votes'[k])
    BY DEF LeadersElected, IsMajority
  <2>1. \/ role'[k] = "Follower"
        \/ role'[k] = role[k] /\ current_term'[k] = current_term[k]
    BY <1>1 DEF HandleRequestVote, TypeInv, TypeOK, RoleType, TermType
  <2> QED
    BY <1>3, <2>1 DEF ElectionInv, LeadersElected
<1> QED
  BY <1>9, <1>10, <1>12, <1>13 DEF ElectionInv

\* A step that adds no vote request and no grant, starts no ballot, counts no vote,
\* and makes nobody a candidate or leader.
LEMMA BystanderInv ==
    ASSUME TypeInv, ElectionInv, [Next]_vars, ballot' = ballot, votes' = votes,
           \A x \in net' : \/ x \in net
                           \/ x.kind \in {"AppendEntries", "AppendResult"}
                           \/ x.kind = "RequestVote" /\ ~x.live,
           \A k \in Voter : \/ role'[k] = "Follower"
                            \/ role'[k] = role[k] /\ current_term'[k] = current_term[k]
    PROVE  ElectionInv'
<1>1. RequestsAreCurrent'
  BY DEF ElectionInv, RequestsAreCurrent
<1>2. \A n, v \in Voter : Backs(v, n)' => Backs(v, n)
  BY DEF Backs
<1>3. BackersStay' /\ BackersOfOne'
  BY <1>2, NoNewBacker
<1>4. LeadersElected'
  BY DEF ElectionInv, LeadersElected, IsMajority
<1> QED
  BY <1>1, <1>3, <1>4 DEF ElectionInv

\* A loop of an election goes on after a counted vote, a refusal or a failure.
LEMMA PollGoesOnInv ==
    ASSUME TypeInv, ElectionInv, [Next]_vars, NEW n \in Voter, NEW v, NEW rest, NEW others,
           FreedOf(n, others), PollNext(n, role[n], v, rest, others),
           UNCHANGED <<current_term, ballot>>,
           v \subseteq Voter, votes[n] \subseteq v, \A w \in v : Backs(w, n),
           \A x \in others : x \in net \/ (x.kind \in {"RequestVote", "AppendEntries"} /\ ~x.live)
    PROVE  ElectionInv'
<1>1. n \in Node /\ Voter \subseteq Node /\ n \notin Learner
  BY LearnerAssumption DEF Node
<1>2. role[n] \in {"Leader", "Follower", "Candidate"}
  BY <1>1 DEF TypeInv, TypeOK, RoleType
<1>3. /\ votes' = [votes EXCEPT ![n] = v]
      /\ \A m \in net' : m \in others
           \/ (m.kind = "RequestVote" /\ m.from = n /\ m.term = ballot'[n])
      /\ \/ role' = [role EXCEPT ![n] = role[n]]
         \/ /\ role' = [role EXCEPT ![n] = "Leader"]
            /\ IsMajority(v) /\ role[n] = "Candidate"
  BY <1>2, PollNextElection
<1>4. /\ votes'[n] = v
      /\ \A k \in Voter : k # n => votes'[k] = votes[k]
  BY <1>1, <1>3 DEF TypeInv, TypeOK, DriverType
<1>5. RequestsAreCurrent'
  BY <1>3 DEF ElectionInv, RequestsAreCurrent
<1>6. \A k, w \in Voter : Backs(w, k)' => Backs(w, k)
  BY <1>3, <1>4 DEF Backs
<1>7. BackersStay' /\ BackersOfOne'
  BY <1>6, NoNewBacker
<1>8. LeadersElected'
  <2> SUFFICES ASSUME NEW k \in Voter
               PROVE  /\ role'[k] \in {"Candidate", "Leader"} => ballot'[k] = current_term'[k]
                      /\ role'[k] = "Leader" => IsMajority(votes'[k])
    BY DEF LeadersElected, IsMajority
  <2>1. CASE k # n
    <3>1. role'[k] = role[k] /\ votes'[k] = votes[k]
      BY <1>1, <1>3, <1>4, <2>1 DEF TypeInv, TypeOK, RoleType
    <3> QED
      BY <3>1 DEF ElectionInv, LeadersElected
  <2>2. CASE k = n
    <3>1. role'[n] = role[n] \/ (role'[n] = "Leader" /\ IsMajority(v) /\ role[n] = "Candidate")
      BY <1>1, <1>3 DEF TypeInv, TypeOK, RoleType
    <3>2. role[n] = "Leader" => IsMajority(v)
      BY MajorityGrows DEF ElectionInv, LeadersElected
    <3> QED
      BY <1>4, <2>2, <3>1, <3>2 DEF ElectionInv, LeadersElected
  <2> QED
    BY <2>1, <2>2
<1> QED
  BY <1>5, <1>7, <1>8 DEF ElectionInv

\* A replication round sends neither vote requests nor grants.
LEMMA ReplicateNextInv ==
    ASSUME TypeInv, ElectionInv, [Next]_vars, NEW n, NEW t, NEW mi, NEW rest, NEW others,
           ReplicateNext(n, t, mi, rest, others), ballot' = ballot,
           \A x \in others : x \in net \/ (x.kind \in {"RequestVote", "AppendEntries"} /\ ~x.live)
    PROVE  ElectionInv'
<1>1. UNCHANGED <<role, current_term, votes>>
  BY DEF ReplicateNext, nodeVars
<1>2. \A x \in net' : x \in others \/ x.kind = "AppendEntries"
  <2>1. CASE net' = others
    BY <2>1
  <2>2. ASSUME NEW p \in rest, net' = others \cup {AppendEntriesTo(n, p, t, mi)}
        PROVE  \A x \in net' : x \in others \/ x.kind = "AppendEntries"
    <3>1. AppendEntriesTo(n, p, t, mi).kind = "AppendEntries"
      BY DEF AppendEntriesTo
    <3> QED
      BY <2>2, <3>1
  <2> QED
    BY <2>1, <2>2 DEF ReplicateNext
<1>3. \A x \in net' : \/ x \in net
                      \/ x.kind \in {"AppendEntries", "AppendResult"}
                      \/ x.kind = "RequestVote" /\ ~x.live
  BY <1>2
<1> QED
  BY <1>1, <1>3, BystanderInv

\* A driver that learns of a later term steps down.
LEMMA StepDownInv ==
    ASSUME TypeInv, ElectionInv, [Next]_vars, NEW n \in Voter, NEW m, StepDown(n, m)
    PROVE  ElectionInv'
<1>1. n \in Node
  BY DEF Node
<1>2. ballot' = ballot /\ votes' = votes /\ net' \subseteq net
  BY DEF StepDown
<1>3. \A k \in Voter : \/ role'[k] = "Follower"
                       \/ role'[k] = role[k] /\ current_term'[k] = current_term[k]
  BY <1>1 DEF StepDown, TypeInv, TypeOK, RoleType, TermType, Node
<1> QED
  BY <1>2, <1>3, BystanderInv

\* An append request deposes its receiver or changes no role.
LEMMA HandleAppendEntriesInv ==
    ASSUME TypeInv, ElectionInv, [Next]_vars, NEW n \in Node, NEW m \in net,
           HandleAppendEntries(n, m) \/ HandleStaleAppendEntries(n, m)
    PROVE  ElectionInv'
<1>1. ballot' = ballot /\ votes' = votes
  BY DEF HandleAppendEntries, HandleStaleAppendEntries, driverVars
<1>2. \A x \in net' : x \in net \/ x.kind = "AppendResult"
  BY DEF HandleAppendEntries, HandleStaleAppendEntries, Answer
<1>3. \A k \in Voter : \/ role'[k] = "Follower"
                       \/ role'[k] = role[k] /\ current_term'[k] = current_term[k]
  BY LearnerAssumption DEF HandleAppendEntries, HandleStaleAppendEntries, nodeVars, TypeInv,
     TypeOK, RoleType, TermType, Node
<1> QED
  BY <1>1, <1>2, <1>3, BystanderInv

\* A failed call leaves an election or a round to go on.
LEMMA CallFailsInv ==
    ASSUME TypeInv, ElectionInv, [Next]_vars, NEW n \in Node, NEW m \in net, NEW others,
           FreedOf(n, others), CallFails(n, m, others),
           \A x \in others : x \in net \/ (x.kind \in {"RequestVote", "AppendEntries"} /\ ~x.live)
    PROVE  ElectionInv'
<1>1. CallOf(n, m) /\ ballot' = ballot
  BY DEF CallFails
<1>2. n \in Voter
  BY <1>1 DEF TypeInv, TypeOK, Message, RequestVoteReq, IsRequest, CallOf,
     RequestVoteResp, AppendEntriesReq, AppendEntriesResp
<1>3. CASE /\ UNCHANGED <<current_term, voted_for, position, log, commit_index>>
           /\ PollNext(n, role[n], votes[n], todo[n], others)
  <2>1. votes[n] \subseteq Voter /\ \A w \in votes[n] : Backs(w, n)
    BY <1>2 DEF TypeInv, TypeOK, DriverType, Backs, Node
  <2> QED
    BY <1>1, <1>2, <1>3, <2>1, PollGoesOnInv
<1>4. CASE ReplicateNext(n, ballot[n], match_index[n], todo[n], others)
  BY <1>1, <1>4, ReplicateNextInv
<1> QED
  BY <1>3, <1>4 DEF CallFails

\* A counted answer comes from a backer.
LEMMA HandleVoteResultInv ==
    ASSUME TypeInv, ElectionInv, [Next]_vars, NEW n \in Node, NEW m \in net,
           HandleVoteResult(n, m)
    PROVE  ElectionInv'
<1> DEFINE v == IF m.granted THEN votes[n] \cup {m.from} ELSE votes[n]
<1>1. /\ m.kind = "VoteResult" /\ m.to = n /\ n \in Voter /\ m.from \in Voter /\ CallOf(n, m)
  BY DEF HandleVoteResult, TypeInv, TypeOK, Message, RequestVoteReq, IsRequest, CallOf,
     RequestVoteResp, AppendEntriesReq, AppendEntriesResp
<1>2. CASE StepDown(n, m)
  BY <1>1, <1>2, StepDownInv
<1>3. CASE /\ UNCHANGED <<current_term, voted_for, ballot, position, log, commit_index,
                          issued, failures>>
           /\ PollNext(n, role[n], v, todo[n], net \ {m})
  <2>1. FreedOf(n, net \ {m})
    BY <1>1, ConsumedIsFreed
  <2>2. v \subseteq Voter /\ votes[n] \subseteq v
    BY <1>1 DEF TypeInv, TypeOK, DriverType
  <2>3. \A w \in v : Backs(w, n)
    BY <1>1 DEF Backs
  <2> HIDE DEF v
  <2> QED
    BY <1>1, <1>3, <2>1, <2>2, <2>3, PollGoesOnInv
<1> QED
  BY <1>2, <1>3 DEF HandleVoteResult

\* Nobody has a backer, a candidate or a leader at the start.
LEMMA ElectionInvInit == Init => ElectionInv
BY DEF Init, ElectionInv, RequestsAreCurrent, BackersStay, BackersOfOne, LeadersElected, Backs,
       Node

\* Every step keeps what elections rest on.
LEMMA ElectionInvStep == TypeInv /\ ElectionInv /\ [Next]_vars => ElectionInv'
<1> SUFFICES ASSUME TypeInv, ElectionInv, [Next]_vars PROVE ElectionInv'
  OBVIOUS
<1>1. CASE UNCHANGED <<role, current_term, votes, ballot, net>>
  BY <1>1, BystanderInv
<1>2. ASSUME NEW n \in Node, DriverStep(n) PROVE ElectionInv'
  <2>1. CASE StartElection(n)
    BY <2>1, StartElectionInv
  <2>2. CASE StartReplicate(n)
    <3>1. n \in Voter
      BY <2>2 DEF StartReplicate, TypeInv, TypeOK, RoleType, Node
    <3>2. ballot[n] = current_term[n]
      BY <2>2, <3>1 DEF StartReplicate, ElectionInv, LeadersElected
    <3>3. ballot' = ballot
      BY <2>2, <3>2 DEF StartReplicate, TypeInv, TypeOK, DriverType
    <3>4. ReplicateNext(n, current_term[n], match_index[n], Peers(n) \cup Learner, net)
      BY <2>2 DEF StartReplicate
    <3> QED
      BY <3>3, <3>4, ReplicateNextInv
  <2>3. CASE IdleTick(n)
    BY <1>1, <2>3 DEF IdleTick, nodeVars, driverVars
  <2>4. ASSUME NEW m \in net, HandleVoteResult(n, m) PROVE ElectionInv'
    BY <2>4, HandleVoteResultInv
  <2>5. ASSUME NEW m \in net, HandleAppendResult(n, m) PROVE ElectionInv'
    <3>1. n \in Voter
      BY <2>5 DEF HandleAppendResult, TypeInv, TypeOK, Message, RequestVoteReq,
         RequestVoteResp, AppendEntriesReq, AppendEntriesResp
    <3>2. CASE StepDown(n, m)
      BY <3>1, <3>2, StepDownInv
    <3>3. CASE /\ UNCHANGED <<ballot, failures>>
               /\ ReplicateNext(n, ballot[n], MatchAfter(n, m), todo[n], net \ {m})
      BY <3>3, ReplicateNextInv
    <3> QED
      BY <2>5, <3>2, <3>3 DEF HandleAppendResult
  <2> QED
    BY <1>2, <2>1, <2>2, <2>3, <2>4, <2>5 DEF DriverStep
<1>3. ASSUME NEW n \in Node, HandlerStep(n) PROVE ElectionInv'
  BY <1>3, HandleRequestVoteInv, HandleAppendEntriesInv DEF HandlerStep
<1>4. ASSUME NEW n \in Node, TransportStep(n) PROVE ElectionInv'
  <2>1. ASSUME NEW m \in net, CallLost(n, m) PROVE ElectionInv'
    <3>1. CallFails(n, m, net \ {m}) /\ CallOf(n, m)
      BY <2>1 DEF CallLost, Lost, CallFails
    <3> QED
      BY <3>1, ConsumedIsFreed, CallFailsInv
  <2>2. ASSUME NEW m \in net, CallAbandoned(n, m) PROVE ElectionInv'
    <3>1. CallFails(n, m, Orphaned(m)) /\ CallOf(n, m) /\ IsRequest(m)
      BY <2>2 DEF CallAbandoned, CallFails
    <3>2. m \in RequestVoteReq \cup AppendEntriesReq
      BY <3>1 DEF TypeInv, TypeOK, Message, IsRequest, RequestVoteResp, AppendEntriesResp
    <3>3. [m EXCEPT !.live = FALSE].kind \in {"RequestVote", "AppendEntries"}
          /\ ~[m EXCEPT !.live = FALSE].live
      BY <3>2 DEF RequestVoteReq, AppendEntriesReq
    <3>4. \A x \in Orphaned(m) :
            x \in net \/ (x.kind \in {"RequestVote", "AppendEntries"} /\ ~x.live)
      BY <3>3 DEF Orphaned
    <3> QED
      BY <3>1, <3>4, OrphanIsNobodys, CallFailsInv
  <2> QED
    BY <1>4, <2>1, <2>2 DEF TransportStep
<1>5. ASSUME NEW n \in Node, ClientStep(n) PROVE ElectionInv'
  BY <1>1, <1>5 DEF ClientStep, Propose, nodeVars, driverVars
<1>6. CASE UNCHANGED vars
  BY <1>1, <1>6 DEF vars, nodeVars, driverVars
<1> QED
  BY <1>2, <1>3, <1>4, <1>5, <1>6 DEF Next

\* Two leaders have each a majority of backers of the same term, hence a backer in
\* common.
LEMMA ElectionInvSafe == TypeInv /\ ElectionInv => ElectionSafety
<1> SUFFICES ASSUME TypeInv, ElectionInv, NEW m \in Node, NEW n \in Node,
                    role[m] = "Leader", role[n] = "Leader", current_term[m] = current_term[n]
             PROVE  m = n
  BY DEF ElectionSafety
<1>1. m \in Voter /\ n \in Voter
  BY DEF TypeInv, TypeOK, RoleType, Node
<1>2. ballot[m] = ballot[n] /\ IsMajority(votes[m]) /\ IsMajority(votes[n])
  BY <1>1 DEF ElectionInv, LeadersElected
<1>3. votes[m] \subseteq Voter /\ votes[n] \subseteq Voter
  BY DEF TypeInv, TypeOK, DriverType
<1>4. PICK v \in votes[m] : v \in votes[n]
  BY <1>2, <1>3, MajoritiesMeet
<1>5. Backs(v, m) /\ Backs(v, n)
  BY <1>4 DEF Backs
<1> QED
  BY <1>1, <1>2, <1>3, <1>5 DEF ElectionInv, BackersOfOne

\* No two nodes ever lead the same term (request_vote, node.rs:222, and the count in
\* start_election, driver.rs:140), for any number of voters, commands, terms and
\* failed, lost or late calls.
THEOREM ElectionsAreSafe == Spec => []ElectionSafety
<1>1. Spec => [](TypeInv /\ ElectionInv)
  BY TypeInvInit, ElectionInvInit, TypeInvStep, ElectionInvStep, PTL DEF Spec
<1> QED
  BY <1>1, ElectionInvSafe, PTL

-----------------------------------------------------------------------------
(***************************************************************************)
(* The pieces of log that exist: the logs themselves, and what requests on *)
(* their way carry, which starts after prev_log_index.                     *)
(***************************************************************************)
Piece == [base : Nat, term : Nat, entries : Seq(Entry)]

PieceOfLog(l) == [base |-> 0, term |-> 0, entries |-> l]
PieceOfCall(m) == [base |-> m.prev_log_index, term |-> m.prev_log_term, entries |-> m.entries]

Carries(m) == m.kind = "AppendEntries" /\ m.entries # << >>

Pieces == {PieceOfLog(log[n]) : n \in Node} \cup {PieceOfCall(m) : m \in {x \in net : Carries(x)}}

Span(p) == p.base .. p.base + Len(p.entries)

EntryIn(p, i) == p.entries[i - p.base]

TermIn(p, i) == IF i = p.base THEN p.term ELSE EntryIn(p, i).term

\* Log matching for pieces: the same term at an index, the same entries up to it.
Agree(p, q) ==
    \A i, j \in Span(p) \cap Span(q) : TermIn(p, i) = TermIn(q, i) /\ j <= i =>
        /\ TermIn(p, j) = TermIn(q, j)
        /\ j > p.base /\ j > q.base => EntryIn(p, j) = EntryIn(q, j)

Ordered(p) == \A i, j \in Span(p) : i <= j => TermIn(p, i) <= TermIn(p, j)

\* Some piece has an entry of term t at index i.
Spot(i, t) == \E p \in Pieces : i \in Span(p) \ {0} /\ TermIn(p, i) = t

\* Whatever two requests, logs or a log and a request say of an index agrees.
AgreeInv == \A p, q \in Pieces : Agree(p, q)

OrderedInv == \A p \in Pieces : Ordered(p)

\* The piece p is a stretch of the piece q.
IsPart(p, q) ==
    \A i \in Span(p) :
        /\ i \in Span(q)
        /\ TermIn(p, i) = TermIn(q, i)
        /\ i > p.base => i > q.base /\ EntryIn(p, i) = EntryIn(q, i)

\* The piece r is l cut where c starts, and then c.
IsJoin(r, l, c) ==
    /\ r.base = l.base /\ c.base \in Span(l) /\ TermIn(l, c.base) = c.term
    /\ \A i \in Span(r) :
         IF i <= c.base
         THEN /\ i \in Span(l) /\ TermIn(r, i) = TermIn(l, i)
              /\ i > l.base => EntryIn(r, i) = EntryIn(l, i)
         ELSE i \in Span(c) /\ TermIn(r, i) = TermIn(c, i) /\ EntryIn(r, i) = EntryIn(c, i)

\* The piece r is l and one entry of term t behind it.
IsGrown(r, l, t) ==
    /\ r.base = l.base
    /\ \A i \in Span(r) :
         IF i <= l.base + Len(l.entries)
         THEN /\ i \in Span(l) /\ TermIn(r, i) = TermIn(l, i)
              /\ i > l.base => EntryIn(r, i) = EntryIn(l, i)
         ELSE i = l.base + Len(l.entries) + 1 /\ TermIn(r, i) = t

-----------------------------------------------------------------------------
(***************************************************************************)
(* What cutting, joining and growing do to agreement and order.            *)
(***************************************************************************)

\* A piece lies on an interval of indices, with a term at each.
LEMMA PieceShape ==
    ASSUME NEW p \in Piece
    PROVE  /\ p.base \in Nat /\ Len(p.entries) \in Nat /\ p.base \in Span(p)
           /\ Span(p) \subseteq Nat
           /\ \A i \in Span(p) : p.base <= i /\ i <= p.base + Len(p.entries) /\ TermIn(p, i) \in Nat
           /\ \A i, k \in Span(p) : \A j \in Nat : i <= j /\ j <= k => j \in Span(p)
<1>1. p.base \in Nat /\ p.term \in Nat /\ p.entries \in Seq(Entry)
  BY DEF Piece
<1>2. Len(p.entries) \in Nat /\ \A k \in 1 .. Len(p.entries) : p.entries[k] \in Entry
  BY <1>1, ElementOfSeq, LenProperties
<1>3. ASSUME NEW i \in Span(p) PROVE TermIn(p, i) \in Nat
  <2>1. CASE i = p.base
    BY <1>1, <2>1 DEF TermIn
  <2>2. CASE i # p.base
    <3>1. i - p.base \in 1 .. Len(p.entries)
      BY <1>1, <1>2, <2>2 DEF Span
    <3>2. p.entries[i - p.base].term \in Nat
      BY <1>2, <3>1 DEF Entry
    <3> QED
      BY <2>2, <3>2 DEF TermIn, EntryIn
  <2> QED
    BY <2>1, <2>2
<1> QED
  BY <1>1, <1>2, <1>3, SMTT(30) DEF Span

\* Agreement is symmetric.
LEMMA AgreeIsSymmetric ==
    ASSUME NEW p, NEW q, Agree(p, q)
    PROVE  Agree(q, p)
BY DEF Agree

\* A stretch of a piece agrees with whatever the piece agrees with.
LEMMA PartAgrees ==
    ASSUME NEW p, NEW q, NEW r, IsPart(p, q), Agree(q, r)
    PROVE  Agree(p, r)
BY DEF IsPart, Agree

\* A stretch of an ordered piece is ordered.
LEMMA PartOrdered ==
    ASSUME NEW p, NEW q, IsPart(p, q), Ordered(q)
    PROVE  Ordered(p)
BY DEF IsPart, Ordered

\* What agrees with both parts of a join agrees with the join.
LEMMA JoinAgrees ==
    ASSUME NEW r \in Piece, NEW l \in Piece, NEW c \in Piece, NEW q \in Piece,
           IsJoin(r, l, c), Agree(l, q), Agree(c, q)
    PROVE  Agree(r, q)
<1> SUFFICES ASSUME NEW i \in Span(r) \cap Span(q), NEW j \in Span(r) \cap Span(q),
                    TermIn(r, i) = TermIn(q, i), j <= i
             PROVE  /\ TermIn(r, j) = TermIn(q, j)
                    /\ j > r.base /\ j > q.base => EntryIn(r, j) = EntryIn(q, j)
  BY DEF Agree
<1>1. i \in Nat /\ j \in Nat /\ c.base \in Nat /\ l.base \in Nat /\ c.base \in Span(c)
  BY PieceShape
<1>2. CASE i <= c.base
  <2>1. j <= c.base
    BY <1>1, <1>2
  <2>2. /\ i \in Span(l) /\ TermIn(r, i) = TermIn(l, i)
        /\ j \in Span(l) /\ TermIn(r, j) = TermIn(l, j)
        /\ j > l.base => EntryIn(r, j) = EntryIn(l, j)
    BY <1>2, <2>1 DEF IsJoin
  <2> QED
    BY <2>2 DEF Agree, IsJoin
<1>3. CASE i > c.base /\ j > c.base
  <2>1. ~(i <= c.base) /\ ~(j <= c.base)
    BY <1>1, <1>3
  <2>2. /\ i \in Span(c) /\ TermIn(r, i) = TermIn(c, i)
        /\ j \in Span(c) /\ TermIn(r, j) = TermIn(c, j) /\ EntryIn(r, j) = EntryIn(c, j)
    BY <2>1 DEF IsJoin
  <2> QED
    BY <1>3, <2>2 DEF Agree
<1>4. CASE i > c.base /\ j <= c.base
  <2>1. ~(i <= c.base) /\ c.base <= i
    BY <1>1, <1>4
  <2>2. /\ i \in Span(c) /\ TermIn(r, i) = TermIn(c, i)
        /\ j \in Span(l) /\ TermIn(r, j) = TermIn(l, j)
        /\ j > l.base => EntryIn(r, j) = EntryIn(l, j)
    BY <1>4, <2>1 DEF IsJoin
  <2>3. c.base \in Span(q)
    BY <1>1, <1>4, <2>1, PieceShape
  <2>4. TermIn(c, c.base) = TermIn(q, c.base)
    BY <1>1, <2>1, <2>2, <2>3 DEF Agree
  <2>5. c.base \in Span(l) /\ TermIn(l, c.base) = TermIn(q, c.base)
    BY <2>4 DEF IsJoin, TermIn
  <2> QED
    BY <1>4, <2>2, <2>3, <2>5 DEF Agree, IsJoin
<1> QED
  BY <1>1, <1>2, <1>3, <1>4

\* A join of ordered pieces is ordered.
LEMMA JoinOrdered ==
    ASSUME NEW r \in Piece, NEW l \in Piece, NEW c \in Piece,
           IsJoin(r, l, c), Ordered(l), Ordered(c)
    PROVE  Ordered(r)
<1> SUFFICES ASSUME NEW i \in Span(r), NEW j \in Span(r), i <= j
             PROVE  TermIn(r, i) <= TermIn(r, j)
  BY DEF Ordered
<1>1. i \in Nat /\ j \in Nat /\ c.base \in Nat /\ c.base \in Span(c)
  BY PieceShape
<1>2. CASE j <= c.base
  <2>1. i <= c.base
    BY <1>1, <1>2
  <2> QED
    BY <1>2, <2>1 DEF IsJoin, Ordered
<1>3. CASE i > c.base
  <2>1. ~(i <= c.base) /\ ~(j <= c.base)
    BY <1>1, <1>3
  <2> QED
    BY <2>1 DEF IsJoin, Ordered
<1>4. CASE i <= c.base /\ j > c.base
  <2>1. ~(j <= c.base) /\ c.base <= j
    BY <1>1, <1>4
  <2>2. i \in Span(l) /\ TermIn(r, i) = TermIn(l, i) /\ j \in Span(c) /\ TermIn(r, j) = TermIn(c, j)
    BY <1>4, <2>1 DEF IsJoin
  <2>3. TermIn(l, i) <= TermIn(l, c.base) /\ TermIn(c, c.base) <= TermIn(c, j)
    BY <1>1, <1>4, <2>1, <2>2 DEF Ordered, IsJoin
  <2>4. TermIn(l, c.base) = TermIn(c, c.base)
    BY DEF IsJoin, TermIn
  <2>5. TermIn(l, i) \in Nat /\ TermIn(c, c.base) \in Nat /\ TermIn(c, j) \in Nat
    BY <1>1, <2>2, PieceShape
  <2> QED
    BY <2>2, <2>3, <2>4, <2>5
<1> QED
  BY <1>1, <1>2, <1>3, <1>4

\* A piece agrees with itself.
LEMMA AgreeIsReflexive ==
    ASSUME NEW p
    PROVE  Agree(p, p)
BY DEF Agree

\* Growth keeps agreement with a piece that has no entry of that term at the new end.
LEMMA GrowAgrees ==
    ASSUME NEW r \in Piece, NEW l \in Piece, NEW q \in Piece, NEW t,
           IsGrown(r, l, t), Agree(l, q),
           LET e == l.base + Len(l.entries) + 1 IN e \in Span(q) => TermIn(q, e) # t
    PROVE  Agree(r, q)
<1> DEFINE e == l.base + Len(l.entries) + 1
<1> SUFFICES ASSUME NEW i \in Span(r) \cap Span(q), NEW j \in Span(r) \cap Span(q),
                    TermIn(r, i) = TermIn(q, i), j <= i
             PROVE  /\ TermIn(r, j) = TermIn(q, j)
                    /\ j > r.base /\ j > q.base => EntryIn(r, j) = EntryIn(q, j)
  BY DEF Agree
<1>1. i \in Nat /\ j \in Nat /\ l.base \in Nat /\ Len(l.entries) \in Nat
  BY PieceShape
<1>2. i # e
  BY <1>1 DEF IsGrown
<1>3. i <= l.base + Len(l.entries)
  BY <1>2 DEF IsGrown
<1>4. j <= l.base + Len(l.entries)
  BY <1>1, <1>3
<1>5. /\ i \in Span(l) /\ TermIn(r, i) = TermIn(l, i)
      /\ j \in Span(l) /\ TermIn(r, j) = TermIn(l, j)
      /\ j > l.base => EntryIn(r, j) = EntryIn(l, j)
  BY <1>3, <1>4 DEF IsGrown
<1> QED
  BY <1>5 DEF Agree, IsGrown

\* Growth by an entry of no earlier term keeps the order.
LEMMA GrowOrdered ==
    ASSUME NEW r \in Piece, NEW l \in Piece, NEW t \in Nat, IsGrown(r, l, t), Ordered(l),
           \A i \in Span(l) : TermIn(l, i) <= t
    PROVE  Ordered(r)
<1> SUFFICES ASSUME NEW i \in Span(r), NEW j \in Span(r), i <= j
             PROVE  TermIn(r, i) <= TermIn(r, j)
  BY DEF Ordered
<1>1. i \in Nat /\ j \in Nat /\ l.base \in Nat /\ Len(l.entries) \in Nat
  BY PieceShape
<1>2. CASE j <= l.base + Len(l.entries)
  <2>1. i <= l.base + Len(l.entries)
    BY <1>1, <1>2
  <2> QED
    BY <1>2, <2>1 DEF IsGrown, Ordered
<1>3. CASE ~(j <= l.base + Len(l.entries))
  <2>1. TermIn(r, j) = t
    BY <1>3 DEF IsGrown
  <2>2. TermIn(r, i) <= t
    BY DEF IsGrown
  <2> QED
    BY <2>1, <2>2
<1> QED
  BY <1>2, <1>3

-----------------------------------------------------------------------------
(***************************************************************************)
(* What the handlers do to the pieces.                                     *)
(***************************************************************************)

\* A log is a piece that starts at the sentinel.
LEMMA LogAsPiece ==
    ASSUME NEW l \in Seq(Entry)
    PROVE  /\ PieceOfLog(l) \in Piece
           /\ PieceOfLog(l).base = 0 /\ PieceOfLog(l).entries = l
           /\ Len(l) \in Nat /\ DOMAIN l = 1 .. Len(l)
           /\ Span(PieceOfLog(l)) = 0 .. Len(l)
           /\ TermIn(PieceOfLog(l), 0) = 0
           /\ \A i \in 1 .. Len(l) : TermIn(PieceOfLog(l), i) = l[i].term
           /\ \A i \in 1 .. Len(l) : EntryIn(PieceOfLog(l), i) = l[i]
<1>1. Len(l) \in Nat /\ DOMAIN l = 1 .. Len(l)
  BY LenProperties
<1>2. \A i \in 1 .. Len(l) : i - 0 = i /\ i # 0
  BY <1>1
<1> QED
  BY <1>1, <1>2 DEF PieceOfLog, Piece, Span, TermIn, EntryIn

\* All pieces have the shape of one.
LEMMA PiecesAreWhole ==
    ASSUME TypeInv
    PROVE  Pieces \subseteq Piece
<1>1. ASSUME NEW n \in Node PROVE PieceOfLog(log[n]) \in Piece
  BY LogAsPiece DEF TypeInv, TypeOK, LogType
<1>2. ASSUME NEW m \in net, Carries(m) PROVE PieceOfCall(m) \in Piece
  <2>1. m \in AppendEntriesReq
    BY <1>2 DEF Carries, TypeInv, TypeOK, Message, RequestVoteReq, RequestVoteResp,
       AppendEntriesReq, AppendEntriesResp
  <2> QED
    BY <2>1 DEF AppendEntriesReq, PieceOfCall, Piece
<1> QED
  BY <1>1, <1>2 DEF Pieces

\* build_append_for sends a stretch of the sender's log.
LEMMA SentIsPart ==
    ASSUME TypeInv, NEW n \in Voter, NEW p \in Node, NEW t \in Nat, NEW mi \in [Node -> Nat],
           Carries(AppendEntriesTo(n, p, t, mi))
    PROVE  IsPart(PieceOfCall(AppendEntriesTo(n, p, t, mi)), PieceOfLog(log[n]))
<1> DEFINE l == log[n]
           b == mi[p]
           es == EntriesFrom(l, b + 1)
           q == PieceOfCall(AppendEntriesTo(n, p, t, mi))
<1>1. l \in Seq(Entry) /\ b \in Nat
  BY DEF TypeInv, TypeOK, LogType, Node
<1>2. q.base = b /\ q.term = TermOrZero(l, b) /\ q.entries = es /\ es # << >>
  BY DEF PieceOfCall, AppendEntriesTo, Carries
<1> HIDE DEF q
<1>3. Len(l) \in Nat /\ DOMAIN l = 1 .. Len(l) /\ \A k \in 1 .. Len(l) : l[k] \in Entry
  BY <1>1, ElementOfSeq, LenProperties
<1>4. b + 1 <= Len(l) /\ Len(es) = Len(l) - b /\ \A k \in 1 .. Len(l) - b : es[k] = l[b + k]
  <2>1. \A k \in (b + 1) .. Len(l) : l[k] \in Entry
    BY <1>1, <1>3
  <2>2. /\ es \in Seq(Entry)
        /\ Len(es) = IF b + 1 <= Len(l) THEN Len(l) - (b + 1) + 1 ELSE 0
        /\ \A k \in 1 .. Len(l) - (b + 1) + 1 : es[k] = l[b + 1 + k - 1]
    BY <1>1, <1>3, <2>1, SubSeqProperties, SMTT(30) DEF EntriesFrom
  <2>3. Len(es) # 0
    BY <1>2, <2>2, EmptySeq
  <2>4. b + 1 <= Len(l) /\ Len(es) = Len(l) - b
    BY <1>1, <1>3, <2>2, <2>3
  <2>5. ASSUME NEW k \in 1 .. Len(l) - b PROVE es[k] = l[b + k]
    <3>1. k \in 1 .. Len(l) - (b + 1) + 1 /\ b + 1 + k - 1 = b + k
      BY <1>1, <1>3
    <3> QED
      BY <2>2, <3>1
  <2> QED
    BY <2>4, <2>5
<1> HIDE DEF es
<1>5. Span(q) = b .. Len(l)
  BY <1>1, <1>2, <1>3, <1>4 DEF Span
<1>6. TermOrZero(l, b) = TermIn(PieceOfLog(l), b)
  BY <1>1, <1>3, <1>4, LogAsPiece DEF TermOrZero
<1>7. ASSUME NEW i \in b .. Len(l)
      PROVE  /\ i \in Span(PieceOfLog(l))
             /\ TermIn(q, i) = TermIn(PieceOfLog(l), i)
             /\ i > b => i > 0 /\ EntryIn(q, i) = EntryIn(PieceOfLog(l), i)
  <2>1. i \in Span(PieceOfLog(l))
    BY <1>1, <1>3, LogAsPiece
  <2>2. CASE i = b
    BY <1>1, <1>2, <1>6, <2>1, <2>2 DEF TermIn
  <2>3. CASE i # b
    <3>1. i - b \in 1 .. Len(l) - b /\ b + (i - b) = i /\ i \in 1 .. Len(l)
      BY <1>1, <1>3, <2>3
    <3>2. EntryIn(q, i) = l[i]
      BY <1>2, <1>4, <3>1 DEF EntryIn
    <3>3. TermIn(q, i) = l[i].term
      BY <1>2, <2>3, <3>2 DEF TermIn
    <3> QED
      BY <1>1, <2>1, <3>1, <3>2, <3>3, LogAsPiece
  <2> QED
    BY <2>2, <2>3
<1>8. PieceOfLog(l).base = 0
  BY DEF PieceOfLog
<1> HIDE DEF l, b
<1>9. IsPart(q, PieceOfLog(l))
  BY <1>2, <1>5, <1>7, <1>8 DEF IsPart
<1> QED
  BY <1>9 DEF q, l

\* truncate_from behind an entry of the log keeps what comes before.
LEMMA CutKeepsPrefix ==
    ASSUME NEW l \in Seq(Entry), NEW b \in Nat, b <= Len(l)
    PROVE  TruncateFrom(l, b + 1) = SubSeq(l, 1, b)
<1> DEFINE k == LesserOf((b + 1) - 1, Len(l))
<1>1. Len(l) \in Nat
  BY LenProperties
<1>2. k = b
  BY <1>1 DEF LesserOf
<1>3. TruncateFrom(l, b + 1) = SubSeq(l, 1, k)
  BY DEF TruncateFrom
<1> HIDE DEF k
<1> QED
  BY <1>2, <1>3

\* append_entries joins what it keeps of the log and what it received.
LEMMA AcceptedIsJoin ==
    ASSUME TypeInv, NEW n \in Node, NEW m \in AppendEntriesReq, Carries(m),
           HasTermAt(log[n], m.prev_log_index, m.prev_log_term)
    PROVE  /\ LogAfter(n, m) \in Seq(Entry)
           /\ IsJoin(PieceOfLog(LogAfter(n, m)), PieceOfLog(log[n]), PieceOfCall(m))
<1> DEFINE l == log[n]
           b == m.prev_log_index
           es == m.entries
           kept == TruncateFrom(l, b + 1)
           c == PieceOfCall(m)
<1>1. l \in Seq(Entry) /\ b \in Nat /\ es \in Seq(Entry) /\ m.prev_log_term \in Nat
  BY DEF TypeInv, TypeOK, LogType, AppendEntriesReq
<1>2. c.base = b /\ c.term = m.prev_log_term /\ c.entries = es
  BY DEF PieceOfCall
<1>3. LogAfter(n, m) = kept \o es
  BY DEF Carries, LogAfter
<1>4. /\ Len(l) \in Nat /\ DOMAIN l = 1 .. Len(l) /\ \A k \in 1 .. Len(l) : l[k] \in Entry
      /\ Len(es) \in Nat
  BY <1>1, ElementOfSeq, LenProperties
<1>5. b <= Len(l) /\ TermIn(PieceOfLog(l), b) = c.term
  BY <1>1, <1>2, <1>4, LogAsPiece DEF HasTermAt
<1>6. /\ kept \in Seq(Entry) /\ Len(kept) = b
      /\ \A k \in 1 .. b : kept[k] = l[k]
  <2> DEFINE sq == SubSeq(l, 1, b)
  <2>1. b + 1 - 1 = b /\ b - 1 + 1 = b /\ \A k \in 1 .. b : 1 + k - 1 = k
    BY <1>1
  <2>3. \A k \in 1 .. b : l[k] \in Entry
    BY <1>1, <1>4, <1>5
  <2>4. kept = sq
    BY <1>1, <1>5, CutKeepsPrefix
  <2>5. /\ sq \in Seq(Entry)
        /\ Len(sq) = IF 1 <= b THEN b - 1 + 1 ELSE 0
        /\ \A k \in 1 .. b - 1 + 1 : sq[k] = l[1 + k - 1]
    BY <1>1, <2>3, SubSeqProperties
  <2> HIDE DEF sq, kept
  <2>6. Len(sq) = b
    BY <1>1, <2>5
  <2>7. \A k \in 1 .. b : sq[k] = l[k]
    BY <2>1, <2>5
  <2> QED
    BY <2>4, <2>5, <2>6, <2>7
<1> HIDE DEF kept
<1> DEFINE r == kept \o es
<1>7. /\ r \in Seq(Entry) /\ Len(r) = b + Len(es)
      /\ \A k \in 1 .. b + Len(es) : r[k] = IF k <= b THEN l[k] ELSE es[k - b]
  <2>1. /\ r \in Seq(Entry) /\ Len(r) = Len(kept) + Len(es)
        /\ \A k \in 1 .. Len(kept) + Len(es) :
             r[k] = IF k <= Len(kept) THEN kept[k] ELSE es[k - Len(kept)]
    BY <1>1, <1>6, ConcatProperties
  <2> HIDE DEF r
  <2>2. Len(r) = b + Len(es)
    BY <1>6, <2>1
  <2>3. ASSUME NEW k \in 1 .. b + Len(es) PROVE r[k] = IF k <= b THEN l[k] ELSE es[k - b]
    <3>1. r[k] = IF k <= b THEN kept[k] ELSE es[k - b]
      BY <1>6, <2>1
    <3>2. k <= b => k \in 1 .. b
      BY <1>1
    <3> QED
      BY <1>6, <3>1, <3>2
  <2> QED
    BY <2>1, <2>2, <2>3
<1> HIDE DEF r, c
<1>8. Span(PieceOfLog(r)) = 0 .. b + Len(es) /\ Span(PieceOfLog(l)) = 0 .. Len(l)
      /\ Span(c) = b .. b + Len(es)
  BY <1>1, <1>2, <1>7, LogAsPiece DEF Span
<1>9. ASSUME NEW i \in 0 .. b + Len(es), i <= b
      PROVE  /\ i \in 0 .. Len(l)
             /\ TermIn(PieceOfLog(r), i) = TermIn(PieceOfLog(l), i)
             /\ i > 0 => EntryIn(PieceOfLog(r), i) = EntryIn(PieceOfLog(l), i)
  <2>1. i \in 0 .. Len(l)
    BY <1>1, <1>4, <1>5, <1>9
  <2>2. CASE i = 0
    BY <1>1, <1>7, <2>1, <2>2, LogAsPiece
  <2>3. CASE i # 0
    <3>1. i \in 1 .. b + Len(es) /\ i \in 1 .. Len(l)
      BY <1>1, <1>4, <1>5, <1>9, <2>1, <2>3
    <3>2. r[i] = l[i]
      BY <1>7, <1>9, <3>1
    <3>3. i \in 1 .. Len(r)
      BY <1>7, <3>1
    <3>4. TermIn(PieceOfLog(r), i) = r[i].term /\ EntryIn(PieceOfLog(r), i) = r[i]
      BY <1>7, <3>3, LogAsPiece
    <3>5. TermIn(PieceOfLog(l), i) = l[i].term /\ EntryIn(PieceOfLog(l), i) = l[i]
      BY <1>1, <3>1, LogAsPiece
    <3> QED
      BY <2>1, <3>2, <3>4, <3>5
  <2> QED
    BY <2>2, <2>3
<1>10. ASSUME NEW i \in 0 .. b + Len(es), ~(i <= b)
       PROVE  /\ i \in b .. b + Len(es)
              /\ TermIn(PieceOfLog(r), i) = TermIn(c, i)
              /\ EntryIn(PieceOfLog(r), i) = EntryIn(c, i)
  <2>1. i \in 1 .. b + Len(es) /\ i \in b .. b + Len(es) /\ i # b
    BY <1>1, <1>4, <1>10
  <2>2. r[i] = es[i - b]
    BY <1>7, <1>10, <2>1
  <2>3. EntryIn(PieceOfLog(r), i) = r[i] /\ TermIn(PieceOfLog(r), i) = r[i].term
    BY <1>7, <2>1, LogAsPiece
  <2>4. EntryIn(c, i) = es[i - b] /\ TermIn(c, i) = es[i - b].term
    BY <1>2, <2>1 DEF EntryIn, TermIn
  <2> QED
    BY <2>1, <2>2, <2>3, <2>4
<1>11. PieceOfLog(r).base = 0 /\ PieceOfLog(l).base = 0 /\ b \in Span(PieceOfLog(l))
  BY <1>1, <1>4, <1>5, <1>8 DEF PieceOfLog
<1>12. IsJoin(PieceOfLog(r), PieceOfLog(l), c)
  <2> HIDE DEF l, b, es
  <2> QED
    BY <1>2, <1>5, <1>8, <1>9, <1>10, <1>11 DEF IsJoin
<1> QED
  BY <1>3, <1>7, <1>12 DEF r, c

\* propose lets a leader's log grow by one entry.
LEMMA ProposedIsGrown ==
    ASSUME NEW l \in Seq(Entry), NEW t \in Nat, NEW c \in Command
    PROVE  /\ Append(l, [term |-> t, cmd |-> c]) \in Seq(Entry)
           /\ IsGrown(PieceOfLog(Append(l, [term |-> t, cmd |-> c])), PieceOfLog(l), t)
<1> DEFINE e == [term |-> t, cmd |-> c]
           r == Append(l, e)
<1>1. e \in Entry /\ e.term = t
  BY DEF Entry
<1> HIDE DEF e
<1>2. /\ r \in Seq(Entry) /\ Len(r) = Len(l) + 1
      /\ \A k \in 1 .. Len(l) : r[k] = l[k]
      /\ r[Len(l) + 1] = e
  BY <1>1, AppendProperties
<1> HIDE DEF r
<1>3. Len(l) \in Nat
  BY LenProperties
<1>4. ASSUME NEW i \in 0 .. Len(l) + 1, i <= 0 + Len(l)
      PROVE  /\ i \in 0 .. Len(l)
             /\ TermIn(PieceOfLog(r), i) = TermIn(PieceOfLog(l), i)
             /\ i > 0 => EntryIn(PieceOfLog(r), i) = EntryIn(PieceOfLog(l), i)
  <2>1. CASE i = 0
    BY <1>2, <1>3, <2>1, LogAsPiece
  <2>2. CASE i # 0
    <3>1. i \in 1 .. Len(l) /\ i \in 1 .. Len(r)
      BY <1>2, <1>3, <1>4, <2>2
    <3> QED
      BY <1>2, <1>3, <3>1, LogAsPiece
  <2> QED
    BY <2>1, <2>2
<1>5. ASSUME NEW i \in 0 .. Len(l) + 1, ~(i <= 0 + Len(l))
      PROVE  i = 0 + Len(l) + 1 /\ TermIn(PieceOfLog(r), i) = t
  <2>1. i = Len(l) + 1 /\ i \in 1 .. Len(r)
    BY <1>2, <1>3, <1>5
  <2>2. TermIn(PieceOfLog(r), i) = r[i].term
    BY <1>2, <2>1, LogAsPiece
  <2> QED
    BY <1>1, <1>2, <1>3, <2>1, <2>2
<1>6. /\ PieceOfLog(r).base = 0 /\ PieceOfLog(l).base = 0 /\ PieceOfLog(l).entries = l
      /\ Span(PieceOfLog(r)) = 0 .. Len(l) + 1
      /\ Span(PieceOfLog(l)) = 0 .. Len(l)
  BY <1>2, LogAsPiece
<1>7. IsGrown(PieceOfLog(r), PieceOfLog(l), t)
  BY <1>4, <1>5, <1>6 DEF IsGrown
<1> QED
  BY <1>2, <1>7 DEF r, e

-----------------------------------------------------------------------------
(***************************************************************************)
(* What one step may do to backers and roles.                              *)
(***************************************************************************)

\* A new backer is the candidate itself, on its new ballot, or had its vote still to give.
BackersStep ==
    \A v, n \in Voter : Backs(v, n)' =>
        \/ Backs(v, n) /\ ballot'[n] = ballot[n]
        \/ v = n /\ ballot'[n] > current_term[n]
        \/ /\ ballot'[n] = ballot[n]
           /\ \/ current_term[v] < ballot[n]
              \/ current_term[v] = ballot[n] /\ voted_for[v] \in {None, n}

\* A new candidate has only itself behind it; a new leader had a majority already.
RolesStep ==
    \A n \in Node :
        /\ role'[n] = "Candidate" =>
             \/ role[n] = "Candidate" /\ current_term'[n] = current_term[n]
             \/ current_term'[n] > current_term[n] /\ \A v \in Voter : Backs(v, n)' => v = n
        /\ role'[n] = "Leader" =>
             \/ role[n] = "Leader" /\ current_term'[n] = current_term[n]
             \/ /\ role[n] = "Candidate" /\ current_term'[n] = current_term[n]
                /\ \E S \in SUBSET Voter : IsMajority(S) /\ \A v \in S : Backs(v, n)
             \/ current_term'[n] > current_term[n] /\ IsMajority({n})

\* A step that counts no vote, grants none, and makes nobody a candidate or leader.
LEMMA BystanderStep ==
    ASSUME ballot' = ballot, votes' = votes,
           \A x \in net' : x \in net \/ x.kind # "VoteResult",
           \A k \in Node : \/ role'[k] \in {"Follower", "Learner"}
                           \/ role'[k] = role[k] /\ current_term'[k] = current_term[k]
    PROVE  BackersStep /\ RolesStep
<1>1. \A v, n \in Voter : Backs(v, n)' => Backs(v, n)
  BY DEF Backs
<1>2. BackersStep
  BY <1>1 DEF BackersStep
<1>3. RolesStep
  <2> SUFFICES ASSUME NEW n \in Node
               PROVE  role'[n] \in {"Candidate", "Leader"}
                        => role'[n] = role[n] /\ current_term'[n] = current_term[n]
    BY DEF RolesStep
  <2> QED
    OBVIOUS
<1> QED
  BY <1>2, <1>3

\* An election's loop goes on, or its candidate becomes the leader.
LEMMA PollGoesOnStep ==
    ASSUME TypeInv, NEW n \in Voter, NEW v, NEW rest, NEW others,
           FreedOf(n, others), PollNext(n, role[n], v, rest, others),
           UNCHANGED <<current_term, ballot>>,
           v \subseteq Voter, \A w \in v : Backs(w, n),
           \A x \in others : x \in net \/ x.kind # "VoteResult"
    PROVE  BackersStep /\ RolesStep
<1>1. n \in Node /\ n \notin Learner /\ Voter \subseteq Node
  BY LearnerAssumption DEF Node
<1>2. role[n] \in {"Leader", "Follower", "Candidate"}
  BY <1>1 DEF TypeInv, TypeOK, RoleType
<1>3. /\ votes' = [votes EXCEPT ![n] = v]
      /\ \A m \in net' : m \in others
           \/ (m.kind = "RequestVote" /\ m.from = n /\ m.term = ballot'[n])
      /\ \/ role' = [role EXCEPT ![n] = role[n]]
         \/ /\ role' = [role EXCEPT ![n] = "Leader"]
            /\ IsMajority(v) /\ role[n] = "Candidate"
  BY <1>2, PollNextElection
<1>4. /\ votes'[n] = v
      /\ \A k \in Voter : k # n => votes'[k] = votes[k]
  BY <1>1, <1>3 DEF TypeInv, TypeOK, DriverType
<1>5. \A k, w \in Voter : Backs(w, k)' => Backs(w, k)
  BY <1>3, <1>4 DEF Backs
<1>6. BackersStep
  BY <1>5 DEF BackersStep
<1>7. RolesStep
  <2> SUFFICES ASSUME NEW k \in Node
               PROVE  \/ role'[k] = role[k]
                      \/ /\ role[k] = "Candidate" /\ role'[k] = "Leader"
                         /\ \E S \in SUBSET Voter : IsMajority(S) /\ \A w \in S : Backs(w, k)
    BY DEF RolesStep
  <2>1. CASE role' = [role EXCEPT ![n] = role[n]]
    BY <2>1 DEF TypeInv, TypeOK, RoleType
  <2>2. CASE role' = [role EXCEPT ![n] = "Leader"] /\ IsMajority(v) /\ role[n] = "Candidate"
    <3>1. CASE k = n
      BY <1>1, <2>2, <3>1 DEF TypeInv, TypeOK, RoleType
    <3>2. CASE k # n
      BY <2>2, <3>2 DEF TypeInv, TypeOK, RoleType
    <3> QED
      BY <3>1, <3>2
  <2> QED
    BY <1>3, <2>1, <2>2
<1> QED
  BY <1>6, <1>7

\* A new ballot has its candidate behind it and nobody else.
LEMMA StartElectionStep ==
    ASSUME TypeInv, NEW n \in Node, StartElection(n)
    PROVE  BackersStep /\ RolesStep
<1>1. n \in Voter /\ Voter \subseteq Node
  BY DEF StartElection, TypeInv, TypeOK, RoleType, Node
<1>2. FreedOf(n, net)
  BY IdleHasNoCall DEF StartElection
<1>3. /\ current_term[n] \in Nat
      /\ current_term' = [current_term EXCEPT ![n] = @ + 1]
      /\ ballot' = [ballot EXCEPT ![n] = current_term[n] + 1]
  BY DEF StartElection, TypeInv, TypeOK, TermType
<1>4. PollNext(n, "Candidate", {n}, Peers(n), net)
  BY DEF StartElection
<1>5. /\ votes' = [votes EXCEPT ![n] = {n}]
      /\ \A m \in net' : m \in net
           \/ (m.kind = "RequestVote" /\ m.from = n /\ m.term = ballot'[n])
      /\ \/ role' = [role EXCEPT ![n] = "Candidate"]
         \/ role' = [role EXCEPT ![n] = "Leader"] /\ IsMajority({n})
  BY <1>1, <1>2, <1>4, PollNextElection
<1>6. ballot'[n] > current_term[n] /\ current_term'[n] > current_term[n] /\ votes'[n] = {n}
  BY <1>1, <1>3, <1>5 DEF TypeInv, TypeOK, TermType, DriverType
<1>7. \A k \in Voter : k # n => ballot'[k] = ballot[k] /\ votes'[k] = votes[k]
  BY <1>1, <1>3, <1>5 DEF TypeInv, TypeOK, DriverType
<1>8. \A m \in net : m.kind = "VoteResult" => m.to # n
  BY <1>2 DEF FreedOf, CallOf, IsRequest
<1>9. \A k, v \in Voter : Backs(v, k)' => IF k = n THEN v = n ELSE Backs(v, k)
  BY <1>5, <1>6, <1>7, <1>8 DEF Backs
<1>10. BackersStep
  BY <1>6, <1>7, <1>9 DEF BackersStep
<1>11. RolesStep
  <2> SUFFICES ASSUME NEW k \in Node
               PROVE  /\ role'[k] = "Candidate" =>
                           \/ role[k] = "Candidate" /\ current_term'[k] = current_term[k]
                           \/ current_term'[k] > current_term[k] /\ \A v \in Voter : Backs(v, k)' => v = k
                      /\ role'[k] = "Leader" =>
                           \/ role[k] = "Leader" /\ current_term'[k] = current_term[k]
                           \/ current_term'[k] > current_term[k] /\ IsMajority({k})
    BY DEF RolesStep
  <2>1. CASE k = n
    <3>1. \A v \in Voter : Backs(v, n)' => v = n
      BY <1>1, <1>9
    <3>2. role'[n] = "Leader" => IsMajority({n})
      BY <1>1, <1>5 DEF TypeInv, TypeOK, RoleType
    <3> QED
      BY <1>6, <2>1, <3>1, <3>2
  <2>2. CASE k # n
    BY <1>1, <1>3, <1>5, <2>2 DEF TypeInv, TypeOK, RoleType, TermType
  <2> QED
    BY <2>1, <2>2
<1> QED
  BY <1>10, <1>11

\* A vote is granted by a voter that has still one to give in the term of the ballot.
LEMMA HandleRequestVoteStep ==
    ASSUME TypeInv, ElectionInv, NEW n \in Node, NEW m \in net, HandleRequestVote(n, m)
    PROVE  BackersStep /\ RolesStep
<1>1. /\ m \in RequestVoteReq /\ m.kind = "RequestVote" /\ n \in Voter /\ Voter \subseteq Node
      /\ m.from \in Voter /\ m.term \in Nat
  BY DEF HandleRequestVote, TypeInv, TypeOK, Message, RequestVoteReq,
     RequestVoteResp, AppendEntriesReq, AppendEntriesResp, Node
<1>2. ballot' = ballot /\ votes' = votes
  BY DEF HandleRequestVote, driverVars
<1>3. Grants(n, m) => \/ current_term[n] < m.term
                      \/ current_term[n] = m.term /\ voted_for[n] \in {None, m.from}
  BY <1>1 DEF Grants, VoteInTerm, TypeInv, TypeOK, TermType
<1>4. \A x \in net' : \/ x \in net
                      \/ /\ m.live
                         /\ x = [kind |-> "VoteResult", from |-> n, to |-> m.from,
                                 term |-> current_term'[n], granted |-> Grants(n, m)]
  BY DEF HandleRequestVote, Answer
<1>5. \A k, v \in Voter : Backs(v, k)' =>
        Backs(v, k) \/ (v = n /\ k = m.from /\ m.live /\ Grants(n, m))
  BY <1>2, <1>4 DEF Backs
<1>6. m.live => m.term = ballot[m.from]
  BY <1>1 DEF ElectionInv, RequestsAreCurrent
<1>7. BackersStep
  BY <1>2, <1>3, <1>5, <1>6 DEF BackersStep
<1>8. RolesStep
  <2> SUFFICES ASSUME NEW k \in Node
               PROVE  \/ role'[k] = "Follower"
                      \/ role'[k] = role[k] /\ current_term'[k] = current_term[k]
    BY DEF RolesStep
  <2> QED
    BY <1>1 DEF HandleRequestVote, TypeInv, TypeOK, RoleType, TermType
<1> QED
  BY <1>7, <1>8

\* An append request deposes its receiver or changes no role.
LEMMA HandleAppendEntriesStep ==
    ASSUME TypeInv, NEW n \in Node, NEW m \in net,
           HandleAppendEntries(n, m) \/ HandleStaleAppendEntries(n, m)
    PROVE  BackersStep /\ RolesStep
<1>1. ballot' = ballot /\ votes' = votes
  BY DEF HandleAppendEntries, HandleStaleAppendEntries, driverVars
<1>2. \A x \in net' : x \in net \/ x.kind = "AppendResult"
  BY DEF HandleAppendEntries, HandleStaleAppendEntries, Answer
<1>3. \A k \in Node : \/ role'[k] \in {"Follower", "Learner"}
                      \/ role'[k] = role[k] /\ current_term'[k] = current_term[k]
  BY DEF HandleAppendEntries, HandleStaleAppendEntries, nodeVars, TypeInv, TypeOK, RoleType, TermType
<1> QED
  BY <1>1, <1>2, <1>3, BystanderStep

\* A driver that learns of a later term steps down.
LEMMA StepDownStep ==
    ASSUME TypeInv, NEW n \in Node, NEW m, StepDown(n, m)
    PROVE  BackersStep /\ RolesStep
<1>1. ballot' = ballot /\ votes' = votes /\ net' \subseteq net
  BY DEF StepDown
<1>2. \A k \in Node : \/ role'[k] = "Follower"
                      \/ role'[k] = role[k] /\ current_term'[k] = current_term[k]
  BY DEF StepDown, TypeInv, TypeOK, RoleType, TermType
<1> QED
  BY <1>1, <1>2, BystanderStep

\* A replication round leaves elections alone.
LEMMA ReplicateNextStep ==
    ASSUME NEW n, NEW t, NEW mi, NEW rest, NEW others,
           ReplicateNext(n, t, mi, rest, others), ballot' = ballot,
           \A x \in others : x \in net \/ x.kind # "VoteResult"
    PROVE  BackersStep /\ RolesStep
<1>1. UNCHANGED <<role, current_term, votes>>
  BY DEF ReplicateNext, nodeVars
<1>2. \A x \in net' : x \in others \/ x.kind = "AppendEntries"
  <2>1. CASE net' = others
    BY <2>1
  <2>2. ASSUME NEW p \in rest, net' = others \cup {AppendEntriesTo(n, p, t, mi)}
        PROVE  \A x \in net' : x \in others \/ x.kind = "AppendEntries"
    <3>1. AppendEntriesTo(n, p, t, mi).kind = "AppendEntries"
      BY DEF AppendEntriesTo
    <3> QED
      BY <2>2, <3>1
  <2> QED
    BY <2>1, <2>2 DEF ReplicateNext
<1>3. \A x \in net' : x \in net \/ x.kind # "VoteResult"
  BY <1>2
<1> QED
  BY <1>1, <1>3, BystanderStep

\* A failed call leaves an election or a round to go on.
LEMMA CallFailsStep ==
    ASSUME TypeInv, NEW n \in Node, NEW m \in net, NEW others,
           FreedOf(n, others), CallFails(n, m, others),
           \A x \in others : x \in net \/ x.kind # "VoteResult"
    PROVE  BackersStep /\ RolesStep
<1>1. CallOf(n, m) /\ ballot' = ballot
  BY DEF CallFails
<1>2. n \in Voter
  BY <1>1 DEF TypeInv, TypeOK, Message, RequestVoteReq, IsRequest, CallOf,
     RequestVoteResp, AppendEntriesReq, AppendEntriesResp
<1>3. CASE /\ UNCHANGED <<current_term, voted_for, position, log, commit_index>>
           /\ PollNext(n, role[n], votes[n], todo[n], others)
  <2>1. votes[n] \subseteq Voter /\ \A w \in votes[n] : Backs(w, n)
    BY <1>2 DEF TypeInv, TypeOK, DriverType, Backs, Node
  <2> QED
    BY <1>1, <1>2, <1>3, <2>1, PollGoesOnStep
<1>4. CASE ReplicateNext(n, ballot[n], match_index[n], todo[n], others)
  BY <1>1, <1>4, ReplicateNextStep
<1> QED
  BY <1>3, <1>4 DEF CallFails

\* A counted answer comes from a backer.
LEMMA HandleVoteResultStep ==
    ASSUME TypeInv, NEW n \in Node, NEW m \in net, HandleVoteResult(n, m)
    PROVE  BackersStep /\ RolesStep
<1> DEFINE v == IF m.granted THEN votes[n] \cup {m.from} ELSE votes[n]
<1>1. /\ m.kind = "VoteResult" /\ m.to = n /\ n \in Voter /\ m.from \in Voter /\ CallOf(n, m)
  BY DEF HandleVoteResult, TypeInv, TypeOK, Message, RequestVoteReq, IsRequest, CallOf,
     RequestVoteResp, AppendEntriesReq, AppendEntriesResp
<1>2. CASE StepDown(n, m)
  BY <1>2, StepDownStep
<1>3. CASE /\ UNCHANGED <<current_term, voted_for, ballot, position, log, commit_index,
                          issued, failures>>
           /\ PollNext(n, role[n], v, todo[n], net \ {m})
  <2>1. FreedOf(n, net \ {m})
    BY <1>1, ConsumedIsFreed
  <2>2. v \subseteq Voter
    BY <1>1 DEF TypeInv, TypeOK, DriverType
  <2>3. \A w \in v : Backs(w, n)
    BY <1>1 DEF Backs
  <2> HIDE DEF v
  <2> QED
    BY <1>1, <1>3, <2>1, <2>2, <2>3, PollGoesOnStep
<1> QED
  BY <1>2, <1>3 DEF HandleVoteResult

\* Every step treats backers and roles this way.
LEMMA ElectionSteps ==
    ASSUME TypeInv, ElectionInv, [Next]_vars
    PROVE  BackersStep /\ RolesStep
<1>1. CASE UNCHANGED <<role, current_term, votes, ballot, net>>
  BY <1>1, BystanderStep
<1>2. ASSUME NEW n \in Node, DriverStep(n) PROVE BackersStep /\ RolesStep
  <2>1. CASE StartElection(n)
    BY <2>1, StartElectionStep
  <2>2. CASE StartReplicate(n)
    <3>1. n \in Voter
      BY <2>2 DEF StartReplicate, TypeInv, TypeOK, RoleType, Node
    <3>2. ballot[n] = current_term[n]
      BY <2>2, <3>1 DEF StartReplicate, ElectionInv, LeadersElected
    <3>3. ballot' = ballot
      BY <2>2, <3>2 DEF StartReplicate, TypeInv, TypeOK, DriverType
    <3>4. ReplicateNext(n, current_term[n], match_index[n], Peers(n) \cup Learner, net)
      BY <2>2 DEF StartReplicate
    <3> QED
      BY <3>3, <3>4, ReplicateNextStep
  <2>3. CASE IdleTick(n)
    BY <1>1, <2>3 DEF IdleTick, nodeVars, driverVars
  <2>4. ASSUME NEW m \in net, HandleVoteResult(n, m) PROVE BackersStep /\ RolesStep
    BY <2>4, HandleVoteResultStep
  <2>5. ASSUME NEW m \in net, HandleAppendResult(n, m) PROVE BackersStep /\ RolesStep
    BY <2>5, StepDownStep, ReplicateNextStep DEF HandleAppendResult
  <2> QED
    BY <1>2, <2>1, <2>2, <2>3, <2>4, <2>5 DEF DriverStep
<1>3. ASSUME NEW n \in Node, HandlerStep(n) PROVE BackersStep /\ RolesStep
  BY <1>3, HandleRequestVoteStep, HandleAppendEntriesStep DEF HandlerStep
<1>4. ASSUME NEW n \in Node, TransportStep(n) PROVE BackersStep /\ RolesStep
  <2>1. ASSUME NEW m \in net, CallLost(n, m) PROVE BackersStep /\ RolesStep
    <3>1. CallFails(n, m, net \ {m}) /\ CallOf(n, m)
      BY <2>1 DEF CallLost, Lost, CallFails
    <3> QED
      BY <3>1, ConsumedIsFreed, CallFailsStep
  <2>2. ASSUME NEW m \in net, CallAbandoned(n, m) PROVE BackersStep /\ RolesStep
    <3>1. CallFails(n, m, Orphaned(m)) /\ CallOf(n, m) /\ IsRequest(m)
      BY <2>2 DEF CallAbandoned, CallFails
    <3>2. m \in RequestVoteReq \cup AppendEntriesReq
      BY <3>1 DEF TypeInv, TypeOK, Message, IsRequest, RequestVoteResp, AppendEntriesResp
    <3>3. [m EXCEPT !.live = FALSE].kind # "VoteResult"
      BY <3>2 DEF RequestVoteReq, AppendEntriesReq
    <3>4. \A x \in Orphaned(m) : x \in net \/ x.kind # "VoteResult"
      BY <3>3 DEF Orphaned
    <3> QED
      BY <3>1, <3>4, OrphanIsNobodys, CallFailsStep
  <2> QED
    BY <1>4, <2>1, <2>2 DEF TransportStep
<1>5. ASSUME NEW n \in Node, ClientStep(n) PROVE BackersStep /\ RolesStep
  BY <1>1, <1>5 DEF ClientStep, Propose, nodeVars, driverVars
<1>6. CASE UNCHANGED vars
  BY <1>1, <1>6 DEF vars, nodeVars, driverVars
<1> QED
  BY <1>2, <1>3, <1>4, <1>5, <1>6 DEF Next

-----------------------------------------------------------------------------
(***************************************************************************)
(* What one step may do to the pieces: all of them but a proposal make     *)
(* stretches and joins of what there is.                                   *)
(***************************************************************************)
Known(x) == Carries(x) => \E q \in Pieces : IsPart(PieceOfCall(x), q)

NoNewEntry == \A p \in Pieces' : \A i \in Span(p) \ {0} :
                \E q \in Pieces : i \in Span(q) /\ TermIn(q, i) = TermIn(p, i)

\* Only followers and learners take in what others send.
OwnLogsKept == \A n \in Node : role'[n] \in {"Leader", "Candidate"} => log'[n] = log[n]

TameStep == AgreeInv' /\ OrderedInv' /\ NoNewEntry /\ OwnLogsKept

\* A request on its way is known.
LEMMA InNetIsKnown ==
    ASSUME NEW m \in net
    PROVE  Known(m)
<1>1. Carries(m) => PieceOfCall(m) \in Pieces
  BY DEF Pieces
<1>2. IsPart(PieceOfCall(m), PieceOfCall(m))
  BY DEF IsPart
<1> QED
  BY <1>1, <1>2 DEF Known

\* Cutting stretches adds nothing.
LEMMA KnownIsTame ==
    ASSUME AgreeInv, OrderedInv, log' = log, \A x \in net' : Known(x)
    PROVE  TameStep
<1>1. \A p : IsPart(p, p)
  BY DEF IsPart
<1>2. ASSUME NEW p \in Pieces' PROVE \E q \in Pieces : IsPart(p, q)
  <2>1. CASE p \in {PieceOfLog(log[n]) : n \in Node}
    BY <1>1, <2>1 DEF Pieces
  <2>2. CASE p \in {PieceOfCall(m) : m \in {x \in net' : Carries(x)}}
    BY <2>2 DEF Known
  <2> QED
    BY <1>2, <2>1, <2>2 DEF Pieces, Carries
<1>3. AgreeInv'
  <2> SUFFICES ASSUME NEW p1 \in Pieces', NEW p2 \in Pieces' PROVE Agree(p1, p2)
    BY DEF AgreeInv, Agree, Span, TermIn, EntryIn
  <2>1. PICK q1 \in Pieces : IsPart(p1, q1)
    BY <1>2
  <2>2. PICK q2 \in Pieces : IsPart(p2, q2)
    BY <1>2
  <2>3. Agree(q1, q2)
    BY DEF AgreeInv
  <2>4. Agree(p1, q2)
    BY <2>1, <2>3, PartAgrees
  <2>5. Agree(q2, p1)
    BY <2>4, AgreeIsSymmetric
  <2>6. Agree(p2, p1)
    BY <2>2, <2>5, PartAgrees
  <2> QED
    BY <2>6, AgreeIsSymmetric
<1>4. OrderedInv'
  <2> SUFFICES ASSUME NEW p \in Pieces' PROVE Ordered(p)
    BY DEF OrderedInv, Ordered, Span, TermIn, EntryIn
  <2>1. PICK q \in Pieces : IsPart(p, q)
    BY <1>2
  <2> QED
    BY <2>1, PartOrdered DEF OrderedInv
<1>5. NoNewEntry
  BY <1>2 DEF NoNewEntry, IsPart
<1>6. OwnLogsKept
  BY DEF OwnLogsKept
<1> QED
  BY <1>3, <1>4, <1>5, <1>6 DEF TameStep

\* An accepted request joins two pieces.
LEMMA JoinIsTame ==
    ASSUME TypeInv, TypeInv', AgreeInv, OrderedInv, NEW n \in Node, NEW m \in net, Carries(m),
           HasTermAt(log[n], m.prev_log_index, m.prev_log_term),
           log' = [log EXCEPT ![n] = LogAfter(n, m)],
           role'[n] \in {"Follower", "Learner"},
           \A x \in net' : x \in net \/ x.kind # "AppendEntries"
    PROVE  TameStep
<1> DEFINE r == PieceOfLog(log'[n])
           l == PieceOfLog(log[n])
           c == PieceOfCall(m)
<1>1. m \in AppendEntriesReq
  BY DEF Carries, TypeInv, TypeOK, Message, RequestVoteReq, RequestVoteResp,
     AppendEntriesReq, AppendEntriesResp
<1>2. log'[n] = LogAfter(n, m) /\ \A k \in Node : k # n => log'[k] = log[k]
  BY DEF TypeInv, TypeOK, LogType
<1>3. IsJoin(r, l, c)
  BY <1>1, <1>2, AcceptedIsJoin
<1>4. l \in Pieces /\ c \in Pieces
  BY DEF Pieces
<1>5. Pieces \subseteq Piece /\ r \in Piece
  <2>1. log'[n] \in Seq(Entry)
    BY DEF TypeInv, TypeOK, LogType
  <2> QED
    BY <2>1, PiecesAreWhole, LogAsPiece
<1> HIDE DEF l, c
<1>6. \A p \in Pieces' : p \in Pieces \/ p = r
  <2> SUFFICES ASSUME NEW p \in Pieces' PROVE p \in Pieces \/ p = r
    OBVIOUS
  <2>1. CASE \E k \in Node : p = PieceOfLog(log'[k])
    <3>1. PICK k \in Node : p = PieceOfLog(log'[k])
      BY <2>1
    <3>2. CASE k = n
      BY <3>1, <3>2
    <3>3. CASE k # n
      BY <1>2, <3>1, <3>3 DEF Pieces
    <3> QED
      BY <3>2, <3>3
  <2>2. CASE \E x \in net' : Carries(x) /\ p = PieceOfCall(x)
    BY <2>2 DEF Pieces, Carries
  <2> QED
    BY <2>1, <2>2 DEF Pieces, Carries
<1> HIDE DEF r
<1>7. \A q \in Pieces : Agree(r, q) /\ Agree(q, r)
  BY <1>3, <1>4, <1>5, JoinAgrees, AgreeIsSymmetric DEF AgreeInv
<1>8. Agree(r, r)
  BY AgreeIsReflexive
<1>9. AgreeInv'
  <2> SUFFICES ASSUME NEW p1 \in Pieces', NEW p2 \in Pieces' PROVE Agree(p1, p2)
    BY DEF AgreeInv, Agree, Span, TermIn, EntryIn
  <2> QED
    BY <1>6, <1>7, <1>8 DEF AgreeInv
<1>10. OrderedInv'
  <2> SUFFICES ASSUME NEW p \in Pieces' PROVE Ordered(p)
    BY DEF OrderedInv, Ordered, Span, TermIn, EntryIn
  <2>1. Ordered(r)
    BY <1>3, <1>4, <1>5, JoinOrdered DEF OrderedInv
  <2> QED
    BY <1>6, <2>1 DEF OrderedInv
<1>11. NoNewEntry
  <2>1. \A i \in Span(r) : \E q \in Pieces : i \in Span(q) /\ TermIn(q, i) = TermIn(r, i)
    BY <1>3, <1>4 DEF IsJoin
  <2> QED
    BY <1>6, <2>1 DEF NoNewEntry
<1>12. OwnLogsKept
  BY <1>2 DEF OwnLogsKept
<1> QED
  BY <1>9, <1>10, <1>11, <1>12 DEF TameStep

\* An election's loop sends no entries.
LEMMA PollNextTame ==
    ASSUME AgreeInv, OrderedInv, log' = log,
           NEW n, NEW r, NEW v, NEW rest, NEW others, PollNext(n, r, v, rest, others),
           \A x \in others : Known(x)
    PROVE  TameStep
<1>1. \A x \in net' : x \in others \/ ~Carries(x)
  <2>1. CASE net' = others
    BY <2>1
  <2>2. ASSUME NEW p \in rest,
               net' = others \cup {RequestVoteTo(n, p, ballot'[n], position'[n])}
        PROVE  \A x \in net' : x \in others \/ ~Carries(x)
    <3>1. ~Carries(RequestVoteTo(n, p, ballot'[n], position'[n]))
      BY DEF RequestVoteTo, Carries
    <3> QED
      BY <2>2, <3>1
  <2> QED
    BY <2>1, <2>2 DEF PollNext
<1> QED
  BY <1>1, KnownIsTame DEF Known

\* A replication round sends stretches of the sender's log.
LEMMA ReplicateNextTame ==
    ASSUME TypeInv, AgreeInv, OrderedInv, NEW n \in Voter, NEW t \in Nat, NEW mi \in [Node -> Nat],
           NEW rest \in SUBSET Node, NEW others, ReplicateNext(n, t, mi, rest, others),
           \A x \in others : Known(x)
    PROVE  TameStep
<1>1. log' = log
  BY DEF ReplicateNext
<1>2. ASSUME NEW p \in rest PROVE Known(AppendEntriesTo(n, p, t, mi))
  <2>1. PieceOfLog(log[n]) \in Pieces
    BY DEF Pieces, Node
  <2> QED
    BY <2>1, SentIsPart DEF Known
<1>3. \A x \in net' : Known(x)
  <2>1. CASE net' = others
    BY <2>1
  <2>2. ASSUME NEW p \in rest, net' = others \cup {AppendEntriesTo(n, p, t, mi)}
        PROVE  \A x \in net' : Known(x)
    BY <1>2, <2>2
  <2> QED
    BY <2>1, <2>2 DEF ReplicateNext
<1> QED
  BY <1>1, <1>3, KnownIsTame

\* A failed call orphans a request at most.
LEMMA OrphanIsKnown ==
    ASSUME TypeInv, NEW m \in net, IsRequest(m)
    PROVE  \A x \in Orphaned(m) : Known(x)
<1> DEFINE o == [m EXCEPT !.live = FALSE]
<1>1. m \in RequestVoteReq \cup AppendEntriesReq
  BY DEF TypeInv, TypeOK, Message, IsRequest, RequestVoteResp, AppendEntriesResp
<1>2. Carries(o) => Carries(m) /\ PieceOfCall(o) = PieceOfCall(m)
  BY <1>1 DEF RequestVoteReq, AppendEntriesReq, Carries, PieceOfCall
<1>3. Orphaned(m) = (net \ {m}) \cup {o}
  BY DEF Orphaned
<1> HIDE DEF o
<1>4. Known(o)
  BY <1>2, InNetIsKnown DEF Known
<1> QED
  BY <1>3, <1>4, InNetIsKnown

\* A driver goes on after a failure.
LEMMA CallFailsTame ==
    ASSUME TypeInv, AgreeInv, OrderedInv, NEW n \in Node, NEW m \in net, NEW others,
           CallFails(n, m, others), \A x \in others : Known(x)
    PROVE  TameStep
<1>1. n \in Voter
  BY DEF CallFails, TypeInv, TypeOK, Message, RequestVoteReq, IsRequest, CallOf,
     RequestVoteResp, AppendEntriesReq, AppendEntriesResp
<1>2. CASE /\ UNCHANGED <<current_term, voted_for, position, log, commit_index>>
           /\ PollNext(n, role[n], votes[n], todo[n], others)
  BY <1>2, PollNextTame
<1>3. CASE ReplicateNext(n, ballot[n], match_index[n], todo[n], others)
  <2>1. match_index[n] \in [Node -> Nat] /\ todo[n] \in SUBSET Node /\ ballot[n] \in Nat
    BY DEF TypeInv, TypeOK, DriverType
  <2> QED
    BY <1>1, <1>3, <2>1, ReplicateNextTame
<1> QED
  BY <1>2, <1>3 DEF CallFails

\* What a driver does of its own accord, or on an answer, makes no entry.
LEMMA DriverIsTame ==
    ASSUME TypeInv, AgreeInv, OrderedInv, NEW n \in Node, DriverStep(n)
    PROVE  TameStep
<1>1. \A x \in net : Known(x)
  BY InNetIsKnown
<1>2. match_index[n] \in [Node -> Nat] /\ todo[n] \in SUBSET Node /\ ballot[n] \in Nat
      /\ current_term[n] \in Nat
  BY DEF TypeInv, TypeOK, DriverType, TermType
<1>3. CASE StartElection(n)
  BY <1>1, <1>3, PollNextTame DEF StartElection
<1>4. CASE StartReplicate(n)
  <2>1. n \in Voter
    BY <1>4 DEF StartReplicate, TypeInv, TypeOK, RoleType, Node
  <2>2. Peers(n) \cup Learner \in SUBSET Node
    BY DEF Peers, Node
  <2> QED
    BY <1>1, <1>2, <1>4, <2>1, <2>2, ReplicateNextTame DEF StartReplicate
<1>5. CASE IdleTick(n)
  BY <1>1, <1>5, KnownIsTame DEF IdleTick
<1>6. ASSUME NEW m \in net, StepDown(n, m) PROVE TameStep
  BY <1>1, <1>6, KnownIsTame DEF StepDown
<1>7. ASSUME NEW m \in net, HandleVoteResult(n, m) PROVE TameStep
  BY <1>1, <1>6, <1>7, PollNextTame DEF HandleVoteResult
<1>8. ASSUME NEW m \in net, HandleAppendResult(n, m) PROVE TameStep
  <2>1. n \in Voter /\ m.from \in Node /\ m.match_index \in Nat
    BY <1>8 DEF HandleAppendResult, TypeInv, TypeOK, Message, RequestVoteReq,
       RequestVoteResp, AppendEntriesReq, AppendEntriesResp
  <2>2. MatchAfter(n, m) \in [Node -> Nat]
    BY <1>2, <2>1 DEF MatchAfter
  <2> QED
    BY <1>1, <1>2, <1>6, <1>8, <2>1, <2>2, ReplicateNextTame DEF HandleAppendResult
<1> QED
  BY <1>3, <1>4, <1>5, <1>7, <1>8 DEF DriverStep

\* What a handler does joins two pieces at most.
LEMMA HandlerIsTame ==
    ASSUME TypeInv, TypeInv', AgreeInv, OrderedInv, NEW n \in Node, HandlerStep(n)
    PROVE  TameStep
<1>1. \A x \in net : Known(x)
  BY InNetIsKnown
<1>2. ASSUME NEW m \in net, HandleRequestVote(n, m) PROVE TameStep
  <2>1. log' = log /\ \A x \in net' : x \in net \/ x.kind = "VoteResult"
    BY <1>2 DEF HandleRequestVote, Answer, logVars
  <2> QED
    BY <1>1, <2>1, KnownIsTame DEF Known, Carries
<1>3. ASSUME NEW m \in net, HandleStaleAppendEntries(n, m) PROVE TameStep
  <2>1. log' = log /\ \A x \in net' : x \in net \/ x.kind = "AppendResult"
    BY <1>3 DEF HandleStaleAppendEntries, Answer, logVars
  <2> QED
    BY <1>1, <2>1, KnownIsTame DEF Known, Carries
<1>4. ASSUME NEW m \in net, HandleAppendEntries(n, m) PROVE TameStep
  <2>1. \A x \in net' : x \in net \/ x.kind = "AppendResult"
    BY <1>4 DEF HandleAppendEntries, Answer
  <2>2. CASE log' = log
    BY <1>1, <2>1, <2>2, KnownIsTame DEF Known, Carries
  <2>3. CASE log' # log
    <3>1. /\ log' = [log EXCEPT ![n] = LogAfter(n, m)]
          /\ HasTermAt(log[n], m.prev_log_index, m.prev_log_term)
          /\ m.kind = "AppendEntries"
      BY <1>4, <2>3 DEF HandleAppendEntries, logVars
    <3>2. m.entries # << >>
      <4> SUFFICES ASSUME m.entries = << >> PROVE FALSE
        OBVIOUS
      <4>1. LogAfter(n, m) = log[n]
        BY DEF LogAfter
      <4> QED
        BY <2>3, <3>1, <4>1 DEF TypeInv, TypeOK, LogType
    <3>3. role'[n] \in {"Follower", "Learner"}
      BY <1>4 DEF HandleAppendEntries, TypeInv, TypeOK, RoleType
    <3> QED
      BY <2>1, <3>1, <3>2, <3>3, JoinIsTame DEF Carries
  <2> QED
    BY <2>2, <2>3
<1> QED
  BY <1>2, <1>3, <1>4 DEF HandlerStep

\* Only a client's proposal makes an entry.
LEMMA OnlyProposalsAreNew ==
    ASSUME TypeInv, AgreeInv, OrderedInv, [Next]_vars
    PROVE  TameStep \/ \E n \in Node, c \in Command : Propose(n, c)
<1>1. TypeInv'
  BY TypeInvStep
<1>2. ASSUME NEW n \in Node, TransportStep(n) PROVE TameStep
  <2>1. ASSUME NEW m \in net, CallLost(n, m) PROVE TameStep
    <3>1. CallFails(n, m, net \ {m})
      BY <2>1 DEF CallLost, Lost
    <3> QED
      BY <3>1, InNetIsKnown, CallFailsTame
  <2>2. ASSUME NEW m \in net, CallAbandoned(n, m) PROVE TameStep
    <3>1. CallFails(n, m, Orphaned(m)) /\ IsRequest(m)
      BY <2>2 DEF CallAbandoned
    <3> QED
      BY <3>1, OrphanIsKnown, CallFailsTame
  <2> QED
    BY <1>2, <2>1, <2>2 DEF TransportStep
<1>3. CASE UNCHANGED vars
  BY <1>3, InNetIsKnown, KnownIsTame DEF vars, logVars
<1> QED
  BY <1>1, <1>2, <1>3, DriverIsTame, HandlerIsTame DEF Next, ClientStep

-----------------------------------------------------------------------------
(***************************************************************************)
(* Who may make entries of a term.                                         *)
(***************************************************************************)

\* Voter v has no vote left in term t for anybody but k.
Spent(v, t, k) ==
    /\ current_term[v] > t \/ (current_term[v] = t /\ voted_for[v] = k)
    /\ \A n \in Voter : ballot[n] = t /\ Backs(v, n) => n = k

\* A majority elected k in term t: nobody else will ever lead it, nor k once more.
Owns(k, t) ==
    /\ \E Q \in SUBSET Voter : IsMajority(Q) /\ \A v \in Q : Spent(v, t, k)
    /\ current_term[k] > t \/ (current_term[k] = t /\ role[k] # "Candidate")

\* Entries are made by elected leaders only.
OwnedInv == \A i, t \in Nat : Spot(i, t) => \E k \in Voter : Owns(k, t)

\* A leader has every entry of its term, wherever it went, and none of a later term.
LeaderInv ==
    \A n \in Node : role[n] = "Leader" =>
        /\ \A i \in DOMAIN log[n] : log[n][i].term <= current_term[n]
        /\ \A i \in Nat : Spot(i, current_term[n]) =>
              i \in DOMAIN log[n] /\ log[n][i].term = current_term[n]

\* Candidate n cannot win a term before t.
Outrun(n, t) == \E Q \in SUBSET Voter : IsMajority(Q) /\ \A v \in Q : current_term[v] >= t /\ ~Backs(v, n)

\* A candidate may hold entries of a later term, sent on by a deposed leader, but
\* does not win.
CandidateInv ==
    \A n \in Node : role[n] = "Candidate" =>
        \A i \in DOMAIN log[n] : log[n][i].term > current_term[n] => Outrun(n, log[n][i].term)

\* The inductive invariant, with what elections rest on.
LogInv == AgreeInv /\ OrderedInv /\ OwnedInv /\ LeaderInv /\ CandidateInv

\* Votes once spent stay spent.
LEMMA SpentStays ==
    ASSUME TypeInv, TypeInv', ElectionInv, [Next]_vars,
           NEW v \in Voter, NEW t \in Nat, NEW k \in Voter, Spent(v, t, k)
    PROVE  Spent(v, t, k)'
<1>1. TermsRise /\ VotesFinal /\ BackersStep
  BY TermsAndVotes, ElectionSteps
<1>2. v \in Node /\ k # None
  BY NoneAssumption DEF Node
<1>3. current_term[v] \in Nat /\ current_term'[v] \in Nat
  BY <1>2 DEF TypeInv, TypeOK, TermType
<1>4. current_term'[v] > t \/ (current_term'[v] = t /\ voted_for'[v] = k)
  BY <1>1, <1>2, <1>3 DEF Spent, TermsRise, VotesFinal
<1>5. ASSUME NEW n \in Voter, ballot'[n] = t, Backs(v, n)' PROVE n = k
  <2>1. CASE Backs(v, n) /\ ballot'[n] = ballot[n]
    BY <1>5, <2>1 DEF Spent
  <2>2. CASE v = n /\ ballot'[n] > current_term[n]
    BY <1>3, <1>5, <2>2 DEF Spent
  <2>3. CASE /\ ballot'[n] = ballot[n]
             /\ \/ current_term[v] < ballot[n]
                \/ current_term[v] = ballot[n] /\ voted_for[v] \in {None, n}
    BY <1>2, <1>3, <1>5, <2>3 DEF Spent
  <2> QED
    BY <1>1, <1>5, <2>1, <2>2, <2>3 DEF BackersStep
<1> QED
  BY <1>4, <1>5 DEF Spent

\* An owner of a term stays its owner.
LEMMA OwnsStays ==
    ASSUME TypeInv, TypeInv', ElectionInv, [Next]_vars, NEW k \in Voter, NEW t \in Nat, Owns(k, t)
    PROVE  Owns(k, t)'
<1>1. TermsRise /\ RolesStep
  BY TermsAndVotes, ElectionSteps
<1>2. PICK Q \in SUBSET Voter : IsMajority(Q) /\ \A v \in Q : Spent(v, t, k)
  BY DEF Owns
<1>3. \A v \in Q : Spent(v, t, k)'
  BY <1>2, SpentStays
<1>4. k \in Node /\ current_term[k] \in Nat /\ current_term'[k] \in Nat
  BY DEF TypeInv, TypeOK, TermType, Node
<1>5. current_term'[k] > t \/ (current_term'[k] = t /\ role'[k] # "Candidate")
  <2>1. current_term'[k] >= current_term[k]
    BY <1>1, <1>4 DEF TermsRise
  <2>2. CASE current_term[k] > t
    BY <1>4, <2>1, <2>2
  <2>3. CASE current_term[k] = t /\ role[k] # "Candidate"
    <3>1. role'[k] = "Candidate" => current_term'[k] > current_term[k]
      BY <1>1, <1>4, <2>3 DEF RolesStep
    <3> QED
      BY <1>4, <2>1, <2>3, <3>1
  <2> QED
    BY <2>2, <2>3 DEF Owns
<1>6. IsMajority(Q)
  BY <1>2
<1> QED
  BY <1>3, <1>5, <1>6 DEF Owns, IsMajority

\* A leader owns its term.
LEMMA LeaderOwns ==
    ASSUME TypeInv, ElectionInv, NEW n \in Node, role[n] = "Leader"
    PROVE  n \in Voter /\ Owns(n, current_term[n])
<1>1. n \in Voter
  BY DEF TypeInv, TypeOK, RoleType, Node
<1>2. ballot[n] = current_term[n] /\ IsMajority(votes[n]) /\ votes[n] \in SUBSET Voter
  BY <1>1 DEF ElectionInv, LeadersElected, TypeInv, TypeOK, DriverType
<1>3. ASSUME NEW v \in votes[n] PROVE Spent(v, current_term[n], n)
  <2>1. v \in Voter /\ Backs(v, n)
    BY <1>2 DEF Backs
  <2> QED
    BY <1>1, <1>2, <2>1 DEF Spent, ElectionInv, BackersStay, BackersOfOne
<1> QED
  BY <1>1, <1>2, <1>3 DEF Owns

\* An entry of a log is one that exists.
LEMMA EntryIsSpot ==
    ASSUME TypeInv, NEW n \in Node, NEW i \in DOMAIN log[n]
    PROVE  i \in Nat /\ log[n][i].term \in Nat /\ Spot(i, log[n][i].term)
<1>1. log[n] \in Seq(Entry)
  BY DEF TypeInv, TypeOK, LogType
<1>2. Len(log[n]) \in Nat /\ i \in 1 .. Len(log[n]) /\ log[n][i] \in Entry
  BY <1>1, ElementOfSeq, LenProperties
<1>3. PieceOfLog(log[n]) \in Pieces
  BY DEF Pieces
<1>4. i \in Span(PieceOfLog(log[n])) \ {0} /\ TermIn(PieceOfLog(log[n]), i) = log[n][i].term
  BY <1>1, <1>2, LogAsPiece
<1>5. Spot(i, log[n][i].term)
  BY <1>3, <1>4 DEF Spot
<1> QED
  BY <1>2, <1>5 DEF Entry

\* A tame step makes no entry of any term.
LEMMA TameSpots ==
    ASSUME TameStep, NEW i, NEW t, Spot(i, t)'
    PROVE  Spot(i, t)
<1>1. PICK p \in Pieces' : i \in Span(p) \ {0} /\ TermIn(p, i) = t
  BY DEF Spot, Span, TermIn, EntryIn
<1>2. PICK q \in Pieces : i \in Span(q) /\ TermIn(q, i) = TermIn(p, i)
  BY <1>1 DEF TameStep, NoNewEntry
<1> QED
  BY <1>1, <1>2 DEF Spot

\* Entries are still made by owners.
LEMMA TameOwned ==
    ASSUME TypeInv, ElectionInv, LogInv, [Next]_vars, TameStep
    PROVE  OwnedInv'
<1> SUFFICES ASSUME NEW i \in Nat, NEW t \in Nat, Spot(i, t)'
             PROVE  \E k \in Voter : Owns(k, t)'
  BY DEF OwnedInv
<1>1. PICK k \in Voter : Owns(k, t)
  BY TameSpots DEF LogInv, OwnedInv
<1> QED
  BY <1>1, OwnsStays, TypeInvStep

\* Candidates that cannot win still cannot, and nor can new ones.
LEMMA TameCandidates ==
    ASSUME TypeInv, ElectionInv, LogInv, [Next]_vars, TameStep
    PROVE  CandidateInv'
<1> SUFFICES ASSUME NEW n \in Node, role'[n] = "Candidate", NEW i \in DOMAIN log'[n],
                    log'[n][i].term > current_term'[n]
             PROVE  \E Q \in SUBSET Voter :
                      /\ IsMajority(Q)
                      /\ \A v \in Q : current_term'[v] >= log'[n][i].term /\ ~Backs(v, n)'
  BY DEF CandidateInv, Outrun, IsMajority
<1>1. TypeInv' /\ TermsRise /\ BackersStep /\ RolesStep
  BY TypeInvStep, TermsAndVotes, ElectionSteps
<1> DEFINE t == log'[n][i].term
<1>2. log'[n] = log[n]
  BY DEF TameStep, OwnLogsKept
<1>3. n \in Voter /\ Voter \subseteq Node
  BY <1>1 DEF TypeInv, TypeOK, RoleType, Node
<1>4. t \in Nat /\ i \in Nat /\ Spot(i, t) /\ i \in DOMAIN log[n] /\ t = log[n][i].term
  BY <1>2, EntryIsSpot
<1>5. \A v \in Voter : current_term[v] \in Nat /\ current_term'[v] \in Nat
                       /\ current_term'[v] >= current_term[v]
  BY <1>1, <1>3 DEF TypeInv, TypeOK, TermType, TermsRise
<1> HIDE DEF t
<1>6. CASE role[n] = "Candidate" /\ current_term'[n] = current_term[n]
  <2>1. Outrun(n, t)
    BY <1>4, <1>6 DEF t, LogInv, CandidateInv
  <2>2. PICK Q \in SUBSET Voter : IsMajority(Q) /\ \A v \in Q : current_term[v] >= t /\ ~Backs(v, n)
    BY <2>1 DEF Outrun
  <2>3. ballot'[n] = current_term[n] /\ ballot[n] = current_term[n] /\ t > current_term[n]
    BY <1>3, <1>6, ElectionInvStep DEF t, ElectionInv, LeadersElected
  <2>4. ASSUME NEW v \in Q PROVE current_term'[v] >= t /\ ~Backs(v, n)'
    <3>1. v \in Voter /\ current_term[v] >= t /\ ~Backs(v, n)
      BY <2>2
    <3>2. current_term[v] \in Nat /\ current_term[n] \in Nat
      BY <1>3, <1>5, <3>1
    <3>3. ~(ballot'[n] > current_term[n]) /\ ~(current_term[v] < ballot[n])
          /\ ~(current_term[v] = ballot[n])
      BY <1>4, <2>3, <3>1, <3>2
    <3>4. ~Backs(v, n)'
      BY <1>1, <1>3, <3>1, <3>3 DEF BackersStep
    <3> QED
      BY <1>4, <1>5, <3>1, <3>4
  <2> QED
    BY <2>2, <2>4 DEF t
<1>7. CASE current_term'[n] > current_term[n] /\ \A v \in Voter : Backs(v, n)' => v = n
  <2>1. PICK k \in Voter : Owns(k, t)
    BY <1>4 DEF LogInv, OwnedInv
  <2>2. PICK Q \in SUBSET Voter : IsMajority(Q) /\ \A v \in Q : Spent(v, t, k)
    BY <2>1 DEF Owns
  <2>3. ASSUME NEW v \in Q PROVE current_term'[v] >= t /\ ~Backs(v, n)'
    <3>1. v \in Voter /\ (current_term[v] > t \/ current_term[v] = t)
      BY <2>2 DEF Spent
    <3>2. current_term[v] >= t /\ current_term'[v] >= t
      BY <1>4, <1>5, <3>1
    <3>3. t > current_term'[n]
      BY DEF t
    <3>4. v # n
      BY <1>3, <1>4, <1>5, <1>7, <3>2, <3>3
    <3> QED
      BY <1>7, <3>1, <3>2, <3>4
  <2> QED
    BY <2>2, <2>3 DEF t
<1> QED
  BY <1>1, <1>6, <1>7 DEF RolesStep

\* Who leads has all entries of its term; who has just won made none yet, and holds
\* none of a later term.
LEMMA TameLeaders ==
    ASSUME TypeInv, ElectionInv, LogInv, [Next]_vars, TameStep
    PROVE  LeaderInv'
<1> SUFFICES ASSUME NEW n \in Node, role'[n] = "Leader"
             PROVE  /\ \A i \in DOMAIN log[n] : log[n][i].term <= current_term'[n]
                    /\ \A i \in Nat : Spot(i, current_term'[n]) =>
                          i \in DOMAIN log[n] /\ log[n][i].term = current_term'[n]
  <2>1. ASSUME NEW n \in Node, role'[n] = "Leader",
               \A i \in DOMAIN log[n] : log[n][i].term <= current_term'[n],
               \A i \in Nat : Spot(i, current_term'[n]) =>
                          i \in DOMAIN log[n] /\ log[n][i].term = current_term'[n]
        PROVE  /\ \A i \in DOMAIN log'[n] : log'[n][i].term <= current_term'[n]
               /\ \A i \in Nat : Spot(i, current_term[n])' =>
                          i \in DOMAIN log'[n] /\ log'[n][i].term = current_term'[n]
    <3>1. log'[n] = log[n]
      BY <2>1 DEF TameStep, OwnLogsKept
    <3>2. \A i \in Nat : Spot(i, current_term[n])' => Spot(i, current_term'[n])
      <4> SUFFICES ASSUME NEW i \in Nat, Spot(i, current_term[n])'
                   PROVE  Spot(i, current_term'[n])
        OBVIOUS
      <4>1. PICK p \in Pieces' : i \in Span(p) \ {0} /\ TermIn(p, i) = current_term'[n]
        BY DEF Spot, Span, TermIn, EntryIn
      <4>2. PICK q \in Pieces : i \in Span(q) /\ TermIn(q, i) = TermIn(p, i)
        BY <4>1 DEF TameStep, NoNewEntry
      <4> QED
        BY <4>1, <4>2 DEF Spot
    <3> QED
      BY <2>1, <3>1, <3>2
  <2> QED
    BY <2>1 DEF LeaderInv
<1>1. TypeInv' /\ TermsRise /\ RolesStep
  BY TypeInvStep, TermsAndVotes, ElectionSteps
<1>2. n \in Voter /\ Voter \subseteq Node
  BY <1>1 DEF TypeInv, TypeOK, RoleType, Node
<1>3. \A v \in Voter : current_term[v] \in Nat /\ current_term'[v] \in Nat
  BY <1>1, <1>2 DEF TypeInv, TypeOK, TermType
<1>4. \A i \in DOMAIN log[n] : i \in Nat /\ log[n][i].term \in Nat /\ Spot(i, log[n][i].term)
  BY EntryIsSpot
<1>5. CASE role[n] = "Leader" /\ current_term'[n] = current_term[n]
  BY <1>5 DEF LogInv, LeaderInv
<1>6. CASE /\ role[n] = "Candidate" /\ current_term'[n] = current_term[n]
           /\ \E S \in SUBSET Voter : IsMajority(S) /\ \A v \in S : Backs(v, n)
  <2>1. PICK S \in SUBSET Voter : IsMajority(S) /\ \A v \in S : Backs(v, n)
    BY <1>6
  <2>2. ballot[n] = current_term[n]
    BY <1>2, <1>6 DEF ElectionInv, LeadersElected
  <2>3. ASSUME NEW i \in DOMAIN log[n], log[n][i].term > current_term[n] PROVE FALSE
    <3>1. Outrun(n, log[n][i].term)
      BY <1>6, <2>3 DEF LogInv, CandidateInv
    <3>2. PICK Q \in SUBSET Voter : IsMajority(Q) /\ \A v \in Q : ~Backs(v, n)
      BY <3>1 DEF Outrun
    <3>3. S \cap Q # {}
      BY <2>1, <3>2, MajoritiesMeet
    <3> QED
      BY <2>1, <3>2, <3>3
  <2>4. ASSUME NEW i \in Nat, Spot(i, current_term[n]) PROVE FALSE
    <3>1. PICK k \in Voter : Owns(k, current_term[n])
      BY <1>2, <1>3, <2>4 DEF LogInv, OwnedInv
    <3>2. PICK Q \in SUBSET Voter : IsMajority(Q) /\ \A v \in Q : Spent(v, current_term[n], k)
      BY <3>1 DEF Owns
    <3>3. PICK v \in S : v \in Q
      BY <2>1, <3>2, MajoritiesMeet
    <3>4. n = k
      BY <1>2, <2>1, <2>2, <3>2, <3>3 DEF Spent
    <3> QED
      BY <1>2, <1>3, <1>6, <3>1, <3>4 DEF Owns
  <2> QED
    BY <1>2, <1>3, <1>4, <1>6, <2>3, <2>4
<1>7. CASE current_term'[n] > current_term[n] /\ IsMajority({n})
  <2>1. ASSUME NEW i \in Nat, NEW t \in Nat, Spot(i, t) PROVE t <= current_term[n]
    <3>1. PICK k \in Voter : Owns(k, t)
      BY <2>1 DEF LogInv, OwnedInv
    <3>2. PICK Q \in SUBSET Voter : IsMajority(Q) /\ \A v \in Q : Spent(v, t, k)
      BY <3>1 DEF Owns
    <3>3. {n} \cap Q # {}
      BY <1>2, <1>7, <3>2, MajoritiesMeet
    <3>4. Spent(n, t, k)
      BY <3>2, <3>3
    <3> QED
      BY <1>2, <1>3, <3>4 DEF Spent
  <2> QED
    BY <1>2, <1>3, <1>4, <1>7, <2>1
<1> QED
  BY <1>1, <1>5, <1>6, <1>7 DEF RolesStep

\* A leader's new entry is the only one of its term at its index.
LEMMA ProposeInv ==
    ASSUME TypeInv, TypeInv', ElectionInv, LogInv, NEW n \in Node, NEW c \in Command, Propose(n, c)
    PROVE  LogInv'
<1> DEFINE T == current_term[n]
           l == PieceOfLog(log[n])
           r == PieceOfLog(log'[n])
           e == Len(log[n]) + 1
           new == [term |-> current_term[n], cmd |-> c]
<1>1. /\ role[n] = "Leader" /\ UNCHANGED <<role, current_term, voted_for, ballot, votes, net>>
      /\ log' = [log EXCEPT ![n] = Append(@, [term |-> current_term[n], cmd |-> c])]
  BY DEF Propose, nodeVars, driverVars
<1>2. log[n] \in Seq(Entry) /\ log'[n] \in Seq(Entry) /\ T \in Nat /\ Len(log[n]) \in Nat
  <2>1. log[n] \in Seq(Entry) /\ log'[n] \in Seq(Entry) /\ T \in Nat
    BY DEF TypeInv, TypeOK, LogType, TermType
  <2> QED
    BY <2>1, LenProperties
<1>3. log'[n] = Append(log[n], new) /\ \A k \in Node : k # n => log'[k] = log[k]
  BY <1>1 DEF TypeInv, TypeOK, LogType
<1>4. n \in Voter /\ Owns(n, T)
  BY <1>1, LeaderOwns
<1>5. /\ Len(log'[n]) = e
      /\ \A i \in 1 .. Len(log[n]) : log'[n][i] = log[n][i]
      /\ log'[n][e].term = T
  <2>1. new \in Entry /\ new.term = T
    BY <1>2 DEF Entry
  <2> HIDE DEF new
  <2> QED
    BY <1>2, <1>3, <2>1, AppendProperties
<1>6. /\ \A i \in DOMAIN log[n] : log[n][i].term <= T
      /\ \A i \in Nat : Spot(i, T) => i \in DOMAIN log[n]
  BY <1>1 DEF LogInv, LeaderInv
<1>7. DOMAIN log[n] = 1 .. Len(log[n]) /\ DOMAIN log'[n] = 1 .. e
  BY <1>2, <1>5, LenProperties
<1>8. IsGrown(r, l, T)
  BY <1>2, <1>3, ProposedIsGrown
<1>9. /\ l \in Pieces /\ l \in Piece /\ r \in Piece /\ Pieces \subseteq Piece
      /\ l.base + Len(l.entries) + 1 = e /\ l.base + Len(l.entries) = Len(log[n])
      /\ Span(l) = 0 .. Len(log[n]) /\ Span(r) = 0 .. e
  BY <1>2, <1>5, LogAsPiece, PiecesAreWhole DEF Pieces
<1>10. \A i \in Span(l) : TermIn(l, i) <= T
  <2> SUFFICES ASSUME NEW i \in 0 .. Len(log[n]) PROVE TermIn(l, i) <= T
    BY <1>9
  <2>1. CASE i = 0
    BY <1>2, <2>1, LogAsPiece
  <2>2. CASE i # 0
    <3>1. i \in 1 .. Len(log[n])
      BY <1>2, <2>2
    <3> QED
      BY <1>2, <1>6, <1>7, <3>1, LogAsPiece
  <2> QED
    BY <2>1, <2>2
<1>11. \A p \in Pieces' : p \in Pieces \/ p = r
  <2> SUFFICES ASSUME NEW p \in Pieces' PROVE p \in Pieces \/ p = r
    OBVIOUS
  <2>1. CASE \E k \in Node : p = PieceOfLog(log'[k])
    <3>1. PICK k \in Node : p = PieceOfLog(log'[k])
      BY <2>1
    <3>2. CASE k = n
      BY <3>1, <3>2
    <3>3. CASE k # n
      BY <1>3, <3>1, <3>3 DEF Pieces
    <3> QED
      BY <3>2, <3>3
  <2>2. CASE \E x \in net : Carries(x) /\ p = PieceOfCall(x)
    BY <2>2 DEF Pieces, Carries
  <2> QED
    BY <1>1, <2>1, <2>2 DEF Pieces, Carries
<1> HIDE DEF l, r, e, T, new
<1>12. e \in Nat /\ e # 0 /\ e \notin DOMAIN log[n] /\ e > Len(log[n])
  BY <1>2, <1>7 DEF e
<1>13. \A q \in Pieces : e \in Span(q) => TermIn(q, e) # T
  BY <1>6, <1>12 DEF Spot
<1>14. \A q \in Pieces : Agree(r, q) /\ Agree(q, r)
  <2> SUFFICES ASSUME NEW q \in Pieces PROVE Agree(r, q)
    BY AgreeIsSymmetric
  <2>1. Agree(l, q)
    BY <1>9 DEF LogInv, AgreeInv
  <2>2. LET f == l.base + Len(l.entries) + 1 IN f \in Span(q) => TermIn(q, f) # T
    BY <1>9, <1>13
  <2> QED
    BY <1>8, <1>9, <2>1, <2>2, GrowAgrees
<1>15. AgreeInv'
  <2> SUFFICES ASSUME NEW p1 \in Pieces', NEW p2 \in Pieces' PROVE Agree(p1, p2)
    BY DEF AgreeInv, Agree, Span, TermIn, EntryIn
  <2> QED
    BY <1>11, <1>14, AgreeIsReflexive DEF LogInv, AgreeInv
<1>16. OrderedInv'
  <2> SUFFICES ASSUME NEW p \in Pieces' PROVE Ordered(p)
    BY DEF OrderedInv, Ordered, Span, TermIn, EntryIn
  <2>1. Ordered(l)
    BY <1>9 DEF LogInv, OrderedInv
  <2>2. Ordered(r)
    BY <1>2, <1>8, <1>9, <1>10, <2>1, GrowOrdered
  <2> QED
    BY <1>11, <2>2 DEF LogInv, OrderedInv
<1>17. ASSUME NEW i \in Nat, NEW t, Spot(i, t)'
       PROVE  Spot(i, t) \/ (i = e /\ t = T)
  <2>1. PICK p \in Pieces' : i \in Span(p) \ {0} /\ TermIn(p, i) = t
    BY <1>17 DEF Spot, Span, TermIn, EntryIn
  <2>2. CASE p \in Pieces
    BY <2>1, <2>2 DEF Spot
  <2>3. CASE p = r /\ i <= Len(log[n])
    <3>1. i \in Span(l) /\ TermIn(l, i) = t
      BY <1>8, <1>9, <2>1, <2>3 DEF IsGrown
    <3> QED
      BY <1>9, <2>1, <3>1 DEF Spot
  <2>4. CASE p = r /\ ~(i <= Len(log[n]))
    BY <1>8, <1>9, <2>1, <2>4 DEF IsGrown
  <2> QED
    BY <1>11, <2>1, <2>2, <2>3, <2>4
<1>18. \A k, t : Owns(k, t) => Owns(k, t)'
  BY <1>1 DEF Owns, Spent, Backs, IsMajority
<1>19. OwnedInv'
  <2> SUFFICES ASSUME NEW i \in Nat, NEW t \in Nat, Spot(i, t)'
               PROVE  \E k \in Voter : Owns(k, t)'
    BY DEF OwnedInv
  <2>1. \E k \in Voter : Owns(k, t)
    BY <1>4, <1>17 DEF LogInv, OwnedInv
  <2> QED
    BY <1>18, <2>1
<1>20. LeaderInv'
  <2> SUFFICES ASSUME NEW k \in Node, role[k] = "Leader"
               PROVE  /\ \A i \in DOMAIN log'[k] : log'[k][i].term <= current_term[k]
                      /\ \A i \in Nat : Spot(i, current_term[k])' =>
                            i \in DOMAIN log'[k] /\ log'[k][i].term = current_term[k]
    BY <1>1 DEF LeaderInv
  <2>1. CASE k = n
    <3>1. ASSUME NEW i \in 1 .. e PROVE log'[n][i].term <= T
      <4>1. CASE i = e
        BY <1>2, <1>5, <4>1
      <4>2. CASE i # e
        <5>1. i \in 1 .. Len(log[n])
          BY <1>2, <4>2 DEF e
        <5> QED
          BY <1>5, <1>6, <1>7, <5>1
      <4> QED
        BY <4>1, <4>2
    <3>2. ASSUME NEW i \in Nat, Spot(i, current_term[n])'
          PROVE  i \in 1 .. e /\ log'[n][i].term = T
      <4>1. Spot(i, T) \/ i = e
        <5>1. PICK p \in Pieces' : i \in Span(p) \ {0} /\ TermIn(p, i) = T
          BY <1>1, <3>2 DEF Spot, Span, TermIn, EntryIn, T
        <5>2. CASE p \in Pieces
          BY <5>1, <5>2 DEF Spot
        <5>3. CASE p = r /\ i <= Len(log[n])
          <6>1. i \in Span(l) /\ TermIn(l, i) = T
            BY <1>8, <1>9, <5>1, <5>3 DEF IsGrown
          <6> QED
            BY <1>9, <5>1, <6>1 DEF Spot
        <5>4. CASE p = r /\ ~(i <= Len(log[n]))
          BY <1>8, <1>9, <5>1, <5>4 DEF IsGrown
        <5> QED
          BY <1>11, <5>1, <5>2, <5>3, <5>4
      <4>2. CASE Spot(i, T)
        <5>1. i \in DOMAIN log[n] /\ log[n][i].term = T
          BY <1>1, <4>2 DEF LogInv, LeaderInv, T
        <5> QED
          BY <1>2, <1>5, <1>7, <5>1 DEF e
      <4>3. CASE i = e
        BY <1>5, <1>12, <4>3
      <4> QED
        BY <4>1, <4>2, <4>3
    <3> QED
      BY <1>7, <2>1, <3>1, <3>2 DEF T
  <2>2. CASE k # n
    <3>1. current_term[k] # T
      BY <1>1, <2>2, ElectionInvSafe DEF ElectionSafety, T
    <3>2. ASSUME NEW i \in Nat, Spot(i, current_term[k])' PROVE Spot(i, current_term[k])
      <4>1. PICK p \in Pieces' : i \in Span(p) \ {0} /\ TermIn(p, i) = current_term[k]
        BY <1>1, <3>2 DEF Spot, Span, TermIn, EntryIn
      <4>2. CASE p \in Pieces
        BY <4>1, <4>2 DEF Spot
      <4>3. CASE p = r /\ i <= Len(log[n])
        <5>1. i \in Span(l) /\ TermIn(l, i) = current_term[k]
          BY <1>8, <1>9, <4>1, <4>3 DEF IsGrown
        <5> QED
          BY <1>9, <4>1, <5>1 DEF Spot
      <4>4. CASE p = r /\ ~(i <= Len(log[n]))
        BY <1>8, <1>9, <3>1, <4>1, <4>4 DEF IsGrown
      <4> QED
        BY <1>11, <4>1, <4>2, <4>3, <4>4
    <3>3. log'[k] = log[k]
      BY <1>3, <2>2
    <3> QED
      BY <3>2, <3>3 DEF LogInv, LeaderInv
  <2> QED
    BY <2>1, <2>2
<1>21. CandidateInv'
  <2> SUFFICES ASSUME NEW k \in Node, role[k] = "Candidate", NEW i \in DOMAIN log'[k],
                      log'[k][i].term > current_term[k]
               PROVE  \E Q \in SUBSET Voter :
                        /\ IsMajority(Q)
                        /\ \A v \in Q : current_term[v] >= log'[k][i].term /\ ~Backs(v, k)
    BY <1>1 DEF CandidateInv, Outrun, IsMajority, Backs
  <2>1. log'[k] = log[k]
    BY <1>1, <1>3
  <2>2. Outrun(k, log[k][i].term)
    BY <2>1 DEF LogInv, CandidateInv
  <2> QED
    BY <2>1, <2>2 DEF Outrun
<1> QED
  BY <1>15, <1>16, <1>19, <1>20, <1>21 DEF LogInv

\* There is nothing to disagree about at the start.
LEMMA EmptyPieces ==
    ASSUME \A n \in Node : log[n] = << >>, net = {}
    PROVE  AgreeInv /\ OrderedInv /\ OwnedInv /\ \A i, t \in Nat : ~Spot(i, t)
<1>2. \A p \in Pieces : p = PieceOfLog(<< >>)
  BY DEF Pieces
<1>3. Span(PieceOfLog(<< >>)) = {0}
  <2>1. << >> \in Seq(Entry) /\ Len(<< >>) = 0
    BY EmptySeq
  <2>2. Span(PieceOfLog(<< >>)) = 0 .. 0
    BY <2>1, LogAsPiece
  <2> QED
    BY <2>2
<1>4. AgreeInv
  BY <1>2, AgreeIsReflexive DEF AgreeInv
<1>5. OrderedInv
  <2>1. Ordered(PieceOfLog(<< >>))
    <3>1. TermIn(PieceOfLog(<< >>), 0) = 0
      BY DEF TermIn, PieceOfLog
    <3> QED
      BY <1>3, <3>1 DEF Ordered
  <2> QED
    BY <1>2, <2>1 DEF OrderedInv
<1>6. \A i, t \in Nat : ~Spot(i, t)
  BY <1>2, <1>3 DEF Spot
<1> QED
  BY <1>4, <1>5, <1>6 DEF OwnedInv

\* A cold start: no leader, no candidate, no entry.
LEMMA LogInvInit == Init => LogInv
<1> SUFFICES ASSUME Init PROVE LogInv
  OBVIOUS
<1>1. /\ \A n \in Node : log[n] = << >> /\ role[n] \notin {"Leader", "Candidate"}
      /\ net = {}
  BY DEF Init
<1>2. LeaderInv /\ CandidateInv
  BY <1>1 DEF LeaderInv, CandidateInv
<1> QED
  BY <1>1, <1>2, EmptyPieces DEF LogInv

\* Every step keeps what the logs rest on.
LEMMA LogInvStep == TypeInv /\ ElectionInv /\ LogInv /\ [Next]_vars => LogInv'
<1> SUFFICES ASSUME TypeInv, ElectionInv, LogInv, [Next]_vars PROVE LogInv'
  OBVIOUS
<1>1. CASE TameStep
  <2>1. AgreeInv' /\ OrderedInv'
    BY <1>1 DEF TameStep
  <2>2. OwnedInv' /\ LeaderInv' /\ CandidateInv'
    BY <1>1, TameOwned, TameLeaders, TameCandidates
  <2> QED
    BY <2>1, <2>2 DEF LogInv
<1>2. ASSUME NEW n \in Node, NEW c \in Command, Propose(n, c) PROVE LogInv'
  BY <1>2, TypeInvStep, ProposeInv
<1> QED
  BY <1>1, <1>2, OnlyProposalsAreNew DEF LogInv

\* Pieces that agree and are ordered make logs that match and are ordered.
LEMMA LogInvSafe == TypeInv /\ LogInv => LogsAgree
<1> SUFFICES ASSUME TypeInv, LogInv PROVE LogsAgree
  OBVIOUS
<1>1. \A n \in Node : log[n] \in Seq(Entry) /\ PieceOfLog(log[n]) \in Pieces
  BY DEF TypeInv, TypeOK, LogType, Pieces
<1>2. LogMatching
  <2> SUFFICES ASSUME NEW m \in Node, NEW n \in Node, NEW i \in DOMAIN log[m] \cap DOMAIN log[n],
                      log[m][i].term = log[n][i].term, NEW j \in 1 .. i
               PROVE  log[m][j] = log[n][j]
    BY DEF LogMatching
  <2> DEFINE p == PieceOfLog(log[m])
             q == PieceOfLog(log[n])
  <2>1. /\ Len(log[m]) \in Nat /\ Len(log[n]) \in Nat
        /\ i \in 1 .. Len(log[m]) /\ i \in 1 .. Len(log[n])
    BY <1>1, LogAsPiece
  <2>2. j \in 1 .. Len(log[m]) /\ j \in 1 .. Len(log[n]) /\ j <= i /\ j > 0
    BY <2>1
  <2>3. /\ i \in Span(p) /\ i \in Span(q) /\ j \in Span(p) /\ j \in Span(q)
        /\ TermIn(p, i) = TermIn(q, i) /\ p.base = 0 /\ q.base = 0
        /\ EntryIn(p, j) = log[m][j] /\ EntryIn(q, j) = log[n][j]
    BY <1>1, <2>1, <2>2, LogAsPiece
  <2>4. Agree(p, q)
    BY <1>1 DEF LogInv, AgreeInv
  <2> HIDE DEF p, q
  <2> QED
    BY <2>2, <2>3, <2>4 DEF Agree
<1>3. TermsOrdered
  <2> SUFFICES ASSUME NEW n \in Node, NEW i \in DOMAIN log[n], NEW j \in DOMAIN log[n], i <= j
               PROVE  log[n][i].term <= log[n][j].term
    BY DEF TermsOrdered
  <2> DEFINE p == PieceOfLog(log[n])
  <2>1. Len(log[n]) \in Nat /\ i \in 1 .. Len(log[n]) /\ j \in 1 .. Len(log[n])
    BY <1>1, LogAsPiece
  <2>2. /\ i \in Span(p) /\ j \in Span(p)
        /\ TermIn(p, i) = log[n][i].term /\ TermIn(p, j) = log[n][j].term
    BY <1>1, <2>1, LogAsPiece
  <2>3. Ordered(p)
    BY <1>1 DEF LogInv, OrderedInv
  <2> HIDE DEF p
  <2> QED
    BY <2>2, <2>3 DEF Ordered
<1> QED
  BY <1>2, <1>3 DEF LogsAgree

\* Logs that have the same term at an index are the same up to it, and terms never
\* fall along a log (append_entries, node.rs:318-412, and replicate, driver.rs:176),
\* for any number of nodes, commands, terms and failed, lost or late calls.
THEOREM LogsAlwaysAgree == Spec => []LogsAgree
<1>1. Spec => [](TypeInv /\ ElectionInv /\ LogInv)
  BY TypeInvInit, ElectionInvInit, LogInvInit, TypeInvStep, ElectionInvStep, LogInvStep, PTL DEF Spec
<1> QED
  BY <1>1, LogInvSafe, PTL

-----------------------------------------------------------------------------
(***************************************************************************)
(* Append requests bear the terms of elected leaders, so that none of a    *)
(* leader's own term reaches the leader.                                   *)
(***************************************************************************)
Elected(m) == m.kind = "AppendEntries" => Owns(m.from, m.term) /\ m.to # m.from

\* Who is in a round of replicate(), or has a request on its way, was elected in the
\* term of the request; and nobody sends to itself.
SendersInv ==
    /\ \A n \in Voter : phase[n] = "replicate" => Owns(n, ballot[n]) /\ n \notin todo[n]
    /\ \A m \in net : Elected(m)

\* Owners stay, so that it is enough to look at what a step starts and sends.
LEMMA SendersStay ==
    ASSUME TypeInv, TypeInv', ElectionInv, [Next]_vars, SendersInv,
           \A k \in Voter : phase'[k] = "replicate" =>
              \/ phase[k] = "replicate" /\ ballot'[k] = ballot[k] /\ todo'[k] \subseteq todo[k]
              \/ Owns(k, ballot'[k]) /\ k \notin todo'[k],
           \A m \in net' : Elected(m)
    PROVE  SendersInv'
<1>1. ASSUME NEW k \in Voter, phase'[k] = "replicate"
      PROVE  Owns(k, ballot[k])' /\ k \notin todo'[k]
  <2>1. Owns(k, ballot'[k]) /\ k \notin todo'[k]
    BY <1>1 DEF SendersInv
  <2>2. ballot'[k] \in Nat
    BY DEF TypeInv, TypeOK, DriverType, Node
  <2>3. PICK t \in Nat : t = ballot'[k]
    BY <2>2
  <2>4. Owns(k, t)
    BY <2>1, <2>3
  <2>5. Owns(k, t)'
    BY <2>4, OwnsStays
  <2> QED
    BY <2>1, <2>3, <2>5 DEF Owns, Spent
<1>2. ASSUME NEW m \in net' PROVE Elected(m)'
  <2> SUFFICES ASSUME m.kind = "AppendEntries" PROVE Owns(m.from, m.term)' /\ m.to # m.from
    BY DEF Elected, Owns, Spent
  <2>1. m.from \in Voter /\ m.term \in Nat
    BY DEF TypeInv, TypeOK, Message, RequestVoteReq, RequestVoteResp,
       AppendEntriesReq, AppendEntriesResp
  <2>2. Owns(m.from, m.term) /\ m.to # m.from
    BY DEF Elected
  <2> QED
    BY <2>1, <2>2, OwnsStays
<1> QED
  BY <1>1, <1>2 DEF SendersInv, Elected, Owns, Spent

\* A step that starts no round and sends no append request.
LEMMA NoSender ==
    ASSUME TypeInv, TypeInv', ElectionInv, [Next]_vars, SendersInv,
           \A k \in Voter : phase'[k] = "replicate" =>
              phase[k] = "replicate" /\ ballot'[k] = ballot[k] /\ todo'[k] \subseteq todo[k],
           \A m \in net' : Elected(m)
    PROVE  SendersInv'
BY SendersStay

\* The loop of an election starts no round.
LEMMA PollNextSenders ==
    ASSUME TypeInv, TypeInv', ElectionInv, [Next]_vars, SendersInv,
           NEW n \in Voter, NEW r, NEW v, NEW rest, NEW others, PollNext(n, r, v, rest, others),
           \A k \in Voter : k # n => ballot'[k] = ballot[k],
           \A m \in others : Elected(m)
    PROVE  SendersInv'
<1>1. n \in Node
  BY DEF Node
<1>2. \A k \in Voter : phase'[k] = "replicate" => k # n /\ phase'[k] = phase[k] /\ todo'[k] = todo[k]
  BY <1>1 DEF PollNext, TypeInv, TypeOK, DriverType, Node
<1>3. \A m \in net' : m \in others \/ m.kind = "RequestVote"
  <2>1. CASE net' = others
    BY <2>1
  <2>2. ASSUME NEW p \in rest,
               net' = others \cup {RequestVoteTo(n, p, ballot'[n], position'[n])}
        PROVE  \A m \in net' : m \in others \/ m.kind = "RequestVote"
    <3>1. RequestVoteTo(n, p, ballot'[n], position'[n]).kind = "RequestVote"
      BY DEF RequestVoteTo
    <3> QED
      BY <2>2, <3>1
  <2> QED
    BY <2>1, <2>2 DEF PollNext
<1>4. \A m \in net' : Elected(m)
  BY <1>3 DEF Elected
<1> QED
  BY <1>2, <1>4, NoSender

\* A round sends under the term of an election that its node has won.
LEMMA ReplicateNextSenders ==
    ASSUME TypeInv, TypeInv', ElectionInv, [Next]_vars, SendersInv,
           NEW n \in Voter, NEW t \in Nat, NEW mi, NEW rest \in SUBSET Node, NEW others,
           ReplicateNext(n, t, mi, rest, others), Owns(n, t), n \notin rest, ballot'[n] = t,
           \A k \in Voter : k # n => ballot'[k] = ballot[k],
           \A m \in others : Elected(m)
    PROVE  SendersInv'
<1>1. n \in Node
  BY DEF Node
<1>2. \A k \in Voter : k # n => phase'[k] = phase[k] /\ todo'[k] = todo[k]
  BY <1>1 DEF ReplicateNext, TypeInv, TypeOK, DriverType, Node
<1>3. n \notin todo'[n]
  BY <1>1 DEF ReplicateNext, TypeInv, TypeOK, DriverType
<1>4. \A m \in net' : Elected(m)
  <2>1. CASE net' = others
    BY <2>1
  <2>2. ASSUME NEW p \in rest, net' = others \cup {AppendEntriesTo(n, p, t, mi)}
        PROVE  \A m \in net' : Elected(m)
    <3> DEFINE q == AppendEntriesTo(n, p, t, mi)
    <3>1. q.from = n /\ q.term = t /\ q.to = p
      BY DEF AppendEntriesTo
    <3> HIDE DEF q
    <3>2. Elected(q)
      BY <3>1 DEF Elected
    <3>3. net' = others \cup {q}
      BY <2>2 DEF q
    <3> QED
      BY <3>2, <3>3
  <2> QED
    BY <2>1, <2>2 DEF ReplicateNext
<1>5. \A k \in Voter : phase'[k] = "replicate" =>
              \/ phase[k] = "replicate" /\ ballot'[k] = ballot[k] /\ todo'[k] \subseteq todo[k]
              \/ Owns(k, ballot'[k]) /\ k \notin todo'[k]
  BY <1>2, <1>3
<1> QED
  BY <1>4, <1>5, SendersStay

\* After a failure a round goes on under the same term.
LEMMA CallFailsSenders ==
    ASSUME TypeInv, TypeInv', ElectionInv, [Next]_vars, SendersInv,
           NEW n \in Node, NEW m \in net, NEW others, CallFails(n, m, others),
           \A x \in others : Elected(x)
    PROVE  SendersInv'
<1>1. n \in Voter /\ ballot' = ballot
  BY DEF CallFails, TypeInv, TypeOK, Message, RequestVoteReq, IsRequest, CallOf,
     RequestVoteResp, AppendEntriesReq, AppendEntriesResp
<1>2. CASE PollNext(n, role[n], votes[n], todo[n], others)
  BY <1>1, <1>2, PollNextSenders
<1>3. CASE phase[n] = "replicate" /\ ReplicateNext(n, ballot[n], match_index[n], todo[n], others)
  <2>1. todo[n] \in SUBSET Node /\ ballot[n] \in Nat
    BY DEF TypeInv, TypeOK, DriverType
  <2>2. Owns(n, ballot[n]) /\ n \notin todo[n]
    BY <1>1, <1>3 DEF SendersInv
  <2> QED
    BY <1>1, <1>3, <2>1, <2>2, ReplicateNextSenders
<1> QED
  BY <1>2, <1>3 DEF CallFails

\* A driver sends under the term it was elected in.
LEMMA DriverSenders ==
    ASSUME TypeInv, TypeInv', ElectionInv, [Next]_vars, SendersInv, NEW n \in Node, DriverStep(n)
    PROVE  SendersInv'
<1>1. \A m \in net : Elected(m)
  BY DEF SendersInv
<1>2. todo[n] \in SUBSET Node /\ ballot[n] \in Nat /\ current_term[n] \in Nat
  BY DEF TypeInv, TypeOK, DriverType, TermType
<1>3. CASE StartElection(n)
  <2>1. n \in Voter
    BY <1>3 DEF StartElection, TypeInv, TypeOK, RoleType, Node
  <2>2. \A k \in Voter : k # n => ballot'[k] = ballot[k]
    BY <1>3 DEF StartElection, TypeInv, TypeOK, DriverType, Node
  <2>3. PollNext(n, "Candidate", {n}, Peers(n), net)
    BY <1>3 DEF StartElection
  <2> QED
    BY <1>1, <2>1, <2>2, <2>3, PollNextSenders
<1>4. CASE StartReplicate(n)
  <2>1. n \in Voter /\ Owns(n, current_term[n])
    BY <1>4, LeaderOwns DEF StartReplicate
  <2>2. Peers(n) \cup Learner \in SUBSET Node /\ n \notin Peers(n) \cup Learner
    BY <2>1, LearnerAssumption DEF Peers, Node
  <2>3. ballot'[n] = current_term[n] /\ \A k \in Voter : k # n => ballot'[k] = ballot[k]
    BY <1>4, <2>1 DEF StartReplicate, TypeInv, TypeOK, DriverType, Node
  <2>4. ReplicateNext(n, current_term[n], match_index[n], Peers(n) \cup Learner, net)
    BY <1>4 DEF StartReplicate
  <2> QED
    BY <1>1, <1>2, <2>1, <2>2, <2>3, <2>4, ReplicateNextSenders
<1>5. CASE IdleTick(n)
  BY <1>1, <1>5, NoSender DEF IdleTick, driverVars
<1>6. ASSUME NEW m \in net, StepDown(n, m) PROVE SendersInv'
  <2>1. \A k \in Voter : phase'[k] = "replicate" =>
              phase[k] = "replicate" /\ ballot'[k] = ballot[k] /\ todo'[k] \subseteq todo[k]
    BY <1>6 DEF StepDown, TypeInv, TypeOK, DriverType, Node
  <2>2. \A x \in net' : Elected(x)
    BY <1>1, <1>6 DEF StepDown
  <2> QED
    BY <2>1, <2>2, NoSender
<1>7. ASSUME NEW m \in net, HandleVoteResult(n, m) PROVE SendersInv'
  <2>1. n \in Voter
    BY <1>7 DEF HandleVoteResult, TypeInv, TypeOK, Message, RequestVoteReq,
       RequestVoteResp, AppendEntriesReq, AppendEntriesResp
  <2> QED
    BY <1>1, <1>6, <1>7, <2>1, PollNextSenders DEF HandleVoteResult
<1>8. ASSUME NEW m \in net, HandleAppendResult(n, m) PROVE SendersInv'
  <2>1. n \in Voter /\ CallOf(n, m) /\ LoopOf(m) = "replicate"
    BY <1>8 DEF HandleAppendResult, TypeInv, TypeOK, Message, RequestVoteReq, CallOf, IsRequest,
       RequestVoteResp, AppendEntriesReq, AppendEntriesResp, LoopOf
  <2>2. phase[n] = "replicate"
    BY <2>1 DEF TypeInv, CallsMatchLoops
  <2>3. Owns(n, ballot[n]) /\ n \notin todo[n]
    BY <2>1, <2>2 DEF SendersInv
  <2>4. CASE UNCHANGED ballot /\ ReplicateNext(n, ballot[n], MatchAfter(n, m), todo[n], net \ {m})
    BY <1>1, <1>2, <2>1, <2>3, <2>4, ReplicateNextSenders
  <2> QED
    BY <1>6, <1>8, <2>4 DEF HandleAppendResult
<1> QED
  BY <1>3, <1>4, <1>5, <1>7, <1>8 DEF DriverStep

\* Every step keeps the senders elected.
LEMMA SendersInvStep == TypeInv /\ ElectionInv /\ SendersInv /\ [Next]_vars => SendersInv'
<1> SUFFICES ASSUME TypeInv, ElectionInv, SendersInv, [Next]_vars PROVE SendersInv'
  OBVIOUS
<1>1. TypeInv' /\ \A m \in net : Elected(m)
  BY TypeInvStep DEF SendersInv
<1>2. CASE UNCHANGED <<driverVars, net>>
  BY <1>1, <1>2, NoSender DEF driverVars
<1>3. ASSUME NEW n \in Node, HandlerStep(n) PROVE SendersInv'
  <2>1. UNCHANGED driverVars
    BY <1>3 DEF HandlerStep, HandleRequestVote, HandleStaleAppendEntries, HandleAppendEntries
  <2>2. \A x \in net' : x \in net \/ x.kind \in {"VoteResult", "AppendResult"}
    BY <1>3 DEF HandlerStep, HandleRequestVote, HandleStaleAppendEntries, HandleAppendEntries, Answer
  <2>3. \A x \in net' : Elected(x)
    BY <1>1, <2>2 DEF Elected
  <2> QED
    BY <1>1, <2>1, <2>3, NoSender DEF driverVars
<1>4. ASSUME NEW n \in Node, TransportStep(n) PROVE SendersInv'
  <2>1. ASSUME NEW m \in net, CallLost(n, m) PROVE SendersInv'
    <3>1. CallFails(n, m, net \ {m})
      BY <2>1 DEF CallLost, Lost
    <3> QED
      BY <1>1, <3>1, CallFailsSenders
  <2>2. ASSUME NEW m \in net, CallAbandoned(n, m) PROVE SendersInv'
    <3> DEFINE o == [m EXCEPT !.live = FALSE]
    <3>1. CallFails(n, m, Orphaned(m)) /\ IsRequest(m)
      BY <2>2 DEF CallAbandoned
    <3>2. m \in RequestVoteReq \cup AppendEntriesReq
      BY <3>1 DEF TypeInv, TypeOK, Message, IsRequest, RequestVoteResp, AppendEntriesResp
    <3>3. o.kind = m.kind /\ o.from = m.from /\ o.to = m.to /\ o.term = m.term
      BY <3>2 DEF RequestVoteReq, AppendEntriesReq
    <3>4. Orphaned(m) = (net \ {m}) \cup {o}
      BY DEF Orphaned
    <3> HIDE DEF o
    <3>5. Elected(o)
      BY <1>1, <3>3 DEF Elected
    <3> QED
      BY <1>1, <3>1, <3>4, <3>5, CallFailsSenders
  <2> QED
    BY <1>4, <2>1, <2>2 DEF TransportStep
<1>5. ASSUME NEW n \in Node, ClientStep(n) PROVE SendersInv'
  BY <1>2, <1>5 DEF ClientStep, Propose
<1>6. CASE UNCHANGED vars
  BY <1>2, <1>6 DEF vars
<1> QED
  BY <1>1, <1>3, <1>4, <1>5, <1>6, DriverSenders DEF Next

\* No request of its own term reaches a leader.
LEMMA LeaderIsNotSent ==
    ASSUME TypeInv, ElectionInv, SendersInv, NEW m \in net, m.kind = "AppendEntries",
           m.to \in Node, role[m.to] = "Leader"
    PROVE  m.term # current_term[m.to]
<1> SUFFICES ASSUME m.term = current_term[m.to] PROVE FALSE
  OBVIOUS
<1> DEFINE n == m.to
<1>1. n \in Voter /\ Owns(m.from, m.term) /\ m.from # n
  BY LeaderOwns DEF SendersInv, Elected
<1>2. ballot[n] = m.term /\ IsMajority(votes[n]) /\ votes[n] \in SUBSET Voter
  BY <1>1 DEF ElectionInv, LeadersElected, TypeInv, TypeOK, DriverType
<1>3. PICK Q \in SUBSET Voter : IsMajority(Q) /\ \A v \in Q : Spent(v, m.term, m.from)
  BY <1>1 DEF Owns
<1>4. PICK v \in votes[n] : v \in Q
  BY <1>2, <1>3, MajoritiesMeet
<1>5. Backs(v, n)
  BY <1>4 DEF Backs
<1> QED
  BY <1>1, <1>2, <1>3, <1>4, <1>5 DEF Spent

\* A log begins with what it was before an entry was appended to it.
LEMMA LogBeginsWithItself ==
    ASSUME NEW l \in Seq(Entry), NEW k \in Seq(Entry), k = l \/ \E e \in Entry : k = Append(l, e)
    PROVE  Len(k) >= Len(l) /\ SubSeq(k, 1, Len(l)) = l
<1>1. Len(l) \in Nat /\ \A i \in 1 .. Len(l) : l[i] \in Entry
  BY ElementOfSeq, LenProperties
<1>2. Len(k) >= Len(l) /\ \A i \in 1 .. Len(l) : k[i] = l[i]
  <2>1. CASE k = l
    BY <1>1, <2>1
  <2>2. CASE \E e \in Entry : k = Append(l, e)
    BY <1>1, <2>2, AppendProperties
  <2> QED
    BY <2>1, <2>2
<1> DEFINE s == SubSeq(k, 1, Len(l))
<1>3. \A i \in 1 .. Len(l) : k[i] \in Entry
  BY <1>1, <1>2
<1>4. /\ s \in Seq(Entry)
      /\ Len(s) = IF 1 <= Len(l) THEN (Len(l) - 1) + 1 ELSE 0
      /\ \A i \in 1 .. (Len(l) - 1) + 1 : s[i] = k[(1 + i) - 1]
  BY <1>1, <1>3, SubSeqProperties
<1> HIDE DEF s
<1>5. Len(s) = Len(l) /\ \A i \in 1 .. Len(l) : s[i] = l[i]
  BY <1>1, <1>2, <1>4
<1>6. s = l
  BY <1>1, <1>4, <1>5, SeqEqual
<1> QED
  BY <1>2, <1>6 DEF s

\* A leader leaves its role only with its term, and meanwhile only appends.
LEMMA LeaderStays ==
    ASSUME TypeInv, ElectionInv, SendersInv, [Next]_vars, NEW n \in Node,
           role[n] = "Leader", current_term'[n] = current_term[n]
    PROVE  /\ role'[n] = "Leader"
           /\ log'[n] = log[n] \/ \E e \in Entry : log'[n] = Append(log[n], e)
<1> DEFINE Kept == role'[n] = role[n] /\ log'[n] = log[n]
<1> SUFFICES Kept \/ (role'[n] = "Leader" /\ \E e \in Entry : log'[n] = Append(log[n], e))
  OBVIOUS
<1>1. n \in Voter /\ ballot[n] = current_term[n] /\ current_term[n] \in Nat
  BY LeaderOwns DEF ElectionInv, LeadersElected, TypeInv, TypeOK, TermType
<1>2. \A k \in Node : \A r : [role EXCEPT ![k] = r][n] = IF k = n THEN r ELSE role[n]
  BY DEF TypeInv, TypeOK, RoleType
<1>3. ASSUME NEW k \in Node, NEW r, NEW v, NEW rest, NEW others, PollNext(k, r, v, rest, others),
             log' = log, k = n => r = role[n]
      PROVE  Kept
  <2>1. PICK x : role' = [role EXCEPT ![k] = x] /\ (x = r \/ r = "Candidate")
    BY <1>3 DEF PollNext
  <2>2. k = n => x = role[n]
    BY <1>3, <2>1
  <2> QED
    BY <1>3, <2>1, <2>2 DEF TypeInv, TypeOK, RoleType
<1>4. ASSUME NEW k \in Node, NEW t, NEW mi, NEW rest, NEW others,
             ReplicateNext(k, t, mi, rest, others)
      PROVE  Kept
  BY <1>4 DEF ReplicateNext, nodeVars
<1>5. ASSUME NEW k \in Node, NEW m \in net, StepDown(k, m) PROVE Kept
  <2>1. m.term \in Nat
    BY DEF TypeInv, TypeOK, Message, RequestVoteReq, RequestVoteResp,
       AppendEntriesReq, AppendEntriesResp
  <2>2. k # n
    BY <1>1, <1>5, <2>1 DEF StepDown, TypeInv, TypeOK, TermType
  <2> QED
    BY <1>2, <1>5, <2>2 DEF StepDown
<1>6. ASSUME NEW k \in Node, DriverStep(k) PROVE Kept
  <2>1. CASE StartElection(k)
    <3>1. k # n
      BY <2>1 DEF StartElection
    <3> QED
      BY <1>3, <2>1, <3>1 DEF StartElection
  <2>2. CASE StartReplicate(k) \/ IdleTick(k)
    BY <1>4, <2>2 DEF StartReplicate, IdleTick, nodeVars
  <2>3. ASSUME NEW m \in net, HandleVoteResult(k, m) PROVE Kept
    BY <1>3, <1>5, <2>3 DEF HandleVoteResult
  <2>4. ASSUME NEW m \in net, HandleAppendResult(k, m) PROVE Kept
    BY <1>4, <1>5, <2>4 DEF HandleAppendResult
  <2> QED
    BY <1>6, <2>1, <2>2, <2>3, <2>4 DEF DriverStep
<1>7. ASSUME NEW k \in Node, HandlerStep(k) PROVE Kept
  <2>1. ASSUME NEW m \in net, HandleRequestVote(k, m) PROVE Kept
    <3>1. m.term \in Nat
      BY DEF TypeInv, TypeOK, Message, RequestVoteReq, RequestVoteResp,
         AppendEntriesReq, AppendEntriesResp
    <3>2. k = n => ~(m.term > current_term[n])
      BY <1>1, <2>1, <3>1 DEF HandleRequestVote, TypeInv, TypeOK, TermType
    <3>3. role'[n] = role[n]
      BY <2>1, <3>2 DEF HandleRequestVote, TypeInv, TypeOK, RoleType
    <3> QED
      BY <2>1, <3>3 DEF HandleRequestVote, logVars
  <2>2. ASSUME NEW m \in net, HandleStaleAppendEntries(k, m) PROVE Kept
    BY <2>2 DEF HandleStaleAppendEntries, nodeVars, logVars
  <2>3. ASSUME NEW m \in net, HandleAppendEntries(k, m) PROVE Kept
    <3>1. k # n
      <4> SUFFICES ASSUME k = n PROVE FALSE
        OBVIOUS
      <4>1. m.kind = "AppendEntries" /\ m.to = n /\ current_term'[n] = m.term
        BY <2>3 DEF HandleAppendEntries, TypeInv, TypeOK, TermType
      <4> QED
        BY <4>1, LeaderIsNotSent
    <3>2. log' = log \/ log' = [log EXCEPT ![k] = LogAfter(k, m)]
      BY <2>3 DEF HandleAppendEntries, logVars
    <3>3. log'[n] = log[n]
      BY <3>1, <3>2 DEF TypeInv, TypeOK, LogType
    <3> QED
      BY <1>2, <2>3, <3>1, <3>3 DEF HandleAppendEntries
  <2> QED
    BY <1>7, <2>1, <2>2, <2>3 DEF HandlerStep
<1>8. ASSUME NEW k \in Node, TransportStep(k) PROVE Kept
  BY <1>3, <1>4, <1>8 DEF TransportStep, CallLost, CallAbandoned, CallFails
<1>9. ASSUME NEW k \in Node, NEW c \in Command, Propose(k, c)
      PROVE  Kept \/ (role'[n] = "Leader" /\ \E e \in Entry : log'[n] = Append(log[n], e))
  <2>1. role' = role /\ log' = [log EXCEPT ![k] = Append(@, [term |-> current_term[k], cmd |-> c])]
    BY <1>9 DEF Propose, nodeVars
  <2>2. CASE k # n
    BY <2>1, <2>2 DEF TypeInv, TypeOK, LogType
  <2>3. CASE k = n
    <3>1. [term |-> current_term[n], cmd |-> c] \in Entry
      BY <1>1 DEF Entry
    <3>2. log'[n] = Append(log[n], [term |-> current_term[n], cmd |-> c])
      BY <2>1, <2>3 DEF TypeInv, TypeOK, LogType
    <3> QED
      BY <2>1, <3>1, <3>2
  <2> QED
    BY <2>2, <2>3
<1>10. CASE UNCHANGED vars
  BY <1>10 DEF vars, nodeVars, logVars
<1> QED
  BY <1>6, <1>7, <1>8, <1>9, <1>10 DEF Next, ClientStep

\* A leader is deposed only by a later term (node.rs:331-340), and as long as it leads
\* nothing cuts its log (node.rs:372), in any instance.
THEOREM LeadersOnlyAppend == Spec => LeaderAppendOnly
<1>1. Init => SendersInv
  BY DEF Init, SendersInv, Node
<1>2. Spec => [](TypeInv /\ ElectionInv /\ SendersInv)
  BY <1>1, TypeInvInit, ElectionInvInit, TypeInvStep, ElectionInvStep, SendersInvStep, PTL DEF Spec
<1>3. TypeInv /\ ElectionInv /\ SendersInv /\ [Next]_vars =>
        \A n \in Node :
          role[n] = "Leader" /\ current_term'[n] = current_term[n]
             => /\ role'[n] = "Leader"
                /\ Len(log'[n]) >= Len(log[n])
                /\ SubSeq(log'[n], 1, Len(log[n])) = log[n]
  <2> SUFFICES ASSUME TypeInv, ElectionInv, SendersInv, [Next]_vars, NEW n \in Node,
                      role[n] = "Leader", current_term'[n] = current_term[n]
               PROVE  /\ role'[n] = "Leader"
                      /\ Len(log'[n]) >= Len(log[n])
                      /\ SubSeq(log'[n], 1, Len(log[n])) = log[n]
    OBVIOUS
  <2>1. /\ role'[n] = "Leader"
        /\ log'[n] = log[n] \/ \E e \in Entry : log'[n] = Append(log[n], e)
    BY LeaderStays
  <2>2. log[n] \in Seq(Entry) /\ log'[n] \in Seq(Entry)
    BY TypeInvStep DEF TypeInv, TypeOK, LogType
  <2> QED
    BY <2>1, <2>2, LogBeginsWithItself
<1> QED
  BY <1>2, <1>3, PTL DEF Spec, LeaderAppendOnly

-----------------------------------------------------------------------------
(***************************************************************************)
(* One leader for good: the setting of sim.rs, where First has won the     *)
(* election of term 1 and, with MaxTerm = 1, nobody campaigns again.       *)
(***************************************************************************)
Begins(l, k) == Len(l) <= Len(k) /\ \A i \in 1 .. Len(l) : l[i] = k[i]

\* What First sends is a stretch of its log and of what it has committed.
FromFirst(m) ==
    /\ m.from = First /\ m.to # First /\ m.term = 1
    /\ m.leader_commit <= commit_index[First]
    /\ m.entries # << >> =>
         /\ m.prev_log_index + Len(m.entries) <= Len(log[First])
         /\ \A i \in 1 .. Len(m.entries) : m.entries[i] = log[First][m.prev_log_index + i]

OfFirst(m) ==
    \/ m.kind = "AppendEntries" /\ FromFirst(m)
    \/ m.kind = "AppendResult" /\ m.to = First /\ m.term <= 1

\* Only First leads and only First calls.
FirstLeads ==
    /\ role[First] = "Leader" /\ ballot[First] = 1
    /\ \A n \in Voter : current_term[n] = 1
    /\ \A n \in Node : current_term[n] <= 1
    /\ \A n \in Node \ {First} : role[n] \in {"Follower", "Learner"} /\ phase[n] = "idle"
    /\ First \notin todo[First]
    /\ \A m \in net : OfFirst(m)

\* Every log begins First's, and nobody commits or applies what First has not committed.
AllTrail ==
    \A n \in Node :
        /\ Begins(log[n], log[First])
        /\ commit_index[n] <= commit_index[First]
        /\ Len(applied[n]) <= commit_index[First]

StableInv == FirstLeads /\ AllTrail

\* The state First's election leaves has the types.
LEMMA ElectedTypes == ElectedInit => TypeInv
<1> SUFFICES ASSUME ElectedInit PROVE TypeInv
  OBVIOUS
<1>1. << >> \in Seq(Entry) /\ << >> \in Seq(Command)
  BY EmptySeq
<1>2. RoleType /\ TermType
  BY LearnerAssumption, FirstAssumption DEF ElectedInit, RoleType, TermType, Node
<1>3. LogType
  BY <1>1 DEF ElectedInit, LogType
<1>4. DriverType
  BY DEF ElectedInit, DriverType
<1>5. net \subseteq Message /\ issued \subseteq Command /\ failures \in Nat
  BY DEF ElectedInit
<1>6. CallsMatchLoops /\ OneCallEach /\ VotersArePolled
  BY DEF ElectedInit, CallsMatchLoops, OneCallEach, VotersArePolled
<1> QED
  BY <1>2, <1>3, <1>4, <1>5, <1>6 DEF TypeInv, TypeOK

\* All the voters are a majority of them.
LEMMA VotersAreMajority == IsMajority(Voter)
<1>1. Cardinality(Voter) \in Nat /\ Cardinality(Voter) # 0
  BY VoterAssumption, FS_CardinalityType, FS_EmptySet
<1> QED
  BY <1>1 DEF IsMajority

\* First was elected, in its term, by all the voters.
LEMMA ElectedElection == ElectedInit => ElectionInv
<1> SUFFICES ASSUME ElectedInit PROVE ElectionInv
  OBVIOUS
<1>1. First \in Node /\ First \notin Learner /\ Voter \subseteq Node
  BY FirstAssumption, LearnerAssumption DEF Node
<1>2. \A v, n \in Voter : Backs(v, n) => n = First
  BY <1>1 DEF ElectedInit, Backs
<1>3. /\ ballot[First] = 1 /\ votes[First] = Voter /\ net = {}
      /\ \A v \in Voter : current_term[v] = 1 /\ voted_for[v] = First
      /\ \A n \in Voter \ {First} : role[n] = "Follower"
  BY <1>1, LearnerAssumption DEF ElectedInit
<1>4. RequestsAreCurrent /\ BackersStay /\ BackersOfOne
  BY <1>2, <1>3 DEF RequestsAreCurrent, BackersStay, BackersOfOne
<1>5. LeadersElected
  BY <1>3, FirstAssumption, VotersAreMajority DEF LeadersElected
<1> QED
  BY <1>4, <1>5 DEF ElectionInv

\* All logs are empty then.
LEMMA ElectedLogs == ElectedInit => LogInv
<1> SUFFICES ASSUME ElectedInit PROVE LogInv
  OBVIOUS
<1>1. \A n \in Node : log[n] = << >> /\ role[n] # "Candidate"
  BY DEF ElectedInit
<1>2. net = {}
  BY DEF ElectedInit
<1>3. OwnedInv /\ AgreeInv /\ OrderedInv /\ \A i, t \in Nat : ~Spot(i, t)
  BY <1>1, <1>2, EmptyPieces
<1>4. LeaderInv /\ CandidateInv
  <2>1. \A n \in Node : DOMAIN log[n] = {} /\ role[n] # "Candidate" /\ current_term[n] \in Nat
    BY <1>1, ElectedTypes DEF TypeInv, TypeOK, TermType
  <2> QED
    BY <1>3, <2>1 DEF LeaderInv, CandidateInv
<1> QED
  BY <1>3, <1>4 DEF LogInv

\* From First's election on, as from a cold start, logs agree: the two settings differ in
\* their initial state only.
THEOREM LogsAgreeOnceElected == ElectedInit /\ [][Next]_vars => []LogsAgree
<1>1. ElectedInit /\ [][Next]_vars => [](TypeInv /\ ElectionInv /\ LogInv)
  BY ElectedTypes, ElectedElection, ElectedLogs, TypeInvStep, ElectionInvStep, LogInvStep, PTL
<1>2. TypeInv /\ LogInv => LogsAgree
  BY LogInvSafe
<1> QED
  BY <1>1, <1>2, PTL

\* A log begins itself, and what begins a log begins whatever that log begins.
LEMMA BeginsIsAnOrder ==
    ASSUME NEW a, NEW b, NEW c, Len(a) \in Nat, Len(b) \in Nat, Len(c) \in Nat
    PROVE  Begins(a, a) /\ (Begins(a, b) /\ Begins(b, c) => Begins(a, c))
BY DEF Begins

\* A command proposed grows the log.
LEMMA ProposedBegins ==
    ASSUME NEW l \in Seq(Entry), NEW e \in Entry
    PROVE  Begins(l, Append(l, e))
<1>1. Len(l) \in Nat
  BY LenProperties
<1>2. Len(Append(l, e)) = Len(l) + 1 /\ \A i \in 1 .. Len(l) : Append(l, e)[i] = l[i]
  BY <1>1, AppendProperties
<1> QED
  BY <1>1, <1>2 DEF Begins

\* A commit index never gets past the index it is moved to, nor falls.
LEMMA CommitToBounds ==
    ASSUME NEW l \in Seq(Entry), NEW c \in Nat, NEW i \in Nat
    PROVE  c <= CommitTo(l, c, i) /\ (CommitTo(l, c, i) <= i \/ CommitTo(l, c, i) = c)
<1>1. Len(l) \in Nat
  BY LenProperties
<1>2. LesserOf(i, Len(l)) \in Nat /\ LesserOf(i, Len(l)) <= i
  BY <1>1, LesserOfNat
<1>3. CASE LesserOf(i, Len(l)) > c
  BY <1>2, <1>3 DEF CommitTo
<1>4. CASE ~(LesserOf(i, Len(l)) > c)
  BY <1>4 DEF CommitTo
<1> QED
  BY <1>3, <1>4

\* The applier has received what it had, or as much as is committed.
LEMMA AppliedLength ==
    ASSUME NEW done \in Seq(Command), NEW l \in Seq(Entry), NEW c \in Nat
    PROVE  Len(Applied(done, l, c)) \in {Len(done), c}
<1>1. /\ Len(l) \in Nat /\ Len(done) \in Nat
      /\ \A k \in 1 .. Len(l) : l[k] \in Entry
  BY ElementOfSeq, LenProperties
<1>2. CASE c > Len(done) /\ c <= Len(l)
  <2> DEFINE fresh == [i \in 1 .. c - Len(done) |-> l[Len(done) + i].cmd]
  <2>1. \A i \in 1 .. c - Len(done) : l[Len(done) + i].cmd \in Command
    BY <1>1, <1>2 DEF Entry
  <2>2. c - Len(done) \in Nat
    BY <1>1, <1>2
  <2>3. fresh \in [1 .. c - Len(done) -> Command] /\ DOMAIN fresh = 1 .. c - Len(done)
    BY <2>1
  <2>4. fresh \in Seq(Command) /\ Len(fresh) = c - Len(done)
    <3> HIDE DEF fresh
    <3>1. fresh \in Seq(Command)
      BY <2>2, <2>3, SeqDef
    <3> QED
      BY <2>2, <2>3, <3>1, LenProperties
  <2>5. Len(done \o fresh) = c
    <3> HIDE DEF fresh
    <3>1. Len(done \o fresh) = Len(done) + Len(fresh)
      BY <2>4, ConcatProperties
    <3> QED
      BY <1>1, <2>4, <3>1
  <2> QED
    BY <1>2, <2>5 DEF Applied
<1>3. CASE ~(c > Len(done) /\ c <= Len(l))
  BY <1>3 DEF Applied
<1> QED
  BY <1>2, <1>3

\* What First sends is a stretch of its log.
LEMMA FirstSends ==
    ASSUME TypeInv, NEW p \in Node \ {First}, NEW mi \in [Node -> Nat]
    PROVE  OfFirst(AppendEntriesTo(First, p, 1, mi))
<1> DEFINE l == log[First]
           b == mi[p]
           es == EntriesFrom(l, b + 1)
           m == AppendEntriesTo(First, p, 1, mi)
<1>1. l \in Seq(Entry) /\ b \in Nat /\ commit_index[First] \in Nat
  BY FirstAssumption DEF TypeInv, TypeOK, LogType, Node
<1>2. /\ m.kind = "AppendEntries" /\ m.from = First /\ m.to = p /\ m.term = 1
      /\ m.leader_commit = commit_index[First]
      /\ m.prev_log_index = b /\ m.entries = es
  BY DEF AppendEntriesTo
<1>3. Len(l) \in Nat /\ \A k \in 1 .. Len(l) : l[k] \in Entry
  BY <1>1, ElementOfSeq, LenProperties
<1>4. /\ Len(es) = IF b + 1 <= Len(l) THEN Len(l) - b ELSE 0
      /\ es \in Seq(Entry)
      /\ \A i \in 1 .. Len(l) - b : es[i] = l[b + i]
  <2> DEFINE sq == SubSeq(l, b + 1, Len(l))
  <2>1. \A k \in b + 1 .. Len(l) : l[k] \in Entry
    BY <1>1, <1>3
  <2>2. /\ sq \in Seq(Entry)
        /\ Len(sq) = IF b + 1 <= Len(l) THEN Len(l) - (b + 1) + 1 ELSE 0
        /\ \A i \in 1 .. Len(l) - (b + 1) + 1 : sq[i] = l[((b + 1) + i) - 1]
    BY <1>1, <1>3, <2>1, SubSeqProperties, SMTT(30)
  <2>3. Len(l) - (b + 1) + 1 = Len(l) - b /\ \A i \in 1 .. Len(l) - b : ((b + 1) + i) - 1 = b + i
    BY <1>1, <1>3
  <2>4. es = sq
    BY DEF EntriesFrom
  <2> HIDE DEF es, sq
  <2> QED
    BY <2>2, <2>3, <2>4
<1> HIDE DEF es
<1>5. es # << >> => b + Len(es) <= Len(l) /\ \A i \in 1 .. Len(es) : es[i] = l[b + i]
  <2> SUFFICES ASSUME es # << >>
               PROVE  b + Len(es) <= Len(l) /\ \A i \in 1 .. Len(es) : es[i] = l[b + i]
    OBVIOUS
  <2>1. Len(es) # 0
    BY <1>4, EmptySeq
  <2>2. Len(es) = Len(l) - b
    BY <1>4, <2>1
  <2> QED
    BY <1>1, <1>3, <1>4, <2>2
<1>6. m.leader_commit <= commit_index[First]
  BY <1>1, <1>2
<1>7. p # First
  OBVIOUS
<1> HIDE DEF m, b
<1>8. m.entries # << >> =>
        /\ m.prev_log_index + Len(m.entries) <= Len(l)
        /\ \A i \in 1 .. Len(m.entries) : m.entries[i] = l[m.prev_log_index + i]
  BY <1>2, <1>5
<1>9. FromFirst(m)
  BY <1>2, <1>6, <1>7, <1>8 DEF FromFirst
<1>10. OfFirst(m)
  BY <1>2, <1>9 DEF OfFirst
<1> QED
  BY <1>10 DEF m

\* What First has sent stays a stretch of its log while that only grows.
LEMMA SentStays ==
    ASSUME TypeInv, NEW m \in Message, OfFirst(m),
           Begins(log[First], log'[First]), commit_index[First] <= commit_index'[First],
           commit_index'[First] \in Nat, Len(log'[First]) \in Nat
    PROVE  OfFirst(m)'
<1>1. CASE m.kind = "AppendResult"
  BY <1>1 DEF OfFirst
<1>2. CASE m.kind = "AppendEntries"
  <2>1. /\ m.prev_log_index \in Nat /\ m.leader_commit \in Nat /\ m.entries \in Seq(Entry)
    BY <1>2 DEF Message, RequestVoteReq, RequestVoteResp,
         AppendEntriesReq, AppendEntriesResp
  <2>2. Len(m.entries) \in Nat /\ commit_index[First] \in Nat /\ Len(log[First]) \in Nat
    BY <2>1, LenProperties, FirstAssumption DEF TypeInv, TypeOK, LogType, Node
  <2>3. FromFirst(m)
    BY <1>2 DEF OfFirst
  <2>4. m.leader_commit <= commit_index'[First]
    BY <2>1, <2>2, <2>3 DEF FromFirst
  <2>5. ASSUME m.entries # << >>
        PROVE  /\ m.prev_log_index + Len(m.entries) <= Len(log'[First])
               /\ \A i \in 1 .. Len(m.entries) : m.entries[i] = log'[First][m.prev_log_index + i]
    <3>1. m.prev_log_index + Len(m.entries) <= Len(log'[First])
      BY <2>1, <2>2, <2>3, <2>5 DEF FromFirst, Begins
    <3>2. ASSUME NEW i \in 1 .. Len(m.entries)
          PROVE  m.entries[i] = log'[First][m.prev_log_index + i]
      <4>1. m.prev_log_index + i \in 1 .. Len(log[First])
        BY <2>1, <2>2, <2>3, <2>5, SMTT(30) DEF FromFirst
      <4> QED
        BY <2>3, <2>5, <4>1 DEF FromFirst, Begins
    <3> QED
      BY <3>1, <3>2
  <2>6. FromFirst(m)'
    BY <2>3, <2>4, <2>5 DEF FromFirst
  <2> QED
    BY <1>2, <2>6 DEF OfFirst
<1> QED
  BY <1>1, <1>2 DEF OfFirst

\* A request of First's leaves behind a log that begins First's.
LEMMA AcceptedBegins ==
    ASSUME TypeInv, NEW n \in Node, NEW m \in AppendEntriesReq, FromFirst(m),
           Begins(log[n], log[First]), HasTermAt(log[n], m.prev_log_index, m.prev_log_term)
    PROVE  Begins(LogAfter(n, m), log[First])
<1> DEFINE l == log[n]
           k == log[First]
           b == m.prev_log_index
           es == m.entries
           r == LogAfter(n, m)
           c == PieceOfCall(m)
<1>1. CASE es = << >>
  BY <1>1 DEF LogAfter
<1>2. CASE es # << >>
  <2>1. Carries(m)
    BY <1>2 DEF Carries, AppendEntriesReq
  <2>2. r \in Seq(Entry) /\ IsJoin(PieceOfLog(r), PieceOfLog(l), c)
    BY <2>1, AcceptedIsJoin
  <2>3. /\ l \in Seq(Entry) /\ k \in Seq(Entry) /\ es \in Seq(Entry) /\ b \in Nat
    BY FirstAssumption DEF TypeInv, TypeOK, LogType, AppendEntriesReq, Node
  <2>4. Len(l) \in Nat /\ Len(k) \in Nat /\ Len(es) \in Nat /\ Len(r) \in Nat
    BY <2>2, <2>3, LenProperties
  <2>5. c.base = b /\ c.entries = es
    BY DEF PieceOfCall
  <2>6. Len(l) <= Len(k) /\ \A i \in 1 .. Len(l) : l[i] = k[i]
    BY DEF Begins
  <2>7. b + Len(es) <= Len(k) /\ \A i \in 1 .. Len(es) : es[i] = k[b + i]
    BY <1>2 DEF FromFirst
  <2>8. /\ Span(PieceOfLog(r)) = 0 .. Len(r) /\ Span(PieceOfLog(l)) = 0 .. Len(l)
        /\ \A i \in 1 .. Len(r) : EntryIn(PieceOfLog(r), i) = r[i]
        /\ \A i \in 1 .. Len(l) : EntryIn(PieceOfLog(l), i) = l[i]
        /\ PieceOfLog(l).base = 0
    BY <2>2, <2>3, LogAsPiece
  <2>9. Span(c) = b .. b + Len(es) /\ \A i \in b + 1 .. b + Len(es) : EntryIn(c, i) = es[i - b]
    BY <2>5 DEF Span, EntryIn
  <2> HIDE DEF l, k, b, es, r, c
  <2>10. ASSUME NEW i \in 1 .. Len(r) PROVE i <= Len(k) /\ r[i] = k[i]
    <3>1. i \in Span(PieceOfLog(r)) /\ i \in Nat /\ i > 0
      BY <2>4, <2>8
    <3>2. CASE i <= b
      <4>1. i \in Span(PieceOfLog(l)) /\ EntryIn(PieceOfLog(r), i) = EntryIn(PieceOfLog(l), i)
        BY <2>2, <2>5, <2>8, <3>1, <3>2 DEF IsJoin
      <4>2. i \in 1 .. Len(l)
        BY <2>4, <2>8, <3>1, <4>1
      <4> QED
        BY <2>4, <2>6, <2>8, <4>1, <4>2
    <3>3. CASE ~(i <= b)
      <4>1. i \in Span(c) /\ EntryIn(PieceOfLog(r), i) = EntryIn(c, i)
        BY <2>2, <2>5, <3>1, <3>3 DEF IsJoin
      <4>2. i \in b + 1 .. b + Len(es) /\ i - b \in 1 .. Len(es) /\ b + (i - b) = i
        BY <2>3, <2>4, <2>9, <3>1, <3>3, <4>1
      <4>3. r[i] = es[i - b] /\ es[i - b] = k[b + (i - b)]
        BY <2>7, <2>8, <2>9, <4>1, <4>2
      <4> QED
        BY <2>3, <2>4, <2>7, <4>2, <4>3
    <3> QED
      BY <3>2, <3>3
  <2>11. Len(r) <= Len(k)
    <3>1. Len(r) = 0 \/ Len(r) \in 1 .. Len(r)
      BY <2>4
    <3> QED
      BY <2>4, <2>10, <3>1
  <2>12. Begins(r, k)
    BY <2>10, <2>11 DEF Begins
  <2> QED
    BY <2>12 DEF r, k
<1> QED
  BY <1>1, <1>2

\* A round of First's: whatever it learns, it commits no less than before and sends on
\* what it has.
LEMMA RoundIsStable ==
    ASSUME TypeInv, TypeInv', StableInv, NEW mi \in [Node -> Nat],
           NEW rest \in SUBSET (Node \ {First}), NEW others, others \subseteq Message,
           \A x \in others : OfFirst(x),
           ReplicateNext(First, 1, mi, rest, others), ballot'[First] = 1
    PROVE  StableInv'
<1>1. First \in Node
  BY FirstAssumption DEF Node
<1>2. /\ log[First] \in Seq(Entry) /\ commit_index \in [Node -> Nat]
      /\ applied \in [Node -> Seq(Command)] /\ todo \in [Node -> SUBSET Node]
      /\ phase \in [Node -> {"idle", "elect", "replicate"}]
      /\ commit_index'[First] \in Nat
  BY <1>1 DEF TypeInv, TypeOK, LogType, DriverType
<1>3. UNCHANGED <<role, current_term, log>>
  BY DEF ReplicateNext, nodeVars
<1>4. /\ \/ commit_index' = commit_index /\ applied' = applied
         \/ /\ commit_index' = [commit_index EXCEPT ![First] = CommittedByMajority(First, mi)]
            /\ ApplyCommitted(First, log[First], CommittedByMajority(First, mi))
  BY DEF ReplicateNext
<1>5. /\ CommittedByMajority(First, mi) \in Nat
      /\ commit_index[First] <= CommittedByMajority(First, mi)
  <2>1. CommittedByMajority(First, mi) \in Nat
    BY <1>1, CommittedIsNat DEF TypeInv, TypeOK
  <2>2. CASE CommittedByMajority(First, mi) = commit_index[First]
    BY <1>1, <1>2, <2>1, <2>2
  <2>3. CASE /\ MajorityIndex(First, mi) > commit_index[First]
             /\ HasTermAt(log[First], MajorityIndex(First, mi), current_term[First])
             /\ CommittedByMajority(First, mi) =
                  CommitTo(log[First], commit_index[First], MajorityIndex(First, mi))
    <3> DEFINE i == MajorityIndex(First, mi)
    <3>1. Len(log[First]) \in Nat /\ DOMAIN log[First] = 1 .. Len(log[First])
      BY <1>2, LenProperties
    <3>2. i \in Nat
      BY <2>3, <3>1 DEF HasTermAt
    <3>3. log[First] \in Seq(Entry) /\ commit_index[First] \in Nat
      BY <1>1, <1>2
    <3> HIDE DEF i
    <3>4. commit_index[First] <= CommitTo(log[First], commit_index[First], i)
      BY <3>2, <3>3, CommitToBounds
    <3> QED
      BY <2>1, <2>3, <3>4 DEF i
  <2> QED
    BY <2>1, <2>2, <2>3 DEF CommittedByMajority
<1>6. /\ commit_index[First] <= commit_index'[First]
      /\ \A n \in Node \ {First} : commit_index'[n] = commit_index[n] /\ applied'[n] = applied[n]
      /\ Len(applied'[First]) <= commit_index'[First]
  <2>1. commit_index[First] \in Nat /\ Len(applied[First]) <= commit_index[First]
    BY <1>1, <1>2 DEF StableInv, AllTrail
  <2>2. CASE commit_index' = commit_index /\ applied' = applied
    BY <2>1, <2>2
  <2>3. CASE /\ commit_index' = [commit_index EXCEPT ![First] = CommittedByMajority(First, mi)]
             /\ ApplyCommitted(First, log[First], CommittedByMajority(First, mi))
    <3> DEFINE c == CommittedByMajority(First, mi)
    <3>1. /\ commit_index'[First] = c /\ applied'[First] = Applied(applied[First], log[First], c)
          /\ \A n \in Node \ {First} : commit_index'[n] = commit_index[n] /\ applied'[n] = applied[n]
      BY <1>1, <1>2, <2>3 DEF ApplyCommitted
    <3>2. Len(applied'[First]) \in {Len(applied[First]), c}
      BY <1>1, <1>2, <1>5, <3>1, AppliedLength
    <3>3. Len(applied[First]) \in Nat
      BY <1>1, <1>2, LenProperties
    <3> HIDE DEF c
    <3>4. c \in Nat /\ commit_index[First] <= c
      BY <1>5 DEF c
    <3> QED
      BY <2>1, <3>1, <3>2, <3>3, <3>4
  <2> QED
    BY <1>4, <2>2, <2>3
<1>7. AllTrail'
  <2>1. ASSUME NEW n \in Node
        PROVE  /\ Begins(log[n], log[First])
               /\ commit_index'[n] <= commit_index'[First]
               /\ Len(applied'[n]) <= commit_index'[First]
    <3>1. Begins(log[n], log[First])
      BY DEF StableInv, AllTrail
    <3>2. CASE n = First
      BY <1>2, <1>6, <3>1, <3>2
    <3>3. CASE n # First
      <4>1. /\ commit_index[n] <= commit_index[First] /\ Len(applied[n]) <= commit_index[First]
            /\ commit_index[n] \in Nat /\ commit_index[First] \in Nat /\ Len(applied[n]) \in Nat
        BY <1>1, <1>2, LenProperties DEF StableInv, AllTrail
      <4> QED
        BY <1>2, <1>6, <3>1, <3>3, <4>1
    <3> QED
      BY <3>2, <3>3
  <2> QED
    BY <1>3, <2>1 DEF AllTrail
<1>8. \A x \in net' : OfFirst(x)'
  <2>1. ASSUME NEW x \in Message, OfFirst(x) PROVE OfFirst(x)'
    <3>1. Len(log[First]) \in Nat
      BY <1>2, LenProperties
    <3>2. Begins(log[First], log'[First])
      BY <1>3, <3>1 DEF Begins
    <3> QED
      BY <1>2, <1>3, <1>6, <2>1, <3>1, <3>2, SentStays
  <2>2. CASE net' = others
    BY <2>1, <2>2
  <2>3. ASSUME NEW p \in rest, net' = others \cup {AppendEntriesTo(First, p, 1, mi)}
        PROVE  \A x \in net' : OfFirst(x)'
    <3>1. OfFirst(AppendEntriesTo(First, p, 1, mi))
      BY FirstSends
    <3>2. AppendEntriesTo(First, p, 1, mi) \in Message
      BY <2>3 DEF TypeInv, TypeOK
    <3> QED
      BY <2>1, <2>3, <3>1, <3>2
  <2> QED
    BY <2>2, <2>3 DEF ReplicateNext
<1>9. /\ First \notin todo'[First]
      /\ \A n \in Node \ {First} : phase'[n] = phase[n]
  BY <1>1, <1>2 DEF ReplicateNext
<1>10. FirstLeads'
  BY <1>3, <1>8, <1>9 DEF StableInv, FirstLeads
<1> QED
  BY <1>7, <1>10 DEF StableInv

\* A follower or learner takes in what First sent.
LEMMA AppendIsStable ==
    ASSUME TypeInv, TypeInv', StableInv, NEW n \in Node, NEW m \in net, HandleAppendEntries(n, m)
    PROVE  StableInv'
<1>1. First \in Node /\ First \notin Learner /\ Voter \subseteq Node
  BY FirstAssumption, LearnerAssumption DEF Node
<1>2. /\ m \in AppendEntriesReq /\ m.term \in Nat /\ m.prev_log_index \in Nat
      /\ m.leader_commit \in Nat
  BY DEF HandleAppendEntries, TypeInv, TypeOK, Message, RequestVoteReq, RequestVoteResp,
         AppendEntriesReq, AppendEntriesResp
<1>3. FromFirst(m) /\ m.to = n /\ n # First
  BY DEF HandleAppendEntries, StableInv, FirstLeads, OfFirst, FromFirst
<1>4. /\ log \in [Node -> Seq(Entry)] /\ commit_index \in [Node -> Nat]
      /\ applied \in [Node -> Seq(Command)] /\ role \in [Node -> {"Leader", "Follower", "Candidate", "Learner"}]
      /\ current_term \in [Node -> Nat]
  BY DEF TypeInv, TypeOK, LogType, RoleType, TermType
<1>5. /\ \A k \in Node \ {n} : role'[k] = role[k] /\ current_term'[k] = current_term[k]
      /\ role'[n] \in {"Follower", "Learner"} /\ current_term'[n] = 1
      /\ UNCHANGED <<phase, ballot, todo>>
  BY <1>3, <1>4 DEF HandleAppendEntries, FromFirst, driverVars
<1>6. \/ UNCHANGED <<log, commit_index, applied>>
      \/ /\ HasTermAt(log[n], m.prev_log_index, m.prev_log_term)
         /\ log' = [log EXCEPT ![n] = LogAfter(n, m)]
         /\ commit_index' = [commit_index EXCEPT ![n] = CommitAfter(n, m)]
         /\ applied' = [applied EXCEPT ![n] = Applied(@, LogAfter(n, m), CommitAfter(n, m))]
  BY DEF HandleAppendEntries, logVars, ApplyCommitted
<1>7. \A k \in Node \ {n} : /\ log'[k] = log[k] /\ commit_index'[k] = commit_index[k]
                            /\ applied'[k] = applied[k]
  BY <1>4, <1>6
<1>8. /\ Begins(log[n], log[First]) /\ commit_index[n] <= commit_index[First]
      /\ Len(applied[n]) <= commit_index[First]
  BY DEF StableInv, AllTrail
<1>9. /\ Begins(log'[n], log[First])
      /\ commit_index'[n] <= commit_index[First]
      /\ Len(applied'[n]) <= commit_index[First]
  <2>1. CASE UNCHANGED <<log, commit_index, applied>>
    BY <1>8, <2>1
  <2>2. CASE /\ HasTermAt(log[n], m.prev_log_index, m.prev_log_term)
             /\ log' = [log EXCEPT ![n] = LogAfter(n, m)]
             /\ commit_index' = [commit_index EXCEPT ![n] = CommitAfter(n, m)]
             /\ applied' = [applied EXCEPT ![n] = Applied(@, LogAfter(n, m), CommitAfter(n, m))]
    <3> DEFINE r == LogAfter(n, m)
               c == CommitAfter(n, m)
               low == IF m.entries = << >> THEN commit_index[n]
                      ELSE LesserOf(commit_index[n], m.prev_log_index)
    <3>1. /\ log'[n] = r /\ commit_index'[n] = c /\ applied'[n] = Applied(applied[n], r, c)
      BY <1>4, <2>2
    <3>2. r \in Seq(Entry) /\ c \in Nat /\ Begins(r, log[First])
      BY <1>2, <1>3, <1>8, <2>2, AcceptedBegins, AppendOutcomeTypes DEF TypeInv, TypeOK
    <3>3. low \in Nat /\ low <= commit_index[n]
      BY <1>2, <1>4, LesserOfNat
    <3>4. c = CommitTo(r, low, m.leader_commit)
      BY DEF CommitAfter
    <3> HIDE DEF r, c, low
    <3>5. c <= m.leader_commit \/ c = low
      BY <1>2, <3>2, <3>3, <3>4, CommitToBounds
    <3>6. /\ commit_index[n] \in Nat /\ commit_index[First] \in Nat
          /\ m.leader_commit <= commit_index[First]
      BY <1>1, <1>3, <1>4 DEF FromFirst
    <3>7. c <= commit_index[First]
      BY <1>2, <1>8, <3>2, <3>3, <3>5, <3>6
    <3>8. Len(applied'[n]) \in {Len(applied[n]), c}
      BY <1>4, <3>1, <3>2, AppliedLength
    <3> QED
      BY <1>8, <3>1, <3>2, <3>7, <3>8
  <2> QED
    BY <1>6, <2>1, <2>2
<1>10. AllTrail'
  BY <1>1, <1>3, <1>7, <1>9 DEF StableInv, AllTrail
<1>11. \A x \in net' : OfFirst(x)'
  <2>1. ASSUME NEW x \in net PROVE OfFirst(x)'
    <3>1. Len(log[First]) \in Nat /\ commit_index[First] \in Nat
      BY <1>1, <1>4, LenProperties
    <3>2. log'[First] = log[First] /\ commit_index'[First] = commit_index[First]
      BY <1>1, <1>3, <1>7
    <3>3. Begins(log[First], log'[First]) /\ commit_index[First] <= commit_index'[First]
      BY <3>1, <3>2 DEF Begins
    <3>4. OfFirst(x) /\ x \in Message
      BY DEF StableInv, FirstLeads, TypeInv, TypeOK
    <3> QED
      BY <3>1, <3>2, <3>3, <3>4, SentStays
  <2>2. ASSUME NEW x \in net', x \notin net PROVE OfFirst(x)'
    <3>1. x.kind = "AppendResult" /\ x.to = First /\ x.term = 1
      BY <1>3, <2>2 DEF HandleAppendEntries, Answer, FromFirst
    <3> QED
      BY <3>1 DEF OfFirst
  <2> QED
    BY <2>1, <2>2
<1>12. FirstLeads'
  <2>1. \A k \in Node : current_term'[k] <= 1
    BY <1>5 DEF StableInv, FirstLeads
  <2>2. \A k \in Voter : current_term'[k] = 1
    BY <1>1, <1>5 DEF StableInv, FirstLeads
  <2>3. role'[First] = "Leader"
    BY <1>1, <1>3, <1>5 DEF StableInv, FirstLeads
  <2>4. \A k \in Node \ {First} : role'[k] \in {"Follower", "Learner"} /\ phase'[k] = "idle"
    BY <1>5 DEF StableInv, FirstLeads
  <2> QED
    BY <1>5, <1>11, <2>1, <2>2, <2>3, <2>4 DEF StableInv, FirstLeads
<1> QED
  BY <1>10, <1>12 DEF StableInv

\* First's log grows by a command.
LEMMA ProposalIsStable ==
    ASSUME TypeInv, TypeInv', StableInv, NEW n \in Node, NEW c \in Command, Propose(n, c)
    PROVE  StableInv'
<1>1. n = First /\ First \in Node
  BY FirstAssumption DEF Propose, StableInv, FirstLeads, Node
<1>2. /\ log \in [Node -> Seq(Entry)] /\ log'[First] \in Seq(Entry) /\ commit_index[First] \in Nat
      /\ current_term[First] \in Nat
  BY <1>1 DEF TypeInv, TypeOK, LogType, TermType
<1>3. /\ log' = [log EXCEPT ![First] = Append(@, [term |-> current_term[First], cmd |-> c])]
      /\ UNCHANGED <<role, current_term, commit_index, applied, phase, ballot, todo, net>>
  BY <1>1 DEF Propose, nodeVars, driverVars
<1>4. Begins(log[First], log'[First])
  <2>1. [term |-> current_term[First], cmd |-> c] \in Entry
    BY <1>2 DEF Entry
  <2>2. log'[First] = Append(log[First], [term |-> current_term[First], cmd |-> c])
    BY <1>1, <1>2, <1>3
  <2> QED
    BY <1>1, <1>2, <2>1, <2>2, ProposedBegins
<1>5. Len(log'[First]) \in Nat /\ \A k \in Node : Len(log[k]) \in Nat
  BY <1>2, LenProperties
<1>6. \A x \in net' : OfFirst(x)'
  <2>1. \A x \in net : OfFirst(x) /\ x \in Message
    BY DEF StableInv, FirstLeads, TypeInv, TypeOK
  <2>2. commit_index'[First] \in Nat /\ commit_index[First] <= commit_index'[First]
    BY <1>2, <1>3
  <2>3. ASSUME NEW x \in net PROVE OfFirst(x)'
    BY <1>4, <1>5, <2>1, <2>2, SentStays
  <2> QED
    BY <1>3, <2>3
<1>7. \A k \in Node : Begins(log'[k], log'[First])
  <2> SUFFICES ASSUME NEW k \in Node PROVE Begins(log'[k], log'[First])
    OBVIOUS
  <2>1. CASE k = First
    BY <1>5, <2>1, BeginsIsAnOrder
  <2>2. CASE k # First
    <3>1. log'[k] = log[k]
      BY <1>2, <1>3, <2>2
    <3>2. Begins(log[k], log[First])
      BY DEF StableInv, AllTrail
    <3> QED
      BY <1>1, <1>4, <1>5, <3>1, <3>2, BeginsIsAnOrder
  <2> QED
    BY <2>1, <2>2
<1> QED
  BY <1>3, <1>6, <1>7 DEF StableInv, FirstLeads, AllTrail

\* Every step keeps First leading and everyone behind it.
LEMMA StableInvStep ==
    ASSUME MaxTerm = 1, TypeInv, StableInv, [Next]_vars
    PROVE  StableInv'
<1>0. TypeInv'
  BY TypeInvStep
<1>1. First \in Node /\ First \in Voter /\ First \notin Learner
  BY FirstAssumption, LearnerAssumption DEF Node
<1>2. /\ commit_index \in [Node -> Nat] /\ log \in [Node -> Seq(Entry)]
      /\ applied \in [Node -> Seq(Command)] /\ match_index \in [Node -> [Node -> Nat]]
      /\ todo \in [Node -> SUBSET Node] /\ net \subseteq Message
  BY DEF TypeInv, TypeOK, LogType, DriverType
<1>3. /\ role[First] = "Leader" /\ ballot[First] = 1 /\ current_term[First] = 1
      /\ \A n \in Node \ {First} : role[n] \in {"Follower", "Learner"} /\ phase[n] = "idle"
      /\ \A x \in net : OfFirst(x)
      /\ todo[First] \in SUBSET (Node \ {First})
  BY <1>1, <1>2 DEF StableInv, FirstLeads
<1>4. CASE UNCHANGED vars
  BY <1>4 DEF vars, nodeVars, logVars, driverVars, StableInv, FirstLeads, AllTrail, OfFirst, FromFirst
<1>5. ASSUME NEW n \in Node, StartElection(n) PROVE FALSE
  <2>1. n \in Voter
    BY <1>5 DEF StartElection, TypeInv, TypeOK, RoleType, Node
  <2> QED
    BY <1>5, <2>1 DEF StartElection, StableInv, FirstLeads
<1>6. ASSUME NEW n \in Node, StartReplicate(n) PROVE StableInv'
  <2>1. n = First
    BY <1>3, <1>6 DEF StartReplicate
  <2>2. /\ ballot'[First] = 1
        /\ ReplicateNext(First, 1, match_index[First], Peers(First) \cup Learner, net)
    BY <1>1, <1>3, <1>6, <2>1 DEF StartReplicate, TypeInv, TypeOK, DriverType
  <2>3. Peers(First) \cup Learner \in SUBSET (Node \ {First})
    BY <1>1 DEF Peers, Node
  <2> QED
    BY <1>0, <1>1, <1>2, <1>3, <2>2, <2>3, RoundIsStable
<1>7. ASSUME NEW n \in Node, IdleTick(n) PROVE StableInv'
  <2>1. n # First
    BY <1>3, <1>7 DEF IdleTick
  <2>2. /\ applied' = [applied EXCEPT ![n] = Applied(@, log[n], commit_index[n])]
        /\ UNCHANGED <<nodeVars, log, commit_index, driverVars, net>>
    BY <1>7 DEF IdleTick, ApplyCommitted
  <2>3. Len(applied'[n]) \in {Len(applied[n]), commit_index[n]}
    BY <1>2, <2>2, AppliedLength
  <2>4. \A k \in Node : Len(applied'[k]) <= commit_index[First]
    BY <1>2, <2>2, <2>3 DEF StableInv, AllTrail
  <2> QED
    BY <2>2, <2>4 DEF nodeVars, driverVars, StableInv, FirstLeads, AllTrail, OfFirst, FromFirst
<1>8. ASSUME NEW n \in Node, NEW m \in net, HandleAppendResult(n, m) PROVE StableInv'
  <2>1. /\ n = First /\ ~(m.term > 1) /\ m.match_index \in Nat
    <3>1. m \in AppendEntriesResp
      BY <1>2, <1>8 DEF HandleAppendResult, Message, RequestVoteReq, RequestVoteResp,
         AppendEntriesReq, AppendEntriesResp
    <3>2. m.to = First /\ m.term <= 1
      BY <1>3, <1>8 DEF HandleAppendResult, OfFirst
    <3> QED
      BY <1>8, <3>1, <3>2 DEF HandleAppendResult, AppendEntriesResp
  <2>2. ~StepDown(n, m)
    BY <1>3, <2>1 DEF StepDown
  <2>3. /\ ballot' = ballot
        /\ ReplicateNext(First, 1, MatchAfter(First, m), todo[First], net \ {m})
    BY <1>3, <1>8, <2>1, <2>2 DEF HandleAppendResult
  <2>4. MatchAfter(First, m) \in [Node -> Nat]
    <3>1. match_index[First] \in [Node -> Nat]
      BY <1>1, <1>2
    <3>2. \A i \in Nat : (IF m.success THEN m.match_index ELSE IF i = 0 THEN 0 ELSE i - 1) \in Nat
      BY <2>1
    <3> QED
      BY <3>1, <3>2 DEF MatchAfter
  <2>5. net \ {m} \subseteq Message /\ \A x \in net \ {m} : OfFirst(x)
    BY <1>2, <1>3
  <2> QED
    BY <1>0, <1>3, <2>3, <2>4, <2>5, RoundIsStable
<1>9. ASSUME NEW n \in Node, NEW m \in net,
             HandleVoteResult(n, m) \/ HandleRequestVote(n, m) \/ HandleStaleAppendEntries(n, m)
      PROVE  FALSE
  <2>1. m.kind = "AppendEntries" /\ m.term = 1 /\ HandleStaleAppendEntries(n, m)
    BY <1>3, <1>9 DEF HandleVoteResult, HandleRequestVote, HandleStaleAppendEntries, OfFirst, FromFirst
  <2>2. current_term[n] <= 1 /\ current_term[n] \in Nat
    BY DEF StableInv, FirstLeads, TypeInv, TypeOK, TermType
  <2> QED
    BY <2>1, <2>2 DEF HandleStaleAppendEntries
<1>10. ASSUME NEW n \in Node, NEW m \in net, NEW others, others \subseteq Message,
              \A x \in others : OfFirst(x), CallFails(n, m, others)
       PROVE  StableInv'
  <2>1. n = First /\ phase[n] # "elect"
    <3>1. CallOf(n, m) /\ (m.kind = "AppendEntries" \/ m.kind = "AppendResult")
      BY <1>3, <1>10 DEF CallFails, OfFirst
    <3>2. phase[n] = "replicate"
      BY <3>1 DEF TypeInv, CallsMatchLoops, LoopOf
    <3> QED
      BY <1>3, <3>2
  <2>2. ballot' = ballot /\ ReplicateNext(First, 1, match_index[First], todo[First], others)
    BY <1>3, <1>10, <2>1 DEF CallFails
  <2> QED
    BY <1>0, <1>1, <1>2, <1>3, <1>10, <2>2, RoundIsStable
<1>11. ASSUME NEW n \in Node, TransportStep(n) PROVE StableInv'
  <2>1. ASSUME NEW m \in net, CallLost(n, m) PROVE StableInv'
    <3>1. CallFails(n, m, net \ {m})
      BY <2>1 DEF CallLost, Lost
    <3>2. net \ {m} \subseteq Message /\ \A x \in net \ {m} : OfFirst(x)
      BY <1>2, <1>3
    <3> QED
      BY <1>10, <3>1, <3>2
  <2>2. ASSUME NEW m \in net, CallAbandoned(n, m) PROVE StableInv'
    <3>1. CallFails(n, m, Orphaned(m)) /\ IsRequest(m)
      BY <2>2 DEF CallAbandoned
    <3>2. Orphaned(m) \subseteq Message
      <4>1. CallOf(n, m)
        BY <3>1 DEF CallFails
      <4>2. FreedOf(n, Orphaned(m))
        BY <3>1, <4>1, OrphanIsNobodys
      <4> QED
        BY <4>2 DEF FreedOf
    <3>3. OfFirst([m EXCEPT !.live = FALSE])
      <4> DEFINE o == [m EXCEPT !.live = FALSE]
      <4>1. m \in AppendEntriesReq /\ FromFirst(m)
        BY <1>2, <1>3, <3>1 DEF OfFirst, IsRequest, Message, RequestVoteReq, RequestVoteResp,
           AppendEntriesReq, AppendEntriesResp
      <4>2. /\ o.kind = "AppendEntries" /\ o.from = m.from /\ o.to = m.to /\ o.term = m.term
            /\ o.leader_commit = m.leader_commit /\ o.entries = m.entries
            /\ o.prev_log_index = m.prev_log_index
        BY <4>1 DEF AppendEntriesReq
      <4> HIDE DEF o
      <4>3. OfFirst(o)
        BY <4>1, <4>2 DEF OfFirst, FromFirst
      <4> QED
        BY <4>3 DEF o
    <3>4. \A x \in Orphaned(m) : OfFirst(x)
      BY <1>3, <3>3 DEF Orphaned
    <3> QED
      BY <1>10, <3>1, <3>2, <3>4
  <2> QED
    BY <1>11, <2>1, <2>2 DEF TransportStep
<1>12. ASSUME NEW n \in Node, NEW m \in net, HandleAppendEntries(n, m) PROVE StableInv'
  BY <1>0, <1>12, AppendIsStable
<1>13. ASSUME NEW n \in Node, NEW c \in Command, Propose(n, c) PROVE StableInv'
  BY <1>0, <1>13, ProposalIsStable
<1> QED
  BY <1>4, <1>5, <1>6, <1>7, <1>8, <1>9, <1>11, <1>12, <1>13 DEF Next, DriverStep, HandlerStep,
     ClientStep

\* A log that begins another is a prefix of it.
LEMMA BeginsIsPrefix ==
    ASSUME NEW l \in Seq(Entry), NEW k \in Seq(Entry), Begins(l, k)
    PROVE  l = SubSeq(k, 1, Len(l))
<1> DEFINE e == Len(l)
           sq == SubSeq(k, 1, e)
<1>1. /\ e \in Nat /\ Len(k) \in Nat /\ e <= Len(k)
      /\ \A i \in 1 .. Len(k) : k[i] \in Entry
  BY ElementOfSeq, LenProperties DEF Begins
<1>2. \A i \in 1 .. e : k[i] \in Entry
  BY <1>1
<1>3. /\ sq \in Seq(Entry)
      /\ Len(sq) = IF 1 <= e THEN e - 1 + 1 ELSE 0
      /\ \A i \in 1 .. e - 1 + 1 : sq[i] = k[1 + i - 1]
  <2> HIDE DEF e
  <2> QED
    BY <1>1, <1>2, SubSeqProperties
<1>4. Len(sq) = e /\ \A i \in 1 .. e : sq[i] = k[i]
  <2> HIDE DEF e, sq
  <2>1. (e - 1) + 1 = e /\ \A i \in 1 .. e : (1 + i) - 1 = i
    BY <1>1
  <2> QED
    BY <1>1, <1>3, <2>1
<1>5. \A i \in 1 .. e : l[i] = sq[i]
  BY <1>4 DEF Begins
<1> HIDE DEF sq
<1>6. l = sq
  BY <1>3, <1>4, <1>5, SeqEqual
<1> QED
  BY <1>6 DEF sq

\* Under the one leader of sim.rs nobody is ever ahead of it, in any instance: every log is
\* the beginning of First's (node.rs:372 may cut it, never bend it), and nobody commits
\* or has applied what First has not committed.
THEOREM FollowersTrail == MaxTerm = 1 => (StableSpec => []FollowersTrailLeader)
<1> SUFFICES ASSUME MaxTerm = 1 PROVE StableSpec => []FollowersTrailLeader
  OBVIOUS
<1>1. ElectedInit => StableInv
  <2> SUFFICES ASSUME ElectedInit PROVE StableInv
    OBVIOUS
  <2>1. First \in Node /\ First \in Voter /\ First \notin Learner /\ Voter \cap Learner = {}
    BY FirstAssumption, LearnerAssumption DEF Node
  <2>2. FirstLeads
    BY <2>1 DEF ElectedInit, FirstLeads, Node
  <2>3. Len(<< >>) = 0
    BY EmptySeq
  <2>4. AllTrail
    BY <2>1, <2>3 DEF ElectedInit, AllTrail, Begins
  <2> QED
    BY <2>2, <2>4 DEF StableInv
<1>2. TypeInv /\ StableInv /\ [Next]_vars => StableInv'
  BY StableInvStep
<1>3. TypeInv /\ StableInv => FollowersTrailLeader
  <2> SUFFICES ASSUME TypeInv, StableInv, NEW n \in Node
               PROVE  /\ Len(log[n]) <= Len(log[First])
                      /\ log[n] = SubSeq(log[First], 1, Len(log[n]))
                      /\ commit_index[n] <= commit_index[First]
                      /\ Len(applied[n]) <= commit_index[First]
    BY DEF FollowersTrailLeader, LogsArePrefixes, CommitFollowsLeader
  <2>1. log[n] \in Seq(Entry) /\ log[First] \in Seq(Entry)
    BY FirstAssumption DEF TypeInv, TypeOK, LogType, Node
  <2>2. Begins(log[n], log[First])
    BY DEF StableInv, AllTrail
  <2> QED
    BY <2>1, <2>2, BeginsIsPrefix DEF StableInv, AllTrail, Begins
<1> QED
  BY <1>1, <1>2, <1>3, ElectedTypes, TypeInvStep, PTL DEF StableSpec
=============================================================================
