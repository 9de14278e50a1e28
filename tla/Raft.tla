-------------------------------- MODULE Raft --------------------------------
(***************************************************************************)
(* The consensus protocol of crates/aruaru-dist/src/raft: RaftNode         *)
(* (node.rs), ReplicatedLog (log.rs), RaftDriver (driver.rs) and the       *)
(* one-request-per-connection transport (binary_transport.rs).             *)
(*                                                                         *)
(* A step is what one task does between two suspension points: a driver    *)
(* runs from the end of one call to the start of the next one, a handler   *)
(* serves one request.  Each driver has at most one call outstanding.  A   *)
(* call may fail at its caller while the request is still on its way: it   *)
(* is then an orphan, served later with nobody waiting for the answer.     *)
(* Term, vote and log live in memory only; a node that stops is a node     *)
(* that takes no more steps.                                               *)
(***************************************************************************)
EXTENDS Naturals, Sequences, FiniteSets

CONSTANTS
    Voter,      \* nodes that vote: every node's own id plus its `peers`
    Learner,    \* nodes that only receive the log
    Command,    \* payloads, each proposed at most once
    None,       \* voted_for before a vote
    First,      \* a voter: the leader of StableSpec
    MaxTerm,    \* bound: no election starts at this term
    MaxFailure  \* bound: calls that fail at their caller

ASSUME VoterAssumption == IsFiniteSet(Voter) /\ Voter # {}
ASSUME LearnerAssumption == Learner \cap Voter = {}
ASSUME FirstAssumption == First \in Voter
ASSUME NoneAssumption == None \notin Voter
ASSUME BoundAssumption == MaxTerm \in Nat /\ MaxFailure \in Nat

Node == Voter \cup Learner
Peers(n) == Voter \ {n}

VARIABLES
    role, current_term, voted_for,  \* RaftState, under the `state` lock
    log, commit_index,              \* ReplicatedLog, under the `log` lock
    applied,                        \* commands the applier has received, in order
    match_index,                    \* leader's view of each node's log
    phase,                          \* what the node's driver is in the middle of
    ballot,                         \* the term that loop was started with
    position,                       \* end of the log when the election started
    todo,                           \* nodes that loop has still to call
    votes,                          \* voters that granted the latest election
    net,                            \* requests and answers on their way
    issued,                         \* commands already proposed
    failures                        \* calls that have failed

nodeVars == <<role, current_term, voted_for>>
logVars == <<log, commit_index, applied>>
driverVars == <<match_index, phase, ballot, position, todo, votes>>
vars == <<nodeVars, logVars, driverVars, net, issued, failures>>
-----------------------------------------------------------------------------
(***************************************************************************)
(* ReplicatedLog.                                                          *)
(***************************************************************************)
Entry == [term : Nat, cmd : Command]

LesserOf(a, b) == IF a < b THEN a ELSE b

LastTerm(l) == IF l = << >> THEN 0 ELSE l[Len(l)].term

\* term_at: 0 is the sentinel before the first entry; no entry is no match.
HasTermAt(l, i, t) == IF i = 0 THEN t = 0 ELSE i \in DOMAIN l /\ l[i].term = t

TermOrZero(l, i) == IF i \in DOMAIN l THEN l[i].term ELSE 0

EntriesFrom(l, i) == SubSeq(l, i, Len(l))

\* Variant: the entry at the index survives the cut.
TruncateAfter(l, i) == SubSeq(l, 1, LesserOf(i, Len(l)))

TruncateFrom(l, i) == SubSeq(l, 1, LesserOf(i - 1, Len(l)))

\* commit_to never exceeds the log and never goes back.
CommitTo(l, c, i) == IF LesserOf(i, Len(l)) > c THEN LesserOf(i, Len(l)) ELSE c

\* apply_committed: what the applier has received once it has caught up.
Applied(done, l, c) ==
    IF c > Len(done) /\ c <= Len(l)
    THEN done \o [i \in 1 .. c - Len(done) |-> l[Len(done) + i].cmd]
    ELSE done
-----------------------------------------------------------------------------
(***************************************************************************)
(* Messages.  `live` is FALSE once the caller has given up on the request. *)
(***************************************************************************)
RequestVoteReq ==
    [kind : {"RequestVote"}, from : Voter, to : Voter, term : Nat,
     last_log_index : Nat, last_log_term : Nat, live : BOOLEAN]
RequestVoteResp ==
    [kind : {"VoteResult"}, from : Voter, to : Voter, term : Nat, granted : BOOLEAN]
AppendEntriesReq ==
    [kind : {"AppendEntries"}, from : Voter, to : Node, term : Nat,
     prev_log_index : Nat, prev_log_term : Nat, entries : Seq(Entry),
     leader_commit : Nat, live : BOOLEAN]
AppendEntriesResp ==
    [kind : {"AppendResult"}, from : Node, to : Voter, term : Nat,
     success : BOOLEAN, match_index : Nat]
Message == RequestVoteReq \cup RequestVoteResp \cup AppendEntriesReq \cup AppendEntriesResp

IsRequest(m) == m.kind \in {"RequestVote", "AppendEntries"}
CallOf(n, m) == IF IsRequest(m) THEN m.live /\ m.from = n ELSE m.to = n

\* A handler consumes its request and answers only a caller that still waits.
Answer(req, resp) == net' = (net \ {req}) \cup (IF req.live THEN {resp} ELSE {})
-----------------------------------------------------------------------------
Init ==
    /\ role = [n \in Node |-> IF n \in Learner THEN "Learner" ELSE "Follower"]
    /\ current_term = [n \in Node |-> 0]
    /\ voted_for = [n \in Node |-> None]
    /\ log = [n \in Node |-> << >>]
    /\ commit_index = [n \in Node |-> 0]
    /\ applied = [n \in Node |-> << >>]
    /\ match_index = [n \in Node |-> [p \in Node |-> 0]]
    /\ phase = [n \in Node |-> "idle"]
    /\ ballot = [n \in Node |-> 0]
    /\ position = [n \in Node |-> [index |-> 0, term |-> 0]]
    /\ todo = [n \in Node |-> {}]
    /\ votes = [n \in Node |-> {}]
    /\ net = {}
    /\ issued = {}
    /\ failures = 0
-----------------------------------------------------------------------------
(***************************************************************************)
(* Elections (driver.rs start_election, node.rs request_vote).             *)
(***************************************************************************)
IsMajority(S) == Cardinality(S) > Cardinality(Voter) \div 2

RequestVoteTo(n, p, t, pos) ==
    [kind |-> "RequestVote", from |-> n, to |-> p, term |-> t,
     last_log_index |-> pos.index, last_log_term |-> pos.term, live |-> TRUE]

\* The apply_committed at the end of every tick and of every accepted request.
ApplyCommitted(n, l, c) == applied' = [applied EXCEPT ![n] = Applied(@, l, c)]

\* One turn of the loop over the peers: call the next one, or count the votes v,
\* become_leader if nobody deposed us, and end the tick.  r is the role so far.
PollNext(n, r, v, rest, others) ==
    /\ votes' = [votes EXCEPT ![n] = v]
    /\ \/ \E p \in rest :
            /\ phase' = [phase EXCEPT ![n] = "elect"]
            /\ todo' = [todo EXCEPT ![n] = rest \ {p}]
            /\ net' = others \cup {RequestVoteTo(n, p, ballot'[n], position'[n])}
            /\ role' = [role EXCEPT ![n] = r]
            /\ UNCHANGED <<match_index, applied>>
       \/ /\ rest = {}
          /\ phase' = [phase EXCEPT ![n] = "idle"]
          /\ todo' = [todo EXCEPT ![n] = {}]
          /\ net' = others
          /\ ApplyCommitted(n, log[n], commit_index[n])
          /\ IF IsMajority(v) /\ r = "Candidate"
             THEN /\ role' = [role EXCEPT ![n] = "Leader"]
                  /\ match_index' = [match_index EXCEPT ![n] = [p \in Node |-> 0]]
             ELSE /\ role' = [role EXCEPT ![n] = r]
                  /\ UNCHANGED match_index

\* A follower's or candidate's election timer fires.  Nothing on the receiving
\* side of AppendEntries resets that timer, so it may fire under a healthy leader.
StartElection(n) ==
    /\ phase[n] = "idle"
    /\ role[n] \in {"Follower", "Candidate"}
    /\ current_term[n] < MaxTerm
    /\ current_term' = [current_term EXCEPT ![n] = @ + 1]
    /\ voted_for' = [voted_for EXCEPT ![n] = n]
    /\ ballot' = [ballot EXCEPT ![n] = current_term[n] + 1]
    /\ position' = [position EXCEPT ![n] =
                      [index |-> Len(log[n]), term |-> LastTerm(log[n])]]
    /\ PollNext(n, "Candidate", {n}, Peers(n), net)
    /\ UNCHANGED <<log, commit_index, issued, failures>>

LogUpToDate(m, l) ==
    \/ m.last_log_term > LastTerm(l)
    \/ m.last_log_term = LastTerm(l) /\ m.last_log_index >= Len(l)

\* Variant: the vote is also forgotten when the term is the same.
VoteForgotten(n, t) == IF t >= current_term[n] THEN None ELSE voted_for[n]

\* The vote this node holds in the term of the request.
VoteInTerm(n, t) == IF t > current_term[n] THEN None ELSE voted_for[n]

\* Variant: voted_for is not consulted.
GrantsToAnyone(n, m) ==
    /\ m.term >= current_term[n]
    /\ LogUpToDate(m, log[n])

Grants(n, m) ==
    /\ m.term >= current_term[n]
    /\ VoteInTerm(n, m.term) \in {None, m.from}
    /\ LogUpToDate(m, log[n])

HandleRequestVote(n, m) ==
    /\ m.kind = "RequestVote"
    /\ m.to = n
    /\ IF m.term > current_term[n]
       THEN /\ current_term' = [current_term EXCEPT ![n] = m.term]
            /\ role' = [role EXCEPT ![n] = "Follower"]
       ELSE UNCHANGED <<current_term, role>>
    /\ voted_for' = [voted_for EXCEPT ![n] =
                       IF Grants(n, m) THEN m.from ELSE VoteInTerm(n, m.term)]
    /\ Answer(m, [kind |-> "VoteResult", from |-> n, to |-> m.from,
                  term |-> current_term'[n], granted |-> Grants(n, m)])
    /\ UNCHANGED <<logVars, driverVars, issued, failures>>

\* become_follower as a driver calls it on an answer from a later term; the loop
\* over the peers ends there, and the tick with apply_committed (maybe_commit does
\* nothing for a follower).
StepDown(n, m) ==
    /\ m.term > ballot[n]
    /\ role' = [role EXCEPT ![n] = "Follower"]
    /\ current_term' = [current_term EXCEPT ![n] = IF m.term > @ THEN m.term ELSE @]
    /\ voted_for' = [voted_for EXCEPT ![n] = IF m.term > current_term[n] THEN None ELSE @]
    /\ phase' = [phase EXCEPT ![n] = "idle"]
    /\ todo' = [todo EXCEPT ![n] = {}]
    /\ net' = net \ {m}
    /\ ApplyCommitted(n, log[n], commit_index[n])
    /\ UNCHANGED <<log, commit_index, match_index, ballot, position, votes, issued, failures>>

HandleVoteResult(n, m) ==
    /\ m.kind = "VoteResult"
    /\ m.to = n
    /\ \/ StepDown(n, m)
       \/ /\ m.term <= ballot[n]
          /\ UNCHANGED <<current_term, voted_for, ballot, position, log, commit_index,
                         issued, failures>>
          /\ PollNext(n, role[n], IF m.granted THEN votes[n] \cup {m.from} ELSE votes[n],
                      todo[n], net \ {m})
-----------------------------------------------------------------------------
(***************************************************************************)
(* Proposals and replication (node.rs propose, build_append_for,           *)
(* append_entries, maybe_commit, apply_committed; driver.rs replicate).    *)
(***************************************************************************)
Propose(n, c) ==
    /\ role[n] = "Leader"
    /\ c \notin issued
    /\ issued' = issued \cup {c}
    /\ log' = [log EXCEPT ![n] = Append(@, [term |-> current_term[n], cmd |-> c])]
    /\ UNCHANGED <<nodeVars, commit_index, applied, driverVars, net, failures>>

\* Variant: match_index is read as the index of the next entry to send.
AppendEntriesFromNext(n, p, t, mi) ==
    [kind |-> "AppendEntries", from |-> n, to |-> p, term |-> t,
     prev_log_index |-> mi[p] - 1, prev_log_term |-> TermOrZero(log[n], mi[p]),
     entries |-> EntriesFrom(log[n], mi[p] + 1),
     leader_commit |-> commit_index[n], live |-> TRUE]

\* build_append_for: the rest of the log after the peer's match_index.
AppendEntriesTo(n, p, t, mi) ==
    [kind |-> "AppendEntries", from |-> n, to |-> p, term |-> t,
     prev_log_index |-> mi[p], prev_log_term |-> TermOrZero(log[n], mi[p]),
     entries |-> EntriesFrom(log[n], mi[p] + 1),
     leader_commit |-> commit_index[n], live |-> TRUE]

\* maybe_commit: the highest index that a majority of voters is thought to hold.
\* The code sorts the indices in descending order and takes the middle one.
MatchOf(n, v, mi) == IF v = n THEN Len(log[n]) ELSE mi[v]

MajorityIndex(n, mi) ==
    CHOOSE i \in {MatchOf(n, v, mi) : v \in Voter} :
        /\ IsMajority({v \in Voter : MatchOf(n, v, mi) >= i})
        /\ ~IsMajority({v \in Voter : MatchOf(n, v, mi) > i})

CommittedByMajority(n, mi) ==
    LET i == MajorityIndex(n, mi) IN
    IF role[n] = "Leader" /\ i > commit_index[n] /\ HasTermAt(log[n], i, current_term[n])
    THEN CommitTo(log[n], commit_index[n], i)
    ELSE commit_index[n]

\* One turn of replicate()'s loop: call the next node, or end the round with
\* maybe_commit and apply_committed.  The role is not read again before a call: a
\* node deposed in mid-round goes on sending under the term t of the round.
ReplicateNext(n, t, mi, rest, others) ==
    /\ match_index' = [match_index EXCEPT ![n] = mi]
    /\ \/ \E p \in rest :
            /\ phase' = [phase EXCEPT ![n] = "replicate"]
            /\ todo' = [todo EXCEPT ![n] = rest \ {p}]
            /\ net' = others \cup {AppendEntriesTo(n, p, t, mi)}
            /\ UNCHANGED <<commit_index, applied>>
       \/ /\ rest = {}
          /\ phase' = [phase EXCEPT ![n] = "idle"]
          /\ todo' = [todo EXCEPT ![n] = {}]
          /\ net' = others
          /\ commit_index' = [commit_index EXCEPT ![n] = CommittedByMajority(n, mi)]
          /\ ApplyCommitted(n, log[n], CommittedByMajority(n, mi))
    /\ UNCHANGED <<nodeVars, log, position, votes, issued>>

\* A leader's tick: replicate() captures the term once for the whole round.
StartReplicate(n) ==
    /\ phase[n] = "idle"
    /\ role[n] = "Leader"
    /\ ballot' = [ballot EXCEPT ![n] = current_term[n]]
    /\ ReplicateNext(n, current_term[n], match_index[n], Peers(n) \cup Learner, net)
    /\ UNCHANGED failures

\* append_entries refused for its term; nothing changes.
HandleStaleAppendEntries(n, m) ==
    /\ m.kind = "AppendEntries"
    /\ m.to = n
    /\ m.term < current_term[n]
    /\ Answer(m, [kind |-> "AppendResult", from |-> n, to |-> m.from,
                  term |-> current_term[n], success |-> FALSE, match_index |-> 0])
    /\ UNCHANGED <<nodeVars, logVars, driverVars, issued, failures>>

\* Variant: the entries are appended behind whatever the log holds.
LogAppended(n, m) == log[n] \o m.entries

\* The log and commit index after append_entries accepted m.  A request with
\* entries always cuts the log after prev_log_index, conflict or not; the commit
\* index falls with the log and then follows leader_commit.
LogAfter(n, m) ==
    IF m.entries = << >> THEN log[n]
    ELSE TruncateFrom(log[n], m.prev_log_index + 1) \o m.entries

\* Variant: all that was received counts as committed.
CommitReceived(n, m) == Len(LogAfter(n, m))

CommitAfter(n, m) ==
    CommitTo(LogAfter(n, m),
             IF m.entries = << >> THEN commit_index[n]
             ELSE LesserOf(commit_index[n], m.prev_log_index),
             m.leader_commit)

\* append_entries of a current term, then apply_committed.  voted_for is kept
\* when the term rises.
HandleAppendEntries(n, m) ==
    /\ m.kind = "AppendEntries"
    /\ m.to = n
    /\ m.term >= current_term[n]
    /\ current_term' = [current_term EXCEPT ![n] = m.term]
    /\ role' = [role EXCEPT ![n] = IF n \in Learner THEN "Learner" ELSE "Follower"]
    /\ \/ /\ HasTermAt(log[n], m.prev_log_index, m.prev_log_term)
          /\ log' = [log EXCEPT ![n] = LogAfter(n, m)]
          /\ commit_index' = [commit_index EXCEPT ![n] = CommitAfter(n, m)]
          /\ ApplyCommitted(n, LogAfter(n, m), CommitAfter(n, m))
          /\ Answer(m, [kind |-> "AppendResult", from |-> n, to |-> m.from,
                        term |-> m.term, success |-> TRUE,
                        match_index |-> Len(LogAfter(n, m))])
       \/ /\ ~HasTermAt(log[n], m.prev_log_index, m.prev_log_term)
          /\ UNCHANGED logVars
          /\ Answer(m, [kind |-> "AppendResult", from |-> n, to |-> m.from,
                        term |-> m.term, success |-> FALSE, match_index |-> 0])
    /\ UNCHANGED <<voted_for, driverVars, issued, failures>>

\* Variant: a mismatch leaves match_index where it is.
MatchNotMovedBack(n, m) ==
    [match_index[n] EXCEPT ![m.from] = IF m.success THEN m.match_index ELSE @]

\* update_match with the follower's last_index, or one step back on a mismatch.
MatchAfter(n, m) ==
    [match_index[n] EXCEPT ![m.from] =
        IF m.success THEN m.match_index ELSE IF @ = 0 THEN 0 ELSE @ - 1]

HandleAppendResult(n, m) ==
    /\ m.kind = "AppendResult"
    /\ m.to = n
    /\ \/ StepDown(n, m)
       \/ /\ m.term <= ballot[n]
          /\ UNCHANGED <<ballot, failures>>
          /\ ReplicateNext(n, ballot[n], MatchAfter(n, m), todo[n], net \ {m})

\* A tick that only applies what is committed: a learner's, or a follower's whose
\* timer has not fired.
IdleTick(n) ==
    /\ phase[n] = "idle"
    /\ role[n] # "Leader"
    /\ ApplyCommitted(n, log[n], commit_index[n])
    /\ UNCHANGED <<nodeVars, log, commit_index, driverVars, net, issued, failures>>
-----------------------------------------------------------------------------
(***************************************************************************)
(* Transport: a call fails at its caller, which goes on with the next      *)
(* node.  The request or the answer is lost, or the request is orphaned.   *)
(***************************************************************************)
Lost(m) == net \ {m}

Orphaned(m) == (net \ {m}) \cup {[m EXCEPT !.live = FALSE]}

CallFails(n, m, others) ==
    /\ CallOf(n, m)
    /\ failures < MaxFailure
    /\ failures' = failures + 1
    /\ UNCHANGED <<ballot, issued>>
    /\ \/ /\ phase[n] = "elect"
          /\ UNCHANGED <<current_term, voted_for, position, log, commit_index>>
          /\ PollNext(n, role[n], votes[n], todo[n], others)
       \/ /\ phase[n] = "replicate"
          /\ ReplicateNext(n, ballot[n], match_index[n], todo[n], others)

CallLost(n, m) == CallFails(n, m, Lost(m))

CallAbandoned(n, m) ==
    /\ IsRequest(m)
    /\ CallFails(n, m, Orphaned(m))
-----------------------------------------------------------------------------
DriverStep(n) ==
    \/ StartElection(n)
    \/ StartReplicate(n)
    \/ IdleTick(n)
    \/ \E m \in net : HandleVoteResult(n, m) \/ HandleAppendResult(n, m)

HandlerStep(n) ==
    \E m \in net :
        \/ HandleRequestVote(n, m)
        \/ HandleStaleAppendEntries(n, m)
        \/ HandleAppendEntries(n, m)

TransportStep(n) == \E m \in net : CallLost(n, m) \/ CallAbandoned(n, m)

ClientStep(n) == \E c \in Command : Propose(n, c)

Next == \E n \in Node : DriverStep(n) \/ HandlerStep(n) \/ TransportStep(n) \/ ClientStep(n)

Spec == Init /\ [][Next]_vars
-----------------------------------------------------------------------------
\* A learner stays one: it is never asked for a vote and never gets an answer.
RoleType ==
    /\ role \in [Node -> {"Leader", "Follower", "Candidate", "Learner"}]
    /\ \A n \in Node : role[n] = "Learner" <=> n \in Learner

TermType ==
    /\ current_term \in [Node -> Nat]
    /\ voted_for \in [Node -> Voter \cup {None}]

LogType ==
    /\ log \in [Node -> Seq(Entry)]
    /\ commit_index \in [Node -> Nat]
    /\ applied \in [Node -> Seq(Command)]

DriverType ==
    /\ match_index \in [Node -> [Node -> Nat]]
    /\ phase \in [Node -> {"idle", "elect", "replicate"}]
    /\ ballot \in [Node -> Nat]
    /\ position \in [Node -> [index : Nat, term : Nat]]
    /\ todo \in [Node -> SUBSET Node]
    /\ votes \in [Node -> SUBSET Voter]

\* Every variable has its type, and every message one of the four shapes.
TypeOK ==
    /\ RoleType
    /\ TermType
    /\ LogType
    /\ DriverType
    /\ net \subseteq Message
    /\ issued \subseteq Command
    /\ failures \in Nat
-----------------------------------------------------------------------------
(***************************************************************************)
(* Safety of elections and of the log, whatever calls fail or arrive late. *)
(***************************************************************************)

\* Election safety (request_vote, node.rs:221): two leaders never share a term,
\* however elections, late vote requests and step-downs interleave.
ElectionSafety ==
    \A m, n \in Node :
        role[m] = "Leader" /\ role[n] = "Leader" /\ current_term[m] = current_term[n]
            => m = n

\* A vote, once given in a term, is never given to another candidate of that term,
\* although append_entries raises the term and leaves voted_for as it was.
VoteIsFinal ==
    [][\A n \in Node :
         current_term'[n] = current_term[n] /\ voted_for[n] # None
             => voted_for'[n] = voted_for[n]]_vars

\* Log Matching (log.rs:4, sim.rs:186): two logs that agree on the term at an index
\* agree on every entry up to it, even after truncations by late requests.
LogMatching ==
    \A m, n \in Node : \A i \in DOMAIN log[m] \cap DOMAIN log[n] :
        log[m][i].term = log[n][i].term
            => \A j \in 1 .. i : log[m][j] = log[n][j]

\* In its own term a leader stays leader and only appends: no request of that
\* term, late or orphaned, deposes it (node.rs:333) or cuts its log (node.rs:372).
LeaderAppendOnly ==
    [][\A n \in Node :
         role[n] = "Leader" /\ current_term'[n] = current_term[n]
             => /\ role'[n] = "Leader"
                /\ Len(log'[n]) >= Len(log[n])
                /\ SubSeq(log'[n], 1, Len(log[n])) = log[n]]_vars

\* Terms never fall along a log, although a deposed leader that is still in a
\* round of replicate() spreads later entries under its own, earlier term.
TermsOrdered ==
    \A n \in Node : \A i, j \in DOMAIN log[n] :
        i <= j => log[n][i].term <= log[n][j].term

\* What the logs owe each other and themselves, after any truncation and late request.
LogsAgree == LogMatching /\ TermsOrdered

\* State machine safety, as sim.rs:37-38 promises it: whatever the order and timing
\* of messages, two nodes never apply different commands at the same index.
StateMachineSafety ==
    \A m, n \in Node : \A i \in DOMAIN applied[m] \cap DOMAIN applied[n] :
        applied[m][i] = applied[n][i]

\* Commit by majority, as maybe_commit states it (node.rs:269-271): what a leader
\* newly commits is at that moment in the logs of a majority of the voters.
CommitOnMajority ==
    [][\A n \in Node :
         role'[n] = "Leader" /\ commit_index'[n] > commit_index[n]
             => LET i == commit_index'[n] IN
                IsMajority({v \in Voter : i \in DOMAIN log[v] /\ log[v][i] = log[n][i]})]_vars
-----------------------------------------------------------------------------
(***************************************************************************)
(* The setting of sim.rs: from the moment voter First has won the election *)
(* of term 1 with every vote, with the driver's own calls in place of the  *)
(* simulated queue.  With MaxTerm = 1 nobody campaigns again and First     *)
(* leads for good.                                                         *)
(***************************************************************************)
ElectedInit ==
    /\ role = [n \in Node |-> CASE n = First -> "Leader"
                                [] n \in Learner -> "Learner"
                                [] OTHER -> "Follower"]
    /\ current_term = [n \in Node |-> IF n \in Voter THEN 1 ELSE 0]
    /\ voted_for = [n \in Node |-> IF n \in Voter THEN First ELSE None]
    /\ log = [n \in Node |-> << >>]
    /\ commit_index = [n \in Node |-> 0]
    /\ applied = [n \in Node |-> << >>]
    /\ match_index = [n \in Node |-> [p \in Node |-> 0]]
    /\ phase = [n \in Node |-> "idle"]
    /\ ballot = [n \in Node |-> IF n = First THEN 1 ELSE 0]
    /\ position = [n \in Node |-> [index |-> 0, term |-> 0]]
    /\ todo = [n \in Node |-> {}]
    /\ votes = [n \in Node |-> IF n = First THEN Voter ELSE {}]
    /\ net = {}
    /\ issued = {}
    /\ failures = 0

\* The leader's loop keeps ticking and each task that can run does run: a request
\* on its way is served, an answer is consumed.  Failures are not required.
Fairness ==
    /\ WF_vars(StartReplicate(First))
    /\ WF_vars(\E m \in net : HandleAppendResult(First, m))
    /\ \A n \in Node : WF_vars(HandlerStep(n))

StableSpec == ElectedInit /\ [][Next]_vars /\ Fairness
-----------------------------------------------------------------------------
\* Under one leader every log is a prefix of the leader's, however late a request
\* arrives: sim.rs:310-326 compares only the committed part.
LogsArePrefixes ==
    \A n \in Node :
        /\ Len(log[n]) <= Len(log[First])
        /\ log[n] = SubSeq(log[First], 1, Len(log[n]))

\* No node commits, or has applied, past what the leader has committed.
CommitFollowsLeader ==
    \A n \in Node :
        /\ commit_index[n] <= commit_index[First]
        /\ Len(applied[n]) <= commit_index[First]

\* Nobody is ahead of the one leader, in its log or in what it commits and applies: late requests
\* may shorten a follower's log, but never let it keep or commit an entry of its own.
FollowersTrailLeader == LogsArePrefixes /\ CommitFollowsLeader

\* Replication converges: whatever calls failed and whatever a late request cut
\* off, each proposed command is in the end applied by every voter and learner.
EveryoneApplies ==
    \A c \in Command : \A n \in Node :
        c \in issued ~> \E i \in DOMAIN applied[n] : applied[n][i] = c
=============================================================================
