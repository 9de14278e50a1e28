----------------------------- MODULE WalStorage -----------------------------
(***************************************************************************)
(* The separated storage of crates/aruaru-dist/src/wal_service.rs:         *)
(* safekeepers, the WAL service that counts what a quorum has flushed, and *)
(* the pageserver that replays it.                                         *)
(*                                                                         *)
(* One DisaggregatedStorage serves every GraphQL request at once           *)
(* (admin_resolvers.rs:1522, 1555), so `write` and `create_image_layer`    *)
(* run concurrently.  A step is one critical section: each field has a     *)
(* lock of its own, and nothing is locked from one to the next.            *)
(*                                                                         *)
(* There is one page, and every delta appends to it, the kind of delta     *)
(* that hides no other: its bytes are the set of records they came from.   *)
(***************************************************************************)
EXTENDS Naturals, Sequences, FiniteSets

CONSTANTS
    N,                    \* number of safekeepers
    Writer,               \* requests that append a batch, one each
    Compactor,            \* requests that create image layers
    max_replication_lag,
    MaxLsn,               \* bound: the highest LSN a request asks for
    MaxBatch,             \* bound: records in a request, which may be empty
    MaxTerm               \* bound: no proposer starts after this term

ASSUME NAssumption == N \in Nat \ {0}
ASSUME BoundAssumption ==
    max_replication_lag \in Nat /\ MaxLsn \in Nat /\ MaxBatch \in Nat /\ MaxTerm \in Nat

Safekeeper == 1 .. N
Quorum == N \div 2 + 1
Lsn == 1 .. MaxLsn + MaxBatch
Record == [lsn : Lsn, by : Writer]

VARIABLES
    accepted_term, wal,                \* of each safekeeper
    term, commit_lsn,                  \* WalService: the proposer's term, the quorum's LSN
    storage_term,                      \* DisaggregatedStorage: the term writes are sent under
    greeting, started,                 \* start_proposer: how far it is; terms it has returned
    last_record_lsn, image, deltas,    \* Pageserver
    draft,                             \* the image each compactor has materialized
    pc,                                \* what each writer does next
    batch, my_term, at, acked, flushed,  \* locals of append and recompute_commit_lsn
    after, up_to, received             \* locals of check_replication_lag and ingest

safekeeperVars == <<accepted_term, wal>>
proposerVars == <<term, storage_term, greeting, started>>
pageVars == <<last_record_lsn, image, deltas>>
appendVars == <<batch, my_term, at, acked, flushed>>
ingestVars == <<after, up_to, received>>
vars == <<safekeeperVars, proposerVars, commit_lsn, pageVars, draft, pc, appendVars, ingestVars>>
-----------------------------------------------------------------------------
LsnsOf(S) == {r.lsn : r \in S}

\* The highest LSN in a set of records, 0 when there is none.
LastLsn(S) ==
    IF S = {} THEN 0 ELSE CHOOSE l \in LsnsOf(S) : \A m \in LsnsOf(S) : m <= l

GreaterOf(a, b) == IF a > b THEN a ELSE b

FlushLsn(s) == LastLsn(wal[s])

\* BTreeMap::insert: a record replaces the one at its LSN.
Inserted(S, new) == {r \in S : r.lsn \notin LsnsOf(new)} \cup new

Image(l, S) == [lsn |-> l, recs |-> S]

\* DisaggregatedStorage::new: the first proposer has greeted everyone.
Init ==
    /\ accepted_term = [s \in Safekeeper |-> 1]
    /\ wal = [s \in Safekeeper |-> {}]
    /\ term = 1 /\ storage_term = 1 /\ greeting = 0 /\ started = {}
    /\ commit_lsn = 0
    /\ last_record_lsn = 0 /\ image = Image(0, {}) /\ deltas = {}
    /\ draft = [c \in Compactor |-> Image(0, {})]
    /\ pc = [w \in Writer |-> "idle"]
    /\ batch = [w \in Writer |-> {}]
    /\ my_term = [w \in Writer |-> 0]
    /\ at = [w \in Writer |-> 1]
    /\ acked = [w \in Writer |-> {}]
    /\ flushed = [w \in Writer |-> << >>]
    /\ after = [w \in Writer |-> 0]
    /\ up_to = [w \in Writer |-> 0]
    /\ received = [w \in Writer |-> {}]
-----------------------------------------------------------------------------
(***************************************************************************)
(* restart_proposer.  start_proposer keeps the lock on `term` throughout:  *)
(* `greeting` is the safekeeper it calls next, 0 when nobody holds it.     *)
(***************************************************************************)
NewTerm ==
    LET highest == CHOOSE t \in {accepted_term[s] : s \in Safekeeper} :
                       \A s \in Safekeeper : accepted_term[s] <= t
    IN GreaterOf(highest, term) + 1

StartProposer ==
    /\ greeting = 0
    /\ term < MaxTerm
    /\ term' = NewTerm
    /\ greeting' = 1
    /\ UNCHANGED <<safekeeperVars, storage_term, started, commit_lsn, pageVars, draft, pc,
                   appendVars, ingestVars>>

\* greet: no other proposer is starting, so the new term is never refused.
Greet ==
    /\ greeting # 0
    /\ accepted_term' = [accepted_term EXCEPT ![greeting] = term]
    /\ IF greeting = N
       THEN greeting' = 0 /\ started' = started \cup {term}
       ELSE greeting' = greeting + 1 /\ UNCHANGED started
    /\ UNCHANGED <<wal, term, storage_term, commit_lsn, pageVars, draft, pc,
                   appendVars, ingestVars>>

\* The last line of restart_proposer, outside the lock.
StoreTerm ==
    /\ \E t \in started : storage_term' = t /\ started' = started \ {t}
    /\ UNCHANGED <<safekeeperVars, term, greeting, commit_lsn, pageVars, draft, pc,
                   appendVars, ingestVars>>
-----------------------------------------------------------------------------
(***************************************************************************)
(* write: check_replication_lag, then append.                              *)
(***************************************************************************)
Goto(w, label) == pc' = [pc EXCEPT ![w] = label]

Batch(w, first, size) == {[lsn |-> l, by |-> w] : l \in first .. first + size - 1}

\* walAppend numbers the records of a request from the LSN the client gave.
Write(w) ==
    /\ pc[w] = "idle"
    /\ \E first \in 1 .. MaxLsn, size \in 0 .. MaxBatch :
           batch' = [batch EXCEPT ![w] = Batch(w, first, size)]
    /\ up_to' = [up_to EXCEPT ![w] = commit_lsn]
    /\ Goto(w, "lag")
    /\ UNCHANGED <<safekeeperVars, proposerVars, commit_lsn, pageVars, draft,
                   my_term, at, acked, flushed, after, received>>

CheckLag(w) ==
    /\ pc[w] = "lag"
    /\ \/ /\ up_to[w] > last_record_lsn + max_replication_lag
          /\ Goto(w, "error")
          /\ UNCHANGED my_term
       \/ /\ up_to[w] <= last_record_lsn + max_replication_lag
          /\ Goto(w, "fence")
          /\ my_term' = [my_term EXCEPT ![w] = storage_term]
    /\ UNCHANGED <<safekeeperVars, proposerVars, commit_lsn, pageVars, draft,
                   batch, at, acked, flushed, ingestVars>>

\* Variant: the loop runs one safekeeper too far.
NextSafekeeperTooFar(w, a) ==
    IF at[w] <= N
    THEN Goto(w, "fence") /\ at' = [at EXCEPT ![w] = @ + 1]
    ELSE /\ at' = [at EXCEPT ![w] = 1]
         /\ Goto(w, IF Cardinality(a) >= Quorum THEN "flush" ELSE "error")

\* The loop of append goes to the next safekeeper, or counts the ones in `a`.
NextSafekeeper(w, a) ==
    IF at[w] < N
    THEN Goto(w, "fence") /\ at' = [at EXCEPT ![w] = @ + 1]
    ELSE /\ at' = [at EXCEPT ![w] = 1]
         /\ Goto(w, IF Cardinality(a) >= Quorum THEN "flush" ELSE "error")

\* accept, first critical section: the term is read and its lock released.
CheckTerm(w) ==
    /\ pc[w] = "fence"
    /\ IF my_term[w] < accepted_term[at[w]]
       THEN NextSafekeeper(w, acked[w])
       ELSE Goto(w, "insert") /\ UNCHANGED at
    /\ UNCHANGED <<safekeeperVars, proposerVars, commit_lsn, pageVars, draft,
                   batch, my_term, acked, flushed, ingestVars>>

\* Variant: a record at the LSN flushed last is let in.
NotBelow(new, S) == \A r \in S, n \in new : r.lsn <= n.lsn

\* Every record is above flush_lsn.  A batch is consecutive: all of it or nothing.
Monotonic(new, S) == \A r \in S, n \in new : r.lsn < n.lsn

\* accept, second critical section.
Insert(w) ==
    LET s == at[w] IN
    /\ pc[w] = "insert"
    /\ \/ /\ Monotonic(batch[w], wal[s])
          /\ wal' = [wal EXCEPT ![s] = Inserted(@, batch[w])]
          /\ acked' = [acked EXCEPT ![w] = @ \cup {s}]
          /\ NextSafekeeper(w, acked[w] \cup {s})
       \/ /\ ~Monotonic(batch[w], wal[s])
          /\ NextSafekeeper(w, acked[w])
          /\ UNCHANGED <<wal, acked>>
    /\ UNCHANGED <<accepted_term, proposerVars, commit_lsn, pageVars, draft,
                   batch, my_term, flushed, ingestVars>>
-----------------------------------------------------------------------------
(***************************************************************************)
(* recompute_commit_lsn.                                                   *)
(***************************************************************************)
ReadFlush(w) ==
    /\ pc[w] = "flush"
    /\ flushed' = [flushed EXCEPT ![w] = Append(@, FlushLsn(at[w]))]
    /\ IF at[w] < N
       THEN at' = [at EXCEPT ![w] = @ + 1] /\ UNCHANGED pc
       ELSE at' = [at EXCEPT ![w] = 1] /\ Goto(w, "commit")
    /\ UNCHANGED <<safekeeperVars, proposerVars, commit_lsn, pageVars, draft,
                   batch, my_term, acked, ingestVars>>

HasAtLeast(f, l) == Cardinality({s \in DOMAIN f : f[s] >= l})

\* Variant: what any safekeeper has flushed counts.
HighestFlushed(f) == CHOOSE l \in {f[s] : s \in DOMAIN f} : \A s \in DOMAIN f : f[s] <= l

\* Variant: only what every safekeeper has flushed counts.
LowestFlushed(f) == CHOOSE l \in {f[s] : s \in DOMAIN f} : \A s \in DOMAIN f : f[s] >= l

\* The quorum-th value in descending order: the highest that a quorum reaches.
Candidate(f) ==
    CHOOSE l \in {f[s] : s \in DOMAIN f} :
        /\ HasAtLeast(f, l) >= Quorum
        /\ HasAtLeast(f, l + 1) < Quorum

Commit(w) ==
    /\ pc[w] = "commit"
    /\ commit_lsn' = GreaterOf(Candidate(flushed[w]), commit_lsn)
    /\ Goto(w, "after")
    /\ UNCHANGED <<safekeeperVars, proposerVars, pageVars, draft, appendVars, ingestVars>>
-----------------------------------------------------------------------------
(***************************************************************************)
(* ingest: the pageserver pulls committed records from the first           *)
(* safekeeper that has reached commit_lsn (stream_committed).              *)
(***************************************************************************)
ReadLastRecord(w) ==
    /\ pc[w] = "after"
    /\ after' = [after EXCEPT ![w] = last_record_lsn]
    /\ Goto(w, "up_to")
    /\ UNCHANGED <<safekeeperVars, proposerVars, commit_lsn, pageVars, draft, appendVars,
                   up_to, received>>

ReadCommit(w) ==
    /\ pc[w] = "up_to"
    /\ up_to' = [up_to EXCEPT ![w] = commit_lsn]
    /\ Goto(w, "stream")
    /\ UNCHANGED <<safekeeperVars, proposerVars, commit_lsn, pageVars, draft, appendVars,
                   after, received>>

\* stream: the records in (low, high].
Streamed(S, low, high) == {r \in S : low < r.lsn /\ r.lsn <= high}

\* The turn of safekeeper at[w]: it serves, or the loop goes on, or nobody serves.
Stream(w) ==
    LET s == at[w]
        found == Streamed(wal[s], after[w], up_to[w])
        serves == FlushLsn(s) >= up_to[w] /\ (found # {} \/ after[w] >= up_to[w])
    IN
    /\ pc[w] = "stream"
    /\ \/ /\ serves /\ found # {}
          /\ received' = [received EXCEPT ![w] = found]
          /\ Goto(w, "ingest")
          /\ UNCHANGED at
       \/ /\ ~serves /\ s < N
          /\ at' = [at EXCEPT ![w] = s + 1]
          /\ UNCHANGED <<pc, received>>
       \/ /\ (serves /\ found = {}) \/ (~serves /\ s = N)
          /\ Goto(w, "ok")
          /\ UNCHANGED <<at, received>>
    /\ UNCHANGED <<safekeeperVars, proposerVars, commit_lsn, pageVars, draft,
                   batch, my_term, acked, flushed, after, up_to>>

\* last_record_lsn is set from the value read before, under the lock on pages.
Ingest(w) ==
    /\ pc[w] = "ingest"
    /\ deltas' = Inserted(deltas, received[w])
    /\ last_record_lsn' = GreaterOf(after[w], LastLsn(received[w]))
    /\ Goto(w, "ok")
    /\ UNCHANGED <<safekeeperVars, proposerVars, commit_lsn, image, draft, appendVars, ingestVars>>
-----------------------------------------------------------------------------
(***************************************************************************)
(* get_page_at_lsn and create_image_layer.                                 *)
(***************************************************************************)
PageAt(l) == image.recs \cup Streamed(deltas, image.lsn, l)

\* The page is materialized under a read lock ...
Materialize(c) ==
    /\ \E l \in 1 .. last_record_lsn :
           /\ image.lsn <= l
           /\ PageAt(l) # {}
           /\ draft' = [draft EXCEPT ![c] = Image(l, PageAt(l))]
    /\ UNCHANGED <<safekeeperVars, proposerVars, commit_lsn, pageVars, pc, appendVars, ingestVars>>

\* Variant: every delta ingested so far is dropped.
DeltasGone(l) == {}

\* split_off: the deltas above the image stay.
DeltasAbove(l) == {r \in deltas : r.lsn > l}

\* ... and stored under a write lock taken afterwards.
StoreImage(c) ==
    /\ draft[c].lsn # 0
    /\ image' = draft[c]
    /\ deltas' = DeltasAbove(draft[c].lsn)
    /\ draft' = [draft EXCEPT ![c] = Image(0, {})]
    /\ UNCHANGED <<safekeeperVars, proposerVars, commit_lsn, last_record_lsn, pc,
                   appendVars, ingestVars>>
-----------------------------------------------------------------------------
Restart == StartProposer \/ Greet \/ StoreTerm

WriterStep(w) ==
    \/ Write(w) \/ CheckLag(w) \/ CheckTerm(w) \/ Insert(w)
    \/ ReadFlush(w) \/ Commit(w)
    \/ ReadLastRecord(w) \/ ReadCommit(w) \/ Stream(w) \/ Ingest(w)

\* Requests end: nothing is left to do once each has its answer.
Next ==
    \/ Restart
    \/ \E w \in Writer : WriterStep(w)
    \/ \E c \in Compactor : draft[c].lsn = 0 /\ Materialize(c)
    \/ \E c \in Compactor : StoreImage(c)

Spec == Init /\ [][Next]_vars
-----------------------------------------------------------------------------
Label == {"idle", "lag", "fence", "insert", "flush", "commit",
          "after", "up_to", "stream", "ingest", "ok", "error"}

\* Every variable has its type.
TypeOK ==
    /\ accepted_term \in [Safekeeper -> Nat]
    /\ wal \in [Safekeeper -> SUBSET Record]
    /\ term \in Nat /\ storage_term \in Nat
    /\ greeting \in 0 .. N /\ started \subseteq Nat
    /\ commit_lsn \in Nat /\ last_record_lsn \in Nat
    /\ image \in [lsn : Nat, recs : SUBSET Record] /\ deltas \subseteq Record
    /\ draft \in [Compactor -> [lsn : Nat, recs : SUBSET Record]]
    /\ pc \in [Writer -> Label]
    /\ batch \in [Writer -> SUBSET Record]
    /\ my_term \in [Writer -> Nat]
    /\ at \in [Writer -> Safekeeper]
    /\ acked \in [Writer -> SUBSET Safekeeper]
    /\ flushed \in [Writer -> Seq(Nat)]
    /\ after \in [Writer -> Nat] /\ up_to \in [Writer -> Nat]
    /\ received \in [Writer -> SUBSET Record]
-----------------------------------------------------------------------------
\* append has counted a quorum of acknowledgements.
Durable(w) == pc[w] \in {"flush", "commit", "after", "up_to", "stream", "ingest", "ok"}

\* One history (wal_service.rs:13-18): however appends interleave with each other
\* and with a new proposer's greetings, two that reached a quorum share no LSN.
OneHistory ==
    \A v, w \in Writer :
        v # w /\ Durable(v) /\ Durable(w) => LsnsOf(batch[v]) \cap LsnsOf(batch[w]) = {}

\* commit_lsn is never ahead of a quorum's flush_lsn (wal_service.rs:310-311), although
\* the flush_lsns it is computed from were read one by one.
CommitOnQuorum ==
    Cardinality({s \in Safekeeper : FlushLsn(s) >= commit_lsn}) >= Quorum

\* A write that is answered with a commit LSN is covered by it, even when the
\* safekeepers that refused its records are ahead (wal_service.rs:493-494).
AnswerCoversBatch == \A w \in Writer : pc[w] = "ok" => LastLsn(batch[w]) <= commit_lsn

\* The safekeepers' WALs are prefixes of one another.
InStep ==
    \A s, t \in Safekeeper :
        \A r \in wal[s] : r.lsn <= FlushLsn(t) => r \in wal[t]

\* While the safekeepers are in step, a page is the replay of their WAL at every LSN
\* from the image layer on (wal_service.rs:408-410): an ingest that comes late or runs
\* twice, and an image layer made meanwhile, lose and repeat nothing.
PageIsReplay ==
    InStep => \A l \in image.lsn .. last_record_lsn :
                  PageAt(l) = Streamed(UNION {wal[s] : s \in Safekeeper}, 0, l)

\* DisaggregatedStorage::write, as its comment says (wal_service.rs:493-494): an
\* acknowledged write has been ingested, and the page shows its records.
AckedIsIngested ==
    \A w \in Writer : pc[w] = "ok" => batch[w] \subseteq PageAt(last_record_lsn)
=============================================================================
