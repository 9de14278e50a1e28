# A formal model of aruaru-db

TLA+ modules, TLC configurations and TLAPS proofs about aruaru-db, written from
the Rust source under `src/crates`. Paths below are relative to `src/crates`, and
those of the Raft and WAL modules to `aruaru-dist/src`.

Contents: [the system](#the-system), [modules](#modules),
[runs](#runs-and-what-they-show), [divergences](#where-the-code-diverges-from-its-documentation),
[observations](#what-the-models-stand-on), [proofs](#proofs),
[what is not modelled](#what-is-not-modelled), [plan](#plan).

## The system

aruaru-db is a distributed SQL database: a query engine with Git-like version
control over its tables, replicated by Raft, with columnar replicas, follower
reads and backups around it, and a server process with many small services.

| Component | State | Operations | What makes it correct |
|---|---|---|---|
| **Raft** (`raft/node.rs`, `log.rs`, `driver.rs`) | role, term, vote; log, commit index, applied index; match indices; results of applied entries. Memory only, a lock each | `propose`, `append_entries`, `request_vote`, `maybe_commit`, `apply_committed`; the driver's tick: `replicate`, `start_election` | one leader per term, log matching, what is applied agrees everywhere, every write is applied in the end |
| **Transport** (`raft/binary_transport.rs`) | none: one TCP connection per request | `send_append_entries`, `send_request_vote`, `serve_binary_raft` | no assumption: a call may fail while its request is still served |
| **Replicated writer** (`raft/writer.rs`) | the commit timeout | `propose_and_wait`, `wait_for_commit` | a write is answered once it is applied, with its own result |
| **WAL service** (`wal_service.rs`) | per safekeeper: accepted term, WAL; commit LSN; pages, last ingested LSN | `start_proposer`, `append`, `stream_committed`, `ingest`, `get_page_at_lsn`, `create_image_layer`, `truncate_up_to` | only the newest proposer writes; what is committed stays and is what is read |
| **Closed timestamps** (`closed_ts.rs`) | per range: closed timestamp, writes in flight | `begin_write`, `end_write`, `advance_to`, `receive_update`, read planning | no write at or below a closed timestamp begins or is still open |
| **Multi-Raft, topology** (`multi_raft.rs`, `shard/`) | key ranges, a Raft group per range | `propose_at`, `commit_and_apply_at`, `split`, `merge` | ranges partition the key space, each with its group |
| **Hybrid logical clock** (`hlc.rs`) | wall time, logical counter, last ordinal | `now_hlc`, `now_ordinal`, `update`, `observe_ordinal` | timestamps grow strictly and follow causality within the skew bound |
| **Columnar replica** (`columnar_applier.rs`, `aruaru-backup` `table_format.rs`) | base and delta blocks, deletion vectors, row locations, snapshot key | `apply_at`, `replicate_table`, `commit_blocks`, `read_at_index` | live rows are the row store's; a gated read is never stale |
| **Query engine** (`aruaru-query` `engine.rs`) | tables, one transaction, dirty rows, idempotency table | `begin`, `commit_txn`, `rollback`, DML, `execute_idempotent`, `load_from` | commit is durable, rollback undoes its own writes, a key executes once |
| **Version control** (`aruaru-core` `version/`) | commits, branches, current branch | `commit`, `create_branch_from`, `checkout`, `fast_forward_merge` | no commit is lost from its branch |
| **Row storage** (`aruaru-core` `storage/`) | rows and checksums in fjall | `save_row`, `delete_row`, `scan_table`, `persist` | a row that is read is the one that was written |
| **OLAP cache** (`aruaru-query` `olap.rs`) | columnar copies, keys marked as changed | `refresh`, full and incremental rebuild, zone-map pruning | no change is lost to the cache |
| **Backup** (`aruaru-backup` `lib.rs`, `s3.rs`, `sftp.rs`) | files of a backup id, locally and remote | `snapshot`, `upload_dir`, `download_dir`, `restore`, `list_backups` | a restore is one snapshot; what was backed up is listed and comes back |
| **Admin configuration** (`aruaru-server` `config/`, `admin.rs`) | the file, its time, the sections in force | watch, `reload`, `reconcile`, operators' changes | the file is in force unless an operator changed it since |
| **SQL parser, wire protocol** (`aruaru-query` `parser.rs`, `aruaru-wire`) | prepared texts, frames under way | `parse`, simple and extended queries, Describe, encrypted frames | what is asked is what is executed and announced; bytes arrive in order |
| **Sharded store** (`aruaru-query` `sharded_store.rs`) | one map per thread, its queue | `put`, `get`, `delete`, `total_len` | together the shards are one map |
| **Mirror, snapshot pairing** (`dual_database.rs`, `snapshot_pairing.rs`) | rows in PostgreSQL; snapshot per index | the commit hook's tasks | every commit is mirrored; a snapshot covers its index |
| **Keys** (`keyring.rs`, `admin.rs`) | keys with owner and expiry, `known_nonempty` | `issue`, `verify`, `revoke`, `check_admin_auth` | a key decides who is let in, while it is good |
| **Registry** (`aruaru-registry`) | entries with stars and ranks | `crawl_now`, `apply_ranks`, `all` | newer ranks stay |
| **Import, migration** (`aruaru-migrate`, `adapter.rs` of `aruaru-registry`, `admin_resolvers.rs`) | tables read, rows inserted | adapters, `ingest`, the migration tool | what is reported is what is there |
| **Placement** (`admin.rs`, `shard/`) | nodes, replicas and leader of each range | node operations, rebalance, split, merge | every range has a leader among its replicas, and as many of them as there are nodes for |
| **Self-update** (`self_update.rs`) | binary, saved binary, script | check, download, install, health check, rollback | a release that fails is undone |
| **Ephemeral pods** (`ephemeral.rs`, `ephemeral_pod.rs`) | copies of tables, pipes, worker process | `ephemeralQuery` | an answer is the table's at some moment of the call; nobody waits for ever |
| RAID-Z backend, clients, drivers, user interfaces | — | — | — |

**Interaction.** The server (`aruaru-server` `main.rs`, `cluster.rs`) builds a
`RaftNode` whose `Applier` is the query engine or a columnar replica, and always
spawns a `RaftDriver` task (main.rs:441-443), also for a single node. Client
sessions of the wire protocol call the engine, or `RaftWriter::propose_and_wait`;
the driver and the connection tasks of the transport run beside them on the same
node, through its locks. Commit hooks feed the snapshot pairing and the mirror.
The engine notifies the OLAP cache and the columnar replica of changes; both read
the tables again, later and under locks of their own. Backups, imports and the
`aruaru_*` functions go through the engine's tables and its commit graph. The
configuration watcher and operators, through REST and GraphQL, change the same
sections. The WAL service, Multi-Raft and closed timestamps are libraries that
GraphQL mutations reach and that share nothing with the single Raft group but
`RaftNode` itself.

**What is hard.** Requests that are served long after their caller gave up;
drivers that were deposed while they awaited an answer; several tasks inside
`apply_committed` at once; values read under one lock and used under another
throughout; statements that change memory, marks and store one after the other,
with a crash or another session in between; copies of a table that overtake each
other on their way to a replica; files of one backup mixed with those of another;
processes that wait for each other over pipes. `PROJECT.json` lists each hazard
at its line, with the property that covers it or the reason why none does.

## Modules

Each component's module has its state, one action per critical section or per
step between two suspension points, and its properties. Three modules compose
them: **ClockedRanges** (ranges and the clock), **Database** (what one process does
to tables) and **Services** (the services around it). `MC*` modules hold the
instances for TLC.

### Raft.tla: the consensus protocol

State is per node: `role`, `current_term`, `voted_for` (`RaftState`), `log`,
`commit_index`, `applied` (the log and what the applier has received),
`match_index`, and what a driver keeps on its stack over an `await`: `phase`
(idle, in `start_election`, or in `replicate`), `ballot` (the term the loop
captured), `position` (the log's end sent with vote requests), `todo` (peers
the loop has still to call) and `votes`. `net` holds requests and answers.

A step is what one task does between two suspension points:

| Action | Code |
|---|---|
| `StartElection`, `PollNext`, `HandleVoteResult` | `become_candidate` and the loop of `start_election` (driver.rs:140-180) |
| `StartReplicate`, `ReplicateNext`, `HandleAppendResult` | the loop of `replicate` (driver.rs:98-137), then `maybe_commit` and `apply_committed` of the tick |
| `StepDown` | `become_follower` on an answer from a later term, which ends the loop |
| `HandleRequestVote`, `HandleAppendEntries`, `HandleStaleAppendEntries` | `handle_connection` (binary_transport.rs:256) with `request_vote`, `append_entries`, `apply_committed` |
| `Propose` | `propose` (node.rs:304) by a client task |
| `CallLost`, `CallAbandoned` | a call that fails at its caller; in the second the request becomes an orphan (`live = FALSE`) that is served later |
| `IdleTick` | a tick that only applies |

The code visits peers in a fixed order, the model in any. The number of votes
needed is `votes > cluster / 2`, the committed index the middle element of the
sorted match indices, as in the code. `MaxTerm` bounds elections, `MaxFailure`
failed calls, and each command is proposed once. The locks *within* a step are
not modelled; RaftApply does that for the write path.

`StableSpec` is Raft from the state in which one voter, `First`, has just won term 1,
the setting of `sim.rs`, which fixes its leader; with it come the fairness and the
properties of a leader that is never replaced. `MCRaft` gives TLC the
symmetry, a view that forgets the dead locals of a loop that was left, the bound
`OneOrOpened` on who campaigns once a second command is proposed, and two
narrower searches in which only one other voter takes over.

### RaftApply.tla: the single-node write path, lock by lock

`propose_and_wait` for any set of writers beside the driver's tick on a node
without peers. Each step is what a task does under one lock: append, commit,
read `last_index`, commit the majority index, copy the unapplied entries, call
the applier, insert the result, `set_applied`, publish `applied_index`, take
the result. `applied` is a history of who handed which index to the applier.

### WalStorage.tla: safekeepers, WAL service, pageserver

The storage behind the GraphQL mutations `walAppend` and `walCreateImageLayer`,
which run concurrently on one `DisaggregatedStorage`. State: each safekeeper's
`accepted_term` and `wal`; the service's `term` and `commit_lsn`;
`storage_term`, the term kept by `DisaggregatedStorage`; the pageserver's
`last_record_lsn`, `image` and `deltas`; per writer its place in the code (`pc`)
and the locals of `append`, `recompute_commit_lsn` and `ingest`; per compactor the
page it has materialized (`draft`). A step is one critical section:

| Action | Code (`wal_service.rs`) |
|---|---|
| `StartProposer`, `Greet`, `StoreTerm` | `start_proposer`, which keeps `term` locked while it greets one safekeeper after the other; the last line of `restart_proposer`, outside that lock |
| `Write`, `CheckLag` | `wal_append` numbers its records from an LSN the client gives; `check_replication_lag`, then the term is read |
| `CheckTerm`, `Insert` | the two critical sections of `accept`, for each safekeeper of the loop of `append`, then the count of acknowledgements |
| `ReadFlush`, `Commit` | `recompute_commit_lsn`: one `flush_lsn` after the other, then `commit_lsn` |
| `ReadLastRecord`, `ReadCommit`, `Stream`, `Ingest` | `ingest` and `stream_committed`, which asks one safekeeper after the other |
| `Materialize`, `StoreImage` | the two critical sections of `create_image_layer`; `PageAt` is `get_page_at_lsn` |

A batch has consecutive LSNs, so `accept` takes all of it or nothing. There is
one page whose deltas all append, the kind that hides nothing: its content is
the set of records it was built from, and any record lost or misplaced shows.

### ClosedTimestamps, MultiRaft, Hlc, ClockedRanges

`ClosedTimestamps` has
the tracker, whose `closed` and `in_flight` have a lock each, the coordinator,
and one follower that receives published updates late, twice or never; `advance_to`
is `ReadLowest` and `Close`, because it reads under one lock and moves under
another. `MultiRaft` has the topology (`shard/topology.rs`), which cuts the keys into ranges, and what `propose_at`, `commit_and_apply_at`, `split` and
`merge` do under each of the cluster's locks in turn. A Raft group counts by its
presence: RaftApply is what happens inside. `Hlc` is the clock on words of finite
width, every method one step, with an arbitrary reading of the system clock.
`ClockedRanges` lets the clock date writes and advances, as `now_default_nanos`
does, beside behaviours with arbitrary timestamps.

### QueryEngine, RowStore, VersionControl, Database

`QueryEngine` is the engine (`engine.rs`): sessions run *scripts* of statements
(the scripts stand for all clients; `MCDatabase` lists them). A statement changes
`tables` under their lock, then marks each row for the mirror and the cache and
writes it to the store, or to the log of the one global transaction. The rest of a
statement is a queue of operations in the session; other sessions, an error of the
store or a crash come between any two. `RowStore` is `storage/mod.rs` with its row
and checksum written one after the other; `VersionControl` the commit graph with
its three locks, and who waits for which; its end is the prolly trees, built with
every choice of leaf boundaries, and their diff. `Crash` forgets memory and
loads the store again. `Database` composes them with the cache, the replica, the
backups and the configuration, each at work in the workloads that are about it.

### OlapCache, ColumnarReplica, TableFormat, AppendOnlyTable

`OlapCache` refreshes copies from marks taken in one lock and rows read in another,
with zone maps. `ColumnarReplica` merges copies of the user's table into a base
and delta blocks with deletion vectors, and commits the blocks; its queries skip
blocks on statistics and **bloom filters**, in which two keys may share a bit
(`BitsOf`). `TableFormat` is `ObjectTable` with the compare-and-swap of the table's
key; it *implements* `AppendOnlyTable`, the promise that a commit adds
one segment at the end.

### Backup, RemoteBackups

`Backup` is one backup id file by file: dump, manifest, upload in any order,
download, restore, with an error or a crash anywhere. `RemoteBackups` has several
ids on S3, SFTP and local disk, with the listing of S3 by pages, the prefix and
the names under which a table's metadata shares the bucket.

### AdminConfig

The file, the watcher with its mtime and SIGHUP, `reconcile` section by section,
and operators who change the same sections. It is part of `Database`, because it
starts and stops with the process.

### The services

Composed by `Services`, one service per behaviour, since they share no state but
the process:

| Module | Code | Steps |
|---|---|---|
| `SnapshotPairing` | `snapshot_pairing.rs` on top of RaftApply | the hook of each task that applied, storage that may refuse |
| `ReplicatedWrites` | `raft/writer.rs` on a node that is deposed and cut | the three locks of `propose`, polls, the timeout and its mail |
| `EncryptedStream` | `payload_crypto.rs` | partial writes, pending polls, frames collected from bytes |
| `ShardedStore`, `AtomicMap` | `sharded_store.rs` | send, serve and reply per thread; `total_len` shard by shard; *implements* one atomic map |
| `DualMirror` | `dual_database.rs` | a task per commit, row by row |
| `KeyGuardian` | `keyring.rs`, `check_admin_auth` | checks lock by lock beside issue, revoke and expiry |
| `Registry` | `aruaru-registry` | fetch, fallback, apply, for overlapping crawls |
| `SqlText`, `WireSession` | `parser.rs`, `aruaru-wire` | the parser on token sequences; prepare, describe, bind by text substitution, execute |
| `DataImport` | `aruaru-migrate`, adapters, server import | list, read, create, insert per table, on a source that changes |
| `Placement` | `admin.rs`, `shard/` | nodes join, die and leave; rebalance, split, merge |
| `SelfUpdate` | `self_update.rs` | server, script and health check as processes |
| `EphemeralPod` | `ephemeral*.rs` | copies, bounded pipes, worker, wait |
| `LearnerReads` | `columnar_applier.rs`, `columnar_pod.rs` | two applying tasks, the gates of `read_at_index` |

## Runs and what they show

| Run | Instance | Properties | States |
|---|---|---|---|
| `raft_elections` | 3 voters, 2 commands, terms to 2, 1 failed call, from the empty state | `TypeOK`, `ElectionSafety`, `VoteIsFinal`, `LeaderAppendOnly`, `LogsAgree` | 1.4 million |
| `raft_stable` | 2 voters and a learner, 2 commands, fixed leader, 2 failed calls, fair | `FollowersTrailLeader`, `EveryoneApplies` | 38 000 |
| `raft_quorum` | 3 voters, 2 commands, an elected leader and one rival, no failed call | `CommitOnMajority` is violated | — |
| `raft_takeover` | 3 voters, 3 commands, one takeover, 2 failed calls | `StateMachineSafety` is violated | — |
| `raft_apply_twice` | 1 writer and the driver | `AppliedOnce` is violated | — |
| `wal_storage` | 3 safekeepers, 2 writers, 1 compactor, batches of 0 to 2 records from LSN 1 or 2, one restart, lag limit 1 | `TypeOK`, `OneHistory`, `CommitOnQuorum`, `AnswerCoversBatch`, `PageIsReplay` | 1.0 million |
| `wal_lost` | the same | `AckedIsIngested` is violated | — |
| `wal_images` | 3 safekeepers, 1 writer, 2 compactors | `PageIsReplay` is violated | — |
| `ranges` | 2 keys, 3 ranges, eight scenarios of writers, splits, merges, advances, a reader, the publisher and the clock | `TypeOK`, `RoutedRangesServe`, `ClosedBelowCovered`, `FollowersServeClosed`, `HappensAfter`, `ClosedNeverRegresses`, `FreshTimestampsAreOpen` | 720 000 |
| `database` | 2 sessions with a workload of `MCDatabase`, at most one fault | `TypeOK`, `StoreFollowsMemory`, `ExecutedOnce`, `MirrorCatchesUp`, `OneLockCycle`, `CommitsStayReachable`, `OlapCatchesUp`, `ReplicaFollowsTable`, `RestoreIsSnapshot`, `DiffIsComplete`, `FileInForce`, `AppendOnly` | 402 000 |
| `services` | one service of `Services` per behaviour, fair | `ServicesOK`, `NoGaps`, `ResultReady`, `ArrivesInOrder`, `SaidIsDone`, `AnswersAreOwn`, `OperatorsDecide`, `EverythingArrives`, `ShardedIsOneMap` | 652 000 |
| `wire_values` | the wire service of `services` | `ValuesStayValues` is violated | — |

**Properties with parts.** Each part is defined and explained in its component's
module. `LogsAgree` is `LogMatching` and `TermsOrdered`; `FollowersTrailLeader` is
`LogsArePrefixes` and `CommitFollowsLeader`; `FollowersServeClosed` is
`FollowerNeverAhead` and `PlansStayClosed`. Of the services:

| Property | Parts |
|---|---|
| `ArrivesInOrder` | `StreamIsFaithful`, `LatestIsNewest` (mirror), `SnapshotsCover`, `RanksAreNewest` |
| `SaidIsDone` | `StatementsReadBack`, `DescribeAgrees` (wire), `ImportsAreWhole`, `PodAnswers`, `ReadsAreFresh` (learner), `BackupsComeBack` |
| `OperatorsDecide` | `KeysDecide`, `EveryRangePlaced`, `UpdatesFallBack` |
| `EverythingArrives` | every writer is answered, `FlushedArrived`, `Mirrored`, `PodsEnd` |
| `ShardedIsOneMap` | `ImplementsMap` (the refinement of `AtomicMap`), `TotalIsBracketed` |

**Exceptions.** Where the code breaks what a reader would expect, the property
names the case that it leaves out, as narrowly as the model can tell it: cells where
the writes of two sessions met (`StoreFollowsMemory`), marks swept away by a full
rebuild (`OlapCatchesUp`), an entry both of a learner's tasks executed
(`ReadsAreFresh`), a second script while the first still waits (`UpdatesFallBack`),
two retries of one key at once and a crash inside a call (`ExecutedOnce`), merges that are no fast-forward and commits that
overlap (`CommitsStayReachable`), a write that timed out (`AnswersAreOwn`), and so on. What is excused is not caught when it goes wrong: the
notes of the hazards in `PROJECT.json` say where that is a hazard itself. `AppendOnly` is of the table, not
of the blocks that a replica loses after a failed swap. [Observations](#what-the-models-stand-on) lists them.

**Bounds.** Three voters are the smallest cluster in which a majority is not
everybody, so that two elections can overlap in one voter and an entry can be on
a minority. Two terms give a deposed and a new leader. In `raft_elections` any voter campaigns
while one command is proposed; where two are, the first is proposed to a leader that
all know, with no call on its way, and one voter then takes over, in all interleavings
with the rest. The violation runs start from an elected leader so that the
interesting second term fits. One failed call
suffices for an orphan that outlives its leader's round; two let the fixed leader
overtake an orphan twice. Two writers beside the driver give three tasks inside
`apply_committed` at once, one more than any of its races needs. Three safekeepers let two writers win one
each; LSNs to 3 in batches of up to two let batches meet, overlap or follow one
another; one restart fences a write that is under way; a lag limit of 1 makes
`check_replication_lag` refuse. No Raft or WAL instance stops its tasks early: every request
runs to its answer, which is why the configurations allow a state without
successors.

Two keys make a split and its merge; three ranges let a second split or an orphan
meet them; timestamps 0 to 2 with lag 0 or 1 let a write be below, at and above a
closed timestamp; two writers share a timestamp, two advances overtake each other.
The clock's words end at 2 and 1, so that both saturate.

The workloads of `database` are the shortest scripts that meet a hazard: two sessions
are enough for each race of the engine, whose operations touch one cell at a time,
and a third would only repeat one of them. Two keys (which share one bloom bit) and two
values tell a lost row from an old one; `MaxCommit` 4 and `MaxSnapshot` 6 let nearly
every script come to its end (one more of each adds 400 states); two edits of the file
(`MaxEdit`) put one into a reload. One backup id twice in a row shows what an
earlier snapshot leaves behind, one backup runs at a time; the replica is of
the user's table; a learner has no store and no faults. Scripts come to
their end, and so do the calls of the services: therefore `CHECK_DEADLOCK FALSE`. Where
waiting for ever would be a fault it is a property (`OneLockCycle`, `PodsEnd`).

In `services`: three messages of three bytes meet every cut of a frame; three calls on
two shards; two of each kind of task or client, but one caller of a pod; sources of two or three tables, one
change while they are read; every statement kind with at most one odd parameter
(comma, bracket, quote, placeholder, keyword, function, NULL), since parameters are written one by one;
terms to 3 and logs to 2 for a leader that returns to a cut log;
pages of 3 keys for 2 backup ids, one reader and one failed call; 3 releases; pipes of
one chunk under writes of two, so that both sides can block; learner logs of two
entries under two tasks.

`PageIsReplay` is stated under `InStep`, that the safekeepers' WALs are prefixes of
one another. Without it no ingest can be right (`wal_lost`); with it the property
is about the pageserver alone: late and repeated ingests and an image layer made
between the reads and the write of `ingest`.

**Fairness.** `raft_stable`: the driver's loop ticks on an interval and each
handler is a spawned task, so the leader's tick, the delivery of an answer to it
and each node's handlers are weakly fair; failures are never required, and at most
`MaxFailure` happen. `services`: the runtime schedules a writer's task that can go
on (the driver is not needed: a writer applies its own entry), and the tasks of the
mirror's hook; the reader of a stream polls while there is something to read; the
operating system runs the processes of a pod. Nothing else is fair: no timer, no answer
from a failed call and no end of an election is assumed, closed timestamps advance only when
an operator's mutation asks, and nothing is claimed of it.

## Where the code diverges from its documentation

Each of these is a run of its own, expected to end in a violation:

* `raft_quorum`: `append_entries` reports the follower's whole log as matched
  (node.rs:384), also for a request without entries. Without any failure a deposed
  leader that still holds an entry of its own answers its successor's heartbeat
  with that entry's index; the successor proposes an entry at that index and
  commits it although no other voter holds it (node.rs:269-271 says otherwise).
* `raft_takeover`: because of that, and because the log is cut without a conflict
  (node.rs:370-377), two nodes can apply different commands at one index after a
  change of leader and two orphaned calls, which sim.rs:37-38 and log.rs:64 exclude.
* `raft_apply_twice`: a writer and the driver's tick both apply the same entry
  (node.rs:395-416; the test at node.rs:493 says that nothing is applied twice).
* `wal_lost`: two writes of one term interleave in the loop of `append`
  (wal_service.rs:292), so safekeepers hold different records at one LSN.
  `stream_committed` serves whatever the first safekeeper holds that has reached
  `commit_lsn` (wal_service.rs:326-337): the acknowledged write, said to be made
  durable on a quorum and ingested (wal_service.rs:493), never reaches the page,
  and a refused one does.
* `wire_values`: a parameter is quoted, but `parse` looks for `ARUARU_LOG`, for the
  names of functions and for ` AS OF COMMIT ` in the whole text (parser.rs:114, 118-125,
  358), so a value that contains one of them makes another statement of the one that was prepared;
  aruaru-wire/src/lib.rs:192-194 and the test at 638-639 say that it cannot.
* `wal_images`: of two image layers made at once the lower may be stored last,
  after the deltas above it were dropped (wal_service.rs:444-452); the page then
  lacks records at every LSN above (wal_service.rs:408-410).

What does hold is as informative: one leader per term and final votes survive
late requests and terms raised without a fresh vote, logs match although a
deposed leader goes on sending under its old term, and with a fixed leader the
cuts of late requests are always repaired; what a quorum of safekeepers
acknowledged shares no LSN although `accept` checks the term under one lock and
inserts under another; and `commit_lsn` never runs ahead of a quorum.

What the other runs show to hold is as informative. Routing stays complete through splits at any key
and merges of what they leave behind; an advance that read before a write began
cannot close above it when the write registered in time; with the clock's timestamps
a fresh write is always above every closed one. Memory and store agree after every
crash that spares a statement under way; an idempotent call that retries *after* its
first run stands once; the commit graph's locks have one cycle and no other. A replica pruned on
statistics and bloom filters, stale ones of overwritten blocks included, hides
no row; a restore is never a mixture of two snapshots of one id. Frames survive any
cut of their bytes; a key's check is right without the lock its flag is read under.

## What the models stand on

Behaviours met while modelling that the properties make an exception for, or that
a caller should know. None of them contradicts a run's property.

**Ranges** (`multi_raft.rs`, `closed_ts.rs`, `hlc.rs`).
`propose_at` proposes before it registers the write and never compares its timestamp with
`closed`, so the promise of closed_ts.rs:7-8 rests on callers that take timestamps in time; a writer between
`groups.insert` and `register_range` is not registered, and its `end_write` may
take another's count; `merge` forgets what was in flight on the right range;
`split_range` does not check that the key lies inside the range; a merge that overtakes a
split leaves a group without a range. `AdminState` has a coordinator of its own, so
`closedTsAdvance` sees no write in flight. After a remote timestamp with a
logical part, ordinals may be at or below it; at the last nanosecond of u64 the
clock goes back.

**Engine** (`engine.rs`, `version/mod.rs`, `storage/mod.rs`).
`head` holds `branches` and waits for `commits` while `commit` holds `commits` and waits
for `branches` (version/mod.rs:84-86, 157-161): a lock cycle, the only one, which
`OneLockCycle` states. There is one transaction for all sessions: it takes everybody's
writes, and COMMIT and ROLLBACK are everybody's. `CREATE TABLE` on a table that exists
keeps the table but stores the new schema over the old, so a restart changes the
columns. Writes of two sessions to one row may leave a checksum that is not the row's,
which stops the next load. A crash within a statement leaves some of its rows; a row stored before
its schema is orphaned. `export_dirty`'s comment says that `load_from` marks rows
dirty; it marks none, and neither does `load_tables_from_commit`. A full rebuild of the
OLAP cache drops marks made after it copied. `fast_forward_merge` has no
check that one head descends from the other. `execute_idempotent` looks up, executes and logs in separate
steps: concurrent calls of one key both execute, and a ROLLBACK of another session may take the log table
from a call that has just made sure of it (its `get_mut(...).expect`, engine.rs:754, then panics). `ingest_table` writes the store before
memory and leaves old rows in it.

**Replica and table format** (`columnar_applier.rs`). A `CommitConflict` is
only logged and the blocks are never offered again; a copy may overtake a newer one on a learner;
`last_applied` moves past failed entries, so a read may be served without them, and an
entry that both tasks execute counts its commit twice and may set the table back; `DROP`
leaves the replica.

**Backups** (`lib.rs`, `s3.rs`, `sftp.rs`). Files go up in `read_dir` order, so a
manifest may be there before its data, and a failed upload of an id spoils the good one before it (its
restore then fails on the checksum, and may have brought in the tables before). With a non-empty S3 prefix, `list_backups` and `restore`
join the prefix a second time and find nothing; keys after the first page of 1000, the
newest, are never listed.

**Configuration and server.** An edit between the read of the file and the
taking of its mtime, at start (watch.rs:30-33) and on SIGHUP (watch.rs:63-64), is not
noticed; `reconcile` with a disabled schedule is not idempotent, though
reconcile.rs:5 says so; a reload overwrites operators' changes; a file broken at
start leaves no watcher. A server that has just been updated may leave a second script behind while the
first still waits; a release that never works is tried for ever. A node that comes back
stays dead for placement, and so does one that was decommissioned: its replicas stay and count for
ever (topology.rs:156-175 proposes nothing for a range that has enough replicas, alive or not). `EveryRangePlaced` is
therefore about a range's number of replicas; that enough of them are alive is not promised and not checked.

**SQL and wire.** A `WHERE` without `=` is dropped, so `DELETE ... WHERE id > 3`
empties the table; values with a comma or a bracket break an `INSERT`; a parameter that
contains `$k` is substituted again, a single quote inside comes back doubled, one loses the double quotes at its ends, NULL becomes the text NULL; a
statement that mentions `aruaru_log`, a function with brackets after it or `AS OF COMMIT` is another one (`wire_values`).
`StatementsReadBack` and `DescribeAgrees` are therefore about *plain* parameters (`ReadAsIs`): no NULL, no double quote at an end, none
of `'`, `$1`, `aruaru_log` and the functions' names; no comma or `)` in an `INSERT`, no `WHERE` in an
`UPDATE`, no `AS OF COMMIT` in a `SELECT`. The run binds each of the others too: without one of these conditions TLC finds
`StatementsReadBack` violated. Where brackets come the wrong way round the parser panics (parser.rs:178, 211, 248, 264), as for an
upsert of the value `aruaru_merge`: the connection ends without an answer (`NobodyAnswers`). On a cluster the panic is in the task that applies
the statement, which is not modelled. A plain query is cut at each `;`, also inside a value. `Describe`
announces nothing for `aruaru_branch_from`; a `SELECT * ... AS OF` of a row that is not there answers with no columns, and one
of a table that has other columns today with other ones than were announced (`PastIsDifferent`). An `AS OF` query with named columns on
a commit without rows fails.

**Imports.** Types that `PgWireAdapter` does not know become empty text; of two
schemas' tables of one name the later replaces the earlier; the migration tool's `INSERT`
has no column list, which aruaru-db's own parser reads as part of the table's name, so
its rows fail and it reports 0 rows and success; its batch size is a limit.

**Other services.** `propose` reads role, term and log under three locks, and a writer is
answered by its index alone: `AnswersAreOwn` leaves out the writer of a node that lost
the leadership. Mirror tasks of two commits may end in either order. Crawls that overlap
may leave older ranks; a crawl whose requests all fail reports success. `poll_shutdown`
closes over a staged frame. A pod copies its tables one after the other.
`total_len` is no size of one moment.

## Proofs

TLAPS checks these theorems for every value of the constants, from the named
assumptions of the modules (finite, non-empty voters; learners are not voters; finite
keys, ordered by `<`; a bound is a natural number). TLC evaluated each invariant below
on small instances before it was proved.

**RaftProofs**: `TypeCorrect`, `VotesAreFinal`, `ElectionsAreSafe`. Types alone are
not inductive: a step of a loop writes what the answer in `net` says, so `TypeInv`
adds that a live call belongs to a driver in the matching loop
(`CallsMatchLoops`), that a driver has one call outstanding (`OneCallEach`), and
that vote requests go to voters. For election safety, a vote counted by a
candidate may be stale by the time it is counted, so `ElectionInv` states that a
voter in `votes[n]` *backs* `n` in its ballot: it has moved to a later term, or is in
that term and voted for `n`. `BackersStay` keeps this over
every step, `BackersOfOne` makes the backing exclusive within a term,
`LeadersElected` says that a leader is backed by a majority, and two majorities
intersect. The proof goes action by action, with one lemma for each.

Its second part: `LogsAlwaysAgree`, `LogsAgreeOnceElected`, `LeadersOnlyAppend`,
`FollowersTrail`. The entries of a log and those that a request carries, with what it
says of the one before them, are *pieces* of the same kind. `AgreeInv` says that two
pieces that have the same term at one index have the same entries up to there, `OrderedInv`
that terms do not fall along a piece. Neither is inductive alone: a new entry must be
at a spot that no piece has. `OwnedInv` says that an entry's term was won by a voter (terms have
one leader, by `ElectionsAreSafe`), `LeaderInv` that a leader has every entry of its
term, wherever it went, and none of a later one, and `CandidateInv` that a candidate which holds entries of
a later term, sent on by a deposed leader, cannot win. A leader keeps its log because requests of its term come
only from itself (`SendersInv`). `FollowersTrail` has the hypothesis `MaxTerm = 1`, the setting of sim.rs
and of `raft_stable`: `StableInv` says that each log and each request is a
beginning of the leader's log, a cut by a late request included. With a second term it is false
(`raft_takeover`).

**WalStorageProofs**: `TypeCorrect`, `HistoryIsOneAlways`, `CommitIsOnQuorum`,
`AnswersAreCommitted`, `PagesReplay`, for any number of safekeepers and writers. `TypeInv` adds to the types
that no safekeeper has accepted a term above the service's (`TermsBelow`) and that
the list of flush LSNs grows with its loop (`FlushLoop`, `FlushedIsOld`). `HistoryInv` says
that a safekeeper in `acked[w]` holds all of `w`'s batch, that it holds one record
for an LSN, and that a writer past the count was acknowledged by a quorum; two
quorums share a safekeeper, so two such batches share no LSN. WALs only grow, so a
flush LSN read earlier is still reached and the candidate computed from such
values is still on a quorum; `CommitInv` adds that the flush LSN read from a
safekeeper that acknowledged a batch reaches the end of that batch, from which
`AnswersAreCommitted` follows: an answered write lies at or below `commit_lsn`.
`PageInv` says, under `InStep`, that the image layer is the replay of the WAL up to its LSN and the
deltas are all that lies above it up to the last ingest (`LayersReplay`), that a draft of an image is such a
replay too (`DraftsReplay`), and that an ingest, however late, misses nothing from the LSN it read on
(`IngestsReplay`). The theorem is of one compactor: two are what `wal_images` refutes.

**RangesProofs**: `RangesAreTyped`, `RoutingIsComplete`, `WritesStayOpen`,
`FollowersAreBehind`, `ClosedIsKept`, `TimestampsAreOpen` and `RangesWithoutClock`, for any ranges,
writers, advances, followers and scenarios. `RangesInv` says that ranges lie end to end
(`ChainInv`) under ids of their own (`IdsInv`), that each is served unless its split is under
way (`ServedInv`), that the counts of a tracker are those of the writers who
registered at least (`CountInv`; otherwise another's `end_write` could free a timestamp
that is still in use), and therefore that a covered write stays above what is closed and above what an advance is about to
close (`CoveredInv`). `FreshInv` says that nobody has heard of a range whose tracker is still to be registered.
`FollowerInv` says that an update on its way was closed at the leaseholder, `PlanInv` that a plan's
reads were. `ClockInv` adds that nothing has passed the last ordinal that the clock gave out. **The clock**: `ClockTypes`, `ClockOnlyGrows`,
`EventsHappenAfter`, `OrdinalsAreFresh`, for every width of the words, every offset and every reading of
the system clock, method by method over `Advanced` and `Merged`, whose result is after both
what the clock had and what it heard; the projection of the clock to one
word may fall, and only `last_ordinal` keeps ordinals apart.

**DeliveryProofs, ServicesProofs**. Each component has an invariant of its own (those of the write path, streams, mirror,
registry and keys are in the first module), and `Services` is their conjunction: a step of one leaves the others' variables alone, so the invariants add up.

* `IndicesAreOrdered`, `ApplierSeesNoGaps`, `WritersNeverWait` (`ApplyInv`), for any number of
  writers: everything below `last_applied` is *settled* (handed to the applier, and its
  result is there or was taken by its writer), as is everything a task has passed in
  its batch; and a writer's own entry lies in the batch it copied unless another task settled it before.
* `WritersHearTheirOwn` (`WritesInv`): a result is for good that of the entry at its index, since committed
  entries are not cut off, and a writer that was not deposed has its entry where it put it.
* `DeliveriesInOrder`, the four parts of `ArrivesInOrder`. `StreamInv`: the bytes under way follow the frames that were decrypted
  and end where those that were accepted end, wherever they are cut. `MirrorInv`: when a commit overlaps with no
  earlier task, what was stamped before it is no newer. `PairingInv`: a hook is called with an index up to which
  everything was applied. `RegistryInv`: no name and no rank comes twice in what a crawl found, and
  crawls that have not ended are nowhere else.
* `OperatorsAlwaysDecide`, three components' parts. `KeysInv`: while a check looks, its key is known to have been good if it is so, one that was good all along is
  still there, and a check that only counts is not of such a key. `PlacementInv`: a range's leader is one of its replicas, each of these is a known node and
  there once, and an id yet to be given belongs to no range. `UpdateInv`: scripts run one at a time, the binary a script has saved
  is one that was proven, and between scripts there is one server, of the binary that is installed.
* `OthersSayWhatIsDone`, three of the five parts of `SaidIsDone`. `PodInv`: what was copied of a table that a pod was asked about is of the time of the
  call, and a worker answers only a call that has its copies. `LearnerInv`: the entries executed are those some task has reached or
  has done (`ExecutedFollow`), so a task at an entry that another has passed has executed it a second time (`Doubly`); while none was, the
  rows, the copies under way and the replica have what was put before (`RowsFollow`). `RemoteInv`: a file a backup has passed
  is whole (`FullFollows`), and of each backup that was done when a reading began the reading has yet to list a file's directory, has yet
  to fetch the file, or has it (`ReaderFollows`).
* `ShardsAreOneMap`, the refinement of `AtomicMap` and the bounds of `total_len`. `ShardInv` says that a
  message waits at the shard that serves its call, once and unanswered (`QueuesWait`), that an
  answer is somebody's (`RepliesAwaited`), and that the lengths gathered lie between the least and the
  largest numbers of keys those shards had during the call (`GathersFollow`).

**DatabaseProofs**. Likewise; here each component's steps are part of a step of the process, and a
restart is a step of all of them.

* `LocksHaveOneCycle`, `RecordedCommitsReachable` (`GraphInv`): a parent is an earlier commit,
  a call's target exists, and a commit that overlaps with no call extends the head of the branch
  that was current when it began (`Extending`). `Ancestors` is computed by iteration; that
  a commit's ancestors are those of its parent and itself is shown by taking the least commit for which it fails.
* `MirrorIsOwedNothing` (`SyncInv`): a cell in which the mirror is behind is
  marked, or in what some session will still mark or export. The invariant is stronger than the property: it
  looks only at operations that are still to come (`Promised`).
* `SeenFilesInForce` (`ConfigInv`): what was read last is the file while the times agree
  (`LoadedIsFile`), the sections the reconciler has passed are as that asks (`Done`), and the time
  taken is not later than that of the reading (`SeenIsRead`).
* `RestoresAreSnapshots` (`BackupInv`): a backup has put the part of its cut that it has passed
  into the manifest (`Phase`), a manifest anywhere is that of some cut, and a restore has brought in the part of it
  that it has passed. The hypothesis `OneBackupSession` says that one session's script asks for backups and restores,
  as in the runs; the code has no lock on a backup id, and two backups of one id at once would mix their files.
* `TableIsAppendOnly`, the refinement of `AppendOnlyTable`, for any number of
  tasks that commit at once, and `PruningIsSafe`. `TableInv` says that a task past its segment
  has it stored, and that the snapshot it will swap in is the one of its base with that
  segment at the end; versions are only added, so another task's step keeps this
  (`OthersKeep`), and a swap that succeeds has the current version for its base. For pruning, what
  a block's statistics disprove holds for each of its values (`DisprovesIsSound`).

**EngineProofs**: `MemoryIsWhatIsStored` (`StoreFollowsMemory`), for any sessions, scripts, keys, faults and
configurations. The property speaks of the operations that sessions have still to bring to the store; it is not
inductive, since a step of a session may find another one half-way through the same row. `StoreInv` adds

* the types of jobs and what a job holds at each place of its statement (`JobStage`);
* `Alone`: a cell that is not excused is pending in one session at most, so `OpsFor`, which looks
  for *the* session that has operations for a cell, finds the right one;
* `WritesFit` and `Progress`: the writes under way are those of the first operation, and of a cell in it either the value
  (or the scan that finds the row) is still to be written, or the store has it; likewise the checksum, and `Settled` says that nobody else
  leaves a row with another row's checksum;
* `NoneInside`: while a transaction is open nobody writes past its log but to excused cells;
* `Follows`: the property itself, cell by cell, as the one session sees it that has the cell pending, or a
  resting one.

The lemmas about folds (`OrderedIs`, `FlattenMembers`, `AfterIs`) need no induction: the rank of a key among the smaller
ones is an order-preserving numbering, a fold over sets is unfolded at its greatest member only, and of what the operations of a statement leave only the
last operation of a cell counts (`AfterAt`, `AfterTail`, `AfterAppend`). A checkout writes the rows of a commit into memory, and an
ingest those of a file, so the types of the commit graph (`VersionTypes`) and of backups (`BackupTypes`) are part of the
induction, and `SyncInv` for the sessions that return from a call.

**ClientProofs**. `CallsTakeEffectOnce` (`ExecutedOnce`), under the hypothesis `IdempotentCalls` of `Database`: in each
session's script only calls write the log table, and a call is the steps of `execute_idempotent` with one statement that changes
rows or tables. `MCDatabase` assumes it, so TLC evaluates it for the workloads of the run; sessions, keys, the number of calls and
retries, transactions around them, checkouts, backups, restores, faults and crashes are arbitrary. A key is excused from the
moment that two sessions are in a call with it, which the code does not prevent, or another write, a ROLLBACK, a crash or a
store that failed gets in a call's way. `OnceInv` says of all other keys

* what is left of a script still has this form, and of a call with a key the statement, the answer and the commit, or the
  answer and the commit (`CallsProper`, `Under`);
* whoever is about to look a key up finds the log table (`LooksFit`), also after tables came in from outside (`Brought`);
* a key whose call is under way is not logged, one session has it, and it counts as executed when the answer is all that is
  left (`CallsOnce`); otherwise it is executed if and only if it is logged (`KeysOnce`);
* the store, the operations under way, the log of the open transaction and its snapshot say of a logged row what memory says,
  or nothing (`LogKept`), so that neither the ROLLBACK of a transaction nor a crash brings back another answer; without a store
  there is nothing to come back (`Detached`).

It is inductive together with `StoreInv`, for what a session has pending, and `SyncInv`.

`CacheLosesNoChange` (`OlapCatchesUp`), for any number of tasks that query the cache while sessions execute. Two halves meet in
`Handled`: a key that need not be right in the cache is marked, due to be marked, or excepted. `MarksFollow` says of every
step of a session that it changes no row and takes no mark without the mark still to come; it needs that a statement
has only rows after its first operation (`RowsFollow`), so that one that fails leaves no table unmarked. `CacheInv` says of the
cache that in a copy under way only handled keys differ from the table (`CopiesFollow`), and in a cached table only those and
keys that some refresh is about to read (`BatchesFollow`). A refresh that takes marks keeps this, since it brings what they
told of, or its copy, or another's, was older and the mark counts as lost (`MarksTaken`, `RefreshKeeps`). The rows of a table come
once each (`RowsOfTable`), which a merge keeps (`MergedIs`); zone maps need no such invariant (`DisprovedHasNone`, `SegmentsCover`).

**What the proofs changed in the model.** They found a history variable that forgot a write
(`covered` of `EndRegistration`), calls of a sharded store that was already being dropped (`Held`),
arms of a CASE that overlapped (`Effect`, `StoreWrite`), tasks that a loss of
the leadership had not marked (`Deposes`), cells of other sessions that a failed COMMIT puts back (`CommitError`), calls
whose log table a ROLLBACK takes away between their first two steps (`LookingUp`; two sessions of the runs never met so), a crash
between those steps (`Calling`), filters that nothing could be said about (`Chosen` of `Placement` selects by place), the way from one table to the next of a query of all tables (`NextTable` took the rest of the wrong list; no workload had two
tables to cache, one has now), and assumptions that had gone without saying (`NoKey` is no key, pages are not
empty, keys are finite).

**Induction over data** is out of this prover's reach. Where only an order is needed, the least
counterexample (`LeastOf`) does instead; what a recursive definition or a fold
of the community modules computes cannot be had that way. Therefore

**only model-checked** are: liveness (`EveryoneApplies`, `EverythingArrives`), which rests
on fairness; the two parts of `SaidIsDone` about the parser and the imports (folds over texts and rows);
`ReplicaFollowsTable` (folds over blocks and rows);
`DiffIsComplete` (folds over trees); the types of `database` and `services` (`TypeOK`, `ServicesOK`).

## What is not modelled

*Raft:* threads inside one handler (two locks of one handler with another task in
between) except on the write path; restarts of a node, which loses everything it
knew; a connection that hangs for ever; frames, encodings and tokens.
*WAL service:* `truncate_up_to`, which only tests call; deltas that replace a page;
several pages.
*Engine:* tenants' names, `persist_to` (only tests), `execute_async`, `select_follower_read`,
reads of the past by time. fjall itself is external: a write that returned survives
a crash of the process; power failures are not looked at.
*OLAP:* DataFusion's SQL and Arrow types.
*Backups:* encodings, signatures, retention. *Mirror, adapters:* the other databases.
*Wire:* TLS, SCRAM, the PostgreSQL framing. *Registry:* HTML. *Mail:* SMTP.
*Server, GraphQL:* handlers and resolvers that only report, stubs (`clusterNodeOp`,
`rebalanceCluster` of GraphQL), serialization, pages, metrics.
*RAID-Z, clients, drivers, user interfaces:* no state of the system's own.

## Plan

All components with concurrent state of their own have a module, and the twelve
runs are one for each question above. What is left is proof:

1. `ReplicaFollowsTable`, with what an observer's blocks and the filter of their keys say of the rows put.
2. `ServicesOK` and the rest of the types of `database`, from the invariants that are there.
