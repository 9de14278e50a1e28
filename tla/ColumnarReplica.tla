-------------------------- MODULE ColumnarReplica ---------------------------
(***************************************************************************)
(* ColumnarApplier (columnar_applier.rs): the columnar replica of the      *)
(* user's table, a base block and delta blocks with deletion vectors.  In  *)
(* a server one observer follows the engine's notices; on a Raft learner   *)
(* the tasks that apply the log replicate after each statement.  Either    *)
(* takes a snapshot of the table, merges it into the replica under the     *)
(* replica's lock, and then commits the blocks it wrote to the table on    *)
(* object storage, all of it in memory.  A learner's engine has no row     *)
(* store; what it does to the store here is not looked at.                 *)
(***************************************************************************)
EXTENDS OlapCache, TableFormat

CONSTANTS
    Observer, \* the task of a server
    Threshold, \* compaction_threshold
    BitsOf     \* the bits of a bloom filter that a key sets

ASSUME ColumnarAssumption ==
    /\ Observer \notin Session /\ Threshold \in Nat \ {0}
    /\ \A k \in UserKey : BitsOf[k] # {}

Copier == Session \cup {Observer}

VARIABLES
    replicas,  \* "off", "observer" or "learner"
    notices,   \* notices of the table still to be received
    blocks,    \* base and deltas: rows, and positions deleted; none before the first copy
    locations, \* primary key -> where its row is, and its value (the code keeps a hash)
    deltas_since_base,
    copy,      \* each task's replicate_table
    overtaken  \* history: keys that a learner's older copy set back

replicaVars == <<replicas, notices, blocks, locations, deltas_since_base, copy, overtaken>>
-----------------------------------------------------------------------------
NoCopy == [at |-> "rest", rows |-> <<>>]

ReplicaInit(w) ==
    /\ TableInit
    /\ replicas = w.replicas
    /\ notices = 0
    /\ blocks = <<>>
    /\ locations = <<>>
    /\ deltas_since_base = 0
    /\ copy = [c \in Copier |-> NoCopy]
    /\ overtaken = {}

KeyOf(row) == row[1]
KeysIn(rows) == {KeyOf(rows[i]) : i \in DOMAIN rows}
Unheld(s) == Is(s, "rest") /\ script[s] # <<>>

\* table_name_touched: a statement on the table, read-only ones and calls aside.
Touches(st) ==
    /\ st.do \in {"create", "drop", "insert", "upsert", "upsert_nothing", "delete", "update", "move"}
    /\ UserTable \in {st.cell} \/ st.cell \in UserKey

\* What a session's step means to the replica.  The observer gets a notice of each operation that
\* is marked, a learner's task goes on to replicate when its statement was executed.
Follow(s) ==
    /\ copy[s].at = "rest" \/ ~Is(s, "rest")
    /\ notices' = IF /\ replicas = "observer" /\ Is(s, "mark")
                     /\ Head(job[s].ops).cell \in {UserTable} \cup UserKey
                  THEN notices + 1 ELSE notices
    /\ copy' = IF /\ replicas = "learner" /\ Unheld(s)
                  /\ Touches(Head(script[s])) /\ Effect(Head(script[s])).ok
               THEN [copy EXCEPT ![s].at = "due"] ELSE copy
    /\ UNCHANGED <<replicas, blocks, locations, deltas_since_base, overtaken, tableVars>>

\* The observer's loop (main.rs).
TakeNotice ==
    /\ copy[Observer].at = "rest" /\ notices > 0
    /\ notices' = notices - 1
    /\ copy' = [copy EXCEPT ![Observer].at = "due"]
    /\ UNCHANGED <<blocks, locations, deltas_since_base, overtaken, tableVars>>

\* replicate_table: snapshot_table; nothing to do without the table.
SnapshotRows(c) ==
    /\ copy[c].at = "due" /\ (c \in Session => Is(c, "rest"))
    /\ copy' = [copy EXCEPT ![c] = IF mem[UserTable] = 0 THEN NoCopy
                                   ELSE [at |-> "merge", rows |-> SnapshotOf(UserTable)]]
    /\ UNCHANGED <<notices, blocks, locations, deltas_since_base, overtaken, tableVars>>

\* Variant: positions count from the block's second row.
PlacedFromSecond(rows, index) ==
    [k \in KeysIn(rows) |->
        LET i == CHOOSE i \in DOMAIN rows : KeyOf(rows[i]) = k
        IN [block |-> index, pos |-> i + 1, val |-> rows[i][2]]]

\* A block's place in the view, and the places of its rows.
Placed(rows, index) ==
    [k \in KeysIn(rows) |->
        LET i == CHOOSE i \in DOMAIN rows : KeyOf(rows[i]) = k
        IN [block |-> index, pos |-> i, val |-> rows[i][2]]]

Located == DOMAIN locations

\* Rows that are new to the replica or changed.
News(rows) ==
    AtPlaces(rows, {i \in DOMAIN rows : KeyOf(rows[i]) \notin Located \/ locations[KeyOf(rows[i])].val # rows[i][2]})

\* Variant: only rows that are gone are marked as deleted.
OutdatedGone(rows) == Located \ KeysIn(rows)

\* Keys whose row in a block does not count any longer: gone, or changed.
Outdated(rows) == (Located \ KeysIn(rows)) \cup (KeysIn(News(rows)) \cap Located)

\* Their positions go into the deletion vectors.
Marked(keys) ==
    [i \in DOMAIN blocks |->
        [blocks[i] EXCEPT !.deleted = @ \cup {locations[k].pos : k \in {u \in keys : locations[u].block = i}}]]

\* The copy is merged: a base at first, else a delta, and a new base when there are many.
MergeRows(c) ==
    LET rows == copy[c].rows
        news == News(rows)
        compact == blocks # <<>> /\ news # <<>> /\ deltas_since_base + 1 >= Threshold
    IN
    /\ copy[c].at = "merge"
    /\ IF blocks = <<>> \/ compact
       THEN /\ blocks' = <<[rows |-> rows, deleted |-> {}]>>
            /\ locations' = Placed(rows, 1)
            /\ deltas_since_base' = 0
            /\ copy' = [copy EXCEPT ![c] = [at |-> "commit", rows |-> <<rows>>]]
       ELSE IF news # <<>>
       THEN /\ blocks' = Append(Marked(Outdated(rows)), [rows |-> news, deleted |-> {}])
            /\ locations' = Placed(news, Len(blocks) + 1)
                            @@ [k \in Located \cap KeysIn(rows) |-> locations[k]]
            /\ deltas_since_base' = deltas_since_base + 1
            /\ copy' = [copy EXCEPT ![c] = [at |-> "commit", rows |-> <<news>>]]
       ELSE /\ blocks' = Marked(Outdated(rows))
            /\ locations' = [k \in Located \cap KeysIn(rows) |-> locations[k]]
            /\ copy' = [copy EXCEPT ![c] = [at |-> "commit", rows |-> <<>>]]
            /\ UNCHANGED deltas_since_base
    /\ overtaken' = overtaken \cup
          {k \in UserKey : c \in Session /\ CopyRow(rows, k) # mem[k]
                              /\ (IF k \in Located THEN locations[k].val ELSE 0) = mem[k]}
    /\ UNCHANGED <<notices, tableVars>>

\* The blocks it wrote, none perhaps, are committed; a conflict is no reason to try again.
CommitBlocks(c) ==
    /\ copy[c].at = "commit"
    /\ StartCommit(c, copy[c].rows, current)
    /\ copy' = [copy EXCEPT ![c] = [at |-> "committing", rows |-> <<>>]]
    /\ UNCHANGED <<notices, blocks, locations, deltas_since_base, overtaken>>

EndCommit(c) ==
    /\ CommitStep(c)
    /\ copy' = IF commit'[c].at = "rest" THEN [copy EXCEPT ![c] = NoCopy] ELSE copy
    /\ UNCHANGED <<notices, blocks, locations, deltas_since_base, overtaken>>

ReplicaStep ==
    /\ \/ TakeNotice
       \/ \E c \in Copier : SnapshotRows(c) \/ MergeRows(c) \/ CommitBlocks(c) \/ EndCommit(c)
    /\ UNCHANGED <<storeVars, versionVars, engineVars, engineHistory, olapVars, replicas>>
-----------------------------------------------------------------------------
\* prune_range_preview: blocks with no live row, or whose statistics rule the query out, are skipped.
Living == {i \in DOMAIN blocks : ~(blocks[i].rows # <<>> /\ blocks[i].deleted = DOMAIN blocks[i].rows)}
Kept(op, num) == {i \in Living : ~Disproves(Values(blocks[i].rows), op, num)}

\* Variant: each insertion into the filter forgets the ones before.
BloomOfLast(rows) == IF rows = <<>> THEN {} ELSE BitsOf[KeyOf(rows[Len(rows)])]

\* The bloom filter of a block's keys.
Bloom(rows) == UNION {BitsOf[k] : k \in KeysIn(rows)}

MayContain(rows, k) == BitsOf[k] \subseteq Bloom(rows)

\* prune_equality_preview on the key, and prune_equality of a version.
KeptFor(k) == {i \in Living : MayContain(blocks[i].rows, k)}
PruneEquality(id, k) == {block \in BlocksAt(id) : MayContain(block, k)}

ReplicaOK ==
    /\ TableOK
    /\ notices \in Nat /\ deltas_since_base \in 0..Threshold
    /\ \A i \in DOMAIN blocks : blocks[i].deleted \subseteq DOMAIN blocks[i].rows
    /\ Located \subseteq UserKey
    /\ \A c \in Copier : copy[c].at \in {"rest", "due", "merge", "commit", "committing"}
    /\ overtaken \subseteq UserKey

LiveRows == UNION {{<<i, p>> : p \in DOMAIN blocks[i].rows \ blocks[i].deleted} : i \in DOMAIN blocks}
RowAt(l) == blocks[l[1]].rows[l[2]]

\* Somebody is about to bring the key's row to the replica.
Coming(k) ==
    \/ notices > 0
    \/ \E s \in Session : k \in Marking(s) \/ UserTable \in Marking(s)
    \/ \E c \in Copier : copy[c].at = "due" \/ (copy[c].at = "merge" /\ CopyRow(copy[c].rows, k) = mem[k])

\* Read with its deletion vectors the replica holds each row once, where `locations` says.  A row
\* that is not as the table has it will be, without another statement; excepted are rows changed
\* without a notice, and those that one of a learner's two tasks set back with an older copy.  The
\* blocks that a query by range or by key reads hold every row it asks for, in the view and in a
\* version, though blocks are skipped on what their statistics and bloom filters say.
ReplicaFollowsTable ==
    /\ Cardinality(LiveRows) = Cardinality(Located)
    /\ \A k \in Located : /\ <<locations[k].block, locations[k].pos>> \in LiveRows
                          /\ RowAt(<<locations[k].block, locations[k].pos>>) = <<k, locations[k].val>>
    /\ blocks # <<>> /\ mem[UserTable] # 0 =>
          \A k \in UserKey \ (unmarked \cup overtaken) :
              (IF k \in Located THEN locations[k].val ELSE 0) = mem[k] \/ Coming(k)
    /\ \A op \in {">", ">=", "<", "<="}, num \in Val :
          /\ \A l \in LiveRows : Satisfies(RowAt(l)[2], op, num) => l[1] \in Kept(op, num)
          /\ \A block \in BlocksAt(current) :
                (\E v \in Values(block) : Satisfies(v, op, num)) => block \in PruneRange(current, op, num)
    /\ \A k \in UserKey :
          /\ k \in Located => locations[k].block \in KeptFor(k)
          /\ \A block \in BlocksAt(current) : k \in KeysIn(block) => block \in PruneEquality(current, k)
=============================================================================
