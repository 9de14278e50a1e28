---------------------------- MODULE QueryEngine -----------------------------
(***************************************************************************)
(* QueryEngine (engine.rs): tables in memory, written through to the row   *)
(* store.  A statement changes memory under the tables' lock and then, one *)
(* row at a time and under other locks, marks the row for the mirror and   *)
(* the OLAP cache and writes it to the store; with a transaction open,     *)
(* whoever opened it, the write goes into the transaction's log instead.   *)
(* Sessions run scripts of statements; the process may crash and restart.  *)
(***************************************************************************)
EXTENDS VersionControl

VARIABLES
    mem,          \* the tables: 1 for a table that is there, and its rows
    txn,          \* the one transaction, or NoTxn
    dirty,        \* keys written since the last aruaru_commit
    deltas, schema_dirty, \* keys and tables changed since the OLAP cache took them
    script,       \* statements each session still has to execute
    job,          \* its statement under way
    faults,       \* faults still to happen: a crash, an error of the store
    attached,     \* whether the engine has a row store
    mirror,       \* what the commit hook was last given of each key
    idem,         \* history: the idempotency key a session is executing
    executions,   \* history: how often a key's statement took effect
    excused,      \* history: cells whose writes met other writes, BEGIN or ROLLBACK, or a fault
    unmarked      \* history: keys that changed with no mark to come: by ROLLBACK, a checkout, a restart

engineVars == <<mem, txn, dirty, deltas, schema_dirty, script, job, faults, attached, mirror>>
engineHistory == <<idem, executions, excused, unmarked>>
-----------------------------------------------------------------------------
NoTxn == [snapshot |-> <<>>, log |-> <<>>, open |-> FALSE]
Resting == [at |-> "rest", ops |-> <<>>, writes |-> <<>>, snapshot |-> <<>>, keys |-> {}]

\* A workload says what each session executes, what may go wrong, and how the engine is set up.
EngineInit(w) ==
    /\ RowStoreInit /\ VersionInit
    /\ mem = [c \in Cell |-> 0]
    /\ txn = NoTxn
    /\ dirty = {} /\ deltas = {} /\ schema_dirty = {}
    /\ script = w.script /\ faults = w.faults /\ attached = w.attached
    /\ job = [s \in Session |-> Resting]
    /\ mirror = [k \in Key |-> 0]
    /\ idem = [s \in Session |-> 0]
    /\ executions = [k \in LogKey |-> 0]
    /\ excused = {} /\ unmarked = {}

Is(s, at) == job[s].at = at

\* Keys in order, as rows are visited.
Hits(t, val) == Ordered({k \in Key : TableOf(k) = t /\ mem[k] # 0 /\ (val = 0 \/ mem[k] = val)})

\* snapshot_table: its rows as pairs.
SnapshotOf(t) == LET keys == Hits(t, 0) IN [i \in DOMAIN keys |-> <<keys[i], mem[keys[i]]>>]

Ops(keys, val) == [i \in DOMAIN keys |-> [cell |-> keys[i], val |-> val]]

Changed(f, c, v) == [f EXCEPT ![c] = v]
ChangedAll(f, S, v) == [c \in DOMAIN f |-> IF c \in S THEN v ELSE f[c]]

\* UPDATE of the key column: each row leaves its key and is saved under the new one.
Moved(hits, new) ==
    FlattenSeq([i \in DOMAIN hits |->
        (IF hits[i] = new THEN <<>> ELSE <<[cell |-> hits[i], val |-> 0]>>)
        \o <<[cell |-> new, val |-> mem[hits[i]]]>>])

Unchanged == [ok |-> TRUE, mem |-> mem, ops |-> <<>>]
Failed == [ok |-> FALSE, mem |-> mem, ops |-> <<>>]

\* What a statement does to memory, and the operations it then persists.
Effect(st) ==
    LET t == IF st.cell \in Table THEN st.cell ELSE TableOf(st.cell) IN
    IF st.do = "create"
    THEN [ok |-> TRUE, mem |-> Changed(mem, t, 1), ops |-> <<[cell |-> t, val |-> 1]>>]
    ELSE IF mem[t] = 0 THEN (IF st.do = "drop" THEN Unchanged ELSE Failed)
    ELSE
    CASE st.do = "drop" ->
            [ok |-> TRUE, mem |-> ChangedAll(mem, {t} \cup KeysOf(t), 0), ops |-> <<[cell |-> t, val |-> 0]>>]
      [] st.do = "upsert_nothing" /\ mem[st.cell] # 0 ->
            [ok |-> TRUE, mem |-> mem, ops |-> <<[cell |-> st.cell, val |-> mem[st.cell]]>>]
      [] st.do \in {"insert", "upsert"} \/ (st.do = "upsert_nothing" /\ mem[st.cell] = 0) ->
            [ok |-> TRUE, mem |-> Changed(mem, st.cell, st.val), ops |-> <<[cell |-> st.cell, val |-> st.val]>>]
      [] st.do = "delete" ->
            [ok |-> TRUE, mem |-> ChangedAll(mem, ToSet(Hits(t, st.val)), 0), ops |-> Ops(Hits(t, st.val), 0)]
      [] st.do = "update" ->
            [ok |-> TRUE, mem |-> ChangedAll(mem, ToSet(Hits(t, st.val)), st.new),
             ops |-> Ops(Hits(t, st.val), st.new)]
      [] st.do = "move" /\ Hits(t, st.val) = <<>> -> Unchanged
      [] st.do = "move" /\ Hits(t, st.val) # <<>> ->
            [ok |-> TRUE,
             mem |-> Changed(ChangedAll(mem, ToSet(Hits(t, st.val)), 0), st.new, mem[Last(Hits(t, st.val))]),
             ops |-> Moved(Hits(t, st.val), st.new)]
      [] OTHER -> Failed
-----------------------------------------------------------------------------
\* The cells an operation concerns, and those a session has still to bring to the store.
CellsOf(op) ==
    IF op.cell \in Table /\ op.val = 0 THEN {op.cell} \cup KeysOf(op.cell) ELSE {op.cell}

CellsOfAll(ops) == UNION {CellsOf(ops[i]) : i \in DOMAIN ops}

Pending(s) == IF Is(s, "restore") THEN Cell ELSE CellsOfAll(job[s].ops)
PendingBut(s) == UNION {Pending(u) : u \in Session \ {s}}

\* Idempotency keys other sessions are executing, and those that a session is going to look up.
Executing(s) == {idem[u] : u \in Session \ {s}} \ {0}
LookingUp == {Head(script[s]).cell : s \in {u \in Session : script[u] # <<>> /\ Head(script[u]).do = "lookup"}}

Persisting(s, ops) ==
    IF ops # <<>> THEN [job[s] EXCEPT !.at = "mark", !.ops = ops, !.writes = <<>>]
    ELSE IF job[s].snapshot # <<>> THEN [job[s] EXCEPT !.at = "install", !.ops = <<>>, !.writes = <<>>]
    ELSE Resting

Stop(s) == script' = [script EXCEPT ![s] = <<>>]
Advance(s) == script' = [script EXCEPT ![s] = Tail(@)]

\* INSERT, UPSERT, DELETE, UPDATE, CREATE, DROP: the change of memory.
Execute(s) ==
    LET st == Head(script[s]) IN
    /\ Is(s, "rest") /\ script[s] # <<>>
    /\ st.do \in {"create", "drop", "insert", "upsert", "upsert_nothing", "delete", "update", "move"}
    /\ mem' = Effect(st).mem
    /\ job' = [job EXCEPT ![s] = Persisting(s, Effect(st).ops)]
    /\ IF Effect(st).ok THEN Advance(s) ELSE Stop(s)
    /\ idem' = IF st.cell \in LogKey \/ ~Effect(st).ok THEN [idem EXCEPT ![s] = 0] ELSE idem
    /\ executions' = IF idem[s] # 0 /\ st.cell \notin LogKey /\ Effect(st).ok
                     THEN [executions EXCEPT ![idem[s]] = @ + 1] ELSE executions
    /\ excused' = excused \cup (CellsOfAll(Effect(st).ops) \cap PendingBut(s))
    /\ UNCHANGED <<attached, storeVars, versionVars, txn, dirty, deltas, schema_dirty, faults, mirror, unmarked>>

\* Variant: rows of a transaction are not marked for the mirror.
MarkOutsideTxn(s) ==
    LET op == Head(job[s].ops) IN
    /\ Is(s, "mark")
    /\ dirty' = IF op.cell \in Key /\ op.val # 0 /\ ~txn.open THEN dirty \cup {op.cell} ELSE dirty
    /\ deltas' = IF op.cell \in Key THEN deltas \cup {op.cell} ELSE deltas \ CellsOf([op EXCEPT !.val = 0])
    /\ schema_dirty' = IF op.cell \in Table THEN schema_dirty \cup {op.cell} ELSE schema_dirty
    /\ job' = [job EXCEPT ![s].at = "record"]
    /\ UNCHANGED <<attached, storeVars, versionVars, mem, txn, script, faults, mirror, engineHistory>>

\* persist_row, persist_delete, persist_schema, persist_drop: first the marks ...
Mark(s) ==
    LET op == Head(job[s].ops) IN
    /\ Is(s, "mark")
    /\ dirty' = IF op.cell \in Key /\ op.val # 0 THEN dirty \cup {op.cell} ELSE dirty
    /\ deltas' = IF op.cell \in Key THEN deltas \cup {op.cell} ELSE deltas \ CellsOf([op EXCEPT !.val = 0])
    /\ schema_dirty' = IF op.cell \in Table THEN schema_dirty \cup {op.cell} ELSE schema_dirty
    /\ job' = [job EXCEPT ![s].at = "record"]
    /\ UNCHANGED <<attached, storeVars, versionVars, mem, txn, script, faults, mirror, engineHistory>>

\* Variant: deletions are not part of the transaction.
RecordRowsOnly(s) ==
    LET op == Head(job[s].ops) IN
    /\ Is(s, "record")
    /\ IF txn.open /\ op.val # 0
       THEN /\ txn' = [txn EXCEPT !.log = Append(@, op)]
            /\ job' = [job EXCEPT ![s] = Persisting(s, Tail(job[s].ops))]
       ELSE /\ job' = [job EXCEPT ![s] = IF attached THEN [@ EXCEPT !.writes = Writes(op), !.at = "write"]
                                        ELSE Persisting(s, Tail(@.ops))]
            /\ UNCHANGED txn
    /\ UNCHANGED <<attached, storeVars, versionVars, mem, dirty, deltas, schema_dirty, script, faults, mirror, engineHistory>>

\* ... then record_or_apply looks, under the transaction's lock, where the operation goes.
RecordOrApply(s) ==
    LET op == Head(job[s].ops) IN
    /\ Is(s, "record")
    /\ IF txn.open
       THEN /\ txn' = [txn EXCEPT !.log = Append(@, op)]
            /\ job' = [job EXCEPT ![s] = Persisting(s, Tail(job[s].ops))]
       ELSE /\ job' = [job EXCEPT ![s] = IF attached THEN [@ EXCEPT !.writes = Writes(op), !.at = "write"]
                                        ELSE Persisting(s, Tail(@.ops))]
            /\ UNCHANGED txn
    /\ UNCHANGED <<attached, storeVars, versionVars, mem, dirty, deltas, schema_dirty, script, faults, mirror, engineHistory>>

\* A write of the operation; after its last one the session goes on with the next operation.
StoreWrite(s) ==
    LET w == Head(job[s].writes)
        left == (IF w.part = "rows" THEN Removals(w.cell) ELSE <<>>) \o Tail(job[s].writes)
    IN
    /\ job[s].at \in {"write", "apply_write"}
    /\ Perform(w)
    /\ job' = [job EXCEPT ![s] =
          IF left # <<>> THEN [@ EXCEPT !.writes = left]
          ELSE IF Is(s, "write") THEN Persisting(s, Tail(@.ops))
          ELSE [@ EXCEPT !.at = "apply", !.ops = Tail(job[s].ops), !.writes = <<>>]]
    /\ UNCHANGED <<attached, versionVars, mem, txn, dirty, deltas, schema_dirty, script, faults, mirror, engineHistory>>

\* A write fails.  The statement fails with it; what it did to memory stays, its other rows unmarked.
StoreError(s) ==
    /\ "error" \in faults /\ Is(s, "write") /\ job[s].snapshot = <<>>
    /\ faults' = faults \ {"error"}
    /\ job' = [job EXCEPT ![s] = Resting]
    /\ Stop(s)
    /\ idem' = [idem EXCEPT ![s] = 0]
    /\ excused' = excused \cup Pending(s) \cup ({idem[s]} \ {0})
    /\ unmarked' = unmarked \cup (CellsOfAll(Tail(job[s].ops)) \cap Key)
    /\ UNCHANGED <<attached, storeVars, versionVars, mem, txn, dirty, deltas, schema_dirty, mirror, executions>>

\* ingest_table, which brings tables in from outside: the schema and the rows are persisted ...
IngestTable(s, t, image) ==
    LET keys == Ordered({k \in KeysOf(t) : image[k] # 0})
        new == [c \in Cell |-> IF c = t THEN 1 ELSE IF c \in KeysOf(t) THEN image[c] ELSE 0]
        cells == {t} \cup KeysOf(t)
    IN
    /\ Is(s, "rest")
    /\ job' = [job EXCEPT ![s] = [Resting EXCEPT !.at = "mark", !.snapshot = [c \in cells |-> new[c]],
          !.ops = <<[cell |-> t, val |-> 1]>> \o [i \in DOMAIN keys |-> [cell |-> keys[i], val |-> image[keys[i]]]]]]
    /\ excused' = excused \cup (cells \cap PendingBut(s)) \cup {c \in cells : mem[c] # new[c]}
    /\ UNCHANGED <<attached, storeVars, versionVars, mem, txn, dirty, deltas, schema_dirty, script, faults,
                   mirror, idem, executions, unmarked>>

\* ... an error of the store only logged ...
IngestError(s) ==
    /\ "error" \in faults /\ Is(s, "write") /\ job[s].snapshot # <<>>
    /\ faults' = faults \ {"error"}
    /\ job' = [job EXCEPT ![s] = Persisting(s, Tail(@.ops))]
    /\ excused' = excused \cup CellsOf(Head(job[s].ops))
    /\ UNCHANGED <<attached, storeVars, versionVars, mem, txn, dirty, deltas, schema_dirty, script,
                   mirror, idem, executions, unmarked>>

\* ... and then the table is replaced in memory; its old rows that are not replaced stay in the store.
Install(s) ==
    /\ Is(s, "install")
    /\ mem' = [c \in Cell |-> IF c \in DOMAIN job[s].snapshot THEN job[s].snapshot[c] ELSE mem[c]]
    /\ job' = [job EXCEPT ![s] = Resting]
    /\ executions' = [k \in LogKey |-> IF mem'[k] = mem[k] THEN executions[k] ELSE 0]
    /\ excused' = excused \cup {c \in Cell : mem'[c] # mem[c]} \cup (DOMAIN job[s].snapshot \cap PendingBut(s))
                  \cup Executing(s)
    /\ unmarked' = unmarked \cup {k \in Key : mem'[k] # mem[k]}
    /\ UNCHANGED <<attached, storeVars, versionVars, txn, dirty, deltas, schema_dirty, script, faults, mirror, idem>>
-----------------------------------------------------------------------------
Heading(s, what) == Is(s, "rest") /\ script[s] # <<>> /\ Head(script[s]).do = what

\* BEGIN; an error if a transaction is open.
Begin(s) ==
    /\ Heading(s, "begin")
    /\ IF txn.open THEN Stop(s) /\ UNCHANGED <<txn, excused>>
       ELSE /\ txn' = [snapshot |-> mem, log |-> <<>>, open |-> TRUE]
            /\ Advance(s)
            /\ excused' = excused \cup PendingBut(s) \cup Executing(s)
    /\ UNCHANGED <<attached, storeVars, versionVars, mem, dirty, deltas, schema_dirty, job, faults, mirror,
                   idem, executions, unmarked>>

\* COMMIT takes the transaction and applies its log; nothing to do without one.
CommitTxn(s) ==
    /\ Heading(s, "commit_txn")
    /\ Advance(s)
    /\ txn' = NoTxn
    /\ IF ~txn.open \/ ~attached THEN UNCHANGED <<job, excused>>
       ELSE /\ job' = [job EXCEPT ![s] = [Resting EXCEPT !.at = "apply", !.ops = txn.log,
                                                        !.snapshot = txn.snapshot]]
            /\ excused' = excused \cup (CellsOfAll(txn.log) \cap PendingBut(s))
    /\ UNCHANGED <<attached, storeVars, versionVars, mem, dirty, deltas, schema_dirty, faults, mirror,
                   idem, executions, unmarked>>

\* Its next operation, or the sync at the end; either may fail.
ApplyLog(s) ==
    /\ Is(s, "apply")
    /\ job' = [job EXCEPT ![s] = IF @.ops = <<>> THEN Resting
                                 ELSE [@ EXCEPT !.writes = Writes(Head(job[s].ops)), !.at = "apply_write"]]
    /\ UNCHANGED <<attached, storeVars, versionVars, mem, txn, dirty, deltas, schema_dirty, script, faults, mirror,
                   engineHistory>>

\* An error makes COMMIT restore memory; the operations already applied stay in the store.
CommitError(s) ==
    /\ "error" \in faults /\ job[s].at \in {"apply", "apply_write"}
    /\ faults' = faults \ {"error"}
    /\ job' = [job EXCEPT ![s].at = "restore", ![s].ops = <<>>, ![s].writes = <<>>]
    /\ excused' = excused \cup {c \in Cell : mem[c] # job[s].snapshot[c]} \cup CellsOfAll(job[s].ops)
                  \cup PendingBut(s)
    /\ UNCHANGED <<attached, storeVars, versionVars, mem, txn, dirty, deltas, schema_dirty, script, mirror,
                   idem, executions, unmarked>>

\* ROLLBACK takes the transaction ...
Rollback(s) ==
    /\ Heading(s, "rollback")
    /\ Advance(s)
    /\ txn' = NoTxn
    /\ IF ~txn.open THEN UNCHANGED <<job, excused>>
       ELSE /\ job' = [job EXCEPT ![s] = [Resting EXCEPT !.at = "restore", !.snapshot = txn.snapshot]]
            /\ excused' = excused \cup PendingBut(s) \cup Executing(s)
    /\ UNCHANGED <<attached, storeVars, versionVars, mem, dirty, deltas, schema_dirty, faults, mirror,
                   idem, executions, unmarked>>

\* ... and then puts the tables back as they were, whoever changed them, unmarked.
Restore(s) ==
    /\ Is(s, "restore")
    /\ mem' = job[s].snapshot
    /\ job' = [job EXCEPT ![s] = Resting]
    /\ executions' = [k \in LogKey |-> IF mem'[k] = mem[k] THEN executions[k] ELSE 0]
    /\ excused' = excused \cup PendingBut(s) \cup Executing(s)
                  \cup (IF mem'[LogTable] # mem[LogTable] THEN LookingUp ELSE {})
    /\ unmarked' = unmarked \cup {k \in Key : mem'[k] # mem[k]}
    /\ UNCHANGED <<attached, storeVars, versionVars, txn, dirty, deltas, schema_dirty, script, faults, mirror, idem>>
-----------------------------------------------------------------------------
\* execute_idempotent is the sequence Idempotent(key, statement): the log table is created if it
\* is not there ...
EnsureLog(s) ==
    /\ Heading(s, "ensure")
    /\ script' = [script EXCEPT ![s] =
          (IF mem[LogTable] = 0 THEN <<[do |-> "create", cell |-> LogTable, val |-> 0, new |-> 0]>> ELSE <<>>) \o Tail(@)]
    /\ UNCHANGED <<attached, storeVars, versionVars, mem, txn, dirty, deltas, schema_dirty, job, faults, mirror, engineHistory>>

\* Variant: the key is looked up in the store.
LoggedInStore(k) == data[k] # 0

\* ... the key is looked up in memory ...
Logged(k) == mem[k] # 0

\* ... an answer that is found is returned; else the statement is executed, its answer logged as a
\* row and the whole committed, each on its own.
LookUp(s) ==
    LET k == Head(script[s]).cell IN
    /\ Heading(s, "lookup")
    /\ IF Logged(k)
       THEN /\ script' = [script EXCEPT ![s] = SubSeq(@, 5, Len(@))]
            /\ UNCHANGED <<idem, excused>>
       ELSE /\ Advance(s)
            /\ idem' = [idem EXCEPT ![s] = k]
            /\ excused' = excused \cup ({k} \cap Executing(s))
    /\ UNCHANGED <<attached, storeVars, versionVars, mem, txn, dirty, deltas, schema_dirty, job, faults, mirror,
                   executions, unmarked>>
-----------------------------------------------------------------------------
Rows == [k \in Key |-> mem[k]]

\* aruaru_commit, aruaru_branch, aruaru_branch_from, aruaru_checkout, aruaru_merge, aruaru_log.
\* snapshot_root copies the tables under their lock, uncommitted changes with them.
CallVersion(s) ==
    LET st == Head(script[s]) IN
    /\ Is(s, "rest") /\ script[s] # <<>>
    /\ st.do \in {"commit", "branch", "branch_from", "checkout", "merge", "log"}
    /\ Call(s, IF st.do = "log" THEN "head" ELSE st.do, IF st.cell = OtherBranch THEN OtherBranch ELSE Main,
            st.val, Rows)
    /\ job' = [job EXCEPT ![s].at = st.do]
    /\ Advance(s)
    /\ UNCHANGED <<attached, storeVars, mem, txn, dirty, deltas, schema_dirty, faults, mirror, engineHistory>>

VersionCall(s) ==
    /\ VersionStep(s)
    /\ UNCHANGED <<storeVars, engineVars, engineHistory>>

Leave(s) ==
    /\ task' = [task EXCEPT ![s] = Idle]
    /\ UNCHANGED <<commits, branches, current_branch, landed, rewritten>>

\* The call is over: aruaru_commit goes on to sync the store, which may fail with the commit
\* recorded; aruaru_checkout to read the rows of the head.
Return(s) ==
    /\ task[s].at \in {"done", "refused"}
    /\ Leave(s)
    /\ \/ /\ At(s, "refused")
          /\ Stop(s)
          /\ job' = [job EXCEPT ![s] = Resting]
          /\ UNCHANGED faults
       \/ /\ "error" \in faults /\ Is(s, "commit")
          /\ Stop(s)
          /\ job' = [job EXCEPT ![s] = Resting]
          /\ faults' = faults \ {"error"}
       \/ /\ At(s, "done")
          /\ job' = [job EXCEPT ![s] =
                CASE Is(s, "commit") -> [@ EXCEPT !.at = "take"]
                  [] Is(s, "checkout") -> [@ EXCEPT !.at = "load", !.snapshot = commits[task[s].id].root]
                  [] OTHER -> Resting]
          /\ UNCHANGED <<script, faults>>
    /\ UNCHANGED <<attached, storeVars, mem, txn, dirty, deltas, schema_dirty, mirror, engineHistory>>

\* export_dirty_rows_as_json takes the dirty set ...
TakeDirty(s) ==
    /\ Is(s, "take")
    /\ job' = [job EXCEPT ![s].keys = dirty, ![s].at = "export"]
    /\ dirty' = {}
    /\ UNCHANGED <<attached, storeVars, versionVars, mem, txn, deltas, schema_dirty, script, faults, mirror, engineHistory>>

\* ... and gives the hook the rows as they are by then.
ExportDirty(s) ==
    /\ Is(s, "export")
    /\ mirror' = [k \in Key |-> IF k \in job[s].keys /\ mem[k] # 0 THEN mem[k] ELSE mirror[k]]
    /\ job' = [job EXCEPT ![s] = Resting]
    /\ UNCHANGED <<attached, storeVars, versionVars, mem, txn, dirty, deltas, schema_dirty, script, faults, engineHistory>>

\* load_tables_from_commit: the rows of the tables that are there, in memory only and unmarked.
LoadCommit(s) ==
    /\ Is(s, "load")
    /\ mem' = [c \in Cell |-> IF c \in Key /\ mem[TableOf(c)] # 0 THEN job[s].snapshot[c] ELSE mem[c]]
    /\ job' = [job EXCEPT ![s] = Resting]
    /\ executions' = [k \in LogKey |-> IF mem'[k] = mem[k] THEN executions[k] ELSE 0]
    /\ excused' = excused \cup {c \in Cell : mem'[c] # mem[c]} \cup PendingBut(s) \cup Executing(s)
    /\ unmarked' = unmarked \cup {k \in Key : mem'[k] # mem[k]}
    /\ UNCHANGED <<attached, storeVars, versionVars, txn, dirty, deltas, schema_dirty, script, faults, mirror, idem>>
-----------------------------------------------------------------------------
\* A session is in execute_idempotent.
Calling(s) ==
    \/ idem[s] # 0
    \/ \E i \in DOMAIN script[s] :
          script[s][i].do = "lookup" /\ i = IF script[s][1].do = "create" THEN 2 ELSE 1

\* The process crashes and starts again: load_from what the store holds.  A session under way
\* gives up; the transaction, the marks and the commit graph are gone.
Crash ==
    /\ "crash" \in faults
    /\ faults' = faults \ {"crash"}
    /\ mem' = Loaded
    /\ txn' = NoTxn
    /\ dirty' = {} /\ deltas' = {} /\ schema_dirty' = {}
    /\ script' = [s \in Session |-> IF job[s] = Resting /\ ~Calling(s) THEN script[s] ELSE <<>>]
    /\ job' = [s \in Session |-> Resting]
    /\ idem' = [s \in Session |-> 0]
    /\ commits' = <<[parent |-> NoCommit, root |-> EmptyRoot]>>
    /\ branches' = [b \in Branch |-> IF b = Main THEN 1 ELSE NoCommit]
    /\ current_branch' = Main
    /\ task' = [s \in Session |-> Idle]
    /\ landed' = {} /\ rewritten' = {}
    /\ executions' = [k \in LogKey |-> IF mem'[k] = mem[k] THEN executions[k] ELSE 0]
    /\ excused' = (UNION {Pending(s) : s \in Session}) \cup ({idem[s] : s \in Session} \ {0})
                  \cup {c \in excused : c \in LogKey \/ mem'[c] # data[c] \/ c \in Corrupted}
                  \cup {k \in Key : data[k] # 0 /\ data[TableOf(k)] = 0}
                  \cup (IF \E k \in Corrupted : data[TableOf(k)] # 0 THEN Cell ELSE {})
    /\ unmarked' = unmarked \cup {k \in Key : mem'[k] # mirror[k]}
    /\ UNCHANGED <<attached, storeVars, mirror>>

EngineStep(s) ==
    \/ Execute(s) \/ Mark(s) \/ RecordOrApply(s) \/ StoreWrite(s) \/ StoreError(s)
    \/ IngestError(s) \/ Install(s)
    \/ Begin(s) \/ CommitTxn(s) \/ ApplyLog(s) \/ CommitError(s) \/ Rollback(s) \/ Restore(s)
    \/ EnsureLog(s) \/ LookUp(s)
    \/ CallVersion(s) \/ VersionCall(s) \/ Return(s) \/ TakeDirty(s) \/ ExportDirty(s) \/ LoadCommit(s)
-----------------------------------------------------------------------------
EngineOK ==
    /\ RowStoreOK /\ VersionOK
    /\ mem \in [Cell -> Val]
    /\ txn.open \in BOOLEAN /\ txn.log \in Seq(Op) /\ (txn.open => txn.snapshot \in [Cell -> Val])
    /\ dirty \subseteq Key /\ deltas \subseteq Key /\ schema_dirty \subseteq Table
    /\ \A s \in Session :
          /\ job[s].at \in {"rest", "mark", "record", "write", "apply", "apply_write", "restore", "install",
                "commit", "branch", "branch_from", "checkout", "merge", "log", "take", "export", "load"}
          /\ job[s].ops \in Seq(Op) /\ job[s].writes \in Seq(WriteStep) /\ job[s].keys \subseteq Key
    /\ mirror \in [Key -> Val] /\ idem \in [Session -> LogKey \cup {0}]
    /\ executions \in [LogKey -> Nat]
    /\ excused \subseteq Cell /\ unmarked \subseteq Key

\* What operations leave in a cell.
After(v, ops, c) ==
    LET touching == {i \in DOMAIN ops : c \in CellsOf(ops[i])} IN
    IF touching = {} THEN v
    ELSE IF ops[Max(touching)].cell = c THEN ops[Max(touching)].val ELSE 0

\* The operations of the session that has some for the cell, in a commit or in a statement.
OpsFor(c, commit) ==
    LET owners == {s \in Session : c \in CellsOfAll(job[s].ops)
                      /\ (commit <=> job[s].at \in {"apply", "apply_write"})}
    IN IF owners = {} THEN <<>> ELSE job[CHOOSE s \in owners : TRUE].ops

Committed(c) == After(data[c], OpsFor(c, TRUE), c)
Restoring == {s \in Session : Is(s, "restore")}
Memory(c) == IF Restoring = {} THEN mem[c] ELSE job[CHOOSE s \in Restoring : TRUE].snapshot[c]

MidWrite == UNION {CellsOf(Head(job[s].ops)) : s \in {u \in Session : job[u].writes # <<>>}}

\* Memory is at every moment the store with the operations still to come: of COMMIT, of the open
\* transaction's log, of statements under way.  A ROLLBACK finds in its snapshot what the store
\* holds, and no row is left with another row's checksum, which would stop the next start.
\* Excepted are cells where writes of two sessions met, or a write met BEGIN, ROLLBACK or a COMMIT
\* that failed, those a checkout replaced, and those of a statement that failed or a crash cut short.
StoreFollowsMemory ==
    /\ attached => \A c \in Cell \ excused :
          /\ Memory(c) = After(After(Committed(c), txn.log, c), OpsFor(c, FALSE), c)
          /\ txn.open => txn.snapshot[c] = Committed(c)
    /\ Corrupted \subseteq excused \cup MidWrite

\* The effect of an idempotent call stands once, and its answer is there only with the effect:
\* after retries, after the ROLLBACK of a transaction around the call, after a restart.  Excepted are
\* the keys of calls that met each other, a BEGIN, a ROLLBACK (one may also take the log table from a
\* call about to look up), a checkout or a fault.
ExecutedOnce ==
    \A k \in LogKey \ excused : executions[k] <= 1 /\ (mem[k] # 0 => executions[k] = 1)

Marking(s) == IF job[s].at \in {"mark", "record", "write"} THEN CellsOfAll(job[s].ops) ELSE {}

\* A row that the mirror has not got as it is will be exported by the next aruaru_commit: it is
\* marked dirty, or about to be, or in an export under way.  A rollback, a checkout and a restart
\* change rows behind the mirror's back.
MirrorCatchesUp ==
    \A k \in Key \ unmarked : mem[k] \notin {0, mirror[k]} =>
        \/ k \in dirty
        \/ \E s \in Session : k \in Marking(s) \/ (Is(s, "export") /\ k \in job[s].keys)
=============================================================================
