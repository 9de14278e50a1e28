------------------------------ MODULE Database ------------------------------
(***************************************************************************)
(* One process of the database (aruaru-server/src/main.rs): sessions that  *)
(* execute statements in the query engine, over its row store and commit   *)
(* graph; queries of the OLAP cache; the columnar replica and its table on *)
(* object storage; backups.  Each workload sets some of them to work.  In  *)
(* the others nothing runs: there are two maps, the trees built of them    *)
(* and the difference of the trees.                                        *)
(***************************************************************************)
EXTENDS ColumnarReplica, Backup, AdminConfig

CONSTANT Workloads

\* What clients ask for: of rows, of a key, of tables and the whole, of branches.
Statement == UNION {
    [do : {"insert", "upsert", "upsert_nothing"}, cell : Key, val : Val \ {0}, new : {0}],
    [do : {"delete"}, cell : Table, val : Val, new : {0}],
    [do : {"update"}, cell : Table, val : Val, new : Val \ {0}],
    {st \in [do : {"move"}, cell : Table, val : Val, new : Key] : TableOf(st.new) = st.cell},
    [do : {"lookup"}, cell : LogKey, val : {0}, new : {0}],
    [do : {"create", "drop", "ensure", "begin", "commit_txn", "rollback", "commit", "log", "backup", "restore"},
     cell : Table, val : {0}, new : {0}],
    [do : {"branch", "branch_from", "checkout", "merge"}, cell : Table \cup {OtherBranch},
     val : CommitId \cup {NoCommit}, new : {0}]}

ASSUME DatabaseAssumption ==
    /\ Copier \subseteq Committer /\ Key \X Val \subseteq Row
    /\ \A w \in Workloads :
          /\ w.script \in [Session -> Seq(Statement)]
          /\ \A c \in w.configs : c = Broken \/ (IsConfig(c) /\ c.schedule \in Schedule)

VARIABLE trees \* two maps and the places where their trees are cut

vars == <<storeVars, versionVars, engineVars, engineHistory, olapVars, replicaVars, tableVars, backupVars, configVars, trees>>
-----------------------------------------------------------------------------
NoTrees == [from |-> EmptyRoot, to |-> EmptyRoot, boundary |-> {}, inner |-> FALSE]

Start(w) == EngineInit(w) /\ OlapInit(w) /\ ReplicaInit(w) /\ BackupInit(w) /\ ConfigInit(w.configs)

Nothing == [script |-> [s \in Session |-> <<>>], faults |-> {}, attached |-> FALSE,
            querying |-> {}, replicas |-> "off", destination |-> "local", configs |-> {}]

Init ==
    \/ \E w \in Workloads : Start(w) /\ trees = NoTrees
    \/ /\ Start(Nothing)
       /\ \E from, to \in Root : \E boundary \in SUBSET {e \in Key \X (1..MaxVal) : e[2] \in {from[e[1]], to[e[1]]}} :
             \E inner \in BOOLEAN :
                trees = [from |-> from, to |-> to, boundary |-> boundary, inner |-> inner]

\* A session goes on with its script when it has no copy to make and no backup under way.
SessionStep(s) ==
    /\ EngineStep(s)
    /\ Follow(s)
    /\ backup[s].at = "rest" \/ ~Is(s, "rest")
    /\ UNCHANGED <<olapVars, backupVars, configVars, trees>>

SessionBackup(s) ==
    /\ BackupStep(s) \/ BackupFailure(s) \/ ReadStep(s)
    /\ UNCHANGED <<olapVars, replicaVars, tableVars, configVars, trees>>

OlapQuery(f) == OlapStep(f) /\ UNCHANGED <<replicaVars, tableVars, backupVars, configVars, trees>>

Replicate == ReplicaStep /\ UNCHANGED <<backupVars, configVars, trees>>

Configure ==
    /\ ConfigStep
    /\ UNCHANGED <<storeVars, versionVars, engineVars, engineHistory, olapVars, replicaVars, tableVars, backupVars, trees>>

\* The process starts again, with what it had in memory gone.
Restart ==
    /\ Crash
    /\ cached' = {} /\ batch' = [t \in Table |-> <<>>] /\ lost_marks' = {}
    /\ refresh' = [f \in Refresher |-> NoRefresh]
    /\ notices' = 0 /\ blocks' = <<>> /\ locations' = <<>> /\ deltas_since_base' = 0 /\ overtaken' = {}
    /\ copy' = [c \in Copier |-> NoCopy]
    /\ segments' = {} /\ snapshots' = <<>> /\ current' = NoSnapshot
    /\ commit' = [w \in Committer |-> NoCommitUnderWay]
    /\ backup' = [s \in Session |-> NoBackup]
    /\ ConfigRestart
    /\ UNCHANGED <<querying, replicas, destination, staged, remote, cuts, restored, trees>>

Next ==
    \/ \E s \in Session : SessionStep(s) \/ SessionBackup(s)
    \/ \E f \in Refresher : OlapQuery(f)
    \/ Replicate
    \/ Configure
    \/ Restart

Spec == Init /\ [][Next]_vars
-----------------------------------------------------------------------------
(***************************************************************************)
(* Scripts in which only idempotent calls write the log table, the         *)
(* hypothesis under which ExecutedOnce is proved.                          *)
(***************************************************************************)
\* The table of a statement.
TableFor(st) == IF st.cell \in Table THEN st.cell ELSE TableOf(st.cell)

Effects == {"create", "drop", "insert", "upsert", "upsert_nothing", "delete", "update", "move"}

\* Statements that change rows of the log table, and those that change something else.
OnLog(st) == st.do \in Effects \ {"create"} /\ TableFor(st) = LogTable
Effective(st) == st.do \in Effects /\ ~OnLog(st)

\* The statement that logs the answer of a call with key k.
Answers(st, k) == st.do = "insert" /\ st.cell = k

\* From its lookup on a call is: the lookup, a statement, the answer, a commit.
CallAt(q, i) ==
    i + 3 <= Len(q) /\ Effective(q[i + 1]) /\ Answers(q[i + 2], q[i].cell) /\ q[i + 3].do = "commit"

OnlyCalls(q) ==
    /\ \A i \in 1 .. Len(q) : q[i].do = "lookup" => i > 1 /\ q[i - 1].do = "ensure" /\ CallAt(q, i)
    /\ \A i \in 1 .. Len(q) : OnLog(q[i]) => i > 2 /\ q[i - 2].do = "lookup"

\* Clients do not write __idempotency_log themselves, and execute_idempotent (engine.rs:724-771) is
\* called with one statement, which changes rows or tables.
IdempotentCalls == \A w \in Workloads : \A s \in Session : OnlyCalls(w.script[s])
-----------------------------------------------------------------------------
\* The types of all components.
TypeOK == EngineOK /\ OlapOK /\ ReplicaOK /\ BackupOK /\ ConfigOK

\* A tree gives back the map it was built of, by scan and by get, and two trees have one root only
\* if their maps are the same; diff_trees, which skips the leaves both trees have, finds all that
\* changed between the maps and nothing else, wherever the trees are cut.
DiffIsComplete ==
    LET from == Build(trees.from, trees.boundary, trees.inner)
        to == Build(trees.to, trees.boundary, trees.inner)
    IN trees # NoTrees =>
        /\ Scan(from) = Entries(trees.from)
        /\ \A k \in Key : Get(from, k) = trees.from[k]
        /\ from = to <=> trees.from = trees.to
        /\ DiffTrees(from, to) =
              {<<k, trees.from[k], trees.to[k]>> : k \in {u \in Key : trees.from[u] # trees.to[u]}}
=============================================================================
