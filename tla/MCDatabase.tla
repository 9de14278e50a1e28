----------------------------- MODULE MCDatabase -----------------------------
(***************************************************************************)
(* The workloads for TLC: for each hazard the shortest scripts that can    *)
(* run into it, some with a fault.                                         *)
(***************************************************************************)
EXTENDS Database

CONSTANTS s1, s2, f1, f2, x1

\* Neighbouring keys share a bit.
KeyBits == [k \in UserKey |-> {k, k + 1}]

St(do, cell, val, new) == [do |-> do, cell |-> cell, val |-> val, new |-> new]

Do(what) == St(what, UserTable, 0, 0)
Insert(k, v) == St("insert", k, v, 0)
Delete(v) == St("delete", UserTable, v, 0)
OnOther(what) == St(what, OtherBranch, 0, 0)
BranchFrom(id) == St("branch_from", OtherBranch, id, 0)
Idempotent(k, st) == <<St("ensure", LogTable, 0, 0), St("lookup", k, 0, 0), st, Insert(k, 1), Do("commit")>>
Backed == <<Do("log"), Do("backup")>>

\* A server with a row store: two sessions and a fault.
Run(a, b, f) ==
    [script |-> [s \in Session |-> IF s = s1 THEN a ELSE b], faults |-> f, attached |-> TRUE,
     querying |-> {}, replicas |-> "off", destination |-> "local", configs |-> {}]

Transactions == {
    Run(<<Do("create"), Do("begin"), Insert(1, 1), Delete(0), Insert(1, 2), Do("commit_txn")>>,
        <<Insert(2, 2), Do("commit")>>, {"error"}),
    Run(<<Do("create"), Insert(1, 1), Do("begin"), Insert(1, 2), St("move", UserTable, 2, 2), Do("rollback")>>,
        <<Insert(2, 1), Do("commit_txn")>>, {"crash"}),
    Run(<<Do("create"), Insert(1, 1), Insert(2, 1), Do("commit"), St("update", UserTable, 1, 2), Do("drop")>>,
        <<St("upsert_nothing", 1, 2, 0), Do("commit")>>, {"crash"})}

Retries == {
    Run(<<Do("create")>> \o Idempotent(3, Insert(1, 1)) \o Idempotent(3, Insert(1, 1)),
        Idempotent(3, Insert(1, 1)), {"crash"}),
    Run(<<Do("create"), Do("begin")>> \o Idempotent(3, Insert(1, 1)) \o <<Do("rollback")>>
        \o Idempotent(3, Insert(1, 1)), <<Do("begin")>>, {"crash"})}

Commits == {
    Run(<<Do("create"), Insert(1, 1), Do("commit"), OnOther("branch"), OnOther("checkout"), Insert(1, 2),
          Do("commit"), Do("merge")>>, <<Do("commit"), Do("log")>>, {"error"}),
    Run(<<Do("create"), Insert(1, 1), Do("commit"), BranchFrom(1), OnOther("checkout"), Do("commit"), Do("merge")>>,
        <<BranchFrom(4)>>, {}),
    Run(<<OnOther("checkout")>>, <<OnOther("merge")>>, {})}

Queries == {
    [Run(<<Do("create"), Insert(1, 1), Insert(1, 2), Delete(0)>>, <<>>, {}) EXCEPT !.querying = {f1, f2}, !.attached = FALSE],
    [Run(<<Do("create"), Insert(1, 1), Do("drop"), Do("create"), Insert(1, 2)>>, <<>>, {}) EXCEPT !.querying = {f1}, !.attached = FALSE],
    [Run(<<Do("create"), Insert(1, 1), Insert(2, 1)>>, <<Insert(2, 2), Delete(1)>>, {}) EXCEPT !.querying = {f1}, !.attached = FALSE],
    [Run(<<Do("create")>> \o Idempotent(3, Insert(1, 1)), <<>>, {}) EXCEPT !.querying = {f1}, !.attached = FALSE]}

Replicas == {
    [Run(<<Do("create"), Insert(1, 1), Insert(1, 2)>>, <<Insert(2, 2)>>, {})
        EXCEPT !.replicas = "observer", !.attached = FALSE],
    [Run(<<Do("create"), Insert(1, 1), Insert(2, 2), Insert(1, 2), Do("drop"), Do("create"), Insert(2, 1)>>, <<>>, {})
        EXCEPT !.replicas = "observer", !.attached = FALSE],
    [Run(<<Do("create"), Insert(1, 1), Insert(2, 1), St("move", UserTable, 1, 2), Insert(2, 2)>>, <<>>, {})
        EXCEPT !.replicas = "learner", !.attached = FALSE],
    [Run(<<Do("create"), Insert(1, 1)>>, <<Do("create"), Insert(1, 1), Insert(1, 2)>>, {})
        EXCEPT !.replicas = "learner", !.attached = FALSE]}

Backups == {
    [Run(<<Do("create"), Insert(1, 1)>> \o Backed \o Idempotent(3, Insert(1, 2)) \o Backed \o <<Do("restore")>>,
         <<Insert(2, 2)>>, {"error"}) EXCEPT !.destination = "remote"],
    Run(<<Do("create"), Insert(1, 1)>> \o Backed \o <<Do("restore"), Insert(1, 2)>> \o Backed
        \o <<Do("restore"), Insert(2, 1)>>, <<>>, {"crash"}),
    [Run(<<Do("create")>> \o Backed \o <<Do("restore"), Do("rollback")>>, <<>>, {"error"}) EXCEPT !.destination = "remote"]}

Config(setting, schedule, sources) ==
    [parallel |-> setting, target_lag |-> setting, max_offset |-> setting, schedule |-> schedule, sources |-> sources]

Configs == {
    [Run(<<>>, <<>>, {"crash"}) EXCEPT !.configs = {
        Broken,
        Config(1, [enabled |-> TRUE, cron |-> 1], <<x1>>),
        Config(2, [enabled |-> FALSE, cron |-> 1], <<>>),
        Config(2, [enabled |-> TRUE, cron |-> 2], <<x1>>)}]}

AllWorkloads == Transactions \cup Retries \cup Commits \cup Queries \cup Replicas \cup Backups \cup Configs

RowSet == Key \X Val

\* The workloads are ones that CallsTakeEffectOnce of ClientProofs speaks of.
ASSUME WorkloadsAssumption == IdempotentCalls
=============================================================================
