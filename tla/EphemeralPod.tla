---------------------------- MODULE EphemeralPod -----------------------------
(***************************************************************************)
(* One statement run in a process of its own (ephemeral.rs,                *)
(* ephemeral_pod.rs, the GraphQL mutation ephemeralQuery): the server      *)
(* copies the tables that are named, one after the other while others      *)
(* write them, starts itself as a worker, writes the request to its        *)
(* standard input and waits for it to end; the worker reads all of it,     *)
(* executes the statement on the copies in a new engine and writes the     *)
(* answer to its standard output.  A pipe holds few chunks of what is      *)
(* written.  A table is the number of its changes, 0 for no table.         *)
(***************************************************************************)
EXTENDS Naturals, Sequences

CONSTANTS
    Asker,      \* tasks that ask, each once
    PodTable,   \* table names
    PipeSize,   \* chunks that a pipe holds
    Chunks,     \* chunks of a request and of an answer
    MaxEdits    \* bound on the changes of a table

ASSUME PodAssumption == PipeSize \in Nat \ {0} /\ Chunks \in Nat \ {0}

VARIABLES
    server_tables,  \* their changes
    queries,   \* each asker's call
    workers  \* its worker, the pipes to and from it

podVars == <<server_tables, queries, workers>>
-----------------------------------------------------------------------------
NoQuery == [at |-> "rest", table |-> "", wanted |-> <<>>, named |-> {},
           copies |-> <<>>, from |-> 0, left |-> 0, answer |-> 0]
NoWorker == [at |-> "none", in |-> 0, out |-> 0, read |-> 0, left |-> 0, answer |-> 0]

PodInit ==
    /\ server_tables \in [PodTable -> {0, 1}]
    /\ queries = [a \in Asker |-> NoQuery]
    /\ workers = [a \in Asker |-> NoWorker]

EditTable(t) ==
    /\ server_tables[t] < MaxEdits
    /\ server_tables' = [server_tables EXCEPT ![t] = @ + 1]
    /\ UNCHANGED <<queries, workers>>

\* ephemeral_query with the names of tables, and a statement on one table.
AskPod(a, names, t) ==
    /\ queries[a].at = "rest"
    /\ queries' = [queries EXCEPT ![a] = [NoQuery EXCEPT
          !.at = "copy", !.table = t, !.wanted = names,
          !.named = {names[i] : i \in DOMAIN names}, !.from = server_tables[t]]]
    /\ UNCHANGED <<server_tables, workers>>

\* snapshot_for_tenant: a name without a table is passed over.
CopyTable(a) ==
    LET q == queries[a]
        name == Head(q.wanted) IN
    /\ q.at = "copy"
    /\ queries' = [queries EXCEPT ![a] =
          IF q.wanted = <<>> THEN [q EXCEPT !.at = "spawn"]
          ELSE [q EXCEPT !.wanted = Tail(q.wanted),
                         !.copies = IF server_tables[name] = 0 THEN q.copies
                                    ELSE Append(q.copies, <<name, server_tables[name]>>)]]
    /\ UNCHANGED <<server_tables, workers>>

\* run_ephemeral_query: the worker starts, or cannot ...
Spawn(a) ==
    /\ queries[a].at = "spawn"
    /\ \/ /\ queries' = [queries EXCEPT ![a].at = "send", ![a].left = Chunks]
          /\ workers' = [workers EXCEPT ![a].at = "read"]
       \/ queries' = [queries EXCEPT ![a].at = "failed"] /\ UNCHANGED workers
    /\ UNCHANGED server_tables

\* ... write_all and shutdown, an error once the worker is gone ...
SendChunk(a) ==
    /\ queries[a].at = "send"
    /\ IF workers[a].at = "killed"
       THEN queries' = [queries EXCEPT ![a].at = "failed"] /\ UNCHANGED workers
       ELSE IF queries[a].left = 0
       THEN queries' = [queries EXCEPT ![a].at = "wait"] /\ UNCHANGED workers
       ELSE /\ workers[a].in < PipeSize
            /\ queries' = [queries EXCEPT ![a].left = @ - 1]
            /\ workers' = [workers EXCEPT ![a].in = @ + 1]
    /\ UNCHANGED server_tables

\* Variant: the output is read when the worker has ended.
ReadOutputAfter(a) ==
    /\ queries[a].at = "wait" /\ workers[a].out > 0 /\ workers[a].at = "ended"
    /\ workers' = [workers EXCEPT ![a].out = @ - 1]
    /\ UNCHANGED <<server_tables, queries>>

\* ... and wait_with_output, which reads until the worker has ended.
ReadOutput(a) ==
    /\ queries[a].at = "wait" /\ workers[a].out > 0
    /\ workers' = [workers EXCEPT ![a].out = @ - 1]
    /\ UNCHANGED <<server_tables, queries>>

\* The answer, unless the worker did not end well.
EndCall(a) ==
    /\ queries[a].at = "wait" /\ workers[a].out = 0 /\ workers[a].at \in {"ended", "killed"}
    /\ queries' = [queries EXCEPT ![a] =
          IF workers[a].at = "killed" THEN [@ EXCEPT !.at = "failed"]
          ELSE [@ EXCEPT !.at = "answered", !.answer = workers[a].answer]]
    /\ UNCHANGED <<server_tables, workers>>

\* run_worker_once: read_to_string, to the end ...
WorkerReads(a) ==
    /\ workers[a].at = "read"
    /\ \/ /\ workers[a].in > 0
          /\ workers' = [workers EXCEPT ![a].in = @ - 1]
       \/ /\ workers[a].in = 0 /\ queries[a].at = "wait"
          /\ workers' = [workers EXCEPT ![a].at = "run"]
    /\ UNCHANGED <<server_tables, queries>>

CopyOf(a, t) == {queries[a].copies[i][2] : i \in {j \in DOMAIN queries[a].copies : queries[a].copies[j][1] = t}}

\* ... the statement, on the copies, the later one of a table that was named twice; it fails (0)
\* without its table ...
WorkerExecutes(a) ==
    LET copy == CopyOf(a, queries[a].table) IN
    /\ workers[a].at = "run"
    /\ workers' = [workers EXCEPT ![a].at = "write", ![a].left = Chunks,
                      ![a].answer = IF copy = {} THEN 0 ELSE CHOOSE n \in copy : \A m \in copy : m <= n]
    /\ UNCHANGED <<server_tables, queries>>

\* ... and the answer to standard output.
WorkerWrites(a) ==
    LET w == workers[a] IN
    /\ w.at = "write"
    /\ workers' = [workers EXCEPT ![a] =
          IF w.left = 0 THEN [w EXCEPT !.at = "ended"] ELSE [w EXCEPT !.left = w.left - 1, !.out = w.out + 1]]
    /\ w.left > 0 => w.out < PipeSize
    /\ UNCHANGED <<server_tables, queries>>

\* A worker may die.
KillWorker(a) ==
    /\ workers[a].at \in {"read", "run", "write"}
    /\ workers' = [workers EXCEPT ![a].at = "killed"]
    /\ UNCHANGED <<server_tables, queries>>

PodWork(a) == CopyTable(a) \/ Spawn(a) \/ SendChunk(a) \/ ReadOutput(a) \/ EndCall(a)
              \/ WorkerReads(a) \/ WorkerExecutes(a) \/ WorkerWrites(a)

PodStep ==
    \/ \E t \in PodTable : EditTable(t)
    \/ \E a \in Asker, names \in {<<t>> : t \in PodTable} \cup (PodTable \X PodTable), t \in PodTable : AskPod(a, names, t)
    \/ \E a \in Asker : PodWork(a) \/ KillWorker(a)
-----------------------------------------------------------------------------
PodOK ==
    /\ server_tables \in [PodTable -> 0..MaxEdits]
    /\ \A a \in Asker :
          /\ queries[a].at \in {"rest", "copy", "spawn", "send", "wait", "answered", "failed"}
          /\ workers[a].at \in {"none", "read", "run", "write", "ended", "killed"}
          /\ {workers[a].in, workers[a].out} \subseteq 0..PipeSize

\* An answer is that of the table as the server had it at some moment of the call; an error is the
\* answer only when the table was not named or was not there when the call began.
PodAnswers ==
    \A a \in Asker : queries[a].at = "answered" =>
        IF queries[a].answer = 0 THEN queries[a].from = 0 \/ queries[a].table \notin queries[a].named
        ELSE queries[a].answer \in queries[a].from..server_tables[queries[a].table]

\* Nobody waits for ever: a call that is made is answered, or has failed.
PodsEnd == \A a \in Asker : queries[a].at \in {"rest", "answered", "failed"}
=============================================================================
