----------------------------- MODULE RaftApply ------------------------------
(***************************************************************************)
(* The write path of one RaftNode without peers (single-node mode), lock   *)
(* by lock: RaftWriter::propose_and_wait (writer.rs) run by any number of  *)
(* client tasks, beside the tick of RaftDriver::run that main.rs always    *)
(* spawns (main.rs:441-443).                                               *)
(*                                                                         *)
(* `log`, `pending_results` and `state` have a lock each, and every method *)
(* takes and releases them in turn, so a step is what a task does under    *)
(* one lock (or one call of the applier) and the tasks interleave between  *)
(* steps.  The node leads term 0 for good and nobody truncates its log: an *)
(* entry is its index.                                                     *)
(***************************************************************************)
EXTENDS Naturals

CONSTANTS
    Writer,  \* client tasks, each writing once
    Driver   \* the background task

ASSUME TaskAssumption == Driver \notin Writer

Task == Writer \cup {Driver}

VARIABLES
    last_index, commit_index, last_applied,  \* ReplicatedLog
    applied_index,                           \* its copy in RaftState
    pending,                                 \* indices with an entry in pending_results
    applied,                                 \* history: who handed which index to the applier
    pc,                                      \* what each task does next
    idx,                                     \* index that propose gave to the writer
    seen,                                    \* last_index as maybe_commit read it
    next, last                               \* rest of the batch that apply_committed copied

logVars == <<last_index, commit_index, last_applied>>
taskVars == <<idx, seen, next, last>>
vars == <<logVars, applied_index, pending, applied, pc, taskVars>>
-----------------------------------------------------------------------------
Init ==
    /\ last_index = 0
    /\ commit_index = 0
    /\ last_applied = 0
    /\ applied_index = 0
    /\ pending = {}
    /\ applied = {}
    /\ pc = [t \in Task |-> IF t = Driver THEN "count" ELSE "propose"]
    /\ idx = [t \in Task |-> 0]
    /\ seen = [t \in Task |-> 0]
    /\ next = [t \in Task |-> 0]
    /\ last = [t \in Task |-> 0]

Goto(t, p) == pc' = [pc EXCEPT ![t] = p]

\* Where a task goes on after apply_committed: a writer waits, the driver ticks.
Return(t) == IF t = Driver THEN "count" ELSE "wait"

\* propose: append under the log lock.
Propose(t) ==
    /\ pc[t] = "propose"
    /\ last_index' = last_index + 1
    /\ idx' = [idx EXCEPT ![t] = last_index + 1]
    /\ Goto(t, "commit")
    /\ UNCHANGED <<commit_index, last_applied, applied_index, pending, applied, seen, next, last>>

\* commit_to: capped by the log, never backwards.
CommitTo(i) ==
    LET target == IF i < last_index THEN i ELSE last_index IN
    IF target > commit_index THEN target ELSE commit_index

\* try_commit_to of the writer's own entry.
TryCommit(t) ==
    /\ pc[t] = "commit"
    /\ commit_index' = CommitTo(idx[t])
    /\ Goto(t, "count")
    /\ UNCHANGED <<last_index, last_applied, applied_index, pending, applied, taskVars>>

\* maybe_commit: without peers the majority index is the last_index read first ...
CountMatches(t) ==
    /\ pc[t] = "count"
    /\ seen' = [seen EXCEPT ![t] = last_index]
    /\ Goto(t, "majority")
    /\ UNCHANGED <<logVars, applied_index, pending, applied, idx, next, last>>

\* ... and committed under a later lock, when it is ahead of the commit index.
CommitMajority(t) ==
    /\ pc[t] = "majority"
    /\ commit_index' = IF seen[t] > commit_index THEN CommitTo(seen[t]) ELSE commit_index
    /\ Goto(t, "copy")
    /\ UNCHANGED <<last_index, last_applied, applied_index, pending, applied, taskVars>>

\* Variant: the copy also marks its entries as applied, so that nobody else copies them.
CopyAndClaim(t) ==
    /\ pc[t] = "copy"
    /\ IF commit_index > last_applied
       THEN /\ next' = [next EXCEPT ![t] = last_applied + 1]
            /\ last' = [last EXCEPT ![t] = commit_index]
            /\ last_applied' = commit_index
            /\ Goto(t, "apply")
       ELSE /\ Goto(t, Return(t))
            /\ UNCHANGED <<next, last, last_applied>>
    /\ UNCHANGED <<last_index, commit_index, applied_index, pending, applied, idx, seen>>

\* Variant: last_applied is taken for the index of the first unapplied entry.
CopyFromLastApplied(t) ==
    /\ pc[t] = "copy"
    /\ IF commit_index > last_applied
       THEN /\ next' = [next EXCEPT ![t] = last_applied]
            /\ last' = [last EXCEPT ![t] = commit_index]
            /\ Goto(t, "apply")
       ELSE /\ Goto(t, Return(t))
            /\ UNCHANGED <<next, last>>
    /\ UNCHANGED <<logVars, applied_index, pending, applied, idx, seen>>

\* apply_committed copies the unapplied entries under the log lock ...
CopyUnapplied(t) ==
    /\ pc[t] = "copy"
    /\ IF commit_index > last_applied
       THEN /\ next' = [next EXCEPT ![t] = last_applied + 1]
            /\ last' = [last EXCEPT ![t] = commit_index]
            /\ Goto(t, "apply")
       ELSE /\ Goto(t, Return(t))
            /\ UNCHANGED <<next, last>>
    /\ UNCHANGED <<logVars, applied_index, pending, applied, idx, seen>>

\* ... hands them to the applier one by one, under no lock of the node ...
ApplyEntry(t) ==
    /\ pc[t] = "apply"
    /\ applied' = applied \cup {<<t, next[t]>>}
    /\ Goto(t, "insert")
    /\ UNCHANGED <<logVars, applied_index, pending, taskVars>>

\* Variant: only the result of the last entry of a batch is kept.
InsertLastResult(t) ==
    /\ pc[t] = "insert"
    /\ pending' = IF next[t] = last[t] THEN pending \cup {next[t]} ELSE pending
    /\ next' = [next EXCEPT ![t] = @ + 1]
    /\ Goto(t, IF next[t] < last[t] THEN "apply" ELSE "record")
    /\ UNCHANGED <<logVars, applied_index, applied, idx, seen, last>>

\* ... leaves each result for the writer that may wait for it ...
InsertResult(t) ==
    /\ pc[t] = "insert"
    /\ pending' = pending \cup {next[t]}
    /\ next' = [next EXCEPT ![t] = @ + 1]
    /\ Goto(t, IF next[t] < last[t] THEN "apply" ELSE "record")
    /\ UNCHANGED <<logVars, applied_index, applied, idx, seen, last>>

\* ... and only then advances last_applied, which never goes back ...
SetApplied(t) ==
    /\ pc[t] = "record"
    /\ last_applied' = IF last[t] > last_applied THEN last[t] ELSE last_applied
    /\ Goto(t, "publish")
    /\ UNCHANGED <<last_index, commit_index, applied_index, pending, applied, taskVars>>

\* ... and the copy in RaftState, which may.
PublishState(t) ==
    /\ pc[t] = "publish"
    /\ applied_index' = last[t]
    /\ Goto(t, Return(t))
    /\ UNCHANGED <<logVars, pending, applied, taskVars>>

\* wait_for_commit finds the result; otherwise it polls again, until its deadline
\* (ResultReady: the first poll always finds it).
TakeResult(t) ==
    /\ pc[t] = "wait"
    /\ idx[t] \in pending
    /\ pending' = pending \ {idx[t]}
    /\ Goto(t, "done")
    /\ UNCHANGED <<logVars, applied_index, applied, taskVars>>

Step(t) ==
    \/ Propose(t)
    \/ TryCommit(t)
    \/ CountMatches(t)
    \/ CommitMajority(t)
    \/ CopyUnapplied(t)
    \/ ApplyEntry(t)
    \/ InsertResult(t)
    \/ SetApplied(t)
    \/ PublishState(t)
    \/ TakeResult(t)

Next == \E t \in Task : Step(t)

\* A task that can go on is scheduled in the end.
Fairness == \A t \in Task : WF_vars(Step(t))

Spec == Init /\ [][Next]_vars /\ Fairness
-----------------------------------------------------------------------------
Place == {"propose", "commit", "count", "majority", "copy", "apply", "insert",
          "record", "publish", "wait", "done"}

\* Types, and the log's indices in their order.
TypeOK ==
    /\ last_index \in Nat
    /\ commit_index \in 0 .. last_index
    /\ last_applied \in 0 .. commit_index
    /\ applied_index \in 0 .. commit_index
    /\ pending \subseteq 1 .. commit_index
    /\ applied \subseteq Task \X (1 .. commit_index)
    /\ pc \in [Task -> Place]
    /\ idx \in [Task -> 0 .. last_index]
    /\ seen \in [Task -> 0 .. last_index]
    /\ next \in [Task -> Nat]
    /\ last \in [Task -> 0 .. commit_index]

\* The applier never skips an entry: however batches overlap, an index reaches it
\* only after every index before it (unapplied, log.rs:86).
NoGaps ==
    \A e \in applied : \A i \in 1 .. e[2] : \E t \in Task : <<t, i>> \in applied

\* "A single node completes at once" (writer.rs:21, node.rs:428): a writer that
\* starts to wait finds its result at the first poll, whoever applied its entry.
ResultReady == \A w \in Writer : pc[w] = "wait" => idx[w] \in pending

\* Every write is answered, although batches overlap and results are taken away.
AllAnswered == \A w \in Writer : <>(pc[w] = "done")

\* "Nothing is applied twice" (the test at node.rs:493).
AppliedOnce ==
    \A d, e \in applied : d[2] = e[2] => d[1] = e[1]
=============================================================================
