---------------------------- MODULE LearnerReads -----------------------------
(***************************************************************************)
(* A columnar learner and what it tells its readers (ColumnarApplier's     *)
(* apply_at and read_at_index, columnar_pod.rs): the driver's tick and a   *)
(* connection of the leader both hand committed entries to the applier,    *)
(* which executes them on its rows, copies the table to the replica, and   *)
(* then raises the applied index and counts commits.  A reader asks for an *)
(* index and a number of commits, and gets the replica when they are       *)
(* reached.  The table is the index of the last row that was put into it.  *)
(***************************************************************************)
EXTENDS Naturals, Sequences, FiniteSets

CONSTANTS
    Applying,   \* the tasks that apply: the driver, and a connection
    LearnerLog  \* logs: sequences of "put", "bad" (a statement that fails) and "commit"

ASSUME LearnerAssumption == \A log \in LearnerLog : log \in Seq({"put", "bad", "commit"})

VARIABLES
    learned,   \* the learner's log
    committed,  \* its commit index
    done_to,    \* last_applied
    appliers,    \* each task's apply_committed
    rows_at, replica_at,   \* the table, and its columnar replica
    index_noted, commit_seq,    \* applied_index, applied_commit_seq
    ask,       \* a reader's call
    times       \* history: how often each entry was executed

learnerVars == <<learned, committed, done_to, appliers, rows_at, replica_at, index_noted, commit_seq, ask, times>>
-----------------------------------------------------------------------------
IdleApplier == [at |-> "rest", next |-> 0, last |-> 0, copy |-> 0]
NoAsk == [at |-> "rest", index |-> 0, commits |-> 0, seen |-> 0, view |-> 0]

LearnerInit ==
    /\ learned \in LearnerLog
    /\ committed = 0 /\ done_to = 0
    /\ appliers = [t \in Applying |-> IdleApplier]
    /\ rows_at = 0 /\ replica_at = 0
    /\ index_noted = 0 /\ commit_seq = 0
    /\ ask = NoAsk
    /\ times = [i \in DOMAIN learned |-> 0]

Larger(i, j) == IF i > j THEN i ELSE j
EntryOf(t) == learned[appliers[t].next]
AtStep(t, at) == appliers' = [appliers EXCEPT ![t].at = at]

\* The leader's commit index arrives with the entries.
Learn ==
    /\ committed < Len(learned)
    /\ committed' = committed + 1
    /\ UNCHANGED <<done_to, appliers, rows_at, replica_at, index_noted, commit_seq, ask, times>>

\* apply_committed copies the unapplied entries ...
CopyEntries(t) ==
    /\ appliers[t].at = "rest" /\ committed > done_to
    /\ appliers' = [appliers EXCEPT ![t] = [at |-> "execute", next |-> done_to + 1, last |-> committed, copy |-> 0]]
    /\ UNCHANGED <<committed, done_to, rows_at, replica_at, index_noted, commit_seq, ask, times>>

\* Variant: the index is raised once the rows have the entry.
ExecuteAndNote(t) ==
    /\ appliers[t].at = "execute"
    /\ times' = [times EXCEPT ![appliers[t].next] = @ + 1]
    /\ rows_at' = IF EntryOf(t) = "put" THEN appliers[t].next ELSE rows_at
    /\ index_noted' = IF EntryOf(t) = "bad" THEN index_noted ELSE Larger(index_noted, appliers[t].next)
    /\ AtStep(t, CASE EntryOf(t) = "put" -> "snapshot" [] EntryOf(t) = "commit" -> "count" [] OTHER -> "onward")
    /\ UNCHANGED <<committed, done_to, replica_at, commit_seq, ask>>

\* ... apply executes each on the rows ...
ExecuteEntry(t) ==
    /\ appliers[t].at = "execute"
    /\ times' = [times EXCEPT ![appliers[t].next] = @ + 1]
    /\ rows_at' = IF EntryOf(t) = "put" THEN appliers[t].next ELSE rows_at
    /\ AtStep(t, CASE EntryOf(t) = "put" -> "snapshot" [] EntryOf(t) = "commit" -> "note" [] OTHER -> "onward")
    /\ UNCHANGED <<committed, done_to, replica_at, index_noted, commit_seq, ask>>

\* ... and replicates the table: a snapshot, merged under the replica's lock ...
SnapshotTable(t) ==
    /\ appliers[t].at = "snapshot"
    /\ appliers' = [appliers EXCEPT ![t].at = "merge", ![t].copy = rows_at]
    /\ UNCHANGED <<committed, done_to, rows_at, replica_at, index_noted, commit_seq, ask, times>>

MergeCopy(t) ==
    /\ appliers[t].at = "merge"
    /\ replica_at' = appliers[t].copy
    /\ AtStep(t, "note")
    /\ UNCHANGED <<committed, done_to, rows_at, index_noted, commit_seq, ask, times>>

\* ... then, for an entry that did not fail, apply_at raises the index, and counts a commit ...
NoteIndex(t) ==
    /\ appliers[t].at = "note"
    /\ index_noted' = Larger(index_noted, appliers[t].next)
    /\ AtStep(t, IF EntryOf(t) = "commit" THEN "count" ELSE "onward")
    /\ UNCHANGED <<committed, done_to, rows_at, replica_at, commit_seq, ask, times>>

CountCommit(t) ==
    /\ appliers[t].at = "count"
    /\ commit_seq' = commit_seq + 1
    /\ AtStep(t, "onward")
    /\ UNCHANGED <<committed, done_to, rows_at, replica_at, index_noted, ask, times>>

\* ... and after the last one last_applied is raised.
NextEntry(t) ==
    /\ appliers[t].at = "onward"
    /\ IF appliers[t].next < appliers[t].last
       THEN appliers' = [appliers EXCEPT ![t].at = "execute", ![t].next = @ + 1] /\ UNCHANGED done_to
       ELSE appliers' = [appliers EXCEPT ![t] = IdleApplier] /\ done_to' = Larger(done_to, appliers[t].last)
    /\ UNCHANGED <<committed, rows_at, replica_at, index_noted, commit_seq, ask, times>>

\* status_impl with a required index and number of commits: read_at_index loads one ...
AskAt(index, commits) ==
    /\ ask.at = "rest"
    /\ ask' = [at |-> "index", index |-> index, commits |-> commits, seen |-> index_noted, view |-> 0]
    /\ UNCHANGED <<committed, done_to, appliers, rows_at, replica_at, index_noted, commit_seq, times>>

\* ... and the other, and answers that it is behind (409) ...
CheckStale ==
    /\ ask.at = "index"
    /\ ask' = [ask EXCEPT !.at = IF ask.seen < ask.index \/ commit_seq < ask.commits THEN "stale" ELSE "view"]
    /\ UNCHANGED <<committed, done_to, appliers, rows_at, replica_at, index_noted, commit_seq, times>>

\* ... or with the replica, which it reads under its lock.
ReadView ==
    /\ ask.at = "view"
    /\ ask' = [ask EXCEPT !.at = "served", !.view = replica_at]
    /\ UNCHANGED <<committed, done_to, appliers, rows_at, replica_at, index_noted, commit_seq, times>>

LearnerStep ==
    /\ \/ Learn \/ CheckStale \/ ReadView
       \/ \E t \in Applying : CopyEntries(t) \/ ExecuteEntry(t) \/ SnapshotTable(t) \/ MergeCopy(t)
                              \/ NoteIndex(t) \/ CountCommit(t) \/ NextEntry(t)
       \/ \E index \in 0..Len(learned), commits \in 0..1 : AskAt(index, commits)
    /\ UNCHANGED learned
-----------------------------------------------------------------------------
LearnerOK ==
    /\ {committed, done_to, rows_at, replica_at, index_noted} \subseteq 0..Len(learned)
    /\ \A t \in Applying :
          appliers[t].at \in {"rest", "execute", "snapshot", "merge", "note", "count", "onward"}
    /\ ask.at \in {"rest", "index", "stale", "view", "served"}
    /\ commit_seq \in Nat

Again(i) == times[i] > 1

\* A reader that is served sees every row put up to the index it asked for, and as many commits have
\* been made as it asked for.  Excepted are entries that both tasks have executed: the second time
\* sets the table back, and counts a commit twice.
ReadsAreFresh ==
    ask.at = "served" =>
        /\ (\A i \in 1..ask.index : ~Again(i)) =>
              \A i \in 1..ask.index : learned[i] = "put" => ask.view >= i
        /\ (\A i \in DOMAIN learned : learned[i] = "commit" => ~Again(i)) =>
              Cardinality({i \in DOMAIN learned : learned[i] = "commit" /\ times[i] > 0}) >= ask.commits
=============================================================================
