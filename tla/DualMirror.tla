----------------------------- MODULE DualMirror ------------------------------
(***************************************************************************)
(* The mirror in PostgreSQL (aruaru-dist/src/dual_database.rs) behind the  *)
(* commit hook that main.rs registers: every commit spawns a task of its   *)
(* own, which stamps and inserts the rows of the commit one by one.  The   *)
(* payload of a row is the commit that wrote it.                           *)
(***************************************************************************)
EXTENDS Naturals, FiniteSets

CONSTANTS Row, MaxCommits, MaxClock \* bounds of the model

ASSUME MirrorAssumption == MaxCommits \in Nat /\ MaxClock \in Nat

Commits == 1 .. MaxCommits

VARIABLES
    made,       \* commits so far
    handed,     \* [Commits -> rows the hook was given]
    todo,       \* [Commits -> rows its task has not come to yet]
    stamped,    \* [Commits -> the mutation it awaits the INSERT of, as a set]
    mirrored,   \* the table aruaru_dual_mirror, keyed by row and commit
    clock,      \* Utc::now()
    lost,       \* history: rows whose INSERT failed, or whose task died
    overlapped  \* history: commits made while an earlier task was still at work

mirrorVars == <<made, handed, todo, stamped, mirrored, clock, lost, overlapped>>

MirrorInit ==
    /\ made = 0
    /\ handed = [c \in Commits |-> {}]
    /\ todo = [c \in Commits |-> {}]
    /\ stamped = [c \in Commits |-> {}]
    /\ mirrored = {} /\ clock = 0 /\ lost = {} /\ overlapped = {}

AtWork(c) == todo[c] # {} \/ stamped[c] # {}

\* A commit is made; its hook copies the rows and spawns the task.
RunHook(rows) ==
    /\ made < MaxCommits
    /\ made' = made + 1
    /\ handed' = [handed EXCEPT ![made + 1] = rows]
    /\ todo' = [todo EXCEPT ![made + 1] = rows]
    /\ overlapped' = IF \E c \in Commits : AtWork(c) THEN overlapped \cup {made + 1} ELSE overlapped
    /\ UNCHANGED <<stamped, mirrored, clock, lost>>

\* The task comes to a row and takes the time: of its own turn, not of the commit.
Stamp(c) ==
    /\ stamped[c] = {}
    /\ \E r \in todo[c] :
          /\ stamped' = [stamped EXCEPT ![c] = {[row |-> r, commit |-> c, at |-> clock]}]
          /\ todo' = [todo EXCEPT ![c] = @ \ {r}]
    /\ UNCHANGED <<made, handed, mirrored, clock, lost, overlapped>>

\* idempotency_key: one row of one commit; an INSERT that conflicts does nothing.
SameKey(m, n) == m.row = n.row /\ m.commit = n.commit

\* mirror: the INSERT is done ...
Mirror(c) ==
    /\ stamped[c] # {}
    /\ mirrored' = mirrored \cup {m \in stamped[c] : \A n \in mirrored : ~SameKey(m, n)}
    /\ stamped' = [stamped EXCEPT ![c] = {}]
    /\ UNCHANGED <<made, handed, todo, clock, lost, overlapped>>

\* ... or fails: the task logs it and goes on with its next row.
MirrorFails(c) ==
    /\ stamped[c] # {}
    /\ lost' = lost \cup {<<m.row, c>> : m \in stamped[c]}
    /\ stamped' = [stamped EXCEPT ![c] = {}]
    /\ UNCHANGED <<made, handed, todo, mirrored, clock, overlapped>>

Tick ==
    /\ clock < MaxClock
    /\ clock' = clock + 1
    /\ UNCHANGED <<made, handed, todo, stamped, mirrored, lost, overlapped>>

\* The process stops; its tasks are gone and nobody takes their rows up again.
MirrorCrash ==
    /\ \E c \in Commits : AtWork(c)
    /\ lost' = lost \cup UNION {(todo[c] \cup {m.row : m \in stamped[c]}) \X {c} : c \in Commits}
    /\ todo' = [c \in Commits |-> {}]
    /\ stamped' = [c \in Commits |-> {}]
    /\ UNCHANGED <<made, handed, mirrored, clock, overlapped>>

MirrorTask == \E c \in Commits : Stamp(c) \/ Mirror(c) \/ MirrorFails(c)

MirrorStep == MirrorTask \/ MirrorCrash \/ Tick \/ \E rows \in (SUBSET Row) \ {{}} : RunHook(rows)
-----------------------------------------------------------------------------
\* latest: a row with the greatest committed_at, any of them if there are several.
Latest(r) ==
    LET all == {m \in mirrored : m.row = r} IN
    {m.commit : m \in {n \in all : \A o \in all : o.at <= n.at}}

\* at_commit.
AtCommit(r, c) == {m.commit : m \in {n \in mirrored : n.row = r /\ n.commit = c}}

MirrorOK ==
    /\ made \in 0 .. MaxCommits /\ clock \in 0 .. MaxClock
    /\ \A c \in Commits : todo[c] \subseteq handed[c] /\ Cardinality(stamped[c]) <= 1
    /\ mirrored \subseteq [row : Row, commit : Commits, at : 0 .. MaxClock]
    /\ overlapped \subseteq Commits

Newer(r, c) == {d \in Commits : d > c /\ AtCommit(r, d) # {}}

\* latest never answers with a commit that a later mirrored commit of the row has superseded,
\* unless that one was made while the task of an earlier one was at work (the tasks take the time,
\* so it may then be older for good), or the clock gave two rows the same time.
LatestIsNewest ==
    \A r \in Row : \A c \in Latest(r) :
        \/ Newer(r, c) \subseteq overlapped
        \/ \E m, n \in mirrored : m.row = r /\ n.row = r /\ m # n /\ m.at = n.at

\* Every row the hook was given is found under its commit, unless its INSERT failed or the
\* process stopped.
Mirrored ==
    \A c \in Commits : \A r \in handed[c] : AtCommit(r, c) = {c} \/ <<r, c>> \in lost
=============================================================================
