---------------------------- MODULE TableFormat -----------------------------
(***************************************************************************)
(* ObjectTable and MetaService (aruaru-backup/src/table_format.rs): the    *)
(* versions of a table on object storage.  A commit puts its blocks as a   *)
(* segment, then a snapshot that lists its base's segments and the new     *)
(* one, and counts when the table's key in the MetaService moves from the  *)
(* base to it.  The names of objects are hashes of what is in them: a      *)
(* segment stands for its own name; a snapshot holds its time and its base *)
(* and is named by its number.                                             *)
(***************************************************************************)
EXTENDS Naturals, Sequences, Functions

CONSTANTS
    Committer,  \* tasks that commit
    Row,        \* rows <<key, val>>
    MaxSnapshot \* bound on the snapshots written

ASSUME TableFormatAssumption == MaxSnapshot \in Nat

VARIABLES
    segments,  \* segment objects that were put
    snapshots, \* snapshot objects, in the order they were put
    current,   \* the table's key in the MetaService: 0 before the first commit
    commit     \* the commit each task is in

tableVars == <<segments, snapshots, current, commit>>
-----------------------------------------------------------------------------
\* Sequences of blocks, which are sequences of rows.
Segment == Seq(Seq(Row))

NoSnapshot == 0
SnapshotId == Nat

NoCommitUnderWay == [at |-> "rest", base |-> NoSnapshot, blocks |-> <<>>, id |-> NoSnapshot]

TableInit ==
    /\ segments = {}
    /\ snapshots = <<>>
    /\ current = NoSnapshot
    /\ commit = [w \in Committer |-> NoCommitUnderWay]

SegmentsAt(id) == IF id \in DOMAIN snapshots THEN snapshots[id].segments ELSE <<>>

\* commit_blocks reads the current snapshot, commit_blocks_onto is given one.
StartCommit(w, blocks, base) ==
    /\ commit[w].at = "rest"
    /\ commit' = [commit EXCEPT ![w] = [at |-> "put", base |-> base, blocks |-> blocks, id |-> NoSnapshot]]
    /\ UNCHANGED <<segments, snapshots, current>>

\* The segment is put, then the base is loaded; without it the commit fails.
PutSegment(w) ==
    /\ commit[w].at = "put"
    /\ segments' = segments \cup {commit[w].blocks}
    /\ commit' = [commit EXCEPT ![w].at =
          IF commit[w].base \in DOMAIN snapshots \cup {NoSnapshot} THEN "loaded" ELSE "rest"]
    /\ UNCHANGED <<snapshots, current>>

\* The snapshot: the base's segments and the new one.
PutSnapshot(w) ==
    /\ commit[w].at = "loaded" /\ Len(snapshots) < MaxSnapshot
    /\ snapshots' = Append(snapshots,
          [prev |-> commit[w].base, segments |-> Append(SegmentsAt(commit[w].base), commit[w].blocks)])
    /\ commit' = [commit EXCEPT ![w].at = "swap", ![w].id = Len(snapshots) + 1]
    /\ UNCHANGED <<segments, current>>

\* Variant: the key is set whatever it was.
SwapUnchecked(w) ==
    /\ commit[w].at = "swap"
    /\ current' = commit[w].id
    /\ commit' = [commit EXCEPT ![w].at = "rest"]
    /\ UNCHANGED <<segments, snapshots>>

\* compare_and_swap; a conflict leaves both objects behind.
CompareAndSwap(w) ==
    /\ commit[w].at = "swap"
    /\ current' = IF current = commit[w].base THEN commit[w].id ELSE current
    /\ commit' = [commit EXCEPT ![w].at = "rest"]
    /\ UNCHANGED <<segments, snapshots>>

CommitStep(w) == PutSegment(w) \/ PutSnapshot(w) \/ CompareAndSwap(w)

\* Tasks commit blocks of their own, onto the current snapshot they read or one they were given.
TableNext ==
    \E w \in Committer :
        \/ \E blocks \in Segment, base \in SnapshotId : StartCommit(w, blocks, base)
        \/ CommitStep(w)

TableSpec == TableInit /\ [][TableNext]_tableVars
-----------------------------------------------------------------------------
\* ColumnStats: the values lie between a minimum and a maximum, which may disprove `val op num`.
Values(block) == {block[i][2] : i \in DOMAIN block}

Disproves(values, op, num) ==
    /\ values # {}
    /\ CASE op = ">" -> \A v \in values : v <= num
         [] op = ">=" -> \A v \in values : v < num
         [] op = "<" -> \A v \in values : v >= num
         [] op = "<=" -> \A v \in values : v > num

\* prune_range: the blocks of a version to read, each segment and then each block asked first.
PruneRange(id, op, num) ==
    {block \in UNION {Range(segment) : segment \in
                  {s \in Range(SegmentsAt(id)) : ~Disproves(UNION {Values(s[i]) : i \in DOMAIN s}, op, num)}} :
        ~Disproves(Values(block), op, num)}

BlocksAt(id) == UNION {Range(segment) : segment \in Range(SegmentsAt(id))}
-----------------------------------------------------------------------------
TableOK ==
    /\ segments \subseteq Segment
    /\ snapshots \in Seq([prev : SnapshotId, segments : Seq(Segment)])
    /\ current \in DOMAIN snapshots \cup {NoSnapshot}
    /\ commit \in [Committer -> [at : {"rest", "put", "loaded", "swap"}, base : SnapshotId,
                                 blocks : Segment, id : SnapshotId]]

\* The table on object storage loses no commit, with tasks that commit at once.
Storage == INSTANCE AppendOnlyTable WITH stored <- segments, committed <- SegmentsAt(current)
AppendOnly == Storage!Spec
=============================================================================
