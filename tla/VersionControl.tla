--------------------------- MODULE VersionControl ---------------------------
(***************************************************************************)
(* VersionController (version/mod.rs): the commit graph, in memory only.   *)
(* Its three maps have a lock each.  head keeps `branches` while it waits  *)
(* for `commits`, commit keeps `commits` while it waits for `branches`;    *)
(* every other method holds one lock at a time.  A step is what a session  *)
(* does up to the next lock it must wait for.  A root hash is represented  *)
(* by the rows it is the hash of.                                          *)
(***************************************************************************)
EXTENDS RowStore

CONSTANTS
    Session,
    Main, OtherBranch, \* names of branches
    MaxCommit          \* bound on the commits

ASSUME VersionControlAssumption == Main # OtherBranch /\ MaxCommit \in Nat \ {0}

Root == [Key -> Val]
EmptyRoot == [k \in Key |-> 0]

Branch == {Main, OtherBranch}
CommitId == 1..MaxCommit
NoCommit == 0

VARIABLES
    commits,        \* commit i is commits[i], the first the genesis
    branches,       \* heads; NoCommit for a branch that is not there
    current_branch,
    task,           \* each session's call: where it is and what it holds
    landed,         \* history: <<c, b>> for each commit c that was recorded on branch b
    rewritten       \* history: branches that did not just grow, with a reason (see below)

versionVars == <<commits, branches, current_branch, task, landed, rewritten>>
-----------------------------------------------------------------------------
Idle == [at |-> "idle", op |-> "none", branch |-> Main, id |-> NoCommit, root |-> EmptyRoot]

VersionInit ==
    /\ commits = <<[parent |-> NoCommit, root |-> EmptyRoot]>>
    /\ branches = [b \in Branch |-> IF b = Main THEN 1 ELSE NoCommit]
    /\ current_branch = Main
    /\ task = [s \in Session |-> Idle]
    /\ landed = {}
    /\ rewritten = {}

At(s, at) == task[s].at = at

\* Variant: commit locks `commits` before it asks for the head.
InCommitEarly == {s \in Session : At(s, "inserted") \/ At(s, "recording") \/ (At(s, "head_locked") /\ task[s].op = "commit")}

\* Holders of a lock across steps: of `branches` for reading, of `commits` for writing.
InHead == {s \in Session : At(s, "head_locked")}
InCommit == {s \in Session : task[s].at \in {"inserted", "recording"}}

Busy == {s \in Session : ~At(s, "idle")}

\* The ancestors of a commit, itself included: follow the parents.
Ancestors(id) ==
    LET line[i \in 0..MaxCommit] ==
            IF i = 0 THEN {id}
            ELSE line[i - 1] \cup {commits[c].parent : c \in line[i - 1] \ {NoCommit}}
    IN line[MaxCommit] \ {NoCommit}

\* A call starts.  Calls that overlap may rewrite the branches they were to extend.
Call(s, op, branch, id, root) ==
    /\ At(s, "idle")
    /\ task' = [task EXCEPT ![s] = [at |-> "start", op |-> op, branch |-> branch, id |-> id, root |-> root]]
    /\ rewritten' = IF Busy = {} THEN rewritten ELSE Branch
    /\ UNCHANGED <<commits, branches, current_branch, landed>>

Step(s, at) == task' = [task EXCEPT ![s].at = at]

Finish(s) == task' = [task EXCEPT ![s].at = "done"]

\* The name of the current branch, for head, create_branch, commit and the merge.
ReadCurrent(s) ==
    /\ \/ task[s].op \in {"head", "commit", "branch"} /\ At(s, "start")
          /\ task' = [task EXCEPT ![s].branch = current_branch,
                                  ![s].at = IF task[s].op = "branch" THEN "named" ELSE "head_named"]
       \/ task[s].op = "commit" /\ At(s, "inserted")
          /\ task' = [task EXCEPT ![s].branch = current_branch, ![s].at = "recording"]
       \/ task[s].op = "merge" /\ At(s, "found")
          /\ task' = [task EXCEPT ![s].branch = current_branch, ![s].at = "moving"]
    /\ UNCHANGED <<commits, branches, current_branch, landed, rewritten>>

\* head locks `branches` ...
LockHead(s) ==
    /\ At(s, "head_named")
    /\ task' = [task EXCEPT ![s].id = branches[task[s].branch], ![s].at = "head_locked"]
    /\ UNCHANGED <<commits, branches, current_branch, landed, rewritten>>

\* ... and looks the commit up in `commits`.
ReadHead(s) ==
    /\ At(s, "head_locked") /\ InCommit = {}
    /\ IF task[s].op = "head" THEN Finish(s) ELSE Step(s, "parent_known")
    /\ UNCHANGED <<commits, branches, current_branch, landed, rewritten>>

\* commit locks `commits` and inserts ...
InsertCommit(s) ==
    /\ At(s, "parent_known") /\ InCommit = {} /\ Len(commits) < MaxCommit
    /\ commits' = Append(commits, [parent |-> task[s].id, root |-> task[s].root])
    /\ task' = [task EXCEPT ![s].id = Len(commits) + 1, ![s].at = "inserted"]
    /\ UNCHANGED <<branches, current_branch, landed, rewritten>>

\* Variant: the head of the branch stays where it is if the branch has moved.
RecordOnUnmoved(s) ==
    /\ At(s, "recording") /\ InHead = {}
    /\ branches' = IF branches[task[s].branch] \in {NoCommit, 1}
                   THEN [branches EXCEPT ![task[s].branch] = task[s].id] ELSE branches
    /\ landed' = landed \cup {<<task[s].id, task[s].branch>>}
    /\ Finish(s)
    /\ UNCHANGED <<commits, current_branch, rewritten>>

\* ... and, with it locked, moves the branch that is current by now to the new commit.
RecordCommit(s) ==
    /\ At(s, "recording") /\ InHead = {}
    /\ branches' = [branches EXCEPT ![task[s].branch] = task[s].id]
    /\ landed' = landed \cup {<<task[s].id, task[s].branch>>}
    /\ Finish(s)
    /\ UNCHANGED <<commits, current_branch, rewritten>>

\* create_branch reads the head of the current branch, create_branch_from looks the commit up,
\* checkout and the merge look the named branch up; an error ends the call.
FindTarget(s) ==
    /\ \/ /\ At(s, "named")
          /\ task' = [task EXCEPT ![s].id = branches[task[s].branch], ![s].at = "found"]
       \/ /\ task[s].op = "branch_from" /\ At(s, "start") /\ InCommit = {}
          /\ Step(s, IF task[s].id \in DOMAIN commits THEN "found" ELSE "refused")
       \/ /\ task[s].op \in {"checkout", "merge"} /\ At(s, "start")
          /\ IF branches[task[s].branch] = NoCommit THEN Step(s, "refused")
             ELSE task' = [task EXCEPT ![s].id = branches[task[s].branch], ![s].at = "found"]
    /\ UNCHANGED <<commits, branches, current_branch, landed, rewritten>>

\* A branch is moved to a commit that need not descend from its head.
Move(b, id) ==
    /\ branches' = [branches EXCEPT ![b] = id]
    /\ rewritten' = IF branches[b] \in Ancestors(id) \cup {NoCommit} THEN rewritten ELSE rewritten \cup {b}

\* The insert of create_branch and create_branch_from, over a branch of that name, too ...
InsertBranch(s) ==
    /\ task[s].op \in {"branch", "branch_from"} /\ At(s, "found") /\ InHead = {}
    /\ Move(OtherBranch, task[s].id)
    /\ Finish(s)
    /\ UNCHANGED <<commits, current_branch, landed>>

\* ... and of fast_forward_merge, which does not ask whether it is one.
MergeBranch(s) ==
    /\ At(s, "moving") /\ InHead = {}
    /\ Move(task[s].branch, task[s].id)
    /\ Finish(s)
    /\ UNCHANGED <<commits, current_branch, landed>>

\* checkout names the branch; the caller then asks for its head.
Checkout(s) ==
    /\ task[s].op = "checkout" /\ At(s, "found")
    /\ current_branch' = task[s].branch
    /\ task' = [task EXCEPT ![s].op = "head", ![s].at = "start"]
    /\ UNCHANGED <<commits, branches, landed, rewritten>>

VersionStep(s) ==
    \/ ReadCurrent(s) \/ LockHead(s) \/ ReadHead(s) \/ InsertCommit(s) \/ RecordCommit(s)
    \/ FindTarget(s) \/ InsertBranch(s) \/ MergeBranch(s) \/ Checkout(s)
-----------------------------------------------------------------------------
VersionOK ==
    /\ commits \in Seq([parent : CommitId \cup {NoCommit}, root : Root]) /\ Len(commits) <= MaxCommit
    /\ branches \in [Branch -> CommitId \cup {NoCommit}]
    /\ current_branch \in Branch
    /\ task \in [Session ->
          [at : {"idle", "start", "named", "head_named", "head_locked", "parent_known", "inserted",
                 "recording", "found", "moving", "refused", "done"},
           op : {"none", "head", "commit", "branch", "branch_from", "checkout", "merge"},
           branch : Branch, id : CommitId \cup {NoCommit}, root : Root]]
    /\ landed \subseteq CommitId \X Branch
    /\ rewritten \subseteq Branch

\* A session that waits for a lock another one keeps.
Waits(s) ==
    \/ At(s, "head_locked") /\ InCommit # {}
    \/ At(s, "parent_known") /\ InCommit # {}
    \/ task[s].op = "branch_from" /\ At(s, "start") /\ InCommit # {}
    \/ At(s, "recording") /\ InHead # {}
    \/ task[s].op \in {"branch", "branch_from"} /\ At(s, "found") /\ InHead # {}
    \/ At(s, "moving") /\ InHead # {}

\* The calls do lock each other out, in one way only: a commit that has inserted and a head that
\* has locked the branches wait for each other.  Whatever else runs, some call can go on.
OneLockCycle ==
    Busy # {} /\ (\A s \in Busy : Waits(s)) =>
        \E s \in InCommit, u \in InHead : s # u /\ At(s, "recording")

\* A commit that was recorded on a branch stays in its history, unless calls overlapped, or a
\* branch was moved to a commit that does not descend from its head.
CommitsStayReachable ==
    \A l \in landed : l[2] \in rewritten \/ l[1] \in Ancestors(branches[l[2]])
-----------------------------------------------------------------------------
\* The Prolly tree of the rows (version/prolly.rs): sorted entries are cut into leaves after each
\* entry whose hash is a boundary, leaves into inner nodes, up to one root.  A node is its own hash:
\* two nodes with the same contents are one.  Which entries are boundaries is arbitrary, and inner
\* levels are cut either wherever they may be or nowhere.  An entry is a pair <<key, value>>, and 0
\* the value of a key that is not there.
Entries(map) ==
    LET keys == SetToSortSeq({k \in DOMAIN map : map[k] # 0}, <)
    IN [i \in DOMAIN keys |-> <<keys[i], map[keys[i]]>>]

\* Items in chunks, each closed behind an item of `boundary` if it is not shorter than `least`.
Chunks(items, boundary, least) ==
    LET cut == FoldLeft(
            LAMBDA acc, x : IF x \in boundary /\ Len(acc.open) + 1 >= least
                            THEN [closed |-> Append(acc.closed, Append(acc.open, x)), open |-> <<>>]
                            ELSE [acc EXCEPT !.open = Append(@, x)],
            [closed |-> <<>>, open |-> <<>>], items)
    IN IF cut.open = <<>> THEN cut.closed ELSE Append(cut.closed, cut.open)

Leaf(entries) == [min |-> entries[1][1], entries |-> entries, children |-> <<>>]
Inner(children) == [min |-> children[1].min, entries |-> <<>>, children |-> children]
IsLeaf(node) == node.children = <<>>
NoNode == <<>>

Times(n, Do(_), start) == FoldLeft(LAMBDA x, i : Do(x), start, [i \in 1..n |-> i])

\* build: leaves, and inner levels while there is more than one node; inner nodes have two
\* children at least, the last one of a level perhaps one.
Build(map, boundary, inner) ==
    LET entries == Entries(map)
        chunks == Chunks(entries, boundary, 1)
        leaves == [i \in DOMAIN chunks |-> Leaf(chunks[i])]
        Up(level) == LET groups == Chunks(level, IF inner THEN ToSet(level) ELSE {}, 2)
                     IN IF Len(level) <= 1 THEN level ELSE [i \in DOMAIN groups |-> Inner(groups[i])]
    IN IF entries = <<>> THEN NoNode ELSE Times(Len(leaves), Up, leaves)[1]

Height == 4 \* more than the levels of a tree with as many entries as there are keys

\* The leaves of a tree from left to right: collect_leaf_hashes, and the order of scan.
Leaves(root) ==
    LET Down(row) == FlattenSeq([i \in DOMAIN row |-> IF IsLeaf(row[i]) THEN <<row[i]>> ELSE row[i].children])
    IN IF root = NoNode THEN <<>> ELSE Times(Height, Down, <<root>>)

Scan(root) == FlattenSeq([i \in DOMAIN Leaves(root) |-> Leaves(root)[i].entries])

\* get: down into the last child whose least key is not above the key; no child, no value.
Get(root, key) ==
    LET Down(node) == LET left == {i \in DOMAIN node.children : node.children[i].min <= key}
                      IN IF IsLeaf(node) \/ left = {} THEN node ELSE node.children[Max(left)]
        found == {e \in ToSet(Times(Height, Down, root).entries) : e[1] = key}
    IN IF root = NoNode \/ found = {} THEN 0 ELSE (CHOOSE e \in found : TRUE)[2]

\* Entries of the leaves of one tree that the other has not got, as they are collected.
UniqueEntries(mine, other) ==
    UNION {ToSet(leaf.entries) : leaf \in ToSet(Leaves(mine)) \ ToSet(Leaves(other))}

ValueIn(entries, key) ==
    LET found == {e \in entries : e[1] = key} IN IF found = {} THEN 0 ELSE (CHOOSE e \in found : TRUE)[2]

\* Variant: every entry of a leaf that is not shared counts as changed.
DiffOfLeaves(from, to) ==
    LET old == UniqueEntries(from, to)
        new == UniqueEntries(to, from)
    IN {<<k, ValueIn(old, k), ValueIn(new, k)>> : k \in {e[1] : e \in old \cup new}}

\* diff_trees: changes as <<key, old, new>>, found without looking into the leaves both trees share.
DiffTrees(from, to) ==
    LET old == UniqueEntries(from, to)
        new == UniqueEntries(to, from)
    IN IF from = to THEN {}
       ELSE {<<k, ValueIn(old, k), ValueIn(new, k)>> :
                k \in {u \in {e[1] : e \in old \cup new} : ValueIn(old, u) # ValueIn(new, u)}}
=============================================================================
