--------------------------- MODULE DatabaseProofs ---------------------------
(***************************************************************************)
(* Theorems about one process of the database (Database), for any          *)
(* sessions, statements, files and tasks: the commit graph, the mirror,    *)
(* backups, the configuration in force, and the table on object storage.   *)
(***************************************************************************)
EXTENDS Database, Integers, FiniteSetTheorems, SequenceTheorems, WellFoundedInduction, TLAPS
-----------------------------------------------------------------------------
(***************************************************************************)
(* The commit graph (VersionControl).                                      *)
(***************************************************************************)
\* A set of numbers has a least one: this stands for induction.
LEMMA LeastOf ==
    ASSUME NEW T, T \subseteq Nat, T # {}
    PROVE  \E x \in T : \A y \in T : x <= y
<1>1. PICK x \in T : \A y \in T : <<y, x>> \notin OpToRel(<, Nat)
  BY WFMin, NatLessThanWellFounded
<1>2. \A y \in T : ~(y < x)
  BY <1>1 DEF OpToRel
<1> QED
  BY <1>2

\* A commit graph: each parent is an earlier commit.
IsGraph(cs) ==
    /\ Len(cs) \in 0 .. MaxCommit /\ \E S : cs \in Seq(S)
    /\ \A i \in 1 .. Len(cs) : cs[i].parent \in 0 .. (i - 1)

\* The same as Ancestors, of any graph.
LineOf(cs, id, line) ==
    line = [i \in 0 .. MaxCommit |->
              IF i = 0 THEN {id}
              ELSE line[i - 1] \cup {cs[c].parent : c \in line[i - 1] \ {NoCommit}}]

AncestorsIn(cs, id) == (CHOOSE line : LineOf(cs, id, line))[MaxCommit] \ {NoCommit}

LEMMA AncestorsAre ==
    ASSUME NEW id PROVE Ancestors(id) = AncestorsIn(commits, id)
  BY Zenon DEF Ancestors, AncestorsIn, LineOf

\* The recursion has a solution.
LEMMA LineExists ==
    ASSUME NEW cs, NEW id
    PROVE  \E line : LineOf(cs, id, line)
<1> DEFINE Lines(g, m) == g = [i \in 0 .. m |->
                 IF i = 0 THEN {id} ELSE g[i - 1] \cup {cs[c].parent : c \in g[i - 1] \ {NoCommit}}]
           Bad == {m \in 0 .. MaxCommit : ~\E g : Lines(g, m)}
<1>0. MaxCommit \in Nat
  BY VersionControlAssumption
<1>1. ASSUME Bad # {} PROVE FALSE
  <2>1. PICK m \in 0 .. MaxCommit : m \in Bad /\ \A k \in Bad : m <= k
    <3>1. Bad \subseteq 0 .. MaxCommit /\ Bad \subseteq Nat
      OBVIOUS
    <3> HIDE DEF Bad
    <3> QED
      BY <1>1, <3>1, LeastOf
  <2>2. m # 0
    <3>1. Lines([i \in 0 .. 0 |-> {id}], 0)
      OBVIOUS
    <3> QED
      BY <2>1, <3>1, Zenon
  <2>3. m \in 1 .. MaxCommit /\ m - 1 \in 0 .. MaxCommit /\ ~(m <= m - 1)
    BY <1>0, <2>1, <2>2
  <2>4. PICK g : Lines(g, m - 1)
    BY <2>1, <2>3, Zenon
  <2> DEFINE h == [i \in 0 .. m |->
                    IF i = m THEN g[m - 1] \cup {cs[c].parent : c \in g[m - 1] \ {NoCommit}} ELSE g[i]]
  <2>5. \A i \in 0 .. m :
           h[i] = IF i = 0 THEN {id} ELSE h[i - 1] \cup {cs[c].parent : c \in h[i - 1] \ {NoCommit}}
    <3> SUFFICES ASSUME NEW i \in 0 .. m
                 PROVE  h[i] = IF i = 0 THEN {id}
                               ELSE h[i - 1] \cup {cs[c].parent : c \in h[i - 1] \ {NoCommit}}
      OBVIOUS
    <3>1. CASE i = m
      <4>1. h[m - 1] = g[m - 1] /\ m # 0
        BY <2>3
      <4> QED
        BY <3>1, <4>1
    <3>2. CASE i # m
      <4>1. i \in 0 .. (m - 1) /\ h[i] = g[i] /\ (i # 0 => h[i - 1] = g[i - 1])
        BY <2>3, <3>2
      <4>2. g[i] = IF i = 0 THEN {id} ELSE g[i - 1] \cup {cs[c].parent : c \in g[i - 1] \ {NoCommit}}
        BY <2>4, <4>1
      <4> HIDE DEF h
      <4> QED
        BY <4>1, <4>2
    <3> QED
      BY <3>1, <3>2
  <2>6. Lines(h, m)
    <3>1. h = [i \in 0 .. m |-> h[i]]
      OBVIOUS
    <3> HIDE DEF h
    <3> QED
      BY <2>5, <3>1
  <2> HIDE DEF h, Lines
  <2> QED
    BY <2>1, <2>6
<1>2. MaxCommit \in 0 .. MaxCommit
  BY <1>0
<1>3. \E g : Lines(g, MaxCommit)
  BY <1>1, <1>2
<1> QED
  BY <1>3, Zenon DEF LineOf

\* The ancestors of a commit are the least set that holds it and the parents of what it holds.
LEMMA AncestorsLeast ==
    ASSUME NEW cs, IsGraph(cs), NEW id \in 0 .. Len(cs)
    PROVE  /\ AncestorsIn(cs, id) \subseteq 1 .. Len(cs)
           /\ id # 0 => id \in AncestorsIn(cs, id)
           /\ \A c \in AncestorsIn(cs, id) : cs[c].parent \in AncestorsIn(cs, id) \cup {0}
           /\ \A T : /\ id \in T \cup {0}
                     /\ \A c \in T \cap 1 .. Len(cs) : cs[c].parent \in T \cup {0}
                     => AncestorsIn(cs, id) \subseteq T
<1>0. MaxCommit \in Nat /\ MaxCommit # 0 /\ NoCommit = 0 /\ Len(cs) \in Nat /\ Len(cs) <= MaxCommit
  BY VersionControlAssumption DEF IsGraph, NoCommit
<1>1. PICK line : LineOf(cs, id, line) /\ AncestorsIn(cs, id) = line[MaxCommit] \ {0}
  BY <1>0, LineExists, Zenon DEF AncestorsIn
<1>2. /\ line[0] = {id}
      /\ \A i \in 1 .. MaxCommit : line[i] = line[i - 1] \cup {cs[c].parent : c \in line[i - 1] \ {0}}
  BY <1>0, <1>1 DEF LineOf
\* Whatever holds of the commit and is handed on to parents holds of all.
<1>3. ASSUME NEW T, id \in T, \A c \in T \cap 1 .. Len(cs) : cs[c].parent \in T,
             \A c \in T : c \in 0 .. Len(cs), NEW n \in 0 .. MaxCommit
      PROVE  line[n] \subseteq T
  <2> DEFINE Odd == {i \in 0 .. MaxCommit : ~(line[i] \subseteq T)}
  <2>1. ASSUME Odd # {} PROVE FALSE
    <3>1. PICK m \in 0 .. MaxCommit : m \in Odd /\ \A k \in Odd : m <= k
      <4>1. Odd \subseteq 0 .. MaxCommit /\ Odd \subseteq Nat
        OBVIOUS
      <4> HIDE DEF Odd
      <4> QED
        BY <2>1, <4>1, LeastOf
    <3>2. m # 0
      BY <1>2, <1>3, <3>1
    <3>3. m \in 1 .. MaxCommit /\ m - 1 \in 0 .. MaxCommit /\ ~(m <= m - 1)
      BY <1>0, <3>1, <3>2
    <3>4. line[m - 1] \subseteq T
      BY <3>1, <3>3
    <3>5. line[m] = line[m - 1] \cup {cs[c].parent : c \in line[m - 1] \ {0}}
      BY <1>2, <3>3
    <3>6. \A c \in line[m - 1] \ {0} : cs[c].parent \in T
      <4> SUFFICES ASSUME NEW c \in line[m - 1] \ {0} PROVE cs[c].parent \in T
        OBVIOUS
      <4>1. c \in T /\ c \in 0 .. Len(cs)
        BY <1>3, <3>4
      <4>2. c \in 1 .. Len(cs)
        BY <1>0, <4>1
      <4> QED
        BY <1>3, <4>1, <4>2
    <3> QED
      BY <3>1, <3>4, <3>5, <3>6
  <2> QED
    BY <2>1
<1>4. \A n \in 0 .. MaxCommit : line[n] \subseteq 0 .. Len(cs)
  <2> DEFINE T == 0 .. Len(cs)
  <2>1. id \in T /\ (\A c \in T \cap 1 .. Len(cs) : cs[c].parent \in T) /\ (\A c \in T : c \in 0 .. Len(cs))
    BY <1>0 DEF IsGraph
  <2> HIDE DEF T
  <2>2. \A n \in 0 .. MaxCommit : line[n] \subseteq T
    BY <1>3, <2>1
  <2> QED
    BY <2>2 DEF T
\* A commit that is reached in a later step is an earlier one.
<1>5. \A n \in 1 .. MaxCommit : \A c \in line[n] \ line[n - 1] : c <= id - n
  <2> DEFINE Odd == {n \in 1 .. MaxCommit : \E c \in line[n] \ line[n - 1] : ~(c <= id - n)}
  <2>1. ASSUME Odd # {} PROVE FALSE
    <3>1. PICK m \in 1 .. MaxCommit : m \in Odd /\ \A k \in Odd : m <= k
      <4>1. Odd \subseteq 1 .. MaxCommit /\ Odd \subseteq Nat
        OBVIOUS
      <4> HIDE DEF Odd
      <4> QED
        BY <2>1, <4>1, LeastOf
    <3>2. PICK c \in line[m] \ line[m - 1] : ~(c <= id - m)
      BY <3>1
    <3>3. PICK d \in line[m - 1] \ {0} : c = cs[d].parent
      BY <1>2, <3>2
    <3>4. d \in 1 .. Len(cs) /\ c \in 0 .. (d - 1)
      <4>1. m - 1 \in 0 .. MaxCommit
        BY <1>0, <3>1
      <4>2. d \in 0 .. Len(cs) /\ d # 0
        BY <1>4, <3>3, <4>1
      <4> QED
        BY <1>0, <3>3, <4>2 DEF IsGraph
    <3>5. CASE m = 1
      BY <1>2, <3>2, <3>3, <3>4, <3>5
    <3>6. CASE m # 1
      <4>1. m - 1 \in 1 .. MaxCommit /\ ~(m <= m - 1) /\ m - 2 \in 0 .. MaxCommit /\ (m - 1) - 1 = m - 2
        BY <1>0, <3>1, <3>6
      <4>2. m - 1 \notin Odd
        BY <3>1, <4>1
      <4>3. CASE d \in line[m - 2]
        <5>1. line[m - 1] = line[m - 2] \cup {cs[e].parent : e \in line[m - 2] \ {0}}
          BY <1>2, <4>1
        <5> QED
          BY <3>2, <3>3, <4>3, <5>1
      <4>4. CASE d \notin line[m - 2]
        <5>1. d <= id - (m - 1)
          BY <3>3, <4>1, <4>2, <4>4
        <5> QED
          BY <3>1, <3>2, <3>4, <5>1
      <4> QED
        BY <4>3, <4>4
    <3> QED
      BY <3>5, <3>6
  <2> QED
    BY <2>1
<1>6. \A c \in line[MaxCommit] \ {0} : c \in line[MaxCommit - 1]
  <2> SUFFICES ASSUME NEW c \in line[MaxCommit] \ {0}, c \notin line[MaxCommit - 1] PROVE FALSE
    OBVIOUS
  <2>1. MaxCommit \in 1 .. MaxCommit /\ MaxCommit \in 0 .. MaxCommit
    BY <1>0
  <2>2. c <= id - MaxCommit /\ c \in 0 .. Len(cs)
    BY <1>4, <1>5, <2>1
  <2> QED
    BY <1>0, <2>2
<1>7. line[MaxCommit] = line[MaxCommit - 1] \cup {cs[c].parent : c \in line[MaxCommit - 1] \ {0}}
  <2>1. MaxCommit \in 1 .. MaxCommit
    BY <1>0
  <2> QED
    BY <1>2, <2>1
<1>8. AncestorsIn(cs, id) \subseteq 1 .. Len(cs)
  <2>1. MaxCommit \in 0 .. MaxCommit
    BY <1>0
  <2>2. line[MaxCommit] \subseteq 0 .. Len(cs)
    BY <1>4, <2>1
  <2> QED
    BY <1>0, <1>1, <2>2
<1>9. id \in line[MaxCommit]
  <2> DEFINE Odd == {n \in 0 .. MaxCommit : id \notin line[n]}
  <2>1. ASSUME Odd # {} PROVE FALSE
    <3>1. PICK m \in 0 .. MaxCommit : m \in Odd /\ \A k \in Odd : m <= k
      <4>1. Odd \subseteq 0 .. MaxCommit /\ Odd \subseteq Nat
        OBVIOUS
      <4> HIDE DEF Odd
      <4> QED
        BY <2>1, <4>1, LeastOf
    <3>2. m # 0
      BY <1>2, <3>1
    <3>3. m \in 1 .. MaxCommit /\ m - 1 \in 0 .. MaxCommit /\ ~(m <= m - 1)
      BY <1>0, <3>1, <3>2
    <3> QED
      BY <1>2, <3>1, <3>3
  <2>2. MaxCommit \in 0 .. MaxCommit
    BY <1>0
  <2> QED
    BY <2>1, <2>2
<1>10. \A c \in AncestorsIn(cs, id) : cs[c].parent \in AncestorsIn(cs, id) \cup {0}
  BY <1>1, <1>6, <1>7
<1>11. ASSUME NEW T, id \in T \cup {0}, \A c \in T \cap 1 .. Len(cs) : cs[c].parent \in T \cup {0}
       PROVE  AncestorsIn(cs, id) \subseteq T
  <2> DEFINE U == (T \cup {0}) \cap 0 .. Len(cs)
  <2>1. id \in U /\ (\A c \in U \cap 1 .. Len(cs) : cs[c].parent \in U) /\ (\A c \in U : c \in 0 .. Len(cs))
    <3>1. \A c \in 1 .. Len(cs) : cs[c].parent \in 0 .. Len(cs)
      BY <1>0 DEF IsGraph
    <3>2. 0 \notin 1 .. Len(cs)
      BY <1>0
    <3> QED
      BY <1>11, <3>1, <3>2
  <2>2. MaxCommit \in 0 .. MaxCommit
    BY <1>0
  <2> HIDE DEF U
  <2>3. line[MaxCommit] \subseteq U
    BY <1>3, <2>1, <2>2
  <2> QED
    BY <1>1, <2>3 DEF U
<1> QED
  BY <1>1, <1>8, <1>9, <1>10, <1>11, Zenon

\* A later commit hands on what its parent reaches.
LEMMA AncestorsChain ==
    ASSUME NEW cs, IsGraph(cs), NEW id \in 0 .. Len(cs), NEW low \in 0 .. Len(cs),
           low \in AncestorsIn(cs, id) \cup {0}
    PROVE  AncestorsIn(cs, low) \subseteq AncestorsIn(cs, id)
<1> DEFINE T == AncestorsIn(cs, id)
<1>1. \A c \in T : cs[c].parent \in T \cup {0}
  BY AncestorsLeast
<1>2. low \in T \cup {0}
  OBVIOUS
<1> HIDE DEF T
<1>3. \A U : /\ low \in U \cup {0}
             /\ \A c \in U \cap 1 .. Len(cs) : cs[c].parent \in U \cup {0}
             => AncestorsIn(cs, low) \subseteq U
  BY AncestorsLeast
<1>4. AncestorsIn(cs, low) \subseteq T
  BY <1>1, <1>2, <1>3
<1> QED
  BY <1>4 DEF T

\* The ancestors of a parent are ancestors, and so is the commit itself.
LEMMA AncestorsOfParent ==
    ASSUME NEW cs, IsGraph(cs), NEW id \in 1 .. Len(cs)
    PROVE  /\ id \in AncestorsIn(cs, id)
           /\ AncestorsIn(cs, cs[id].parent) \subseteq AncestorsIn(cs, id)
<1>1. Len(cs) \in Nat /\ cs[id].parent \in 0 .. (id - 1)
  BY DEF IsGraph
<1>2. id \in 0 .. Len(cs) /\ id # 0 /\ cs[id].parent \in 0 .. Len(cs)
  BY <1>1
<1>3. id \in AncestorsIn(cs, id)
  BY <1>2, AncestorsLeast
<1>4. cs[id].parent \in AncestorsIn(cs, id) \cup {0}
  BY <1>2, <1>3, AncestorsLeast
<1> QED
  BY <1>2, <1>3, <1>4, AncestorsChain

\* A new commit changes nobody's ancestors.
LEMMA AncestorsStay ==
    ASSUME NEW cs, IsGraph(cs), NEW x, x.parent \in 0 .. Len(cs), Len(cs) < MaxCommit,
           NEW id \in 0 .. Len(cs)
    PROVE  /\ IsGraph(Append(cs, x)) /\ Len(Append(cs, x)) = Len(cs) + 1
           /\ Append(cs, x)[Len(cs) + 1] = x
           /\ AncestorsIn(Append(cs, x), id) = AncestorsIn(cs, id)
<1>0. MaxCommit \in Nat /\ Len(cs) \in Nat
  BY VersionControlAssumption DEF IsGraph
<1>1. PICK S : cs \in Seq(S)
  BY DEF IsGraph
<1>2. PICK ds : ds = Append(cs, x)
  OBVIOUS
<1>3. cs \in Seq(S \cup {x})
  BY <1>1
<1>4. ds \in Seq(S \cup {x}) /\ Len(ds) = Len(cs) + 1 /\ ds[Len(cs) + 1] = x
      /\ \A i \in 1 .. Len(cs) : ds[i] = cs[i]
  BY <1>2, <1>3
<1>5. \A i \in 1 .. Len(ds) : ds[i].parent \in 0 .. (i - 1)
  <2> SUFFICES ASSUME NEW i \in 1 .. Len(ds) PROVE ds[i].parent \in 0 .. (i - 1)
    OBVIOUS
  <2>1. CASE i = Len(cs) + 1
    BY <1>0, <1>4, <2>1
  <2>2. CASE i # Len(cs) + 1
    <3>1. i \in 1 .. Len(cs)
      BY <1>0, <1>4, <2>2
    <3> QED
      BY <1>4, <3>1 DEF IsGraph
  <2> QED
    BY <2>1, <2>2
<1>6. Len(ds) \in 0 .. MaxCommit
  BY <1>0, <1>4
<1>7. IsGraph(ds)
  BY <1>4, <1>5, <1>6 DEF IsGraph
<1>8. id \in 0 .. Len(ds)
  BY <1>0, <1>4
<1> DEFINE A == AncestorsIn(cs, id)
           B == AncestorsIn(ds, id)
<1>9. /\ A \subseteq 1 .. Len(cs) /\ id \in A \cup {0} /\ \A c \in A : cs[c].parent \in A \cup {0}
      /\ \A T : id \in T \cup {0} /\ (\A c \in T \cap 1 .. Len(cs) : cs[c].parent \in T \cup {0}) => A \subseteq T
  BY AncestorsLeast
<1>10. /\ B \subseteq 1 .. Len(ds) /\ id \in B \cup {0} /\ \A c \in B : ds[c].parent \in B \cup {0}
       /\ \A T : id \in T \cup {0} /\ (\A c \in T \cap 1 .. Len(ds) : ds[c].parent \in T \cup {0}) => B \subseteq T
  BY <1>7, <1>8, AncestorsLeast
<1> HIDE DEF A, B
<1>11. A \subseteq B
  <2>1. \A c \in B \cap 1 .. Len(cs) : cs[c].parent \in B \cup {0}
    BY <1>4, <1>10
  <2> QED
    BY <1>9, <1>10, <2>1
<1>12. B \subseteq A
  <2>1. \A c \in A \cap 1 .. Len(ds) : ds[c].parent \in A \cup {0}
    BY <1>4, <1>9
  <2> QED
    BY <1>9, <1>10, <2>1
<1> QED
  BY <1>2, <1>4, <1>7, <1>11, <1>12 DEF A, B
-----------------------------------------------------------------------------
\* A task is a record of a call and of where it is.
TasksAre(these) ==
    task \in [Session -> [at : these, op : these, branch : Branch, id : these, root : these]]

GraphTypes ==
    /\ IsGraph(commits) /\ Len(commits) >= 1
    /\ branches \in [Branch -> 0 .. Len(commits)]
    /\ current_branch \in Branch
    /\ \E these : TasksAre(these)

\* The commit a call works with is one that is there.
TargetsExist ==
    \A s \in Session :
       /\ task[s].at \in {"head_locked", "parent_known", "found", "moving"} => task[s].id \in 0 .. Len(commits)
       /\ task[s].at \in {"inserted", "recording"} => task[s].id \in 1 .. Len(commits)

Overlapped == rewritten = Branch

\* Calls that overlap excuse all branches.
OneAtATime == Overlapped \/ \A s, u \in Busy : s = u

\* A commit that overlaps with no other call extends the branch that is current from the beginning.
CommitExtends(s) ==
    /\ task[s].at \in {"head_named", "head_locked", "parent_known", "recording"} => task[s].branch = current_branch
    /\ task[s].at \in {"head_locked", "parent_known"} => task[s].id = branches[current_branch]
    /\ task[s].at \in {"inserted", "recording"} => commits[task[s].id].parent = branches[current_branch]

Extending == ~Overlapped => \A s \in Session : CommitExtends(s)

LandedReach == \A l \in landed : l[2] \in rewritten \/ l[1] \in AncestorsIn(commits, branches[l[2]])

GraphInv ==
    /\ GraphTypes /\ TargetsExist /\ OneAtATime /\ Extending /\ LandedReach
    /\ landed \subseteq Nat \X Branch /\ rewritten \subseteq Branch

LEMMA GraphStart == VersionInit => GraphInv
<1> SUFFICES ASSUME VersionInit PROVE GraphInv
  OBVIOUS
<1>0. MaxCommit \in Nat \ {0} /\ NoCommit = 0
  BY VersionControlAssumption DEF NoCommit
<1>1. PICK x : x = [parent |-> 0, root |-> EmptyRoot]
  OBVIOUS
<1>2. commits = <<x>> /\ x.parent = 0
  BY <1>0, <1>1 DEF VersionInit
<1>3. <<x>> \in Seq({x}) /\ Len(<<x>>) = 1 /\ <<x>>[1] = x
  OBVIOUS
<1>4. IsGraph(commits) /\ Len(commits) = 1
  <2>1. Len(commits) = 1 /\ commits[1] = x /\ \E S : commits \in Seq(S)
    BY <1>2, <1>3
  <2>2. \A i \in 1 .. Len(commits) : commits[i].parent \in 0 .. (i - 1)
    BY <1>2, <2>1
  <2> QED
    BY <1>0, <2>1, <2>2 DEF IsGraph
<1>5. TasksAre({"idle", "none", NoCommit, EmptyRoot})
  <2>1. PICK these : these = {"idle", "none", NoCommit, EmptyRoot}
    OBVIOUS
  <2>2. Idle \in [at : these, op : these, branch : Branch, id : these, root : these]
    BY <2>1 DEF Idle, Branch
  <2> QED
    BY <2>1, <2>2 DEF VersionInit, TasksAre
<1>6. \A s \in Session : task[s].at = "idle"
  BY DEF VersionInit, Idle
<1>7. GraphTypes
  BY <1>0, <1>4, <1>5 DEF VersionInit, GraphTypes, Branch
<1>8. TargetsExist /\ OneAtATime /\ Extending
  BY <1>6 DEF TargetsExist, OneAtATime, Extending, CommitExtends, Busy, At
<1> QED
  BY <1>7, <1>8 DEF VersionInit, GraphInv, LandedReach

\* What a step does to the task of a session.
Now(s, at, op, branch, id) ==
    /\ task'[s].at = at /\ task'[s].op = op /\ task'[s].branch = branch /\ task'[s].id = id
    /\ \A u \in Session \ {s} : task'[u] = task[u]
    /\ \E these : TasksAre(these)'

LEMMA NowAt ==
    ASSUME GraphInv, NEW s \in Session, NEW at, task' = [task EXCEPT ![s].at = at]
    PROVE  Now(s, at, task[s].op, task[s].branch, task[s].id)
<1>1. PICK these : TasksAre(these)
  BY DEF GraphInv, GraphTypes
<1>2. TasksAre(these \cup {at})'
  BY <1>1 DEF TasksAre
<1> QED
  BY <1>1, <1>2 DEF TasksAre, Now

LEMMA NowAtId ==
    ASSUME GraphInv, NEW s \in Session, NEW at, NEW id,
           task' = [task EXCEPT ![s].id = id, ![s].at = at]
    PROVE  Now(s, at, task[s].op, task[s].branch, id)
<1>1. PICK these : TasksAre(these)
  BY DEF GraphInv, GraphTypes
<1>2. TasksAre(these \cup {at, id})'
  BY <1>1 DEF TasksAre
<1>3. /\ task'[s].at = at /\ task'[s].op = task[s].op /\ task'[s].branch = task[s].branch /\ task'[s].id = id
      /\ \A u \in Session \ {s} : task'[u] = task[u]
  BY <1>1 DEF TasksAre
<1> QED
  BY <1>2, <1>3 DEF Now

LEMMA NowAtBranch ==
    ASSUME GraphInv, NEW s \in Session, NEW at, NEW branch \in Branch,
           task' = [task EXCEPT ![s].branch = branch, ![s].at = at]
    PROVE  Now(s, at, task[s].op, branch, task[s].id)
<1>1. PICK these : TasksAre(these)
  BY DEF GraphInv, GraphTypes
<1>2. TasksAre(these \cup {at})'
  BY <1>1 DEF TasksAre
<1>3. /\ task'[s].at = at /\ task'[s].op = task[s].op /\ task'[s].branch = branch /\ task'[s].id = task[s].id
      /\ \A u \in Session \ {s} : task'[u] = task[u]
  BY <1>1 DEF TasksAre
<1> QED
  BY <1>2, <1>3 DEF Now

LEMMA NowAtOp ==
    ASSUME GraphInv, NEW s \in Session, NEW at, NEW op,
           task' = [task EXCEPT ![s].op = op, ![s].at = at]
    PROVE  Now(s, at, op, task[s].branch, task[s].id)
<1>1. PICK these : TasksAre(these)
  BY DEF GraphInv, GraphTypes
<1>2. TasksAre(these \cup {at, op})'
  BY <1>1 DEF TasksAre
<1>3. /\ task'[s].at = at /\ task'[s].op = op /\ task'[s].branch = task[s].branch /\ task'[s].id = task[s].id
      /\ \A u \in Session \ {s} : task'[u] = task[u]
  BY <1>1 DEF TasksAre
<1> QED
  BY <1>2, <1>3 DEF Now

LEMMA NowCall ==
    ASSUME GraphInv, NEW s \in Session, NEW at, NEW op, NEW branch \in Branch, NEW id, NEW root,
           task' = [task EXCEPT ![s] = [at |-> at, op |-> op, branch |-> branch, id |-> id, root |-> root]]
    PROVE  Now(s, at, op, branch, id)
<1>1. PICK these : TasksAre(these)
  BY DEF GraphInv, GraphTypes
<1>2. TasksAre(these \cup {at, op, id, root})'
  BY <1>1 DEF TasksAre
<1>3. /\ task'[s].at = at /\ task'[s].op = op /\ task'[s].branch = branch /\ task'[s].id = id
      /\ \A u \in Session \ {s} : task'[u] = task[u]
  BY <1>1 DEF TasksAre
<1> QED
  BY <1>2, <1>3 DEF Now

\* A step of the only busy session, or one after which calls have overlapped.
LEMMA GraphMoves ==
    ASSUME GraphInv, NEW s \in Session, NEW at, NEW op, NEW branch, NEW id, Now(s, at, op, branch, id),
           IsGraph(commits'), Len(commits) <= Len(commits'),
           branches' \in [Branch -> 0 .. Len(commits')], current_branch' \in Branch,
           rewritten \subseteq rewritten', rewritten' \subseteq Branch, landed' \subseteq Nat \X Branch,
           s \in Busy \/ Busy = {} \/ rewritten' = Branch,
           at \in {"head_locked", "parent_known", "found", "moving"} => id \in 0 .. Len(commits'),
           at \in {"inserted", "recording"} => id \in 1 .. Len(commits'),
           rewritten' # Branch =>
              /\ at \in {"head_named", "head_locked", "parent_known", "recording"} => branch = current_branch'
              /\ at \in {"head_locked", "parent_known"} => id = branches'[current_branch']
              /\ at \in {"inserted", "recording"} => commits'[id].parent = branches'[current_branch'],
           LandedReach'
    PROVE  GraphInv'
<1>0. Len(commits) \in Nat /\ Len(commits') \in Nat /\ Len(commits) >= 1
  BY DEF GraphInv, GraphTypes, IsGraph
<1>1. /\ task'[s].at = at /\ task'[s].op = op /\ task'[s].branch = branch /\ task'[s].id = id
      /\ \A u \in Session \ {s} : task'[u] = task[u]
      /\ \E these : TasksAre(these)'
  BY DEF Now
<1>2. GraphTypes'
  BY <1>0, <1>1 DEF GraphTypes
<1>3. TargetsExist'
  <2> SUFFICES ASSUME NEW u \in Session
               PROVE  /\ task'[u].at \in {"head_locked", "parent_known", "found", "moving"} =>
                            task'[u].id \in 0 .. Len(commits')
                      /\ task'[u].at \in {"inserted", "recording"} => task'[u].id \in 1 .. Len(commits')
    BY DEF TargetsExist
  <2>1. CASE u = s
    BY <1>1, <2>1
  <2>2. CASE u # s
    BY <1>0, <1>1, <2>2 DEF GraphInv, TargetsExist
  <2> QED
    BY <2>1, <2>2
<1>4. ASSUME rewritten' # Branch, NEW u \in Session \ {s} PROVE task[u].at = "idle"
  BY <1>4 DEF GraphInv, OneAtATime, Overlapped, Busy, At
<1>5. OneAtATime'
  <2> SUFFICES ASSUME rewritten' # Branch, NEW u \in Busy', NEW v \in Busy' PROVE u = v
    BY DEF OneAtATime, Overlapped
  <2>1. \A w \in Busy' : w = s
    BY <1>1, <1>4 DEF Busy, At
  <2> QED
    BY <2>1
<1>6. Extending'
  <2> SUFFICES ASSUME rewritten' # Branch, NEW u \in Session PROVE CommitExtends(u)'
    BY DEF Extending, Overlapped
  <2>1. CASE u = s
    BY <1>1, <2>1 DEF CommitExtends
  <2>2. CASE u # s
    BY <1>1, <1>4, <2>2 DEF CommitExtends
  <2> QED
    BY <2>1, <2>2
<1> QED
  BY <1>2, <1>3, <1>5, <1>6 DEF GraphInv

\* Nothing that landed moves when commits and heads stay.
LEMMA LandedStay ==
    ASSUME GraphInv, UNCHANGED <<commits, branches, landed>>, rewritten \subseteq rewritten'
    PROVE  LandedReach' /\ landed' \subseteq Nat \X Branch
  BY DEF GraphInv, LandedReach

LEMMA GraphFacts ==
    ASSUME GraphInv
    PROVE  /\ IsGraph(commits) /\ Len(commits) \in Nat /\ Len(commits) >= 1 /\ Len(commits) <= MaxCommit
           /\ branches \in [Branch -> 0 .. Len(commits)] /\ current_branch \in Branch
           /\ branches[current_branch] \in 0 .. Len(commits)
           /\ landed \subseteq Nat \X Branch /\ rewritten \subseteq Branch
           /\ \A s \in Session : task[s].branch \in Branch /\ branches[task[s].branch] \in 0 .. Len(commits)
<1>1. PICK these : TasksAre(these)
  BY DEF GraphInv, GraphTypes
<1>2. MaxCommit \in Nat
  BY VersionControlAssumption
<1>3. \A s \in Session : task[s].branch \in Branch
  BY <1>1 DEF TasksAre
<1> QED
  BY <1>2, <1>3 DEF GraphInv, GraphTypes, IsGraph

LEMMA CallKeeps ==
    ASSUME GraphInv, NEW s \in Session, NEW op, NEW branch \in Branch, NEW id, NEW root,
           Call(s, op, branch, id, root)
    PROVE  GraphInv'
<1>1. /\ UNCHANGED <<commits, branches, current_branch, landed>>
      /\ rewritten' = IF Busy = {} THEN rewritten ELSE Branch
      /\ task' = [task EXCEPT ![s] = [at |-> "start", op |-> op, branch |-> branch, id |-> id, root |-> root]]
  BY DEF Call
<1>2. Now(s, "start", op, branch, id)
  BY <1>1, NowCall
<1>3. rewritten \subseteq rewritten' /\ rewritten' \subseteq Branch
  BY <1>1, GraphFacts
<1>4. LandedReach' /\ landed' \subseteq Nat \X Branch
  BY <1>1, <1>3, LandedStay
<1>5. Busy = {} \/ rewritten' = Branch
  BY <1>1
<1> QED
  BY <1>1, <1>2, <1>3, <1>4, <1>5, GraphFacts, GraphMoves

\* A step of a session that leaves the graph as it is.
LEMMA QuietMove ==
    ASSUME GraphInv, NEW s \in Busy, NEW at, NEW op, NEW branch, NEW id, Now(s, at, op, branch, id),
           UNCHANGED <<commits, branches, current_branch, landed, rewritten>>,
           at \in {"head_locked", "parent_known", "found", "moving"} => id \in 0 .. Len(commits),
           at \in {"inserted", "recording"} => id \in 1 .. Len(commits),
           ~Overlapped =>
              /\ at \in {"head_named", "head_locked", "parent_known", "recording"} => branch = current_branch
              /\ at \in {"head_locked", "parent_known"} => id = branches[current_branch]
              /\ at \in {"inserted", "recording"} => commits[id].parent = branches[current_branch]
    PROVE  GraphInv'
<1>1. LandedReach' /\ landed' \subseteq Nat \X Branch
  BY LandedStay
<1>2. s \in Session
  BY DEF Busy
<1> QED
  BY <1>1, <1>2, GraphFacts, GraphMoves DEF Overlapped

LEMMA ReadCurrentKeeps ==
    ASSUME GraphInv, NEW s \in Session, ReadCurrent(s)
    PROVE  GraphInv'
<1>0. UNCHANGED <<commits, branches, current_branch, landed, rewritten>> /\ current_branch \in Branch
  BY GraphFacts DEF ReadCurrent
<1>1. ASSUME At(s, "start"), NEW at \in {"named", "head_named"},
             task' = [task EXCEPT ![s].branch = current_branch, ![s].at = at]
      PROVE  GraphInv'
  <2>1. Now(s, at, task[s].op, current_branch, task[s].id)
    BY <1>0, <1>1, NowAtBranch
  <2>2. s \in Busy
    BY <1>1 DEF Busy, At
  <2> QED
    BY <1>0, <1>1, <2>1, <2>2, QuietMove
<1>2. ASSUME At(s, "inserted"), task' = [task EXCEPT ![s].branch = current_branch, ![s].at = "recording"]
      PROVE  GraphInv'
  <2>1. Now(s, "recording", task[s].op, current_branch, task[s].id)
    BY <1>0, <1>2, NowAtBranch
  <2>2. s \in Busy /\ task[s].id \in 1 .. Len(commits)
    BY <1>2 DEF Busy, At, GraphInv, TargetsExist
  <2>3. ~Overlapped => commits[task[s].id].parent = branches[current_branch]
    BY <1>2 DEF At, GraphInv, Extending, CommitExtends
  <2> QED
    BY <1>0, <2>1, <2>2, <2>3, QuietMove
<1>3. ASSUME At(s, "found"), task' = [task EXCEPT ![s].branch = current_branch, ![s].at = "moving"]
      PROVE  GraphInv'
  <2>1. Now(s, "moving", task[s].op, current_branch, task[s].id)
    BY <1>0, <1>3, NowAtBranch
  <2>2. s \in Busy /\ task[s].id \in 0 .. Len(commits)
    BY <1>3 DEF Busy, At, GraphInv, TargetsExist
  <2> QED
    BY <1>0, <2>1, <2>2, QuietMove
<1> QED
  <2>1. CASE At(s, "start")
    <3>1. \E at \in {"named", "head_named"} :
             task' = [task EXCEPT ![s].branch = current_branch, ![s].at = at]
      BY <2>1 DEF ReadCurrent, At
    <3> QED
      BY <1>1, <2>1, <3>1
  <2>2. CASE ~At(s, "start")
    BY <1>2, <1>3, <2>2 DEF ReadCurrent
  <2> QED
    BY <2>1, <2>2

LEMMA LockHeadKeeps ==
    ASSUME GraphInv, NEW s \in Session, LockHead(s)
    PROVE  GraphInv'
<1>1. Now(s, "head_locked", task[s].op, task[s].branch, branches[task[s].branch])
  BY NowAtId DEF LockHead
<1>2. s \in Busy /\ branches[task[s].branch] \in 0 .. Len(commits)
  BY GraphFacts DEF LockHead, At, Busy
<1>3. ~Overlapped => task[s].branch = current_branch
  BY DEF LockHead, At, GraphInv, Extending, CommitExtends
<1>4. UNCHANGED <<commits, branches, current_branch, landed, rewritten>>
  BY DEF LockHead
<1> QED
  BY <1>1, <1>2, <1>3, <1>4, QuietMove

LEMMA ReadHeadKeeps ==
    ASSUME GraphInv, NEW s \in Session, ReadHead(s)
    PROVE  GraphInv'
<1>1. PICK at \in {"done", "parent_known"} : task' = [task EXCEPT ![s].at = at]
  BY DEF ReadHead, Finish, Step
<1>2. Now(s, at, task[s].op, task[s].branch, task[s].id)
  BY <1>1, NowAt
<1>3. s \in Busy /\ task[s].id \in 0 .. Len(commits)
  BY DEF ReadHead, At, Busy, GraphInv, TargetsExist
<1>4. ~Overlapped => task[s].branch = current_branch /\ task[s].id = branches[current_branch]
  BY DEF ReadHead, At, GraphInv, Extending, CommitExtends
<1>5. UNCHANGED <<commits, branches, current_branch, landed, rewritten>>
  BY DEF ReadHead
<1> QED
  BY <1>1, <1>2, <1>3, <1>4, <1>5, QuietMove

LEMMA FindTargetKeeps ==
    ASSUME GraphInv, NEW s \in Session, FindTarget(s)
    PROVE  GraphInv'
<1>0. UNCHANGED <<commits, branches, current_branch, landed, rewritten>> /\ s \in Busy
  BY DEF FindTarget, At, Busy
<1>1. ASSUME task' = [task EXCEPT ![s].id = branches[task[s].branch], ![s].at = "found"] PROVE GraphInv'
  <2>1. Now(s, "found", task[s].op, task[s].branch, branches[task[s].branch])
    BY <1>1, NowAtId
  <2>2. branches[task[s].branch] \in 0 .. Len(commits)
    BY GraphFacts
  <2> QED
    BY <1>0, <2>1, <2>2, QuietMove
<1>2. ASSUME task' = [task EXCEPT ![s].at = "found"], task[s].id \in DOMAIN commits PROVE GraphInv'
  <2>1. Now(s, "found", task[s].op, task[s].branch, task[s].id)
    BY <1>2, NowAt
  <2>2. task[s].id \in 0 .. Len(commits)
    <3>1. DOMAIN commits = 1 .. Len(commits)
      BY DEF GraphInv, GraphTypes, IsGraph
    <3> QED
      BY <1>2, <3>1, GraphFacts
  <2> QED
    BY <1>0, <2>1, <2>2, QuietMove
<1>3. ASSUME task' = [task EXCEPT ![s].at = "refused"] PROVE GraphInv'
  <2>1. Now(s, "refused", task[s].op, task[s].branch, task[s].id)
    BY <1>3, NowAt
  <2> QED
    BY <1>0, <2>1, QuietMove
<1> QED
  BY <1>1, <1>2, <1>3 DEF FindTarget, Step

LEMMA CheckoutKeeps ==
    ASSUME GraphInv, NEW s \in Session, Checkout(s)
    PROVE  GraphInv'
<1>1. Now(s, "start", "head", task[s].branch, task[s].id)
  BY NowAtOp DEF Checkout
<1>2. s \in Busy
  BY DEF Checkout, At, Busy
<1>3. UNCHANGED <<commits, branches, landed, rewritten>> /\ current_branch' \in Branch
  BY GraphFacts DEF Checkout
<1>4. LandedReach' /\ landed' \subseteq Nat \X Branch
  BY <1>3, LandedStay
<1> QED
  BY <1>1, <1>2, <1>3, <1>4, GraphFacts, GraphMoves

\* The session goes on without the call.
LEMMA LeaveKeeps ==
    ASSUME GraphInv, NEW s \in Busy, task' = [task EXCEPT ![s] = Idle],
           UNCHANGED <<commits, branches, current_branch, landed, rewritten>>
    PROVE  GraphInv'
<1>1. s \in Session
  BY DEF Busy
<1>2. Now(s, "idle", "none", Main, NoCommit)
  BY <1>1, NowCall DEF Idle, Branch
<1> QED
  BY <1>2, QuietMove

\* The new commit has the head of the branch for its parent.
LEMMA InsertCommitKeeps ==
    ASSUME GraphInv, NEW s \in Session, InsertCommit(s)
    PROVE  GraphInv'
<1>1. PICK x : x = [parent |-> task[s].id, root |-> task[s].root]
  OBVIOUS
<1>2. /\ commits' = Append(commits, x) /\ x.parent = task[s].id /\ Len(commits) < MaxCommit
      /\ At(s, "parent_known") /\ task' = [task EXCEPT ![s].id = Len(commits) + 1, ![s].at = "inserted"]
      /\ UNCHANGED <<branches, current_branch, landed, rewritten>>
  BY <1>1 DEF InsertCommit
<1>3. s \in Busy /\ x.parent \in 0 .. Len(commits) /\ (~Overlapped => x.parent = branches[current_branch])
  BY <1>2 DEF At, Busy, GraphInv, TargetsExist, Extending, CommitExtends
<1>4. Now(s, "inserted", task[s].op, task[s].branch, Len(commits) + 1)
  BY <1>2, NowAtId
<1>5. /\ IsGraph(commits') /\ Len(commits') = Len(commits) + 1 /\ commits'[Len(commits) + 1] = x
      /\ \A id \in 0 .. Len(commits) : AncestorsIn(commits', id) = AncestorsIn(commits, id)
  BY <1>2, <1>3, GraphFacts, AncestorsStay
<1>6. LandedReach'
  <2> SUFFICES ASSUME NEW l \in landed, l[2] \notin rewritten
               PROVE  l[1] \in AncestorsIn(commits', branches[l[2]])
    BY <1>2 DEF LandedReach
  <2>1. l[2] \in Branch /\ branches[l[2]] \in 0 .. Len(commits)
    BY GraphFacts
  <2> QED
    BY <1>5, <2>1 DEF GraphInv, LandedReach
<1>7. Len(commits) + 1 \in 1 .. Len(commits') /\ Len(commits) <= Len(commits')
      /\ branches' \in [Branch -> 0 .. Len(commits')]
  BY <1>2, <1>5, GraphFacts
<1> QED
  BY <1>2, <1>3, <1>4, <1>5, <1>6, <1>7, GraphFacts, GraphMoves DEF Overlapped

\* The branch moves to a commit whose parent is its head.
LEMMA RecordCommitKeeps ==
    ASSUME GraphInv, NEW s \in Session, RecordCommit(s)
    PROVE  GraphInv'
<1>1. PICK id, b : id = task[s].id /\ b = task[s].branch
  OBVIOUS
<1>2. /\ branches' = [branches EXCEPT ![b] = id] /\ landed' = landed \cup {<<id, b>>}
      /\ task' = [task EXCEPT ![s].at = "done"] /\ At(s, "recording")
      /\ UNCHANGED <<commits, current_branch, rewritten>>
  BY <1>1 DEF RecordCommit, Finish
<1>3. s \in Busy /\ id \in 1 .. Len(commits) /\ b \in Branch
  BY <1>1, <1>2, GraphFacts DEF At, Busy, GraphInv, TargetsExist
<1>4. Now(s, "done", task[s].op, task[s].branch, task[s].id)
  BY <1>2, NowAt
<1>5. branches' \in [Branch -> 0 .. Len(commits')] /\ landed' \subseteq Nat \X Branch
  BY <1>2, <1>3, GraphFacts
<1>6. LandedReach'
  <2> SUFFICES ASSUME NEW l \in landed', l[2] \notin rewritten
               PROVE  l[1] \in AncestorsIn(commits, branches'[l[2]])
    BY <1>2 DEF LandedReach
  <2>1. l[2] \in Branch
    BY <1>5
  <2>2. CASE l[2] # b
    <3>1. branches'[l[2]] = branches[l[2]] /\ l \in landed
      BY <1>2, <1>3, <2>1, <2>2, GraphFacts
    <3> QED
      BY <3>1 DEF GraphInv, LandedReach
  <2>3. CASE l[2] = b
    <3>1. branches'[b] = id
      BY <1>2, <1>3, GraphFacts
    <3>2. /\ id \in AncestorsIn(commits, id)
          /\ AncestorsIn(commits, commits[id].parent) \subseteq AncestorsIn(commits, id)
      BY <1>3, GraphFacts, AncestorsOfParent
    <3>3. CASE l = <<id, b>>
      BY <2>3, <3>1, <3>2, <3>3
    <3>4. CASE l \in landed
      <4>1. ~Overlapped
        BY <2>1 DEF Overlapped
      <4>2. b = current_branch /\ commits[id].parent = branches[b]
        BY <1>1, <1>2, <4>1 DEF At, GraphInv, Extending, CommitExtends
      <4>3. l[1] \in AncestorsIn(commits, branches[b])
        BY <2>3, <3>4 DEF GraphInv, LandedReach
      <4> QED
        BY <2>3, <3>1, <3>2, <4>2, <4>3
    <3> QED
      BY <1>2, <3>3, <3>4
  <2> QED
    BY <2>2, <2>3
<1> QED
  BY <1>2, <1>3, <1>4, <1>5, <1>6, GraphFacts, GraphMoves

\* A branch that was moved elsewhere is excused.
LEMMA MoveKeeps ==
    ASSUME GraphInv, NEW s \in Busy, NEW b \in Branch, Move(b, task[s].id), Finish(s),
           task[s].at \in {"found", "moving"}, UNCHANGED <<commits, current_branch, landed>>
    PROVE  GraphInv'
<1>1. PICK id : id = task[s].id
  OBVIOUS
<1>2. /\ branches' = [branches EXCEPT ![b] = id]
      /\ rewritten' = IF branches[b] \in AncestorsIn(commits, id) \cup {0} THEN rewritten ELSE rewritten \cup {b}
      /\ task' = [task EXCEPT ![s].at = "done"]
  BY <1>1, AncestorsAre DEF Move, Finish, NoCommit
<1>3. s \in Session /\ id \in 0 .. Len(commits)
  BY <1>1 DEF Busy, GraphInv, TargetsExist
<1>4. Now(s, "done", task[s].op, task[s].branch, task[s].id)
  BY <1>2, <1>3, NowAt
<1>5. branches' \in [Branch -> 0 .. Len(commits')] /\ landed' \subseteq Nat \X Branch
      /\ rewritten \subseteq rewritten' /\ rewritten' \subseteq Branch
  BY <1>2, <1>3, GraphFacts
<1>6. LandedReach'
  <2> SUFFICES ASSUME NEW l \in landed, l[2] \notin rewritten'
               PROVE  l[1] \in AncestorsIn(commits, branches'[l[2]])
    BY DEF LandedReach
  <2>1. l[2] \in Branch /\ l[2] \notin rewritten /\ l[1] \in AncestorsIn(commits, branches[l[2]])
    BY <1>5, GraphFacts DEF GraphInv, LandedReach
  <2>2. CASE l[2] # b
    BY <1>2, <2>1, <2>2, GraphFacts
  <2>3. CASE l[2] = b
    <3>1. branches'[b] = id /\ branches[b] \in AncestorsIn(commits, id) \cup {0}
      BY <1>2, <1>3, <2>3, GraphFacts
    <3>2. AncestorsIn(commits, branches[b]) \subseteq AncestorsIn(commits, id)
      BY <1>3, <3>1, GraphFacts, AncestorsChain
    <3> QED
      BY <2>1, <2>3, <3>1, <3>2
  <2> QED
    BY <2>2, <2>3
<1> QED
  BY <1>2, <1>3, <1>4, <1>5, <1>6, GraphFacts, GraphMoves

LEMMA VersionStepKeeps ==
    ASSUME GraphInv, NEW s \in Session, VersionStep(s)
    PROVE  GraphInv'
<1>1. ASSUME InsertBranch(s) PROVE GraphInv'
  BY <1>1, MoveKeeps DEF InsertBranch, At, Busy, Branch
<1>2. ASSUME MergeBranch(s) PROVE GraphInv'
  BY <1>2, MoveKeeps, GraphFacts DEF MergeBranch, At, Busy
<1> QED
  BY <1>1, <1>2, ReadCurrentKeeps, LockHeadKeeps, ReadHeadKeeps, InsertCommitKeeps, RecordCommitKeeps,
     FindTargetKeeps, CheckoutKeeps DEF VersionStep

LEMMA GraphReaches == GraphInv => CommitsStayReachable
  BY AncestorsAre DEF GraphInv, LandedReach, CommitsStayReachable

\* No state of the calls, whichever it is, can be stuck but in the one way.
LEMMA OneCycleOnly == OneLockCycle
<1> SUFFICES ASSUME Busy # {}, \A s \in Busy : Waits(s)
             PROVE  \E s \in InCommit, u \in InHead : s # u /\ At(s, "recording")
  BY DEF OneLockCycle
<1>1. InCommit # {} \/ InHead # {}
  BY DEF Waits
<1>2. \A s \in InCommit : At(s, "recording") /\ InHead # {}
  BY DEF InCommit, InHead, Busy, Waits, At
<1>3. InHead # {} => InCommit # {}
  BY DEF InCommit, InHead, Busy, Waits, At
<1>4. \A s \in InCommit, u \in InHead : s # u
  BY DEF InCommit, InHead, At
<1> QED
  BY <1>1, <1>2, <1>3, <1>4
-----------------------------------------------------------------------------
(***************************************************************************)
(* The file in force (AdminConfig).                                        *)
(***************************************************************************)
Plain == {"parallel", "target_lag", "max_offset", "sources"}
SectionNames == Plain \cup {"schedule"}

\* A section is as a configuration asks, when that is the one that was reconciled last.
InForceAs(section, config) ==
    /\ section \in Plain => in_force[section] = config[section]
    /\ section = "schedule" =>
          IF config.schedule.enabled THEN in_force["schedule"] = config.schedule
          ELSE in_force["schedule"] = Unset \/ ~in_force["schedule"].enabled

\* Sections that the reconciler has still to come to.
Left == {todo[i] : i \in 1 .. Len(todo)}

ConfigShape ==
    /\ file.mtime \in Nat /\ seen \in Nat /\ loaded.mtime \in Nat
    /\ seen <= file.mtime /\ loaded.mtime <= file.mtime
    /\ SectionNames \subseteq DOMAIN in_force
    /\ todo \in Seq(SectionNames)
    /\ watcher \in {"off", "start", "delay", "poll", "load", "record", "reconcile"}
    /\ watcher = "reconcile" => loaded.then \in {"delay", "poll", "record"}

\* What was read last, as long as the file has the time it had then.
LoadedIsFile == watcher \notin {"off", "start"} /\ loaded.mtime = file.mtime => loaded.config = file.content

\* While it reconciles, the sections done are as the file asks; at other times, all are as the
\* configuration that was reconciled last.
Done ==
    /\ watcher = "reconcile" =>
          \A section \in SectionNames \ (overridden \cup Left) : InForceAs(section, loaded.config)
    /\ watcher \in {"delay", "poll", "load", "record"} =>
          /\ \A section \in SectionNames \ overridden : InForceAs(section, current_config)
          /\ loaded.config = Broken \/ current_config = loaded.config

\* The time the watcher has taken is not later than that of what it read.
SeenIsRead ==
    \/ watcher = "poll" /\ ~missed
    \/ watcher = "reconcile" /\ loaded.then = "poll"
    => seen <= loaded.mtime

ConfigInv == ConfigShape /\ LoadedIsFile /\ Done /\ SeenIsRead

LEMMA ConfigStart == ASSUME NEW possible, ConfigInit(possible) PROVE ConfigInv
<1>1. watcher \in {"off", "start"} /\ file.mtime = 0 /\ seen = 0 /\ loaded.mtime = 0 /\ todo = <<>>
  BY DEF ConfigInit
<1>2. SectionNames \subseteq DOMAIN in_force
  BY DEF ConfigInit, Defaults, SectionNames, Plain
<1> QED
  BY <1>1, <1>2 DEF ConfigInv, ConfigShape, LoadedIsFile, Done, SeenIsRead

\* What Same spares, the file asks for already.
LEMMA ReconcileKeeps == ConfigInv /\ Reconcile => ConfigInv'
<1> SUFFICES ASSUME ConfigInv, Reconcile PROVE ConfigInv'
  OBVIOUS
<1>1. PICK section, desired : section = Head(todo) /\ desired = Desired(section)
  OBVIOUS
<1>2. /\ watcher = "reconcile" /\ todo # <<>> /\ todo' = Tail(todo) /\ overridden' = overridden \ {section}
      /\ in_force' = IF in_force[section] = desired THEN in_force ELSE [in_force EXCEPT ![section] = desired]
      /\ UNCHANGED <<contents, file, watcher, seen, current_config, loaded, missed>>
  BY <1>1 DEF Reconcile, Same
<1>3. PICK q \in Seq(SectionNames) : q = todo
  BY DEF ConfigInv, ConfigShape
<1>4. /\ Tail(q) \in Seq(SectionNames) /\ Len(Tail(q)) = Len(q) - 1 /\ Len(q) \in Nat \ {0}
      /\ section = q[1] /\ q[1] \in SectionNames
      /\ \A i \in 1 .. (Len(q) - 1) : Tail(q)[i] = q[i + 1]
  BY <1>1, <1>2, <1>3
<1>5. Left \subseteq Left' \cup {section}
  <2> SUFFICES ASSUME NEW i \in 1 .. Len(q) PROVE q[i] = section \/ \E j \in 1 .. Len(Tail(q)) : Tail(q)[j] = q[i]
    BY <1>2, <1>3 DEF Left
  <2>1. CASE i = 1
    BY <1>4, <2>1
  <2>2. CASE i # 1
    <3>1. i - 1 \in 1 .. Len(Tail(q)) /\ Tail(q)[i - 1] = q[i]
      BY <1>4, <2>2
    <3> QED
      BY <3>1
  <2> QED
    BY <2>1, <2>2
<1>6. /\ in_force'[section] = desired /\ DOMAIN in_force' = DOMAIN in_force
      /\ \A other \in SectionNames \ {section} : in_force'[other] = in_force[other]
  BY <1>2, <1>4 DEF ConfigInv, ConfigShape
<1>7. ConfigShape'
  BY <1>2, <1>3, <1>4, <1>6 DEF ConfigInv, ConfigShape
<1>8. ASSUME NEW other \in SectionNames \ (overridden' \cup Left') PROVE InForceAs(other, loaded.config)'
  <2>1. CASE other = section
    <3>1. section \in Plain => desired = loaded.config[section]
      BY <1>1 DEF Desired, Plain
    <3>2. section = "schedule" => IF loaded.config.schedule.enabled THEN desired = loaded.config["schedule"]
                                  ELSE desired = Unset \/ desired = loaded.config["schedule"]
      BY <1>1 DEF Desired
    <3> QED
      BY <1>2, <1>6, <2>1, <3>1, <3>2 DEF InForceAs
  <2>2. CASE other # section
    <3>1. InForceAs(other, loaded.config)
      BY <1>2, <1>5, <1>8, <2>2 DEF ConfigInv, Done
    <3> QED
      BY <1>2, <1>6, <2>2, <3>1 DEF InForceAs
  <2> QED
    BY <2>1, <2>2
<1>9. Done'
  BY <1>2, <1>8 DEF Done
<1> QED
  BY <1>2, <1>7, <1>9 DEF ConfigInv, LoadedIsFile, SeenIsRead

\* An operator's section is excepted until the reconciler comes to it.
LEMMA OperateKeeps ==
    ASSUME ConfigInv, NEW section, NEW value, Operate(section, value)
    PROVE  ConfigInv'
<1>1. /\ in_force' = [in_force EXCEPT ![section] = value] /\ overridden' = overridden \cup {section}
      /\ UNCHANGED <<contents, file, watcher, seen, current_config, loaded, todo, missed>>
  BY DEF Operate
<1>2. /\ DOMAIN in_force' = DOMAIN in_force
      /\ \A other \in SectionNames \ {section} : in_force'[other] = in_force[other]
  BY <1>1 DEF ConfigInv, ConfigShape
<1>3. ASSUME NEW config, NEW other \in SectionNames, other \notin overridden', InForceAs(other, config)
      PROVE  InForceAs(other, config)'
  BY <1>1, <1>2, <1>3 DEF InForceAs
<1>4. Left' = Left
  BY <1>1 DEF Left
<1>5. Done'
  BY <1>1, <1>3, <1>4 DEF ConfigInv, Done
<1> QED
  BY <1>1, <1>2, <1>5 DEF ConfigInv, ConfigShape, LoadedIsFile, SeenIsRead

\* Reading the file, and what follows.
LEMMA LoadKeeps ==
    ASSUME ConfigInv, NEW then, NEW failed, Load(then, failed), UNCHANGED in_force,
           \/ then = "delay" /\ failed = "off"
           \/ then = "poll" /\ failed = "poll" /\ watcher = "load"
           \/ then = "record" /\ failed = "record" /\ watcher = "poll"
    PROVE  ConfigInv'
<1>1. /\ loaded' = [config |-> file.content, mtime |-> file.mtime, then |-> then]
      /\ UNCHANGED <<contents, file, seen, current_config, overridden, in_force>>
  BY DEF Load
<1>2. loaded'.config = file.content /\ loaded'.mtime = file.mtime /\ loaded'.then = then
  BY <1>1
<1>3. Sections \in Seq(SectionNames) /\ SectionNames \subseteq {Sections[i] : i \in 1 .. Len(Sections)}
  BY DEF Sections, SectionNames, Plain
<1>4. CASE file.content = Broken
  <2>1. watcher' = failed /\ todo' = todo
    BY <1>4 DEF Load
  <2>2. ConfigShape'
    BY <1>1, <1>2, <2>1 DEF ConfigInv, ConfigShape
  <2>3. Done'
    BY <1>1, <1>2, <1>4, <2>1 DEF ConfigInv, Done, InForceAs
  <2> QED
    BY <1>1, <1>2, <2>1, <2>2, <2>3 DEF ConfigInv, ConfigShape, LoadedIsFile, SeenIsRead
<1>5. CASE file.content # Broken
  <2>1. watcher' = "reconcile" /\ todo' = Sections
    BY <1>5 DEF Load
  <2>2. ConfigShape'
    BY <1>1, <1>2, <1>3, <2>1 DEF ConfigInv, ConfigShape
  <2>3. SectionNames \subseteq Left'
    BY <1>3, <2>1 DEF Left
  <2>4. Done'
    BY <2>1, <2>3 DEF Done
  <2> QED
    BY <1>1, <1>2, <2>1, <2>2, <2>4 DEF ConfigInv, ConfigShape, LoadedIsFile, SeenIsRead
<1> QED
  BY <1>4, <1>5

\* A step of the watcher other than reading the file.
LEMMA WatchKeeps == ConfigInv /\ (StartWatching \/ Tick \/ RecordTime) => ConfigInv'
<1> SUFFICES ASSUME ConfigInv, StartWatching \/ Tick \/ RecordTime PROVE ConfigInv'
  OBVIOUS
<1>1. /\ seen' = file.mtime /\ UNCHANGED <<contents, file, current_config, loaded, todo, in_force, overridden>>
      /\ watcher \in {"delay", "poll", "record"}
      /\ \/ watcher' = "poll" /\ missed' = (file.mtime # loaded.mtime)
         \/ watcher' = "load" /\ missed' = missed
  BY DEF StartWatching, Tick, RecordTime
<1>2. Left' = Left /\ \A section \in SectionNames : \A config : InForceAs(section, config) => InForceAs(section, config)'
  BY <1>1 DEF Left, InForceAs
<1>3. Done'
  <2>1. watcher' \in {"poll", "load"}
    BY <1>1
  <2> QED
    BY <1>1, <1>2, <2>1 DEF ConfigInv, Done
<1>4. ConfigShape'
  BY <1>1 DEF ConfigInv, ConfigShape
<1>5. LoadedIsFile'
  BY <1>1 DEF ConfigInv, LoadedIsFile
<1>6. SeenIsRead'
  <2>1. CASE file.mtime = loaded.mtime
    BY <1>1, <2>1 DEF ConfigInv, ConfigShape, SeenIsRead
  <2>2. CASE file.mtime # loaded.mtime
    BY <1>1, <2>2 DEF SeenIsRead
  <2> QED
    BY <2>1, <2>2
<1> QED
  BY <1>3, <1>4, <1>5, <1>6 DEF ConfigInv

LEMMA EndKeeps == ConfigInv /\ EndReconcile => ConfigInv'
<1> SUFFICES ASSUME ConfigInv, EndReconcile PROVE ConfigInv'
  OBVIOUS
<1>1. /\ watcher = "reconcile" /\ todo = <<>> /\ current_config' = loaded.config /\ watcher' = loaded.then
      /\ UNCHANGED <<contents, file, seen, loaded, todo, in_force, overridden, missed>>
  BY DEF EndReconcile
<1>2. Left = {}
  BY <1>1 DEF Left
<1> QED
  BY <1>1, <1>2 DEF ConfigInv, ConfigShape, LoadedIsFile, Done, InForceAs, SeenIsRead

LEMMA EditKeeps == ASSUME ConfigInv, NEW content, Edit(content) PROVE ConfigInv'
<1>1. /\ file' = [content |-> content, mtime |-> file.mtime + 1]
      /\ UNCHANGED <<contents, watcher, seen, current_config, loaded, todo, in_force, overridden, missed>>
  BY DEF Edit
<1>2. file'.mtime = file.mtime + 1
  BY <1>1
<1> QED
  BY <1>1, <1>2 DEF ConfigInv, ConfigShape, LoadedIsFile, Done, InForceAs, Left, SeenIsRead

LEMMA ConfigRestartKeeps == ConfigInv /\ ConfigRestart => ConfigInv'
<1> SUFFICES ASSUME ConfigInv, ConfigRestart PROVE ConfigInv'
  OBVIOUS
<1>1. /\ watcher' \in {"off", "start"} /\ seen' = 0 /\ todo' = <<>> /\ loaded'.mtime = 0 /\ UNCHANGED file
      /\ in_force' = Defaults
  BY DEF ConfigRestart
<1>2. SectionNames \subseteq DOMAIN in_force'
  BY <1>1 DEF Defaults, SectionNames, Plain
<1> QED
  BY <1>1, <1>2 DEF ConfigInv, ConfigShape, LoadedIsFile, Done, SeenIsRead

LEMMA ConfigKeep == ConfigInv /\ (ConfigStep \/ ConfigRestart \/ UNCHANGED configVars) => ConfigInv'
<1>1. ConfigInv /\ UNCHANGED configVars => ConfigInv'
  BY DEF configVars, ConfigInv, ConfigShape, LoadedIsFile, Done, InForceAs, Left, SeenIsRead
<1>2. ConfigInv /\ LoadAtStart => ConfigInv'
  BY LoadKeeps DEF LoadAtStart
<1>3. ConfigInv /\ (Reload \/ Sighup) => ConfigInv'
  BY LoadKeeps DEF Reload, Sighup
<1>4. ASSUME ConfigInv, NEW schedule, SetSchedule(schedule) PROVE ConfigInv'
  BY <1>4, OperateKeeps DEF SetSchedule
<1>5. ASSUME ConfigInv, NEW name, RegisterSource(name) \/ DropSource(name) PROVE ConfigInv'
  BY <1>5, OperateKeeps DEF RegisterSource, DropSource
<1> QED
  BY <1>1, <1>2, <1>3, <1>4, <1>5, ReconcileKeeps, WatchKeeps, EndKeeps, EditKeeps, ConfigRestartKeeps DEF ConfigStep

LEMMA ConfigInForce == ConfigInv => FileInForce
<1> SUFFICES ASSUME ConfigInv, watcher = "poll", seen = file.mtime, ~missed
             PROVE  /\ \A section \in Plain \ overridden : in_force[section] = Asked[section]
                    /\ "schedule" \notin overridden =>
                          IF Asked.schedule.enabled THEN in_force.schedule = Asked.schedule
                          ELSE in_force.schedule = Unset \/ ~in_force.schedule.enabled
  BY DEF FileInForce, Plain
<1>1. loaded.mtime = file.mtime
  BY DEF ConfigInv, ConfigShape, SeenIsRead
<1>2. loaded.config = file.content
  BY <1>1 DEF ConfigInv, LoadedIsFile
<1>3. Asked = current_config
  BY <1>2 DEF ConfigInv, Done, Asked
<1>4. \A section \in SectionNames \ overridden : InForceAs(section, current_config)
  BY DEF ConfigInv, Done
<1> QED
  BY <1>3, <1>4 DEF InForceAs, SectionNames
-----------------------------------------------------------------------------
(***************************************************************************)
(* What the mirror is still owed (QueryEngine).                            *)
(***************************************************************************)
IsSeq(q) == \E S : q \in Seq(S)

\* Rows come in a sequence, whatever they are.
LEMMA OrderedIsSeq == ASSUME NEW S \in SUBSET Key PROVE IsSeq(Ordered(S))
<1>1. IsFiniteSet(Key)
  BY RowStoreAssumption, FS_Union DEF Key
<1>2. Cardinality(S) \in Nat
  BY <1>1, FS_Subset, FS_CardinalityType
<1>3. PICK R : Ordered(S) \in [1 .. Cardinality(S) -> R]
  <2>1. Ordered(S) \in [1 .. Cardinality(S) ->
            {CHOOSE k \in S : Cardinality({m \in S : m < k}) = i - 1 : i \in 1 .. Cardinality(S)}]
    BY Zenon DEF Ordered
  <2> QED
    BY <2>1
<1>4. PICK n \in Nat : n = Cardinality(S)
  BY <1>2
<1>5. [1 .. n -> R] \subseteq Seq(R)
  OBVIOUS
<1> QED
  BY <1>3, <1>4, <1>5 DEF IsSeq

\* What is put together ends with its last part.
Joins(seqs, m, g) == g = [i \in 1 .. m |-> IF i = 1 THEN seqs[i] ELSE g[i - 1] \o seqs[i]]

LEMMA JoinsExist ==
    ASSUME NEW T, NEW seqs \in Seq(Seq(T)), seqs # <<>>, NEW n \in 1 .. Len(seqs)
    PROVE  \E g \in [1 .. n -> Seq(T)] : Joins(seqs, n, g)
<1> DEFINE Bad == {m \in 1 .. Len(seqs) : ~\E g \in [1 .. m -> Seq(T)] : Joins(seqs, m, g)}
<1>1. ASSUME Bad # {} PROVE FALSE
  <2>1. PICK m \in 1 .. Len(seqs) : m \in Bad /\ \A k \in Bad : m <= k
    <3>1. Bad \subseteq 1 .. Len(seqs) /\ Bad \subseteq Nat
      OBVIOUS
    <3> HIDE DEF Bad
    <3> QED
      BY <1>1, <3>1, LeastOf
  <2>2. CASE m = 1
    <3> DEFINE g == [i \in 1 .. 1 |-> seqs[1]]
    <3>1. g \in [1 .. 1 -> Seq(T)] /\ Joins(seqs, 1, g)
      BY DEF Joins
    <3> HIDE DEF g
    <3> QED
      BY <2>1, <2>2, <3>1
  <2>3. CASE m # 1
    <3>1. m - 1 \in 1 .. Len(seqs) /\ ~(m <= m - 1)
      BY <2>1, <2>3
    <3>2. PICK g \in [1 .. (m - 1) -> Seq(T)] : Joins(seqs, m - 1, g)
      BY <2>1, <3>1
    <3> DEFINE h == [i \in 1 .. m |-> IF i = m THEN g[m - 1] \o seqs[m] ELSE g[i]]
    <3>3. seqs[m] \in Seq(T) /\ g[m - 1] \in Seq(T)
      BY <3>1
    <3>4. h \in [1 .. m -> Seq(T)]
      BY <3>1, <3>3
    <3>5. \A i \in 1 .. m : h[i] = IF i = 1 THEN seqs[i] ELSE h[i - 1] \o seqs[i]
      <4> SUFFICES ASSUME NEW i \in 1 .. m PROVE h[i] = IF i = 1 THEN seqs[i] ELSE h[i - 1] \o seqs[i]
        OBVIOUS
      <4>1. CASE i = m
        <5>1. h[m - 1] = g[m - 1]
          BY <3>1
        <5> QED
          BY <2>3, <4>1, <5>1
      <4>2. CASE i # m
        <5>1. i \in 1 .. (m - 1) /\ h[i] = g[i] /\ (i # 1 => h[i - 1] = g[i - 1])
          BY <3>1, <4>2
        <5>2. g[i] = IF i = 1 THEN seqs[i] ELSE g[i - 1] \o seqs[i]
          BY <3>2, <5>1 DEF Joins
        <5> HIDE DEF h
        <5> QED
          BY <5>1, <5>2
      <4> QED
        BY <4>1, <4>2
    <3>6. h = [i \in 1 .. m |-> h[i]]
      OBVIOUS
    <3> HIDE DEF h
    <3>7. Joins(seqs, m, h)
      BY <3>5, <3>6 DEF Joins
    <3> QED
      BY <2>1, <3>4, <3>7
  <2> QED
    BY <2>2, <2>3
<1> QED
  BY <1>1

\* FlattenSeq is the last of the joins.
LEMMA FlattenIs ==
    ASSUME NEW T, NEW seqs \in Seq(Seq(T)), seqs # <<>>
    PROVE  \E g : /\ Joins(seqs, Len(seqs), g) /\ FlattenSeq(seqs) = g[Len(seqs)]
                  /\ \A i \in 1 .. Len(seqs) : g[i] \in Seq(T)
<1>0. PICK n \in Nat \ {0} : n = Len(seqs)
  OBVIOUS
<1>1. \E g : Joins(seqs, n, g)
  BY <1>0, JoinsExist
<1>2. PICK g : Joins(seqs, n, g) /\ FlattenSeq(seqs) = g[n]
  <2> DEFINE f == CHOOSE f : Joins(seqs, n, f)
  <2>1. Joins(seqs, n, f)
    BY <1>1, Zenon
  <2>2. FlattenSeq(seqs) = f[n]
    BY <1>0, Zenon DEF FlattenSeq, Joins
  <2> QED
    BY <2>1, <2>2
\* The recursion has one solution.
<1>3. \A i \in 1 .. n : g[i] \in Seq(T)
  <2> DEFINE Bad == {i \in 1 .. n : g[i] \notin Seq(T)}
  <2>1. ASSUME Bad # {} PROVE FALSE
    <3>1. PICK m \in 1 .. n : m \in Bad /\ \A k \in Bad : m <= k
      <4>1. Bad \subseteq 1 .. n /\ Bad \subseteq Nat
        OBVIOUS
      <4> HIDE DEF Bad
      <4> QED
        BY <2>1, <4>1, LeastOf
    <3>2. g[m] = IF m = 1 THEN seqs[m] ELSE g[m - 1] \o seqs[m]
      BY <1>2 DEF Joins
    <3>3. seqs[m] \in Seq(T)
      BY <1>0
    <3>4. CASE m = 1
      BY <3>1, <3>2, <3>3, <3>4
    <3>5. CASE m # 1
      <4>1. m - 1 \in 1 .. n /\ ~(m <= m - 1)
        BY <3>5
      <4>2. g[m - 1] \in Seq(T)
        BY <3>1, <4>1
      <4>3. \A p, q \in Seq(T) : p \o q \in Seq(T)
        OBVIOUS
      <4>4. g[m] = g[m - 1] \o seqs[m]
        BY <3>2, <3>5
      <4> QED
        BY <3>1, <3>3, <4>2, <4>3, <4>4
    <3> QED
      BY <3>4, <3>5
  <2> QED
    BY <2>1
<1> QED
  BY <1>0, <1>2, <1>3

LEMMA FlattenEnds ==
    ASSUME NEW T, NEW seqs \in Seq(Seq(T)), seqs # <<>>
    PROVE  /\ FlattenSeq(seqs) \in Seq(T)
           /\ \A i \in 1 .. Len(seqs[Len(seqs)]) :
                 \E j \in 1 .. Len(FlattenSeq(seqs)) : FlattenSeq(seqs)[j] = seqs[Len(seqs)][i]
<1>0. PICK n \in Nat \ {0} : n = Len(seqs)
  OBVIOUS
<1>2. PICK g : Joins(seqs, n, g) /\ FlattenSeq(seqs) = g[n] /\ \A i \in 1 .. n : g[i] \in Seq(T)
  BY <1>0, FlattenIs
<1>3. \A i \in 1 .. n : g[i] \in Seq(T)
  BY <1>2
<1>4. g[n] = IF n = 1 THEN seqs[n] ELSE g[n - 1] \o seqs[n]
  <2>1. n \in 1 .. n /\ Joins(seqs, n, g)
    BY <1>0, <1>2
  <2> QED
    BY <2>1 DEF Joins
<1>5. seqs[n] \in Seq(T)
  BY <1>0
<1>6. g[n] \in Seq(T)
  BY <1>0, <1>3
<1>7. CASE n = 1
  BY <1>0, <1>2, <1>4, <1>6, <1>7
<1>8. CASE n # 1
  <2>1. PICK p \in Seq(T) : p = g[n - 1]
    <3>1. n - 1 \in 1 .. n
      BY <1>0, <1>8
    <3>2. g[n - 1] \in Seq(T)
      BY <1>3, <3>1
    <3> QED
      BY <3>2
  <2>2. PICK q \in Seq(T) : q = seqs[n]
    BY <1>5
  <2>3. \A i \in 1 .. Len(q) : Len(p) + i \in 1 .. Len(p \o q) /\ (p \o q)[Len(p) + i] = q[i]
    OBVIOUS
  <2>4. FlattenSeq(seqs) = p \o q
    BY <1>2, <1>4, <1>8, <2>1, <2>2
  <2> QED
    BY <1>0, <1>2, <1>6, <2>2, <2>3, <2>4
<1> QED
  BY <1>7, <1>8
-----------------------------------------------------------------------------
Image(m) == \E V : m \in [Cell -> V]
Jobs(js) == \E V : js \in [Session -> [at : V, ops : V, writes : V, snapshot : V, keys : V]]
VersionCalls == {"commit", "branch", "branch_from", "checkout", "merge", "log"}

JobShape ==
    /\ Image(mem)
    /\ \E V : txn \in [snapshot : V, log : V, open : V]
    /\ txn.open => Image(txn.snapshot)
    /\ Jobs(job)
    /\ \A s \in Session :
          /\ job[s].at \in {"mark", "record", "write"} => IsSeq(job[s].ops) /\ job[s].ops # <<>>
          /\ job[s].at \in {"apply", "apply_write", "restore"} => Image(job[s].snapshot)
          /\ task[s].at # "idle" => job[s].at \in VersionCalls

\* The rows that operations mark, and those a session will mark or export.
Marks(ops) == {ops[i].cell : i \in {j \in 1 .. Len(ops) : ops[j].val # 0}}
PromisedBy(at, ops, keys) ==
    IF at = "mark" THEN Marks(ops)
    ELSE IF at \in {"record", "write"} THEN Marks(Tail(ops))
    ELSE IF at = "export" THEN keys
    ELSE {}
Promised(s) == PromisedBy(job[s].at, job[s].ops, job[s].keys)

Owed(k) == k \notin unmarked /\ mem[k] \notin {0, mirror[k]}
OwedAreComing == \A k \in Key : Owed(k) => k \in dirty \/ \E s \in Session : k \in Promised(s)

SyncInv == JobShape /\ OwedAreComing

LEMMA MarksTail ==
    ASSUME NEW q, IsSeq(q), q # <<>>
    PROVE  /\ IsSeq(Tail(q))
           /\ Marks(Tail(q)) \subseteq Marks(q)
           /\ Marks(q) \subseteq Marks(Tail(q)) \cup (IF Head(q).val # 0 THEN {Head(q).cell} ELSE {})
<1>1. PICK S : q \in Seq(S)
  BY DEF IsSeq
<1>2. /\ Tail(q) \in Seq(S) /\ Len(q) \in Nat \ {0} /\ Len(Tail(q)) = Len(q) - 1 /\ Head(q) = q[1]
      /\ \A i \in 1 .. Len(Tail(q)) : i + 1 \in 1 .. Len(q) /\ Tail(q)[i] = q[i + 1]
  BY <1>1
<1>3. \A i \in 1 .. Len(q) : i # 1 => i - 1 \in 1 .. Len(Tail(q)) /\ Tail(q)[i - 1] = q[i]
  BY <1>1, <1>2
<1>4. Marks(Tail(q)) \subseteq Marks(q)
  BY <1>2 DEF Marks
<1>5. ASSUME NEW c \in Marks(q), c \notin Marks(Tail(q)) PROVE Head(q).val # 0 /\ c = Head(q).cell
  <2>1. PICK i \in 1 .. Len(q) : q[i].val # 0 /\ c = q[i].cell
    BY <1>5 DEF Marks
  <2>2. i = 1
    BY <1>3, <1>5, <2>1 DEF Marks
  <2> QED
    BY <1>2, <2>1, <2>2
<1> QED
  BY <1>2, <1>4, <1>5 DEF IsSeq

LEMMA MarksConcern == ASSUME NEW q, IsSeq(q) PROVE Marks(q) \subseteq CellsOfAll(q)
<1>1. DOMAIN q = 1 .. Len(q)
  BY DEF IsSeq
<1> QED
  BY <1>1 DEF Marks, CellsOfAll, CellsOf

\* Where a session is after a step.
JobNow(s, at, ops, snapshot, keys) ==
    /\ Jobs(job')
    /\ job'[s].at = at /\ job'[s].ops = ops /\ job'[s].snapshot = snapshot /\ job'[s].keys = keys
    /\ \A u \in Session \ {s} : job'[u] = job[u]

JobRecord(V) == [at : V, ops : V, writes : V, snapshot : V, keys : V]
IsJob(r) == \E V : r \in JobRecord(V)

LEMMA JobPut ==
    ASSUME Jobs(job), NEW s \in Session, NEW r, IsJob(r), job' = [job EXCEPT ![s] = r]
    PROVE  JobNow(s, r.at, r.ops, r.snapshot, r.keys)
<1>1. PICK V : job \in [Session -> [at : V, ops : V, writes : V, snapshot : V, keys : V]]
  BY DEF Jobs
<1>2. PICK U : r \in JobRecord(U)
  BY DEF IsJob
<1>3. PICK W : W = V \cup U
  OBVIOUS
<1>4. /\ job \in [Session -> [at : W, ops : W, writes : W, snapshot : W, keys : W]]
      /\ r \in [at : W, ops : W, writes : W, snapshot : W, keys : W]
  BY <1>1, <1>2, <1>3 DEF JobRecord
<1>5. job' \in [Session -> [at : W, ops : W, writes : W, snapshot : W, keys : W]]
  BY <1>4
<1> QED
  BY <1>1, <1>5 DEF Jobs, JobNow

LEMMA JobIs == ASSUME Jobs(job), NEW s \in Session PROVE IsJob(job[s])
BY DEF Jobs, JobRecord, IsJob

LEMMA JobMade ==
    ASSUME NEW at, NEW ops, NEW writes, NEW snapshot, NEW keys
    PROVE  IsJob([at |-> at, ops |-> ops, writes |-> writes, snapshot |-> snapshot, keys |-> keys])
<1>1. [at |-> at, ops |-> ops, writes |-> writes, snapshot |-> snapshot, keys |-> keys] \in
          JobRecord({at, ops, writes, snapshot, keys})
  BY DEF JobRecord
<1> QED
  BY <1>1 DEF IsJob

LEMMA JobAt ==
    ASSUME Jobs(job), NEW s \in Session, NEW at, job' = [job EXCEPT ![s].at = at]
    PROVE  JobNow(s, at, job[s].ops, job[s].snapshot, job[s].keys)
<1>1. PICK V : job \in [Session -> JobRecord(V)]
  BY DEF Jobs, JobRecord
<1>2. PICK W : W = V \cup {at}
  OBVIOUS
<1>3. job' \in [Session -> JobRecord(W)]
  BY <1>1, <1>2 DEF JobRecord
<1> QED
  BY <1>1, <1>3 DEF Jobs, JobNow, JobRecord

LEMMA PersistingIs ==
    ASSUME Jobs(job), NEW s \in Session, NEW ops, NEW r, r = Persisting(s, ops)
    PROVE  /\ IsJob(r) /\ r.at \in {"mark", "install", "rest"}
           /\ r.at = "mark" <=> ops # <<>>
           /\ r.at = "mark" => r.ops = ops
<1>1. PICK V : job[s] \in JobRecord(V)
  BY JobIs DEF IsJob
<1>2. CASE ops # <<>>
  <2>1. r = [job[s] EXCEPT !.at = "mark", !.ops = ops, !.writes = <<>>]
    BY <1>2 DEF Persisting
  <2>2. r.at = "mark" /\ r.ops = ops
    BY <1>1, <2>1 DEF JobRecord
  <2>3. r \in JobRecord(V \cup {"mark", ops, <<>>})
    BY <1>1, <2>1 DEF JobRecord
  <2> QED
    BY <1>2, <2>2, <2>3 DEF IsJob
<1>3. CASE ops = <<>> /\ job[s].snapshot # <<>>
  <2>1. r = [job[s] EXCEPT !.at = "install", !.ops = <<>>, !.writes = <<>>]
    BY <1>3 DEF Persisting
  <2>2. r.at = "install"
    BY <1>1, <2>1 DEF JobRecord
  <2>3. r \in JobRecord(V \cup {"install", <<>>})
    BY <1>1, <2>1 DEF JobRecord
  <2> QED
    BY <1>3, <2>2, <2>3 DEF IsJob
<1>4. CASE ops = <<>> /\ job[s].snapshot = <<>>
  <2>1. r = [at |-> "rest", ops |-> <<>>, writes |-> <<>>, snapshot |-> <<>>, keys |-> {}]
    BY <1>4 DEF Persisting, Resting
  <2> QED
    BY <1>4, <2>1, JobMade
<1> QED
  BY <1>2, <1>3, <1>4

\* A step of one session.
LEMMA SyncMoves ==
    ASSUME SyncInv, NEW s \in Session, NEW at, NEW ops, NEW snapshot, NEW keys,
           JobNow(s, at, ops, snapshot, keys),
           Image(mem'), \E V : txn' \in [snapshot : V, log : V, open : V], txn'.open => Image(txn'.snapshot),
           at \in {"mark", "record", "write"} => IsSeq(ops) /\ ops # <<>>,
           at \in {"apply", "apply_write", "restore"} => Image(snapshot),
           \A u \in Session \ {s} : task'[u] = task[u],
           task'[s].at # "idle" => at \in VersionCalls,
           \A k \in Key : Owed(k)' =>
              \/ k \in dirty' \cup PromisedBy(at, ops, keys)
              \/ Owed(k) /\ k \notin dirty \cup Promised(s)
    PROVE  SyncInv'
<1>1. JobShape'
  <2>1. ASSUME NEW u \in Session
        PROVE  /\ job'[u].at \in {"mark", "record", "write"} => IsSeq(job'[u].ops) /\ job'[u].ops # <<>>
               /\ job'[u].at \in {"apply", "apply_write", "restore"} => Image(job'[u].snapshot)
               /\ task'[u].at # "idle" => job'[u].at \in VersionCalls
    <3>1. CASE u = s
      BY <3>1 DEF JobNow
    <3>2. CASE u # s
      BY <3>2 DEF JobNow, SyncInv, JobShape
    <3> QED
      BY <3>1, <3>2
  <2>2. Jobs(job')
    BY DEF JobNow
  <2> QED
    BY <2>1, <2>2 DEF JobShape
<1>2. Promised(s)' = PromisedBy(at, ops, keys)
  BY DEF JobNow, Promised
<1>3. \A u \in Session \ {s} : Promised(u)' = Promised(u)
  BY DEF JobNow, Promised
<1>4. OwedAreComing'
  <2> SUFFICES ASSUME NEW k \in Key, Owed(k)' PROVE k \in dirty' \/ \E u \in Session : k \in Promised(u)'
    BY DEF OwedAreComing
  <2>1. CASE k \in dirty' \cup PromisedBy(at, ops, keys)
    BY <1>2, <2>1
  <2>2. CASE Owed(k) /\ k \notin dirty \cup Promised(s)
    <3>1. PICK u \in Session : k \in Promised(u)
      BY <2>2 DEF SyncInv, OwedAreComing
    <3>2. u # s
      BY <2>2, <3>1
    <3> QED
      BY <1>3, <3>1, <3>2
  <2> QED
    BY <2>1, <2>2
<1> QED
  BY <1>1, <1>4 DEF SyncInv

\* Most steps owe nothing new: what the session promised stays promised or is marked.
LEMMA QuietSync ==
    ASSUME SyncInv, NEW s \in Session, NEW at, NEW ops, NEW snapshot, NEW keys,
           JobNow(s, at, ops, snapshot, keys),
           UNCHANGED <<mem, mirror>>,
           \E V : txn' \in [snapshot : V, log : V, open : V], txn'.open => Image(txn'.snapshot),
           at \in {"mark", "record", "write"} => IsSeq(ops) /\ ops # <<>>,
           at \in {"apply", "apply_write", "restore"} => Image(snapshot),
           \A u \in Session \ {s} : task'[u] = task[u],
           task'[s].at # "idle" => at \in VersionCalls,
           unmarked \subseteq unmarked',
           dirty \cap Key \subseteq dirty' \cup PromisedBy(at, ops, keys),
           Promised(s) \cap Key \subseteq dirty' \cup PromisedBy(at, ops, keys) \cup unmarked'
    PROVE  SyncInv'
<1>1. Image(mem')
  BY DEF SyncInv, JobShape
<1>2. \A k \in Key : Owed(k)' =>
         \/ k \in dirty' \cup PromisedBy(at, ops, keys)
         \/ Owed(k) /\ k \notin dirty \cup Promised(s)
  BY DEF Owed
<1> QED
  BY <1>1, <1>2, SyncMoves

\* A row that takes another key is saved last under its new key.
LEMMA MovedMarks ==
    ASSUME NEW hits, IsSeq(hits), hits # <<>>, NEW new
    PROVE  /\ IsSeq(Moved(hits, new))
           /\ mem[Last(hits)] # 0 => new \in Marks(Moved(hits, new))
<1>1. PICK S : hits \in Seq(S)
  BY DEF IsSeq
<1>2. PICK n \in Nat \ {0} : n = Len(hits) /\ DOMAIN hits = 1 .. n
  BY <1>1
<1>3. PICK T : T = {[cell |-> hits[i], val |-> 0] : i \in 1 .. n} \cup {[cell |-> new, val |-> mem[hits[i]]] : i \in 1 .. n}
  OBVIOUS
<1>4. PICK seqs : seqs = [i \in 1 .. n |->
          (IF hits[i] = new THEN <<>> ELSE <<[cell |-> hits[i], val |-> 0]>>)
          \o <<[cell |-> new, val |-> mem[hits[i]]]>>]
  OBVIOUS
<1>5. Moved(hits, new) = FlattenSeq(seqs)
  BY <1>2, <1>4 DEF Moved
<1>6. ASSUME NEW i \in 1 .. n
      PROVE  /\ seqs[i] \in Seq(T)
             /\ \E j \in 1 .. Len(seqs[i]) : seqs[i][j] = [cell |-> new, val |-> mem[hits[i]]]
  <2>1. PICK a, b : a = [cell |-> hits[i], val |-> 0] /\ b = [cell |-> new, val |-> mem[hits[i]]]
    OBVIOUS
  <2>2. a \in T /\ b \in T
    BY <1>3, <2>1
  <2>3. PICK p \in Seq(T) : p = IF hits[i] = new THEN <<>> ELSE <<a>>
    <3>1. <<a>> \in Seq(T) /\ <<>> \in Seq(T)
      BY <2>2
    <3> QED
      BY <3>1
  <2>4. seqs[i] = p \o <<b>>
    BY <1>4, <2>1, <2>3
  <2>5. p \o <<b>> \in Seq(T) /\ Len(p \o <<b>>) = Len(p) + 1 /\ (p \o <<b>>)[Len(p) + 1] = b
    <3>1. <<b>> \in Seq(T) /\ Len(<<b>>) = 1 /\ <<b>>[1] = b
      <4>1. <<b>> \in Seq(T)
        BY <2>2
      <4>2. Len(<<b>>) = 1 /\ <<b>>[1] = b
        OBVIOUS
      <4> QED
        BY <4>1, <4>2
    <3>2. \A q \in Seq(T) : p \o q \in Seq(T) /\ Len(p \o q) = Len(p) + Len(q)
                            /\ \A k \in 1 .. Len(q) : (p \o q)[Len(p) + k] = q[k]
      OBVIOUS
    <3> QED
      BY <3>1, <3>2
  <2>6. Len(p) + 1 \in 1 .. Len(p \o <<b>>)
    BY <2>5
  <2> QED
    BY <2>1, <2>4, <2>5, <2>6
<1>7. seqs \in Seq(Seq(T)) /\ Len(seqs) = n /\ seqs # <<>>
  <2>1. seqs = [i \in 1 .. n |-> seqs[i]]
    BY <1>4
  <2>2. seqs \in [1 .. n -> Seq(T)]
    BY <1>6, <2>1
  <2> QED
    BY <2>2
<1>8. PICK flat : flat = FlattenSeq(seqs) /\ flat \in Seq(T)
  BY <1>7, FlattenEnds
<1>9. \E j \in 1 .. Len(flat) : flat[j] = [cell |-> new, val |-> mem[hits[n]]]
  <2>1. PICK i \in 1 .. Len(seqs[n]) : seqs[n][i] = [cell |-> new, val |-> mem[hits[n]]]
    BY <1>6
  <2> QED
    BY <1>7, <1>8, <2>1, FlattenEnds
<1>10. Last(hits) = hits[n]
  BY <1>2 DEF Last
<1>11. PICK j \in 1 .. Len(flat) : flat[j].cell = new /\ flat[j].val = mem[hits[n]]
  BY <1>9
<1> QED
  BY <1>5, <1>8, <1>10, <1>11 DEF IsSeq, Marks

\* Which effect a statement can have.
EffectFor(st, e, t, hits) ==
    \/ e = Unchanged \/ e = Failed
    \/ /\ st.do = "create"
       /\ e = [ok |-> TRUE, mem |-> Changed(mem, t, 1), ops |-> <<[cell |-> t, val |-> 1]>>]
    \/ /\ st.do = "drop" /\ mem[t] # 0
       /\ e = [ok |-> TRUE, mem |-> ChangedAll(mem, {t} \cup KeysOf(t), 0), ops |-> <<[cell |-> t, val |-> 0]>>]
    \/ /\ st.do = "upsert_nothing" /\ mem[st.cell] # 0
       /\ e = [ok |-> TRUE, mem |-> mem, ops |-> <<[cell |-> st.cell, val |-> mem[st.cell]]>>]
    \/ /\ st.do \in {"insert", "upsert", "upsert_nothing"}
       /\ e = [ok |-> TRUE, mem |-> Changed(mem, st.cell, st.val), ops |-> <<[cell |-> st.cell, val |-> st.val]>>]
    \/ /\ st.do = "delete"
       /\ e = [ok |-> TRUE, mem |-> ChangedAll(mem, ToSet(hits), 0), ops |-> Ops(hits, 0)]
    \/ /\ st.do = "update"
       /\ e = [ok |-> TRUE, mem |-> ChangedAll(mem, ToSet(hits), st.new), ops |-> Ops(hits, st.new)]
    \/ /\ st.do = "move" /\ hits # <<>>
       /\ e = [ok |-> TRUE,
               mem |-> Changed(ChangedAll(mem, ToSet(hits), 0), st.new, mem[Last(hits)]),
               ops |-> Moved(hits, st.new)]

LEMMA EffectKinds ==
    ASSUME NEW st PROVE EffectFor(st, Effect(st), TableFor(st), Hits(TableFor(st), st.val))
<1> DEFINE e == Effect(st)
           u == TableFor(st)
           rows == Hits(u, st.val)
           created == [ok |-> TRUE, mem |-> Changed(mem, u, 1), ops |-> <<[cell |-> u, val |-> 1]>>]
           dropped == [ok |-> TRUE, mem |-> ChangedAll(mem, {u} \cup KeysOf(u), 0),
                       ops |-> <<[cell |-> u, val |-> 0]>>]
           kept == [ok |-> TRUE, mem |-> mem, ops |-> <<[cell |-> st.cell, val |-> mem[st.cell]]>>]
           inserted == [ok |-> TRUE, mem |-> Changed(mem, st.cell, st.val),
                        ops |-> <<[cell |-> st.cell, val |-> st.val]>>]
           deleted == [ok |-> TRUE, mem |-> ChangedAll(mem, ToSet(rows), 0), ops |-> Ops(rows, 0)]
           updated == [ok |-> TRUE, mem |-> ChangedAll(mem, ToSet(rows), st.new), ops |-> Ops(rows, st.new)]
           moved == [ok |-> TRUE, mem |-> Changed(ChangedAll(mem, ToSet(rows), 0), st.new, mem[Last(rows)]),
                     ops |-> Moved(rows, st.new)]
<1>1. \/ e = Unchanged \/ e = Failed
      \/ st.do = "create" /\ e = created
      \/ st.do = "drop" /\ mem[u] # 0 /\ e = dropped
      \/ st.do = "upsert_nothing" /\ mem[st.cell] # 0 /\ e = kept
      \/ st.do \in {"insert", "upsert", "upsert_nothing"} /\ e = inserted
      \/ st.do = "delete" /\ e = deleted
      \/ st.do = "update" /\ e = updated
      \/ st.do = "move" /\ rows # <<>> /\ e = moved
  <2>1. e = IF st.do = "create" THEN created
            ELSE IF mem[u] = 0 THEN (IF st.do = "drop" THEN Unchanged ELSE Failed)
            ELSE
            CASE st.do = "drop" -> dropped
              [] st.do = "upsert_nothing" /\ mem[st.cell] # 0 -> kept
              [] st.do \in {"insert", "upsert"} \/ (st.do = "upsert_nothing" /\ mem[st.cell] = 0) -> inserted
              [] st.do = "delete" -> deleted
              [] st.do = "update" -> updated
              [] st.do = "move" /\ rows = <<>> -> Unchanged
              [] st.do = "move" /\ rows # <<>> -> moved
              [] OTHER -> Failed
    BY Zenon DEF Effect, TableFor
  <2> HIDE DEF e, u, rows, created, dropped, kept, inserted, deleted, updated, moved
  <2> QED
    BY <2>1, ZenonT(60)
<1>2. EffectFor(st, e, u, rows)
  <2> HIDE DEF e, u, rows
  <2> QED
    BY <1>1 DEF EffectFor
<1> QED
  BY <1>2 DEF e, u, rows

\* Marks cannot be missing where a row has changed.
LEMMA EffectMarks ==
    ASSUME Image(mem), NEW st, NEW e, e = Effect(st)
    PROVE  /\ Image(e.mem) /\ IsSeq(e.ops)
           /\ \A k \in Key : e.mem[k] = mem[k] \/ e.mem[k] = 0 \/ k \in Marks(e.ops)
<1> DEFINE Fine == /\ Image(e.mem) /\ IsSeq(e.ops)
                   /\ \A k \in Key : e.mem[k] = mem[k] \/ e.mem[k] = 0 \/ k \in Marks(e.ops)
<1>1. PICK t : t = IF st.cell \in Table THEN st.cell ELSE TableOf(st.cell)
  OBVIOUS
<1>2. PICK V : mem \in [Cell -> V]
  BY DEF Image
<1>3. \A c, v : Image(Changed(mem, c, v)) /\ \A k \in Key : Changed(mem, c, v)[k] = IF k = c THEN v ELSE mem[k]
  <2> SUFFICES ASSUME NEW c, NEW v
               PROVE  Image(Changed(mem, c, v)) /\ \A k \in Key : Changed(mem, c, v)[k] = IF k = c THEN v ELSE mem[k]
    OBVIOUS
  <2>1. Changed(mem, c, v) \in [Cell -> V \cup {v}]
    BY <1>2 DEF Changed
  <2> QED
    BY <1>2, <2>1 DEF Image, Changed, Cell
<1>4. \A S, v : Image(ChangedAll(mem, S, v)) /\ \A k \in Key : ChangedAll(mem, S, v)[k] = IF k \in S THEN v ELSE mem[k]
  <2> SUFFICES ASSUME NEW S, NEW v
               PROVE  Image(ChangedAll(mem, S, v))
                      /\ \A k \in Key : ChangedAll(mem, S, v)[k] = IF k \in S THEN v ELSE mem[k]
    OBVIOUS
  <2>1. ChangedAll(mem, S, v) \in [Cell -> V \cup {v}]
    BY <1>2 DEF ChangedAll
  <2> QED
    BY <1>2, <2>1 DEF Image, ChangedAll, Cell
<1>5. \A op : IsSeq(<<op>>) /\ (op.val # 0 => op.cell \in Marks(<<op>>))
  <2> SUFFICES ASSUME NEW op PROVE IsSeq(<<op>>) /\ (op.val # 0 => op.cell \in Marks(<<op>>))
    OBVIOUS
  <2>1. PICK q : q = <<op>>
    OBVIOUS
  <2>2. q \in Seq({op})
    BY <2>1
  <2>3. Len(q) = 1 /\ q[1] = op
    BY <2>1
  <2>4. op.val # 0 => op.cell \in Marks(q)
    BY <2>3 DEF Marks
  <2> QED
    BY <2>1, <2>2, <2>4 DEF IsSeq
<1>6. IsSeq(<<>>)
  BY DEF IsSeq
<1>7. CASE e = Unchanged \/ e = Failed
  BY <1>2, <1>6, <1>7 DEF Unchanged, Failed, Image
<1>8. CASE e = [ok |-> TRUE, mem |-> Changed(mem, t, 1), ops |-> <<[cell |-> t, val |-> 1]>>]
  <2>1. PICK op : op = [cell |-> t, val |-> 1]
    OBVIOUS
  <2>2. e.mem = Changed(mem, t, 1) /\ e.ops = <<op>> /\ op.cell = t /\ op.val = 1
    BY <1>8, <2>1
  <2> QED
    BY <1>3, <1>5, <2>2
<1>9. CASE e = [ok |-> TRUE, mem |-> ChangedAll(mem, {t} \cup KeysOf(t), 0), ops |-> <<[cell |-> t, val |-> 0]>>]
  <2>1. PICK op : op = [cell |-> t, val |-> 0]
    OBVIOUS
  <2>2. e.mem = ChangedAll(mem, {t} \cup KeysOf(t), 0) /\ e.ops = <<op>>
    BY <1>9, <2>1
  <2> QED
    BY <1>4, <1>5, <2>2
<1>10. CASE e = [ok |-> TRUE, mem |-> mem, ops |-> <<[cell |-> st.cell, val |-> mem[st.cell]]>>]
  <2>1. PICK op : op = [cell |-> st.cell, val |-> mem[st.cell]]
    OBVIOUS
  <2>2. e.mem = mem /\ e.ops = <<op>>
    BY <1>10, <2>1
  <2> QED
    BY <1>5, <2>2
<1>11. CASE e = [ok |-> TRUE, mem |-> Changed(mem, st.cell, st.val), ops |-> <<[cell |-> st.cell, val |-> st.val]>>]
  <2>1. PICK op : op = [cell |-> st.cell, val |-> st.val]
    OBVIOUS
  <2>2. e.mem = Changed(mem, st.cell, st.val) /\ e.ops = <<op>> /\ op.cell = st.cell /\ op.val = st.val
    BY <1>11, <2>1
  <2> QED
    BY <1>3, <1>5, <2>2
<1>12. PICK hits : hits = Hits(t, st.val) /\ IsSeq(hits)
  <2>1. {k \in Key : TableOf(k) = t /\ mem[k] # 0 /\ (st.val = 0 \/ mem[k] = st.val)} \in SUBSET Key
    OBVIOUS
  <2>2. IsSeq(Hits(t, st.val))
    BY <2>1, OrderedIsSeq DEF Hits
  <2> QED
    BY <2>2
<1>13. \A v : /\ IsSeq(Ops(hits, v))
              /\ v # 0 => ToSet(hits) \subseteq Marks(Ops(hits, v))
  <2> SUFFICES ASSUME NEW v PROVE IsSeq(Ops(hits, v)) /\ (v # 0 => ToSet(hits) \subseteq Marks(Ops(hits, v)))
    OBVIOUS
  <2>1. PICK S : hits \in Seq(S)
    BY <1>12 DEF IsSeq
  <2>2. PICK n \in Nat : n = Len(hits) /\ DOMAIN hits = 1 .. n
    BY <2>1
  <2>3. Ops(hits, v) \in Seq([cell : S, val : {v}])
    BY <2>1, <2>2 DEF Ops
  <2>4. Len(Ops(hits, v)) = n
    BY <2>2 DEF Ops
  <2>5. \A i \in 1 .. n : Ops(hits, v)[i].cell = hits[i] /\ Ops(hits, v)[i].val = v
    BY <2>2 DEF Ops
  <2> QED
    BY <2>2, <2>3, <2>4, <2>5 DEF IsSeq, Marks, ToSet
<1>14. CASE e = [ok |-> TRUE, mem |-> ChangedAll(mem, ToSet(hits), 0), ops |-> Ops(hits, 0)]
  <2>1. e.mem = ChangedAll(mem, ToSet(hits), 0) /\ e.ops = Ops(hits, 0)
    BY <1>14
  <2> QED
    BY <1>4, <1>13, <2>1
<1>15. CASE e = [ok |-> TRUE, mem |-> ChangedAll(mem, ToSet(hits), st.new), ops |-> Ops(hits, st.new)]
  <2>1. e.mem = ChangedAll(mem, ToSet(hits), st.new) /\ e.ops = Ops(hits, st.new)
    BY <1>15
  <2>2. \A k \in Key : e.mem[k] = mem[k] \/ e.mem[k] = 0 \/ k \in Marks(e.ops)
    <3>1. CASE st.new = 0
      BY <1>4, <2>1, <3>1
    <3>2. CASE st.new # 0
      BY <1>4, <1>13, <2>1, <3>2
    <3> QED
      BY <3>1, <3>2
  <2> QED
    BY <1>4, <1>13, <2>1, <2>2
<1>16. CASE /\ hits # <<>>
            /\ e = [ok |-> TRUE,
                    mem |-> Changed(ChangedAll(mem, ToSet(hits), 0), st.new, mem[Last(hits)]),
                    ops |-> Moved(hits, st.new)]
  <2>1. PICK m : m = ChangedAll(mem, ToSet(hits), 0)
    OBVIOUS
  <2>2. e.mem = Changed(m, st.new, mem[Last(hits)]) /\ e.ops = Moved(hits, st.new)
    BY <1>16, <2>1
  <2>3. PICK U : m \in [Cell -> U]
    BY <1>4, <2>1 DEF Image
  <2>4. e.mem \in [Cell -> U \cup {mem[Last(hits)]}]
    BY <2>2, <2>3 DEF Changed
  <2>5. \A k \in Key : e.mem[k] = IF k = st.new THEN mem[Last(hits)] ELSE m[k]
    BY <2>2, <2>3 DEF Changed, Cell
  <2>6. \A k \in Key : m[k] = mem[k] \/ m[k] = 0
    BY <1>4, <2>1
  <2>7. IsSeq(e.ops) /\ (mem[Last(hits)] # 0 => st.new \in Marks(e.ops))
    BY <1>12, <1>16, <2>2, MovedMarks
  <2> QED
    BY <2>4, <2>5, <2>6, <2>7 DEF Image
<1>17. \/ e = Unchanged \/ e = Failed
       \/ e = [ok |-> TRUE, mem |-> Changed(mem, t, 1), ops |-> <<[cell |-> t, val |-> 1]>>]
       \/ e = [ok |-> TRUE, mem |-> ChangedAll(mem, {t} \cup KeysOf(t), 0), ops |-> <<[cell |-> t, val |-> 0]>>]
       \/ e = [ok |-> TRUE, mem |-> mem, ops |-> <<[cell |-> st.cell, val |-> mem[st.cell]]>>]
       \/ e = [ok |-> TRUE, mem |-> Changed(mem, st.cell, st.val), ops |-> <<[cell |-> st.cell, val |-> st.val]>>]
       \/ e = [ok |-> TRUE, mem |-> ChangedAll(mem, ToSet(hits), 0), ops |-> Ops(hits, 0)]
       \/ e = [ok |-> TRUE, mem |-> ChangedAll(mem, ToSet(hits), st.new), ops |-> Ops(hits, st.new)]
       \/ /\ hits # <<>>
          /\ e = [ok |-> TRUE,
                  mem |-> Changed(ChangedAll(mem, ToSet(hits), 0), st.new, mem[Last(hits)]),
                  ops |-> Moved(hits, st.new)]
  <2>1. t = TableFor(st) /\ hits = Hits(TableFor(st), st.val)
    BY <1>1, <1>12 DEF TableFor
  <2>2. EffectFor(st, e, t, hits)
    BY <2>1, EffectKinds
  <2> QED
    BY <2>2, Zenon DEF EffectFor
<1> QED
  BY <1>7, <1>8, <1>9, <1>10, <1>11, <1>14, <1>15, <1>16, <1>17
-----------------------------------------------------------------------------
LEMMA PromisedEmpty == Marks(<<>>) = {}
<1>1. 1 .. Len(<<>>) = {}
  OBVIOUS
<1> QED
  BY <1>1 DEF Marks

\* The session goes on with operations that mark all that it still has to.
LEMMA PersistSync ==
    ASSUME SyncInv, NEW s \in Session, NEW ops, IsSeq(ops), job' = [job EXCEPT ![s] = Persisting(s, ops)],
           UNCHANGED <<mem, mirror, dirty, task>>,
           \E V : txn' \in [snapshot : V, log : V, open : V], txn'.open => Image(txn'.snapshot),
           task[s].at = "idle", unmarked \subseteq unmarked',
           Promised(s) \cap Key \subseteq dirty \cup Marks(ops) \cup unmarked'
    PROVE  SyncInv'
<1>1. Jobs(job)
  BY DEF SyncInv, JobShape
<1>2. PICK r : r = Persisting(s, ops)
  OBVIOUS
<1>3. /\ IsJob(r) /\ r.at \in {"mark", "install", "rest"}
      /\ r.at = "mark" <=> ops # <<>>
      /\ r.at = "mark" => r.ops = ops
  BY <1>1, <1>2, PersistingIs
<1>4. JobNow(s, r.at, r.ops, r.snapshot, r.keys)
  BY <1>1, <1>2, <1>3, JobPut
<1>5. Marks(ops) \subseteq PromisedBy(r.at, r.ops, r.keys)
  BY <1>3, PromisedEmpty DEF PromisedBy
<1>6. r.at \in {"mark", "record", "write"} => IsSeq(r.ops) /\ r.ops # <<>>
  BY <1>3
<1>7. r.at \notin {"apply", "apply_write", "restore"}
  BY <1>3
<1> QED
  BY <1>4, <1>5, <1>6, <1>7, QuietSync

LEMMA SyncStays == SyncInv /\ UNCHANGED <<mem, txn, dirty, job, mirror, unmarked, task>> => SyncInv'
BY DEF SyncInv, JobShape, OwedAreComing, Owed, Promised

LEMMA SyncFacts ==
    ASSUME SyncInv, NEW s \in Session
    PROVE  /\ Jobs(job) /\ Image(mem) /\ (\E V : txn \in [snapshot : V, log : V, open : V])
           /\ txn.open => Image(txn.snapshot)
           /\ job[s].at \in {"mark", "record", "write"} => IsSeq(job[s].ops) /\ job[s].ops # <<>>
           /\ job[s].at \in {"apply", "apply_write", "restore"} => Image(job[s].snapshot)
           /\ job[s].at \notin VersionCalls => task[s].at = "idle"
BY DEF SyncInv, JobShape

LEMMA ExecuteKeeps == ASSUME SyncInv, NEW s \in Session, Execute(s) PROVE SyncInv'
<1>1. PICK e : e = Effect(Head(script[s]))
  OBVIOUS
<1>2. /\ mem' = e.mem /\ job' = [job EXCEPT ![s] = Persisting(s, e.ops)] /\ job[s].at = "rest"
      /\ UNCHANGED <<txn, dirty, mirror, unmarked, task>>
  BY <1>1 DEF Execute, Is, versionVars
<1>3. /\ Image(e.mem) /\ IsSeq(e.ops)
      /\ \A k \in Key : e.mem[k] = mem[k] \/ e.mem[k] = 0 \/ k \in Marks(e.ops)
  BY <1>1, SyncFacts, EffectMarks
<1>4. PICK r : r = Persisting(s, e.ops)
  OBVIOUS
<1>5. /\ IsJob(r) /\ r.at \in {"mark", "install", "rest"}
      /\ r.at = "mark" <=> e.ops # <<>>
      /\ r.at = "mark" => r.ops = e.ops
  BY <1>4, SyncFacts, PersistingIs
<1>6. JobNow(s, r.at, r.ops, r.snapshot, r.keys)
  BY <1>2, <1>4, <1>5, SyncFacts, JobPut
<1>7. Marks(e.ops) \subseteq PromisedBy(r.at, r.ops, r.keys)
  BY <1>5, PromisedEmpty DEF PromisedBy
<1>8. Promised(s) = {}
  BY <1>2 DEF Promised, PromisedBy
<1>9. ASSUME NEW k \in Key, Owed(k)'
      PROVE  k \in dirty' \cup PromisedBy(r.at, r.ops, r.keys) \/ (Owed(k) /\ k \notin dirty \cup Promised(s))
  BY <1>2, <1>3, <1>7, <1>8, <1>9 DEF Owed
<1>10. r.at \in {"mark", "record", "write"} => IsSeq(r.ops) /\ r.ops # <<>>
  BY <1>3, <1>5
<1>11. r.at \notin {"apply", "apply_write", "restore"} /\ task[s].at = "idle"
  BY <1>2, <1>5, SyncFacts DEF VersionCalls
<1> QED
  BY <1>2, <1>3, <1>6, <1>9, <1>10, <1>11, SyncFacts, SyncMoves

LEMMA MarkKeeps == ASSUME SyncInv, NEW s \in Session, Mark(s) PROVE SyncInv'
<1>1. /\ job[s].at = "mark" /\ job' = [job EXCEPT ![s].at = "record"]
      /\ UNCHANGED <<mem, txn, mirror, unmarked, task>>
      /\ dirty' = IF Head(job[s].ops).cell \in Key /\ Head(job[s].ops).val # 0
                  THEN dirty \cup {Head(job[s].ops).cell} ELSE dirty
  BY DEF Mark, Is, versionVars, engineHistory
<1>2. IsSeq(job[s].ops) /\ job[s].ops # <<>> /\ task[s].at = "idle"
  BY <1>1, SyncFacts DEF VersionCalls
<1>3. JobNow(s, "record", job[s].ops, job[s].snapshot, job[s].keys)
  BY <1>1, SyncFacts, JobAt
<1>4. Promised(s) \cap Key \subseteq dirty' \cup PromisedBy("record", job[s].ops, job[s].keys)
  BY <1>1, <1>2, MarksTail DEF Promised, PromisedBy
<1> QED
  BY <1>1, <1>2, <1>3, <1>4, SyncFacts, QuietSync

LEMMA RecordKeeps == ASSUME SyncInv, NEW s \in Session, RecordOrApply(s) PROVE SyncInv'
<1>1. job[s].at = "record" /\ UNCHANGED <<mem, dirty, mirror, unmarked, task>>
  BY DEF RecordOrApply, Is, versionVars, engineHistory
<1>2. IsSeq(job[s].ops) /\ job[s].ops # <<>> /\ task[s].at = "idle" /\ Promised(s) = Marks(Tail(job[s].ops))
  BY <1>1, SyncFacts DEF VersionCalls, Promised, PromisedBy
<1>3. CASE txn.open
  <2>1. /\ job' = [job EXCEPT ![s] = Persisting(s, Tail(job[s].ops))]
        /\ txn' = [txn EXCEPT !.log = Append(@, Head(job[s].ops))]
    BY <1>3 DEF RecordOrApply
  <2>2. PICK V : txn \in [snapshot : V, log : V, open : V]
    BY SyncFacts
  <2>3. txn' \in [snapshot : V \cup {txn'.log}, log : V \cup {txn'.log}, open : V \cup {txn'.log}]
    BY <2>1, <2>2
  <2>4. txn'.open => Image(txn'.snapshot)
    BY <2>1, <2>2, SyncFacts
  <2>5. /\ \E U : txn' \in [snapshot : U, log : U, open : U]
        /\ IsSeq(Tail(job[s].ops))
        /\ Promised(s) \cap Key \subseteq dirty \cup Marks(Tail(job[s].ops)) \cup unmarked'
    <3>1. \E U : txn' \in [snapshot : U, log : U, open : U]
      <4>1. PICK U : U = V \cup {txn'.log}
        OBVIOUS
      <4>2. txn' \in [snapshot : U, log : U, open : U]
        BY <2>3, <4>1
      <4> QED
        BY <4>2
    <3> QED
      BY <1>2, <3>1, MarksTail
  <2> QED
    BY <1>1, <1>2, <2>1, <2>4, <2>5, PersistSync
<1>4. CASE ~txn.open /\ ~attached
  <2>1. job' = [job EXCEPT ![s] = Persisting(s, Tail(job[s].ops))] /\ UNCHANGED txn
    BY <1>4 DEF RecordOrApply
  <2> QED
    BY <1>1, <1>2, <2>1, SyncFacts, MarksTail, PersistSync
<1>5. CASE ~txn.open /\ attached
  <2>1. PICK r : r = [job[s] EXCEPT !.writes = Writes(Head(job[s].ops)), !.at = "write"]
    OBVIOUS
  <2>2. job' = [job EXCEPT ![s] = r] /\ UNCHANGED txn
    BY <1>5, <2>1 DEF RecordOrApply
  <2>3. PICK V : job[s] \in JobRecord(V)
    BY SyncFacts, JobIs DEF IsJob
  <2>4. r.at = "write" /\ r.ops = job[s].ops
    BY <2>1, <2>3 DEF JobRecord
  <2>5. r \in JobRecord(V \cup {"write", Writes(Head(job[s].ops))})
    BY <2>1, <2>3 DEF JobRecord
  <2>6. JobNow(s, "write", job[s].ops, r.snapshot, r.keys)
    BY <2>2, <2>4, <2>5, SyncFacts, JobPut DEF IsJob
  <2>7. Promised(s) = PromisedBy("write", job[s].ops, r.keys)
    BY <1>2 DEF PromisedBy
  <2> QED
    BY <1>1, <1>2, <2>2, <2>6, <2>7, SyncFacts, QuietSync
<1> QED
  BY <1>3, <1>4, <1>5

LEMMA RestNow ==
    ASSUME Jobs(job), NEW s \in Session, job' = [job EXCEPT ![s] = Resting]
    PROVE  JobNow(s, "rest", <<>>, <<>>, {})
<1>1. PICK r : r = [at |-> "rest", ops |-> <<>>, writes |-> <<>>, snapshot |-> <<>>, keys |-> {}]
  OBVIOUS
<1>2. IsJob(r) /\ r.at = "rest" /\ r.ops = <<>> /\ r.snapshot = <<>> /\ r.keys = {}
  BY <1>1, JobMade
<1>3. job' = [job EXCEPT ![s] = r]
  BY <1>1 DEF Resting
<1> QED
  BY <1>2, <1>3, JobPut

\* A session that comes to rest has nothing left to mark.
LEMMA RestSync ==
    ASSUME SyncInv, NEW s \in Session, job' = [job EXCEPT ![s] = Resting], UNCHANGED txn, Image(mem'),
           \A u \in Session \ {s} : task'[u] = task[u], task'[s].at = "idle",
           \A k \in Key : Owed(k)' => k \in dirty' \/ (Owed(k) /\ k \notin dirty \cup Promised(s))
    PROVE  SyncInv'
<1>1. JobNow(s, "rest", <<>>, <<>>, {})
  BY SyncFacts, RestNow
<1>2. PromisedBy("rest", <<>>, {}) = {}
  BY DEF PromisedBy
<1> QED
  BY <1>1, <1>2, SyncFacts, SyncMoves

LEMMA StoreWriteKeeps == ASSUME SyncInv, NEW s \in Session, StoreWrite(s) PROVE SyncInv'
<1> DEFINE w == Head(job[s].writes)
           rest == (IF w.part = "rows" THEN Removals(w.cell) ELSE <<>>) \o Tail(job[s].writes)
<1>1. job[s].at \in {"write", "apply_write"} /\ UNCHANGED <<mem, txn, dirty, mirror, unmarked, task>>
  BY DEF StoreWrite, versionVars, engineHistory
<1>9. job' = [job EXCEPT ![s] =
            IF rest # <<>> THEN [@ EXCEPT !.writes = rest]
            ELSE IF Is(s, "write") THEN Persisting(s, Tail(@.ops))
            ELSE [@ EXCEPT !.at = "apply", !.ops = Tail(job[s].ops), !.writes = <<>>]]
  BY Zenon DEF StoreWrite
<1>2. PICK left : left = rest
  OBVIOUS
<1> HIDE DEF w, rest
<1> DEFINE more == [job[s] EXCEPT !.writes = left]
           next == Persisting(s, Tail(job[s].ops))
           last == [job[s] EXCEPT !.at = "apply", !.ops = Tail(job[s].ops), !.writes = <<>>]
<1>8. /\ left # <<>> => job' = [job EXCEPT ![s] = more]
      /\ left = <<>> /\ job[s].at = "write" => job' = [job EXCEPT ![s] = next]
      /\ left = <<>> /\ job[s].at # "write" => job' = [job EXCEPT ![s] = last]
  <2>1. CASE left # <<>>
    BY <1>2, <1>9, <2>1, Zenon
  <2>2. CASE left = <<>> /\ job[s].at = "write"
    <3>1. ~(rest # <<>>) /\ Is(s, "write")
      BY <1>2, <2>2 DEF Is
    <3>2. job' = [job EXCEPT ![s] = next]
      BY <1>9, <3>1, Zenon
    <3> QED
      BY <2>2, <3>2, Zenon
  <2>3. CASE left = <<>> /\ job[s].at # "write"
    <3>1. ~(rest # <<>>) /\ ~Is(s, "write")
      BY <1>2, <2>3 DEF Is
    <3>2. job' = [job EXCEPT ![s] = last]
      BY <1>9, <3>1, Zenon
    <3> QED
      BY <2>3, <3>2, Zenon
  <2> QED
    BY <2>1, <2>2, <2>3
<1>3. PICK V : job[s] \in JobRecord(V)
  BY SyncFacts, JobIs DEF IsJob
<1>4. task[s].at = "idle"
  BY <1>1, SyncFacts DEF VersionCalls
<1>5. CASE left # <<>>
  <2>1. PICK r : r = [job[s] EXCEPT !.writes = left]
    OBVIOUS
  <2>2. job' = [job EXCEPT ![s] = r]
    BY <1>5, <1>8, <2>1
  <2>3. r.at = job[s].at /\ r.ops = job[s].ops /\ r.snapshot = job[s].snapshot /\ r.keys = job[s].keys
    BY <1>3, <2>1 DEF JobRecord
  <2>4. r \in JobRecord(V \cup {left})
    BY <1>3, <2>1 DEF JobRecord
  <2>5. JobNow(s, job[s].at, job[s].ops, job[s].snapshot, job[s].keys)
    BY <2>2, <2>3, <2>4, SyncFacts, JobPut DEF IsJob
  <2> QED
    BY <1>1, <1>4, <2>5, SyncFacts, QuietSync DEF Promised
<1>6. CASE left = <<>> /\ job[s].at = "write"
  <2>1. job' = [job EXCEPT ![s] = Persisting(s, Tail(job[s].ops))]
    BY <1>6, <1>8
  <2>2. IsSeq(Tail(job[s].ops)) /\ Promised(s) = Marks(Tail(job[s].ops))
    BY <1>6, SyncFacts, MarksTail DEF Promised, PromisedBy
  <2> QED
    BY <1>1, <1>4, <2>1, <2>2, SyncFacts, PersistSync
<1>7. CASE left = <<>> /\ job[s].at # "write"
  <2>1. PICK r : r = [job[s] EXCEPT !.at = "apply", !.ops = Tail(job[s].ops), !.writes = <<>>]
    OBVIOUS
  <2>2. job' = [job EXCEPT ![s] = r]
    BY <1>7, <1>8, <2>1
  <2>3. r.at = "apply" /\ r.snapshot = job[s].snapshot
    BY <1>3, <2>1 DEF JobRecord
  <2>4. r \in JobRecord(V \cup {"apply", Tail(job[s].ops), <<>>})
    BY <1>3, <2>1 DEF JobRecord
  <2>5. JobNow(s, "apply", r.ops, job[s].snapshot, r.keys)
    BY <2>2, <2>3, <2>4, SyncFacts, JobPut DEF IsJob
  <2>6. Promised(s) = {}
    BY <1>1, <1>7 DEF Promised, PromisedBy
  <2>7. Image(job[s].snapshot)
    BY <1>1, <1>7, SyncFacts
  <2> QED
    BY <1>1, <1>4, <2>5, <2>6, <2>7, SyncFacts, QuietSync
<1> QED
  BY <1>5, <1>6, <1>7

LEMMA StoreErrorKeeps == ASSUME SyncInv, NEW s \in Session, StoreError(s) PROVE SyncInv'
<1>1. /\ job[s].at = "write" /\ job' = [job EXCEPT ![s] = Resting]
      /\ UNCHANGED <<mem, txn, dirty, mirror, task>>
      /\ unmarked' = unmarked \cup (CellsOfAll(Tail(job[s].ops)) \cap Key)
  BY DEF StoreError, Is, versionVars
<1>2. task[s].at = "idle" /\ IsSeq(Tail(job[s].ops)) /\ Image(mem)
  BY <1>1, SyncFacts, MarksTail DEF VersionCalls
<1>3. Promised(s) = Marks(Tail(job[s].ops))
  BY <1>1 DEF Promised, PromisedBy
<1>4. Promised(s) \cap Key \subseteq unmarked'
  BY <1>1, <1>2, <1>3, MarksConcern
<1>5. ASSUME NEW k \in Key, Owed(k)' PROVE k \in dirty' \/ (Owed(k) /\ k \notin dirty \cup Promised(s))
  BY <1>1, <1>4, <1>5 DEF Owed
<1> QED
  BY <1>1, <1>2, <1>5, RestSync

LEMMA IngestErrorKeeps == ASSUME SyncInv, NEW s \in Session, IngestError(s) PROVE SyncInv'
<1>1. /\ job[s].at = "write" /\ job' = [job EXCEPT ![s] = Persisting(s, Tail(job[s].ops))]
      /\ UNCHANGED <<mem, txn, dirty, mirror, unmarked, task>>
  BY DEF IngestError, Is, versionVars
<1>2. task[s].at = "idle" /\ IsSeq(Tail(job[s].ops))
  BY <1>1, SyncFacts, MarksTail DEF VersionCalls
<1>3. Promised(s) = Marks(Tail(job[s].ops))
  BY <1>1 DEF Promised, PromisedBy
<1> QED
  BY <1>1, <1>2, <1>3, SyncFacts, PersistSync

\* Memory replaced behind the mirror's back.
LEMMA ReplacedSync ==
    ASSUME SyncInv, NEW s \in Session, job' = [job EXCEPT ![s] = Resting], UNCHANGED <<txn, dirty, mirror>>,
           Image(mem'), UNCHANGED task, task[s].at = "idle", Promised(s) = {},
           unmarked' = unmarked \cup {k \in Key : mem'[k] # mem[k]}
    PROVE  SyncInv'
<1>1. ASSUME NEW k \in Key, Owed(k)' PROVE k \in dirty' \/ (Owed(k) /\ k \notin dirty \cup Promised(s))
  BY <1>1 DEF Owed
<1> QED
  BY <1>1, RestSync

LEMMA InstallKeeps == ASSUME SyncInv, NEW s \in Session, Install(s) PROVE SyncInv'
<1>1. /\ job[s].at = "install" /\ job' = [job EXCEPT ![s] = Resting]
      /\ mem' = [c \in Cell |-> IF c \in DOMAIN job[s].snapshot THEN job[s].snapshot[c] ELSE mem[c]]
      /\ UNCHANGED <<txn, dirty, mirror, task>>
      /\ unmarked' = unmarked \cup {k \in Key : mem'[k] # mem[k]}
  BY DEF Install, Is, versionVars
<1>2. Image(mem')
  <2>1. mem' \in [Cell -> {mem'[c] : c \in Cell}]
    BY <1>1
  <2> QED
    BY <2>1 DEF Image
<1>3. task[s].at = "idle" /\ Promised(s) = {}
  BY <1>1, SyncFacts DEF VersionCalls, Promised, PromisedBy
<1> QED
  BY <1>1, <1>2, <1>3, ReplacedSync

LEMMA RestoreKeeps == ASSUME SyncInv, NEW s \in Session, Restore(s) PROVE SyncInv'
<1>1. /\ job[s].at = "restore" /\ job' = [job EXCEPT ![s] = Resting] /\ mem' = job[s].snapshot
      /\ UNCHANGED <<txn, dirty, mirror, task>>
      /\ unmarked' = unmarked \cup {k \in Key : mem'[k] # mem[k]}
  BY DEF Restore, Is, versionVars
<1>2. task[s].at = "idle" /\ Promised(s) = {} /\ Image(mem')
  BY <1>1, SyncFacts DEF VersionCalls, Promised, PromisedBy
<1> QED
  BY <1>1, <1>2, ReplacedSync

LEMMA LoadKeepsSync == ASSUME SyncInv, NEW s \in Session, LoadCommit(s) PROVE SyncInv'
<1>1. /\ job[s].at = "load" /\ job' = [job EXCEPT ![s] = Resting]
      /\ mem' = [c \in Cell |-> IF c \in Key /\ mem[TableOf(c)] # 0 THEN job[s].snapshot[c] ELSE mem[c]]
      /\ UNCHANGED <<txn, dirty, mirror, task>>
      /\ unmarked' = unmarked \cup {k \in Key : mem'[k] # mem[k]}
  BY DEF LoadCommit, Is, versionVars
<1>2. Image(mem')
  <2>1. mem' \in [Cell -> {mem'[c] : c \in Cell}]
    BY <1>1
  <2> QED
    BY <2>1 DEF Image
<1>3. task[s].at = "idle" /\ Promised(s) = {}
  BY <1>1, SyncFacts DEF VersionCalls, Promised, PromisedBy
<1> QED
  BY <1>1, <1>2, <1>3, ReplacedSync

\* A session that had nothing to mark goes on to something else, or the transaction changes.
LEMMA ElsewhereSync ==
    ASSUME SyncInv, NEW s \in Session, NEW r, IsJob(r), job' = [job EXCEPT ![s] = r],
           r.at \in {"apply", "restore"}, Image(r.snapshot), job[s].at = "rest",
           UNCHANGED <<mem, dirty, mirror, unmarked, task>>,
           \E V : txn' \in [snapshot : V, log : V, open : V], txn'.open => Image(txn'.snapshot)
    PROVE  SyncInv'
<1>1. JobNow(s, r.at, r.ops, r.snapshot, r.keys)
  BY SyncFacts, JobPut
<1>2. task[s].at = "idle" /\ Promised(s) = {}
  BY SyncFacts DEF VersionCalls, Promised, PromisedBy
<1> QED
  BY <1>1, <1>2, QuietSync

LEMMA RestingJob ==
    \E V : Resting \in JobRecord(V)
<1>1. Resting \in JobRecord({"rest", <<>>, {}})
  BY DEF Resting, JobRecord
<1> QED
  BY <1>1

LEMMA TxnSync ==
    ASSUME SyncInv, UNCHANGED <<mem, dirty, job, mirror, unmarked, task>>,
           \E V : txn' \in [snapshot : V, log : V, open : V], txn'.open => Image(txn'.snapshot)
    PROVE  SyncInv'
BY DEF SyncInv, JobShape, OwedAreComing, Owed, Promised

LEMMA NoTxnFits == (\E V : NoTxn \in [snapshot : V, log : V, open : V]) /\ ~NoTxn.open
<1>1. NoTxn \in [snapshot : {<<>>, FALSE}, log : {<<>>, FALSE}, open : {<<>>, FALSE}]
  BY DEF NoTxn
<1> QED
  BY <1>1 DEF NoTxn

LEMMA BeginKeeps == ASSUME SyncInv, NEW s \in Session, Begin(s) PROVE SyncInv'
<1>1. UNCHANGED <<mem, dirty, job, mirror, unmarked, task>>
  BY DEF Begin, versionVars
<1>2. CASE txn.open
  BY <1>1, <1>2, SyncStays DEF Begin
<1>3. CASE ~txn.open
  <2>1. txn' = [snapshot |-> mem, log |-> <<>>, open |-> TRUE]
    BY <1>3 DEF Begin
  <2>2. txn' \in [snapshot : {mem, <<>>, TRUE}, log : {mem, <<>>, TRUE}, open : {mem, <<>>, TRUE}]
    BY <2>1
  <2>3. \E V : txn' \in [snapshot : V, log : V, open : V]
    BY <2>2
  <2>4. Image(txn'.snapshot)
    BY <2>1, SyncFacts DEF SyncInv, JobShape
  <2> QED
    BY <1>1, <2>3, <2>4, TxnSync
<1> QED
  BY <1>2, <1>3

LEMMA CommitTxnKeeps == ASSUME SyncInv, NEW s \in Session, CommitTxn(s) PROVE SyncInv'
<1>1. /\ UNCHANGED <<mem, dirty, mirror, unmarked, task>> /\ txn' = NoTxn /\ job[s].at = "rest"
  BY DEF CommitTxn, versionVars, Heading, Is
<1>2. CASE ~txn.open \/ ~attached
  <2>1. UNCHANGED job
    BY <1>2 DEF CommitTxn
  <2> QED
    BY <1>1, <2>1, TxnSync, NoTxnFits
<1>3. CASE txn.open /\ attached
  <2>1. job' = [job EXCEPT ![s] = [Resting EXCEPT !.at = "apply", !.ops = txn.log, !.snapshot = txn.snapshot]]
    BY <1>3 DEF CommitTxn
  <2>2. Image(txn.snapshot)
    BY <1>3, SyncFacts
  <2>3. PICK V : Resting \in JobRecord(V)
    BY RestingJob
  <2>4. PICK r : r = [Resting EXCEPT !.at = "apply", !.ops = txn.log, !.snapshot = txn.snapshot]
    OBVIOUS
  <2>5. r.at = "apply" /\ r.snapshot = txn.snapshot
    BY <2>3, <2>4 DEF JobRecord
  <2>6. r \in JobRecord(V \cup {"apply", txn.log, txn.snapshot})
    BY <2>3, <2>4 DEF JobRecord
  <2>7. job' = [job EXCEPT ![s] = r]
    BY <2>1, <2>4, Zenon
  <2> QED
    BY <1>1, <2>2, <2>5, <2>6, <2>7, ElsewhereSync, NoTxnFits DEF IsJob
<1> QED
  BY <1>2, <1>3

LEMMA RollbackKeeps == ASSUME SyncInv, NEW s \in Session, Rollback(s) PROVE SyncInv'
<1>1. /\ UNCHANGED <<mem, dirty, mirror, unmarked, task>> /\ txn' = NoTxn /\ job[s].at = "rest"
  BY DEF Rollback, versionVars, Heading, Is
<1>2. CASE ~txn.open
  <2>1. UNCHANGED job
    BY <1>2 DEF Rollback
  <2> QED
    BY <1>1, <2>1, TxnSync, NoTxnFits
<1>3. CASE txn.open
  <2>1. job' = [job EXCEPT ![s] = [Resting EXCEPT !.at = "restore", !.snapshot = txn.snapshot]]
    BY <1>3 DEF Rollback
  <2>2. Image(txn.snapshot)
    BY <1>3, SyncFacts
  <2>3. PICK V : Resting \in JobRecord(V)
    BY RestingJob
  <2>4. PICK r : r = [Resting EXCEPT !.at = "restore", !.snapshot = txn.snapshot]
    OBVIOUS
  <2>5. r.at = "restore" /\ r.snapshot = txn.snapshot
    BY <2>3, <2>4 DEF JobRecord
  <2>6. r \in JobRecord(V \cup {"restore", txn.snapshot})
    BY <2>3, <2>4 DEF JobRecord
  <2>7. job' = [job EXCEPT ![s] = r]
    BY <2>1, <2>4, Zenon
  <2> QED
    BY <1>1, <2>2, <2>5, <2>6, <2>7, ElsewhereSync, NoTxnFits DEF IsJob
<1> QED
  BY <1>2, <1>3

LEMMA ApplyLogKeeps == ASSUME SyncInv, NEW s \in Session, ApplyLog(s) PROVE SyncInv'
<1>1. job[s].at = "apply" /\ UNCHANGED <<mem, txn, dirty, mirror, unmarked, task>>
  BY DEF ApplyLog, Is, versionVars, engineHistory
<1>2. task[s].at = "idle" /\ Promised(s) = {} /\ Image(mem) /\ Image(job[s].snapshot)
  BY <1>1, SyncFacts DEF VersionCalls, Promised, PromisedBy
<1>3. CASE job[s].ops = <<>>
  <2>1. job' = [job EXCEPT ![s] = Resting]
    BY <1>3 DEF ApplyLog
  <2>2. ASSUME NEW k \in Key, Owed(k)' PROVE k \in dirty' \/ (Owed(k) /\ k \notin dirty \cup Promised(s))
    BY <1>1, <1>2, <2>2 DEF Owed
  <2> QED
    BY <1>1, <1>2, <2>1, <2>2, RestSync
<1>4. CASE job[s].ops # <<>>
  <2>1. PICK r : r = [job[s] EXCEPT !.writes = Writes(Head(job[s].ops)), !.at = "apply_write"]
    OBVIOUS
  <2>2. job' = [job EXCEPT ![s] = r]
    BY <1>4, <2>1 DEF ApplyLog
  <2>3. PICK V : job[s] \in JobRecord(V)
    BY SyncFacts, JobIs DEF IsJob
  <2>4. r.at = "apply_write" /\ r.snapshot = job[s].snapshot
    BY <2>1, <2>3 DEF JobRecord
  <2>5. r \in JobRecord(V \cup {"apply_write", Writes(Head(job[s].ops))})
    BY <2>1, <2>3 DEF JobRecord
  <2>6. JobNow(s, "apply_write", r.ops, job[s].snapshot, r.keys)
    BY <2>2, <2>4, <2>5, SyncFacts, JobPut DEF IsJob
  <2> QED
    BY <1>1, <1>2, <2>6, SyncFacts, QuietSync
<1> QED
  BY <1>3, <1>4

LEMMA CommitErrorKeeps == ASSUME SyncInv, NEW s \in Session, CommitError(s) PROVE SyncInv'
<1>1. /\ job[s].at \in {"apply", "apply_write"} /\ UNCHANGED <<mem, txn, dirty, mirror, unmarked, task>>
      /\ job' = [job EXCEPT ![s].at = "restore", ![s].ops = <<>>, ![s].writes = <<>>]
  BY DEF CommitError, versionVars
<1>2. task[s].at = "idle" /\ Promised(s) = {} /\ Image(job[s].snapshot)
  BY <1>1, SyncFacts DEF VersionCalls, Promised, PromisedBy
<1>3. PICK V : job \in [Session -> JobRecord(V)]
  BY SyncFacts DEF Jobs, JobRecord
<1>4. PICK W : W = V \cup {"restore", <<>>}
  OBVIOUS
<1>5. job' \in [Session -> JobRecord(W)]
  <2>1. PICK first : first = [job EXCEPT ![s].at = "restore"]
    OBVIOUS
  <2>2. PICK second : second = [first EXCEPT ![s].ops = <<>>]
    OBVIOUS
  <2>3. job' = [second EXCEPT ![s].writes = <<>>]
    BY <1>1, <2>1, <2>2, Zenon
  <2>4. first \in [Session -> JobRecord(W)]
    BY <1>3, <1>4, <2>1 DEF JobRecord
  <2>5. second \in [Session -> JobRecord(W)]
    BY <1>4, <2>2, <2>4 DEF JobRecord
  <2> QED
    BY <1>4, <2>3, <2>5 DEF JobRecord
<1>6. JobNow(s, "restore", <<>>, job[s].snapshot, job[s].keys)
  BY <1>1, <1>3, <1>5 DEF Jobs, JobNow, JobRecord
<1> QED
  BY <1>1, <1>2, <1>6, SyncFacts, QuietSync

LEMMA EnsureKeeps == ASSUME SyncInv, NEW s \in Session, EnsureLog(s) \/ LookUp(s) PROVE SyncInv'
BY SyncStays DEF EnsureLog, LookUp, versionVars, engineHistory

LEMMA TakeKeeps == ASSUME SyncInv, NEW s \in Session, TakeDirty(s) PROVE SyncInv'
<1>1. /\ job[s].at = "take" /\ UNCHANGED <<mem, txn, mirror, unmarked, task>>
      /\ job' = [job EXCEPT ![s].keys = dirty, ![s].at = "export"] /\ dirty' = {}
  BY DEF TakeDirty, Is, versionVars, engineHistory
<1>2. task[s].at = "idle" /\ Promised(s) = {}
  BY <1>1, SyncFacts DEF VersionCalls, Promised, PromisedBy
<1>3. PICK V : job \in [Session -> JobRecord(V)]
  BY SyncFacts DEF Jobs, JobRecord
<1>4. PICK W : W = V \cup {"export", dirty}
  OBVIOUS
<1>5. job' \in [Session -> JobRecord(W)]
  BY <1>1, <1>3, <1>4 DEF JobRecord
<1>6. JobNow(s, "export", job[s].ops, job[s].snapshot, dirty)
  BY <1>1, <1>3, <1>5 DEF Jobs, JobNow, JobRecord
<1>7. PromisedBy("export", job[s].ops, dirty) = dirty
  BY DEF PromisedBy
<1> QED
  BY <1>1, <1>2, <1>6, <1>7, SyncFacts, QuietSync

LEMMA ExportKeeps == ASSUME SyncInv, NEW s \in Session, ExportDirty(s) PROVE SyncInv'
<1>1. /\ job[s].at = "export" /\ UNCHANGED <<mem, txn, dirty, unmarked, task>>
      /\ job' = [job EXCEPT ![s] = Resting]
      /\ mirror' = [k \in Key |-> IF k \in job[s].keys /\ mem[k] # 0 THEN mem[k] ELSE mirror[k]]
  BY DEF ExportDirty, Is, versionVars, engineHistory
<1>2. task[s].at = "idle" /\ Promised(s) = job[s].keys /\ Image(mem)
  BY <1>1, SyncFacts DEF VersionCalls, Promised, PromisedBy
<1>3. ASSUME NEW k \in Key, Owed(k)' PROVE k \in dirty' \/ (Owed(k) /\ k \notin dirty \cup Promised(s))
  <2>1. mirror'[k] = IF k \in job[s].keys /\ mem[k] # 0 THEN mem[k] ELSE mirror[k]
    BY <1>1
  <2> QED
    BY <1>1, <1>2, <1>3, <2>1 DEF Owed
<1> QED
  BY <1>1, <1>2, <1>3, RestSync

LEMMA VersionMoves ==
    ASSUME GraphInv, NEW s \in Session, VersionStep(s)
    PROVE  task[s].at # "idle" /\ \A u \in Session \ {s} : task'[u] = task[u]
<1>1. PICK these : TasksAre(these)
  BY DEF GraphInv, GraphTypes
<1>2. DOMAIN task = Session
  BY <1>1 DEF TasksAre
<1>3. CASE ReadCurrent(s)
  BY <1>2, <1>3 DEF ReadCurrent, At
<1>4. CASE LockHead(s)
  BY <1>2, <1>4 DEF LockHead, At
<1>5. CASE ReadHead(s)
  BY <1>2, <1>5 DEF ReadHead, At, Finish, Step
<1>6. CASE InsertCommit(s)
  BY <1>2, <1>6 DEF InsertCommit, At
<1>7. CASE RecordCommit(s)
  BY <1>2, <1>7 DEF RecordCommit, At, Finish
<1>8. CASE FindTarget(s)
  BY <1>2, <1>8 DEF FindTarget, At, Step
<1>9. CASE InsertBranch(s)
  BY <1>2, <1>9 DEF InsertBranch, At, Finish
<1>10. CASE MergeBranch(s)
  BY <1>2, <1>10 DEF MergeBranch, At, Finish
<1>11. CASE Checkout(s)
  BY <1>2, <1>11 DEF Checkout, At
<1> QED
  BY <1>3, <1>4, <1>5, <1>6, <1>7, <1>8, <1>9, <1>10, <1>11 DEF VersionStep

LEMMA VersionCallSync ==
    ASSUME SyncInv, GraphInv, NEW s \in Session, VersionCall(s)
    PROVE  SyncInv'
<1>1. UNCHANGED <<mem, txn, dirty, job, mirror, unmarked>>
  BY DEF VersionCall, engineVars, engineHistory
<1>2. task[s].at # "idle" /\ \A u \in Session \ {s} : task'[u] = task[u]
  BY VersionMoves DEF VersionCall
<1>3. \A u \in Session : task'[u].at # "idle" => task[u].at # "idle"
  BY <1>2
<1> QED
  BY <1>1, <1>3 DEF SyncInv, JobShape, OwedAreComing, Owed, Promised

LEMMA CallVersionSync ==
    ASSUME SyncInv, GraphInv, NEW s \in Session, CallVersion(s)
    PROVE  SyncInv'
<1> DEFINE st == Head(script[s])
<1>1. /\ job[s].at = "rest" /\ st.do \in VersionCalls /\ job' = [job EXCEPT ![s].at = st.do]
      /\ UNCHANGED <<mem, txn, dirty, mirror, unmarked>>
  BY DEF CallVersion, Is, VersionCalls, engineHistory
<1>2. PICK at : at = st.do
  OBVIOUS
<1>3. \A u \in Session \ {s} : task'[u] = task[u]
  <2>1. \E task1 : task' = [task EXCEPT ![s] = task1]
    BY DEF CallVersion, Call
  <2>2. DOMAIN task = Session
    BY DEF GraphInv, GraphTypes, TasksAre
  <2> QED
    BY <2>1, <2>2
<1>4. JobNow(s, at, job[s].ops, job[s].snapshot, job[s].keys)
  BY <1>1, <1>2, SyncFacts, JobAt
<1>5. Promised(s) = {}
  BY <1>1 DEF Promised, PromisedBy
<1>6. at \in VersionCalls /\ at \notin {"mark", "record", "write", "apply", "apply_write", "restore"}
  BY <1>1, <1>2 DEF VersionCalls
<1> HIDE DEF st
<1> QED
  BY <1>1, <1>3, <1>4, <1>5, <1>6, SyncFacts, QuietSync

LEMMA ReturnSync ==
    ASSUME SyncInv, GraphInv, NEW s \in Session, Return(s)
    PROVE  SyncInv'
<1>1. /\ task[s].at \in {"done", "refused"} /\ task' = [task EXCEPT ![s] = Idle]
      /\ UNCHANGED <<mem, txn, dirty, mirror, unmarked>>
  BY DEF Return, Leave, engineHistory
<1>2. job[s].at \in VersionCalls /\ Image(mem)
  BY <1>1, SyncFacts
<1>3. task'[s].at = "idle" /\ \A u \in Session \ {s} : task'[u] = task[u]
  <2>1. DOMAIN task = Session
    BY DEF GraphInv, GraphTypes, TasksAre
  <2> QED
    BY <1>1, <2>1 DEF Idle
<1>4. Promised(s) = {}
  BY <1>2 DEF Promised, PromisedBy, VersionCalls
<1>5. CASE job' = [job EXCEPT ![s] = Resting]
  <2>1. ASSUME NEW k \in Key, Owed(k)' PROVE k \in dirty' \/ (Owed(k) /\ k \notin dirty \cup Promised(s))
    BY <1>1, <1>4, <2>1 DEF Owed
  <2> QED
    BY <1>1, <1>2, <1>3, <1>5, <2>1, RestSync
<1>6. PICK V : job[s] \in JobRecord(V)
  BY SyncFacts, JobIs DEF IsJob
<1>7. CASE \E r : /\ job' = [job EXCEPT ![s] = r] /\ r.at \in {"take", "load"}
                  /\ IsJob(r)
  <2>1. PICK r : job' = [job EXCEPT ![s] = r] /\ r.at \in {"take", "load"} /\ IsJob(r)
    BY <1>7
  <2>2. JobNow(s, r.at, r.ops, r.snapshot, r.keys)
    BY <2>1, SyncFacts, JobPut
  <2> QED
    BY <1>1, <1>3, <1>4, <2>1, <2>2, SyncFacts, QuietSync
<1> DEFINE take == [job[s] EXCEPT !.at = "take"]
           load == [job[s] EXCEPT !.at = "load", !.snapshot = commits[task[s].id].root]
<1>8. \/ job' = [job EXCEPT ![s] = Resting]
      \/ job' = [job EXCEPT ![s] = CASE Is(s, "commit") -> take [] Is(s, "checkout") -> load [] OTHER -> Resting]
  BY Zenon DEF Return
<1>9. PICK r : r = CASE Is(s, "commit") -> take [] Is(s, "checkout") -> load [] OTHER -> Resting
  OBVIOUS
<1>10. r \in {take, load, Resting}
  <2> HIDE DEF take, load
  <2> QED
    BY <1>9, ZenonT(30)
<1>11. CASE job' = [job EXCEPT ![s] = r] /\ r = take
  <2>1. r = [job[s] EXCEPT !.at = "take"]
    BY <1>11
  <2>2. r.at = "take" /\ r \in JobRecord(V \cup {"take"})
    BY <1>6, <2>1 DEF JobRecord
  <2> QED
    BY <1>7, <1>11, <2>2 DEF IsJob
<1>12. CASE job' = [job EXCEPT ![s] = r] /\ r = load
  <2>0. PICK root : root = commits[task[s].id].root
    OBVIOUS
  <2>1. r = [job[s] EXCEPT !.at = "load", !.snapshot = root]
    BY <1>12, <2>0
  <2>2. r.at = "load"
    BY <1>6, <2>1 DEF JobRecord
  <2>3. r \in JobRecord(V \cup {"load", root})
    BY <1>6, <2>1 DEF JobRecord
  <2> QED
    BY <1>7, <1>12, <2>2, <2>3 DEF IsJob
<1>13. job' = [job EXCEPT ![s] = Resting] \/ job' = [job EXCEPT ![s] = r]
  BY <1>8, <1>9, Zenon
<1> HIDE DEF take, load
<1> QED
  BY <1>5, <1>10, <1>11, <1>12, <1>13

LEMMA IngestSync ==
    ASSUME SyncInv, NEW s \in Session, NEW t, NEW image, IngestTable(s, t, image)
    PROVE  SyncInv'
<1> DEFINE keys == Ordered({k \in KeysOf(t) : image[k] # 0})
           cells == {t} \cup KeysOf(t)
           rows == [c \in Cell |-> IF c = t THEN 1 ELSE IF c \in KeysOf(t) THEN image[c] ELSE 0]
           first == <<[cell |-> t, val |-> 1]>>
           others == [i \in DOMAIN keys |-> [cell |-> keys[i], val |-> image[keys[i]]]]
<1>1. /\ job[s].at = "rest"
      /\ job' = [job EXCEPT ![s] = [Resting EXCEPT !.at = "mark", !.snapshot = [c \in cells |-> rows[c]],
                    !.ops = first \o others]]
      /\ UNCHANGED <<mem, txn, dirty, mirror, unmarked, task>>
  BY Zenon DEF IngestTable, Is, versionVars
<1>2. PICK ops : ops = first \o others
  OBVIOUS
<1>3. IsSeq(ops) /\ ops # <<>>
  <2>1. {k \in KeysOf(t) : image[k] # 0} \in SUBSET Key
    BY DEF KeysOf
  <2>2. PICK order : order = keys /\ IsSeq(order)
    BY <2>1, OrderedIsSeq
  <2>3. PICK n \in Nat : n = Len(order) /\ DOMAIN order = 1 .. n
    <3> HIDE DEF keys
    <3>1. PICK S : order \in Seq(S)
      BY <2>2 DEF IsSeq
    <3> QED
      BY <3>1
  <2>4. PICK T : T = {[cell |-> t, val |-> 1]} \cup {[cell |-> order[i], val |-> image[order[i]]] : i \in 1 .. n}
    OBVIOUS
  <2>5. PICK a \in Seq(T) : a = first /\ Len(a) = 1
    <3>1. PICK b \in T : b = [cell |-> t, val |-> 1]
      BY <2>4
    <3>2. <<b>> \in Seq(T) /\ Len(<<b>>) = 1
      OBVIOUS
    <3> QED
      BY <3>1, <3>2
  <2>6. PICK b \in Seq(T) : b = others
    <3>1. PICK b : b = [i \in 1 .. n |-> [cell |-> order[i], val |-> image[order[i]]]]
      OBVIOUS
    <3>2. b \in Seq(T)
      BY <2>4, <3>1
    <3>3. b = others
      BY <2>2, <2>3, <3>1
    <3> QED
      BY <3>2, <3>3
  <2>7. \A p, q \in Seq(T) : p \o q \in Seq(T) /\ Len(p \o q) = Len(p) + Len(q)
    OBVIOUS
  <2>8. ops \in Seq(T) /\ Len(ops) = 1 + Len(b)
    BY <1>2, <2>5, <2>6, <2>7
  <2>9. ops # <<>>
    BY <2>6, <2>8
  <2> QED
    BY <2>8, <2>9 DEF IsSeq
<1>4. PICK snapshot : snapshot = [c \in cells |-> rows[c]]
  OBVIOUS
<1> HIDE DEF keys, cells, rows, first, others
<1>5. PICK r : r = [Resting EXCEPT !.at = "mark", !.snapshot = snapshot, !.ops = ops]
  OBVIOUS
<1>6. job' = [job EXCEPT ![s] = r]
  BY <1>1, <1>2, <1>4, <1>5, Zenon
<1>7. PICK V : Resting \in JobRecord(V)
  BY RestingJob
<1>8. r.at = "mark" /\ r.ops = ops
  BY <1>5, <1>7 DEF JobRecord
<1>9. r \in JobRecord(V \cup {"mark", snapshot, ops})
  BY <1>5, <1>7 DEF JobRecord
<1>10. JobNow(s, "mark", ops, r.snapshot, r.keys)
  BY <1>6, <1>8, <1>9, SyncFacts, JobPut DEF IsJob
<1>11. Promised(s) = {} /\ task[s].at = "idle"
  BY <1>1, SyncFacts DEF Promised, PromisedBy, VersionCalls
<1> QED
  BY <1>1, <1>3, <1>10, <1>11, SyncFacts, QuietSync

LEMMA RestShape ==
    ASSUME Image(mem'), txn' = NoTxn, job' = [s \in Session |-> Resting], task' = [s \in Session |-> Idle]
    PROVE  JobShape'
<1>1. PICK V : Resting \in JobRecord(V)
  BY RestingJob
<1>2. Jobs(job')
  <2>1. job' \in [Session -> [at : V, ops : V, writes : V, snapshot : V, keys : V]]
    BY <1>1 DEF JobRecord
  <2> QED
    BY <2>1 DEF Jobs
<1>3. \A s \in Session : job'[s].at = "rest" /\ task'[s].at = "idle"
  BY DEF Resting, Idle
<1>4. (\E U : txn' \in [snapshot : U, log : U, open : U]) /\ ~txn'.open
  BY NoTxnFits
<1> QED
  BY <1>2, <1>3, <1>4 DEF JobShape

LEMMA CrashSync == ASSUME SyncInv, Crash PROVE SyncInv'
<1>1. /\ mem' = Loaded /\ txn' = NoTxn /\ job' = [s \in Session |-> Resting] /\ task' = [s \in Session |-> Idle]
      /\ unmarked' = unmarked \cup {k \in Key : mem'[k] # mirror[k]} /\ mirror' = mirror
  BY DEF Crash
<1>2. Image(mem')
  <2>1. mem' \in [Cell -> {mem'[c] : c \in Cell}]
    BY <1>1 DEF Loaded
  <2> QED
    BY <2>1 DEF Image
<1>3. JobShape'
  BY <1>1, <1>2, RestShape
<1>4. \A k \in Key : ~Owed(k)'
  BY <1>1 DEF Owed
<1> QED
  BY <1>3, <1>4 DEF SyncInv, OwedAreComing

LEMMA SyncStart == ASSUME NEW w, EngineInit(w) PROVE SyncInv
<1>1. /\ mem = [c \in Cell |-> 0] /\ txn = NoTxn /\ job = [s \in Session |-> Resting]
      /\ task = [s \in Session |-> Idle]
  BY DEF EngineInit, VersionInit
<1>2. Image(mem)
  <2>1. mem \in [Cell -> {0}]
    BY <1>1
  <2> QED
    BY <2>1 DEF Image
<1>3. PICK V : Resting \in JobRecord(V)
  BY RestingJob
<1>4. Jobs(job)
  <2>1. job \in [Session -> [at : V, ops : V, writes : V, snapshot : V, keys : V]]
    BY <1>1, <1>3 DEF JobRecord
  <2> QED
    BY <2>1 DEF Jobs
<1>5. \A s \in Session : job[s].at = "rest" /\ task[s].at = "idle"
  BY <1>1 DEF Resting, Idle
<1>6. (\E U : txn \in [snapshot : U, log : U, open : U]) /\ ~txn.open
  BY <1>1, NoTxnFits
<1>7. JobShape
  BY <1>2, <1>4, <1>5, <1>6 DEF JobShape
<1>8. \A k \in Key : ~Owed(k)
  BY <1>1 DEF Owed, Cell
<1> QED
  BY <1>7, <1>8 DEF SyncInv, OwedAreComing

\* The marks that are promised are among the cells of the operations.
LEMMA SyncMarks == SyncInv => MirrorCatchesUp
<1> SUFFICES ASSUME SyncInv, NEW k \in Key \ unmarked, mem[k] \notin {0, mirror[k]}, k \notin dirty
             PROVE  \E s \in Session : k \in Marking(s) \/ (Is(s, "export") /\ k \in job[s].keys)
  BY DEF MirrorCatchesUp
<1>1. PICK s \in Session : k \in Promised(s)
  BY DEF SyncInv, OwedAreComing, Owed
<1>2. CASE job[s].at = "export"
  BY <1>1, <1>2 DEF Promised, PromisedBy, Is
<1>3. CASE job[s].at # "export"
  <2>1. job[s].at \in {"mark", "record", "write"} /\ k \in Marks(job[s].ops) \cup Marks(Tail(job[s].ops))
    BY <1>1, <1>3 DEF Promised, PromisedBy
  <2>2. IsSeq(job[s].ops) /\ job[s].ops # <<>>
    BY <2>1, SyncFacts
  <2>3. k \in CellsOfAll(job[s].ops)
    BY <2>1, <2>2, MarksTail, MarksConcern
  <2> QED
    BY <2>1, <2>3 DEF Marking
<1> QED
  BY <1>2, <1>3
-----------------------------------------------------------------------------
(***************************************************************************)
(* The table on object storage implements AppendOnlyTable, for any number  *)
(* of tasks that commit at once; and pruning skips no block that a range   *)
(* query needs (TableFormat).                                              *)
(***************************************************************************)
SnapshotRecord == [prev : SnapshotId, segments : Seq(Segment \cup {<<>>})]
CommitRecord == [at : {"rest", "put", "loaded", "swap"}, base : SnapshotId,
                 blocks : Segment \cup {<<>>}, id : SnapshotId]

TableTypes ==
    /\ snapshots \in Seq(SnapshotRecord)
    /\ current \in 0..Len(snapshots)
    /\ commit \in [Committer -> CommitRecord]

\* A commit past its segment has the segment stored and its base there; past its snapshot, the
\* snapshot it will point the table to is its base and that segment.
CommitInv(w) ==
    /\ commit[w].at \in {"loaded", "swap"} =>
          commit[w].blocks \in segments /\ commit[w].base \in 0..Len(snapshots)
    /\ commit[w].at = "swap" =>
          /\ commit[w].id \in 1..Len(snapshots)
          /\ snapshots[commit[w].id].segments = Append(SegmentsAt(commit[w].base), commit[w].blocks)

TableInv == TableTypes /\ \A w \in Committer : CommitInv(w)
-----------------------------------------------------------------------------
\* Versions that exist keep their segments when a snapshot is added.
LEMMA SegmentsStay ==
    ASSUME TableTypes, NEW x \in SnapshotRecord, snapshots' = Append(snapshots, x),
           NEW id \in 0..Len(snapshots)
    PROVE  SegmentsAt(id)' = SegmentsAt(id)
<1>1. DOMAIN snapshots = 1..Len(snapshots) /\ DOMAIN snapshots' = 1..(Len(snapshots) + 1)
  BY DEF TableTypes
<1>2. CASE id = 0
  BY <1>1, <1>2 DEF SegmentsAt
<1>3. CASE id \in 1..Len(snapshots)
  <2>1. snapshots'[id] = snapshots[id]
    BY <1>3 DEF TableTypes
  <2> QED BY <1>1, <1>3, <2>1 DEF SegmentsAt
<1> QED BY <1>2, <1>3

\* An empty store, where nothing has been answered.
LEMMA TableInvInit == TableInit => TableInv
<1> SUFFICES ASSUME TableInit PROVE TableInv
  OBVIOUS
<1>1. NoCommitUnderWay \in CommitRecord
  BY DEF NoCommitUnderWay, CommitRecord, NoSnapshot, SnapshotId
<1>2. TableTypes
  BY <1>1 DEF TableInit, TableTypes, NoSnapshot
<1>3. ASSUME NEW w \in Committer PROVE CommitInv(w)
  BY DEF TableInit, NoCommitUnderWay, CommitInv
<1> QED BY <1>2, <1>3 DEF TableInv

\* A task that has not moved keeps its part of the invariant while objects are only added.
LEMMA OthersKeep ==
    ASSUME TableInv, NEW w \in Committer, commit'[w] = commit[w], segments \subseteq segments',
           \/ snapshots' = snapshots
           \/ \E x \in SnapshotRecord : snapshots' = Append(snapshots, x)
    PROVE  CommitInv(w)'
<1> USE DEF TableInv, SnapshotId
<1>0. CommitInv(w)
  OBVIOUS
<1>1. CASE snapshots' = snapshots
  BY <1>0, <1>1 DEF CommitInv, SegmentsAt
<1>2. CASE \E x \in SnapshotRecord : snapshots' = Append(snapshots, x)
  <2>1. PICK x \in SnapshotRecord : snapshots' = Append(snapshots, x)
    BY <1>2
  <2>2. Len(snapshots') = Len(snapshots) + 1 /\ Len(snapshots) \in Nat
    BY <2>1 DEF TableTypes
  <2>3. commit[w].base \in 0..Len(snapshots) => SegmentsAt(commit[w].base)' = SegmentsAt(commit[w].base)
    <3> SUFFICES ASSUME commit[w].base \in 0..Len(snapshots)
                 PROVE  SegmentsAt(commit[w].base)' = SegmentsAt(commit[w].base)
      OBVIOUS
    <3> DEFINE b == commit[w].base
    <3>1. \A id \in 0..Len(snapshots) : SegmentsAt(id)' = SegmentsAt(id)
      BY <2>1, SegmentsStay
    <3>2. commit'[w].base = b
      OBVIOUS
    <3> QED BY <3>1, <3>2 DEF SegmentsAt
  <2>4. commit[w].id \in 1..Len(snapshots) => snapshots'[commit[w].id] = snapshots[commit[w].id]
    BY <2>1 DEF TableTypes
  <2>5. commit[w].id \in 1..Len(snapshots) => commit[w].id \in 1..Len(snapshots')
    BY <2>2
  <2>6. commit[w].base \in 0..Len(snapshots) => commit[w].base \in 0..Len(snapshots')
    BY <2>2
  <2> QED BY <1>0, <2>3, <2>4, <2>5, <2>6 DEF CommitInv
<1> QED BY <1>1, <1>2

\* What the abstract table does in each step of a commit: nothing, Store or Commit.
LEMMA StartKeeps ==
    ASSUME TableInv, NEW w \in Committer, NEW bs \in Segment, NEW base \in SnapshotId,
           StartCommit(w, bs, base)
    PROVE  TableInv' /\ UNCHANGED <<segments, SegmentsAt(current)>>
<1> USE DEF TableInv
<1>1. TableTypes'
  BY DEF StartCommit, TableTypes, CommitRecord, NoSnapshot, SnapshotId
<1>2. CommitInv(w)'
  BY DEF StartCommit, CommitInv, TableTypes
<1>3. ASSUME NEW v \in Committer \ {w} PROVE CommitInv(v)'
  <2>1. commit'[v] = commit[v] /\ segments' = segments /\ snapshots' = snapshots
    BY DEF StartCommit, TableTypes
  <2> QED BY <2>1, OthersKeep
<1>4. UNCHANGED <<segments, SegmentsAt(current)>>
  BY DEF StartCommit, SegmentsAt
<1> QED BY <1>1, <1>2, <1>3, <1>4

\* put_segment writes a new object only.
LEMMA PutSegmentKeeps ==
    ASSUME TableInv, NEW w \in Committer, PutSegment(w)
    PROVE  TableInv' /\ Storage!Store
<1> USE DEF TableInv
<1>1. TableTypes'
  BY DEF PutSegment, TableTypes, CommitRecord
<1>2. CommitInv(w)'
  <2>1. /\ commit[w].base \in DOMAIN snapshots \cup {NoSnapshot} => commit[w].base \in 0..Len(snapshots)
        /\ commit'[w].blocks = commit[w].blocks /\ commit'[w].base = commit[w].base
        /\ commit'[w].at = IF commit[w].base \in DOMAIN snapshots \cup {NoSnapshot} THEN "loaded" ELSE "rest"
        /\ commit[w].blocks \in segments' /\ snapshots' = snapshots
    BY DEF PutSegment, TableTypes, CommitRecord, NoSnapshot
  <2> QED BY <2>1 DEF CommitInv
<1>3. ASSUME NEW v \in Committer \ {w} PROVE CommitInv(v)'
  <2>1. commit'[v] = commit[v] /\ segments \subseteq segments' /\ snapshots' = snapshots
    BY DEF PutSegment, TableTypes
  <2> QED BY <2>1, OthersKeep
<1>4. Storage!Store
  BY DEF PutSegment, Storage!Store, SegmentsAt
<1> QED BY <1>1, <1>2, <1>3, <1>4

\* put_snapshot writes a snapshot whose chain is already there.
LEMMA PutSnapshotKeeps ==
    ASSUME TableInv, NEW w \in Committer, PutSnapshot(w)
    PROVE  TableInv' /\ UNCHANGED <<segments, SegmentsAt(current)>>
<1> USE DEF TableInv
<1> DEFINE x == [prev |-> commit[w].base, segments |-> Append(SegmentsAt(commit[w].base), commit[w].blocks)]
<1>1. commit[w] \in CommitRecord /\ CommitInv(w) /\ commit[w].at = "loaded"
  BY DEF PutSnapshot, TableTypes
<1>2. x \in SnapshotRecord
  <2>1. SegmentsAt(commit[w].base) \in Seq(Segment \cup {<<>>})
    <3>1. CASE commit[w].base \in DOMAIN snapshots
      <4>1. snapshots[commit[w].base] \in SnapshotRecord
        BY <3>1 DEF TableTypes
      <4> QED BY <3>1, <4>1 DEF SegmentsAt, SnapshotRecord
    <3>2. CASE commit[w].base \notin DOMAIN snapshots
      BY <3>2 DEF SegmentsAt
    <3> QED BY <3>1, <3>2
  <2>2. Append(SegmentsAt(commit[w].base), commit[w].blocks) \in Seq(Segment \cup {<<>>})
    BY <1>1, <2>1 DEF CommitRecord
  <2> QED BY <1>1, <2>2 DEF CommitRecord, SnapshotRecord
<1>3. snapshots' = Append(snapshots, x) /\ segments' = segments /\ current' = current
  BY DEF PutSnapshot
<1>4. Len(snapshots') = Len(snapshots) + 1 /\ Len(snapshots) \in Nat
  BY <1>3 DEF TableTypes
<1>5. TableTypes'
  <2>1. snapshots' \in Seq(SnapshotRecord)
    BY <1>2, <1>3 DEF TableTypes
  <2>2. current' \in 0..Len(snapshots')
    BY <1>3, <1>4 DEF TableTypes
  <2>3. commit' \in [Committer -> CommitRecord]
    <3>1. Len(snapshots) + 1 \in SnapshotId
      BY <1>4 DEF SnapshotId
    <3>2. commit \in [Committer -> CommitRecord]
      BY DEF TableTypes
    <3>3. commit' = [commit EXCEPT ![w].at = "swap", ![w].id = Len(snapshots) + 1]
      BY DEF PutSnapshot
    <3> HIDE DEF SnapshotId
    <3> QED BY <3>1, <3>2, <3>3 DEF CommitRecord
  <2> QED BY <2>1, <2>2, <2>3 DEF TableTypes
<1>6. CommitInv(w)'
  <2>1. /\ commit'[w].blocks = commit[w].blocks /\ commit'[w].base = commit[w].base
        /\ commit'[w].at = "swap" /\ commit'[w].id = Len(snapshots) + 1
    BY DEF PutSnapshot, TableTypes, CommitRecord
  <2>2. commit[w].blocks \in segments /\ commit[w].base \in 0..Len(snapshots)
    BY <1>1 DEF CommitInv
  <2>3. \A id \in 0..Len(snapshots) : SegmentsAt(id)' = SegmentsAt(id)
    BY <1>2, <1>3, SegmentsStay
  <2>4. SegmentsAt(commit[w].base)' = SegmentsAt(commit[w].base)
    BY <2>1, <2>2, <2>3 DEF SegmentsAt
  <2>5. snapshots'[Len(snapshots) + 1] = x
    BY <1>3 DEF TableTypes
  <2> QED BY <1>3, <1>4, <2>1, <2>2, <2>4, <2>5 DEF CommitInv
<1>7. ASSUME NEW v \in Committer \ {w} PROVE CommitInv(v)'
  <2>1. commit'[v] = commit[v]
    BY DEF PutSnapshot, TableTypes
  <2> QED BY <1>2, <1>3, <2>1, OthersKeep
<1>8. SegmentsAt(current)' = SegmentsAt(current)
  <2>1. \A id \in 0..Len(snapshots) : SegmentsAt(id)' = SegmentsAt(id)
    BY <1>2, <1>3, SegmentsStay
  <2> QED BY <1>3, <2>1 DEF TableTypes, SegmentsAt
<1> QED BY <1>3, <1>5, <1>6, <1>7, <1>8

\* compare_and_swap moves the pointer to a snapshot of the one it replaces, or refuses.
LEMMA SwapKeeps ==
    ASSUME TableInv, NEW w \in Committer, CompareAndSwap(w)
    PROVE  TableInv' /\ (Storage!Commit \/ UNCHANGED <<segments, SegmentsAt(current)>>)
<1> USE DEF TableInv
<1>1. commit[w] \in CommitRecord /\ CommitInv(w) /\ commit[w].at = "swap"
  BY DEF CompareAndSwap, TableTypes
<1>2. segments' = segments /\ snapshots' = snapshots
  BY DEF CompareAndSwap
<1>3. TableTypes'
  BY <1>1 DEF CompareAndSwap, TableTypes, CommitRecord, CommitInv
<1>4. CommitInv(w)'
  BY <1>1 DEF CompareAndSwap, CommitInv, TableTypes
<1>5. ASSUME NEW v \in Committer \ {w} PROVE CommitInv(v)'
  <2>1. commit'[v] = commit[v]
    BY DEF CompareAndSwap, TableTypes
  <2> QED BY <1>2, <2>1, OthersKeep
<1>6. CASE current = commit[w].base
  <2>1. current' = commit[w].id /\ commit[w].id \in DOMAIN snapshots
    BY <1>1, <1>6 DEF CompareAndSwap, CommitInv, TableTypes
  <2>2. SegmentsAt(current)' = Append(SegmentsAt(current), commit[w].blocks)
    BY <1>1, <1>2, <1>6, <2>1 DEF SegmentsAt, CommitInv
  <2>3. commit[w].blocks \in segments
    BY <1>1 DEF CommitInv
  <2> QED BY <1>2, <1>3, <1>4, <1>5, <2>2, <2>3 DEF Storage!Commit
<1>7. CASE current # commit[w].base
  BY <1>2, <1>3, <1>4, <1>5, <1>7 DEF CompareAndSwap, SegmentsAt
<1> QED BY <1>6, <1>7

\* Every step keeps what the table's tasks rely on.
LEMMA TableStep ==
    TableInv /\ [TableNext]_tableVars => TableInv' /\ [Storage!Next]_<<segments, SegmentsAt(current)>>
<1> SUFFICES ASSUME TableInv, [TableNext]_tableVars
             PROVE  TableInv' /\ [Storage!Next]_<<segments, SegmentsAt(current)>>
  OBVIOUS
<1>1. CASE UNCHANGED tableVars
  BY <1>1 DEF tableVars, TableInv, TableTypes, CommitInv, SegmentsAt
<1>2. ASSUME NEW w \in Committer, NEW bs \in Segment, NEW base \in SnapshotId, StartCommit(w, bs, base)
      PROVE  TableInv' /\ [Storage!Next]_<<segments, SegmentsAt(current)>>
  BY <1>2, StartKeeps
<1>3. ASSUME NEW w \in Committer, PutSegment(w)
      PROVE  TableInv' /\ [Storage!Next]_<<segments, SegmentsAt(current)>>
  BY <1>3, PutSegmentKeeps DEF Storage!Next
<1>4. ASSUME NEW w \in Committer, PutSnapshot(w)
      PROVE  TableInv' /\ [Storage!Next]_<<segments, SegmentsAt(current)>>
  BY <1>4, PutSnapshotKeeps
<1>5. ASSUME NEW w \in Committer, CompareAndSwap(w)
      PROVE  TableInv' /\ [Storage!Next]_<<segments, SegmentsAt(current)>>
  BY <1>5, SwapKeeps DEF Storage!Next
<1> QED BY <1>1, <1>2, <1>3, <1>4, <1>5 DEF TableNext, CommitStep

\* Whatever tasks commit at once, onto the current snapshot or one they were given, the table on
\* object storage implements the append-only table: commit_blocks_onto and its compare_and_swap
\* lose no commit and change none.
THEOREM TableIsAppendOnly == TableSpec => AppendOnly
<1>1. TableInit => Storage!Init
  BY DEF TableInit, Storage!Init, SegmentsAt, NoSnapshot
<1> QED BY <1>1, TableInvInit, TableStep, PTL DEF TableSpec, AppendOnly, Storage!Spec
-----------------------------------------------------------------------------
\* ColumnStats::disproves rules out a comparison only when no value satisfies it.
LEMMA DisprovesIsSound ==
    ASSUME NEW values \in SUBSET Int, NEW num \in Int, NEW v \in values
    PROVE  /\ v > num => ~Disproves(values, ">", num)
           /\ v >= num => ~Disproves(values, ">=", num)
           /\ v < num => ~Disproves(values, "<", num)
           /\ v <= num => ~Disproves(values, "<=", num)
BY DEF Disproves

\* prune_range skips no block with a value that the query asks for, in any version: neither its
\* segment's statistics nor its own rule it out.
THEOREM PruningIsSafe ==
    ASSUME NEW id, NEW op \in {">", ">=", "<", "<="}, NEW num \in Int,
           \A s \in Range(SegmentsAt(id)) : \A i \in DOMAIN s : Values(s[i]) \subseteq Int,
           NEW segment \in Range(SegmentsAt(id)), NEW i \in DOMAIN segment, NEW v \in Values(segment[i]),
           CASE op = ">" -> v > num [] op = ">=" -> v >= num [] op = "<" -> v < num [] op = "<=" -> v <= num
    PROVE  segment[i] \in PruneRange(id, op, num)
<1> DEFINE all == UNION {Values(segment[j]) : j \in DOMAIN segment}
<1>1. all \subseteq Int /\ v \in all /\ Values(segment[i]) \subseteq Int
  OBVIOUS
<1>2. ~Disproves(all, op, num)
  BY <1>1, DisprovesIsSound
<1>3. ~Disproves(Values(segment[i]), op, num)
  BY <1>1, DisprovesIsSound
<1>4. segment[i] \in Range(segment)
  BY DEF Range
<1> QED BY <1>2, <1>3, <1>4 DEF PruneRange
-----------------------------------------------------------------------------
(***************************************************************************)
(* A restore brings in a snapshot as it was taken (Backup), if one session *)
(* makes the backups of an id.                                             *)
(***************************************************************************)
NoBackups(q) == \A i \in 1 .. Len(q) : q[i].do \notin {"backup", "restore"}

OneBackupSession ==
    \A w \in Workloads :
        /\ \E V : w.script \in [Session -> Seq(V)]
        /\ \E b \in Session : \A s \in Session \ {b} : NoBackups(w.script[s])

\* The only session whose script may still ask for a backup or a restore.
ScriptsPlain(b) ==
    /\ \E V : script \in [Session -> Seq(V)]
    /\ \A s \in Session \ {b} : NoBackups(script[s])

PartOf(f, S) == [t \in S |-> f[t]]

\* A session with a backup or a restore under way has kept to its cut, or to the manifest.
Phase(at, cut, sums, awaited) ==
    /\ at \in {"dump", "hash", "manifest"} =>
          cut \in cuts /\ awaited \subseteq DOMAIN cut /\ sums = PartOf(cut, DOMAIN cut \ awaited)
    /\ at \in {"dump", "hash", "check", "read", "ingest"} => awaited # {}
    /\ at \in {"manifest", "end"} => awaited = {}
    /\ at = "hash" => staged[First(awaited)] = cut[First(awaited)]
    /\ at = "upload" => awaited \subseteq DOMAIN staged
    /\ at = "download" => awaited \subseteq DOMAIN remote
    /\ at \in {"download", "open"} => cut = NoFiles
    /\ at \in {"check", "read", "ingest", "end"} =>
          /\ sums \in cuts /\ awaited \subseteq DOMAIN sums
          /\ cut = PartOf(sums, DOMAIN sums \ IF at = "ingest" THEN awaited \ {First(awaited)} ELSE awaited)
    /\ at = "read" => staged[First(awaited)] = sums[First(awaited)]

BackupsAre(bs) == \E V : bs \in [Session -> [at : V, cut : V, sums : V, todo : V]]
Manifested(files) == Manifest \in DOMAIN files => files[Manifest] \in cuts

FilesKeep ==
    /\ \A c \in cuts : DOMAIN c \subseteq Table /\ c = PartOf(c, DOMAIN c)
    /\ Manifested(staged) /\ Manifested(remote)
    /\ restored \subseteq cuts

BackupInv(b) ==
    /\ BackupsAre(backup)
    /\ \A s \in Session \ {b} : backup[s] = NoBackup
    /\ b \in Session => Phase(backup[b].at, backup[b].cut, backup[b].sums, backup[b].todo)
    /\ FilesKeep

LEMMA NothingYet == \A f : NoFiles = PartOf(f, {}) /\ DOMAIN NoFiles = {}
BY DEF NoFiles, PartOf

LEMMA FirstOf == ASSUME NEW S \in SUBSET Table, S # {} PROVE First(S) \in S
BY DEF First, Table

LEMMA WithIs ==
    ASSUME NEW files, NEW f, NEW content, NEW with, with = With(files, f, content)
    PROVE  /\ DOMAIN with = DOMAIN files \cup {f} /\ with[f] = content
           /\ \A g \in DOMAIN files \ {f} : with[g] = files[g]
BY DEF With

\* A function and its part, extended.
LEMMA PartGrows ==
    ASSUME NEW f, NEW S, NEW t, NEW with, with = With(PartOf(f, S), t, f[t])
    PROVE  with = PartOf(f, S \cup {t})
BY DEF With, PartOf

IsBackup(r) == \E V : r \in [at : V, cut : V, sums : V, todo : V]

LEMMA BackupMade ==
    ASSUME NEW at, NEW cut, NEW sums, NEW awaited
    PROVE  IsBackup([at |-> at, cut |-> cut, sums |-> sums, todo |-> awaited])
<1>1. [at |-> at, cut |-> cut, sums |-> sums, todo |-> awaited] \in
          [at : {at, cut, sums, awaited}, cut : {at, cut, sums, awaited},
           sums : {at, cut, sums, awaited}, todo : {at, cut, sums, awaited}]
  OBVIOUS
<1> QED
  BY <1>1 DEF IsBackup

LEMMA BackupMoves ==
    ASSUME NEW b \in Session, BackupInv(b), NEW at, NEW cut, NEW sums, NEW awaited, NEW r,
           IsBackup(r), r.at = at, r.cut = cut, r.sums = sums, r.todo = awaited,
           backup' = [backup EXCEPT ![b] = r],
           Phase(at, cut, sums, awaited)', FilesKeep'
    PROVE  BackupInv(b)'
<1>1. PICK V : backup \in [Session -> [at : V, cut : V, sums : V, todo : V]]
  BY DEF BackupInv, BackupsAre
<1>2. PICK U : r \in [at : U, cut : U, sums : U, todo : U]
  BY DEF IsBackup
<1>3. PICK W : W = V \cup U
  OBVIOUS
<1>4. /\ backup \in [Session -> [at : W, cut : W, sums : W, todo : W]]
      /\ r \in [at : W, cut : W, sums : W, todo : W]
  BY <1>1, <1>2, <1>3
<1>5. backup' \in [Session -> [at : W, cut : W, sums : W, todo : W]]
  BY <1>4
<1>6. backup'[b] = r /\ \A s \in Session \ {b} : backup'[s] = backup[s]
  BY <1>1
<1>7. BackupsAre(backup')
  BY <1>5 DEF BackupsAre
<1> QED
  BY <1>6, <1>7 DEF BackupInv

LEMMA BackupFacts ==
    ASSUME NEW b \in Session, BackupInv(b)
    PROVE  /\ Phase(backup[b].at, backup[b].cut, backup[b].sums, backup[b].todo) /\ FilesKeep
           /\ \E V : backup[b] \in [at : V, cut : V, sums : V, todo : V]
           /\ NoBackup = [at |-> "rest", cut |-> NoFiles, sums |-> NoFiles, todo |-> {}]
BY DEF BackupInv, BackupsAre, NoBackup, NoFiles

\* A backup or a restore that ends, with the files as they are or gone.
LEMMA BackupRests ==
    ASSUME NEW b \in Session, BackupInv(b), backup' = [backup EXCEPT ![b] = NoBackup], FilesKeep'
    PROVE  BackupInv(b)'
<1>1. PICK r : r = [at |-> "rest", cut |-> NoFiles, sums |-> NoFiles, todo |-> {}]
  OBVIOUS
<1>2. IsBackup(r) /\ r.at = "rest" /\ r.cut = NoFiles /\ r.sums = NoFiles /\ r.todo = {}
  BY <1>1, BackupMade
<1>3. backup' = [backup EXCEPT ![b] = r]
  BY <1>1, BackupFacts
<1>4. Phase("rest", NoFiles, NoFiles, {})'
  BY DEF Phase
<1> QED
  BY <1>2, <1>3, <1>4, BackupMoves

LEMMA StartSnapshotKeeps == ASSUME NEW b \in Session, BackupInv(b), StartSnapshot(b) PROVE BackupInv(b)'
<1>1. PICK there : there = {t \in Table : mem[t] # 0}
  OBVIOUS
<1>2. PICK cut : cut = [t \in there |-> ImageOf(t)]
  OBVIOUS
<1>3. PICK at : at = IF there = {} THEN "manifest" ELSE "dump"
  OBVIOUS
<1>4. PICK V : backup[b] \in [at : V, cut : V, sums : V, todo : V]
  BY BackupFacts
<1>5. PICK first : first = [backup[b] EXCEPT !.todo = there, !.at = at]
  OBVIOUS
<1>6. first.at = at /\ first.todo = there
  BY <1>4, <1>5
<1>7. first \in [at : V \cup {at, there}, cut : V \cup {at, there}, sums : V \cup {at, there}, todo : V \cup {at, there}]
  BY <1>4, <1>5
<1>8. PICK r : r = [first EXCEPT !.cut = cut, !.sums = NoFiles]
  OBVIOUS
<1>9. r.at = at /\ r.cut = cut /\ r.sums = NoFiles /\ r.todo = there
  BY <1>6, <1>7, <1>8
<1>10. IsBackup(r)
  <2>1. PICK W : W = V \cup {at, there, cut, NoFiles}
    OBVIOUS
  <2>2. first \in [at : W, cut : W, sums : W, todo : W]
    BY <1>7, <2>1
  <2>3. r \in [at : W, cut : W, sums : W, todo : W]
    BY <1>8, <2>1, <2>2
  <2> QED
    BY <2>3 DEF IsBackup
<1>11. /\ backup' = [backup EXCEPT ![b] = r]
       /\ cuts' = cuts \cup {cut} /\ UNCHANGED <<staged, remote, restored>>
  BY <1>1, <1>2, <1>3, <1>5, <1>8, Zenon DEF StartSnapshot, Onward, NoFiles
<1>12. DOMAIN cut = there /\ there \subseteq Table /\ cut = PartOf(cut, there)
  BY <1>1, <1>2 DEF PartOf
<1>13. NoFiles = PartOf(cut, {})
  BY NothingYet
<1>14. DOMAIN cut \ there = {}
  BY <1>12
<1>15. FilesKeep'
  BY <1>11, <1>12, BackupFacts DEF FilesKeep, Manifested
<1>16. Phase(at, cut, NoFiles, there)'
  BY <1>3, <1>11, <1>12, <1>13, <1>14 DEF Phase
<1> QED
  BY <1>9, <1>10, <1>11, <1>15, <1>16, BackupMoves

LEMMA WriteFileKeeps == ASSUME NEW b \in Session, BackupInv(b), WriteFile(b) PROVE BackupInv(b)'
<1>0. PICK cut, sums, awaited : cut = backup[b].cut /\ sums = backup[b].sums /\ awaited = backup[b].todo
  OBVIOUS
<1>1. PICK t : t = First(backup[b].todo)
  OBVIOUS
<1>2. /\ backup[b].at = "dump" /\ staged' = With(staged, t, backup[b].cut[t])
      /\ backup' = [backup EXCEPT ![b].at = "hash"] /\ UNCHANGED <<remote, cuts, restored>>
  BY <1>1 DEF WriteFile, Doing
<1>3. PICK V : backup[b] \in [at : V, cut : V, sums : V, todo : V]
  BY BackupFacts
<1>4. PICK r : r = [backup[b] EXCEPT !.at = "hash"]
  OBVIOUS
<1>5. /\ r.at = "hash" /\ r.cut = backup[b].cut /\ r.sums = backup[b].sums /\ r.todo = backup[b].todo
      /\ r \in [at : V \cup {"hash"}, cut : V \cup {"hash"}, sums : V \cup {"hash"}, todo : V \cup {"hash"}]
  BY <1>3, <1>4
<1>6. backup' = [backup EXCEPT ![b] = r]
  BY <1>2, <1>4
<1>7. /\ backup[b].cut \in cuts /\ backup[b].todo \subseteq DOMAIN backup[b].cut /\ backup[b].todo # {}
      /\ backup[b].sums = PartOf(backup[b].cut, DOMAIN backup[b].cut \ backup[b].todo)
      /\ FilesKeep
  BY <1>2, BackupFacts DEF Phase
<1>8. t # Manifest
  <2>1. backup[b].todo \subseteq Table
    BY <1>7 DEF FilesKeep
  <2> QED
    BY <1>1, <1>7, <2>1, FirstOf, BackupAssumption
<1>9. DOMAIN staged' = DOMAIN staged \cup {t} /\ staged'[t] = backup[b].cut[t] /\ \A g \in DOMAIN staged \ {t} : staged'[g] = staged[g]
  BY <1>2 DEF With
<1>10. FilesKeep'
  BY <1>2, <1>7, <1>8, <1>9 DEF FilesKeep, Manifested
<1>11. Phase("hash", cut, sums, awaited)'
  BY <1>0, <1>1, <1>2, <1>7, <1>9 DEF Phase
<1>12. IsBackup(r)
  BY <1>5 DEF IsBackup
<1> QED
  BY <1>0, <1>5, <1>6, <1>10, <1>11, <1>12, BackupMoves

LEMMA OnwardIs ==
    ASSUME NEW b \in Session, BackupInv(b), NEW awaited, NEW at, NEW after, NEW r, r = Onward(b, awaited, at, after)
    PROVE  /\ IsBackup(r) /\ r.at = (IF awaited = {} THEN after ELSE at)
           /\ r.cut = backup[b].cut /\ r.sums = backup[b].sums /\ r.todo = awaited
<1>1. PICK V : backup[b] \in [at : V, cut : V, sums : V, todo : V]
  BY BackupFacts
<1>2. PICK to : to = IF awaited = {} THEN after ELSE at
  OBVIOUS
<1>3. PICK W : W = V \cup {to, awaited}
  OBVIOUS
<1>4. r = [backup[b] EXCEPT !.todo = awaited, !.at = to]
  BY <1>2 DEF Onward
<1>5. r \in [at : W, cut : W, sums : W, todo : W]
  BY <1>1, <1>3, <1>4
<1>6. r.at = to /\ r.cut = backup[b].cut /\ r.sums = backup[b].sums /\ r.todo = awaited
  BY <1>1, <1>4
<1> QED
  BY <1>2, <1>5, <1>6 DEF IsBackup

LEMMA HashFileKeeps == ASSUME NEW b \in Session, BackupInv(b), HashFile(b) PROVE BackupInv(b)'
<1>1. PICK cut, sums, awaited, t :
         /\ cut = backup[b].cut /\ sums = backup[b].sums /\ awaited = backup[b].todo /\ t = First(awaited)
  OBVIOUS
<1>2. PICK more : more = With(sums, t, staged[t])
  OBVIOUS
<1>3. PICK onward : onward = Onward(b, awaited \ {t}, "dump", "manifest")
  OBVIOUS
<1>4. PICK r : r = [onward EXCEPT !.sums = more]
  OBVIOUS
<1>5. backup[b].at = "hash" /\ backup' = [backup EXCEPT ![b] = r] /\ UNCHANGED <<staged, remote, cuts, restored>>
  BY <1>1, <1>2, <1>3, <1>4, Zenon DEF HashFile, Doing
<1>6. /\ cut \in cuts /\ awaited \subseteq DOMAIN cut /\ awaited # {} /\ sums = PartOf(cut, DOMAIN cut \ awaited)
      /\ staged[t] = cut[t] /\ FilesKeep
  BY <1>1, <1>5, BackupFacts DEF Phase
<1>7. t \in awaited
  BY <1>1, <1>6, FirstOf DEF FilesKeep
<1>8. more = PartOf(cut, DOMAIN cut \ (awaited \ {t}))
  <2>1. PICK S : S = DOMAIN cut \ awaited
    OBVIOUS
  <2>2. more = PartOf(cut, S \cup {t})
    BY <1>2, <1>6, <2>1, PartGrows
  <2>3. S \cup {t} = DOMAIN cut \ (awaited \ {t})
    BY <1>6, <1>7, <2>1
  <2> QED
    BY <2>2, <2>3
<1>9. /\ IsBackup(onward) /\ onward.at = (IF awaited \ {t} = {} THEN "manifest" ELSE "dump")
      /\ onward.cut = cut /\ onward.todo = awaited \ {t}
  BY <1>1, <1>3, OnwardIs
<1>10. PICK at : at = IF awaited \ {t} = {} THEN "manifest" ELSE "dump"
  OBVIOUS
<1>11. PICK V : onward \in [at : V, cut : V, sums : V, todo : V]
  BY <1>9 DEF IsBackup
<1>12. r \in [at : V \cup {more}, cut : V \cup {more}, sums : V \cup {more}, todo : V \cup {more}]
  BY <1>4, <1>11
<1>13. r.at = at /\ r.cut = cut /\ r.sums = more /\ r.todo = awaited \ {t}
  BY <1>4, <1>9, <1>10, <1>11
<1>14. IsBackup(r)
  BY <1>12 DEF IsBackup
<1>15. FilesKeep'
  BY <1>5, <1>6 DEF FilesKeep, Manifested
<1>16. Phase(at, cut, more, awaited \ {t})'
  BY <1>5, <1>6, <1>8, <1>10 DEF Phase
<1> QED
  BY <1>5, <1>13, <1>14, <1>15, <1>16, BackupMoves

LEMMA WriteManifestKeeps == ASSUME NEW b \in Session, BackupInv(b), WriteManifest(b) PROVE BackupInv(b)'
<1>1. /\ backup[b].at = "manifest" /\ staged' = With(staged, Manifest, backup[b].sums)
      /\ backup' = [backup EXCEPT ![b] = IF destination = "local" THEN NoBackup
                                         ELSE [NoBackup EXCEPT !.at = "upload", !.todo = DOMAIN staged']]
      /\ UNCHANGED <<remote, cuts, restored>>
  BY DEF WriteManifest, Doing
<1>2. PICK cut, sums, awaited : cut = backup[b].cut /\ sums = backup[b].sums /\ awaited = backup[b].todo
  OBVIOUS
<1>3. cut \in cuts /\ sums = PartOf(cut, DOMAIN cut) /\ FilesKeep
  <2>1. cut \in cuts /\ awaited = {} /\ sums = PartOf(cut, DOMAIN cut \ awaited) /\ FilesKeep
    BY <1>1, <1>2, BackupFacts DEF Phase
  <2>2. DOMAIN cut \ awaited = DOMAIN cut
    BY <2>1
  <2> QED
    BY <2>1, <2>2
<1>4. sums \in cuts
  BY <1>3 DEF FilesKeep
<1>5. staged'[Manifest] = sums
  BY <1>1, <1>2 DEF With
<1>6. FilesKeep'
  BY <1>1, <1>3, <1>4, <1>5 DEF FilesKeep, Manifested
<1>7. CASE destination = "local"
  BY <1>1, <1>6, <1>7, BackupRests
<1>8. CASE destination # "local"
  <2>1. PICK files : files = DOMAIN staged'
    OBVIOUS
  <2>2. PICK r : r = [NoBackup EXCEPT !.at = "upload", !.todo = files]
    OBVIOUS
  <2>3. backup' = [backup EXCEPT ![b] = r]
    BY <1>1, <1>8, <2>1, <2>2
  <2>4. r = [at |-> "upload", cut |-> NoFiles, sums |-> NoFiles, todo |-> files]
    BY <2>2 DEF NoBackup, NoFiles
  <2>5. IsBackup(r) /\ r.at = "upload" /\ r.cut = NoFiles /\ r.sums = NoFiles /\ r.todo = files
    BY <2>4, BackupMade
  <2>6. Phase("upload", NoFiles, NoFiles, files)'
    BY <2>1 DEF Phase
  <2> QED
    BY <1>6, <2>3, <2>5, <2>6, BackupMoves
<1> QED
  BY <1>7, <1>8

LEMMA UploadKeeps == ASSUME NEW b \in Session, BackupInv(b), Upload(b) PROVE BackupInv(b)'
<1>1. PICK cut, sums, awaited : cut = backup[b].cut /\ sums = backup[b].sums /\ awaited = backup[b].todo
  OBVIOUS
<1>2. backup[b].at = "upload" /\ UNCHANGED <<staged, cuts, restored>>
  BY DEF Upload, Doing
<1>3. PICK f \in awaited : remote' = With(remote, f, staged[f]) /\ backup' = [backup EXCEPT ![b].todo = @ \ {f}]
  BY <1>1 DEF Upload
<1>4. PICK V : backup[b] \in [at : V, cut : V, sums : V, todo : V]
  BY BackupFacts
<1>5. PICK left : left = awaited \ {f}
  OBVIOUS
<1>6. PICK r : r = [backup[b] EXCEPT !.todo = left]
  OBVIOUS
<1>7. r.at = "upload" /\ r.cut = cut /\ r.sums = sums /\ r.todo = left
  BY <1>1, <1>2, <1>4, <1>6
<1>8. r \in [at : V \cup {left}, cut : V \cup {left}, sums : V \cup {left}, todo : V \cup {left}]
  BY <1>4, <1>6
<1>9. backup' = [backup EXCEPT ![b] = r]
  BY <1>1, <1>3, <1>5, <1>6
<1>10. awaited \subseteq DOMAIN staged /\ FilesKeep
  BY <1>1, <1>2, BackupFacts DEF Phase
<1>11. DOMAIN remote' = DOMAIN remote \cup {f} /\ remote'[f] = staged[f] /\ \A g \in DOMAIN remote \ {f} : remote'[g] = remote[g]
  BY <1>3 DEF With
<1>12. FilesKeep'
  BY <1>2, <1>10, <1>11 DEF FilesKeep, Manifested
<1>13. Phase("upload", cut, sums, left)'
  BY <1>2, <1>5, <1>10 DEF Phase
<1>14. IsBackup(r)
  BY <1>8 DEF IsBackup
<1> QED
  BY <1>7, <1>9, <1>12, <1>13, <1>14, BackupMoves

LEMMA EndUploadKeeps == ASSUME NEW b \in Session, BackupInv(b), EndUpload(b) PROVE BackupInv(b)'
<1>1. staged' = NoFiles /\ backup' = [backup EXCEPT ![b] = NoBackup] /\ UNCHANGED <<remote, cuts, restored>>
  BY DEF EndUpload
<1>2. FilesKeep'
  BY <1>1, BackupFacts, NothingYet DEF FilesKeep, Manifested
<1> QED
  BY <1>1, <1>2, BackupRests

\* Steps that leave the files and the session's work as they are.
LEMMA BackupStays ==
    ASSUME NEW b, BackupInv(b), UNCHANGED <<backup, staged, remote, cuts, restored>>
    PROVE  BackupInv(b)'
BY DEF BackupInv, BackupsAre, Phase, FilesKeep, Manifested

LEMMA StartRestoreKeeps == ASSUME NEW b \in Session, BackupInv(b), StartRestore(b) PROVE BackupInv(b)'
<1>1. UNCHANGED <<staged, remote, cuts, restored>>
  BY DEF StartRestore
<1>2. FilesKeep'
  BY <1>1, BackupFacts DEF FilesKeep, Manifested
<1>3. CASE UNCHANGED backup
  BY <1>1, <1>3, BackupStays
<1>4. CASE backup' = [backup EXCEPT ![b] = [NoBackup EXCEPT !.at = "open"]]
  <2>1. PICK r : r = [NoBackup EXCEPT !.at = "open"]
    OBVIOUS
  <2>2. r = [at |-> "open", cut |-> NoFiles, sums |-> NoFiles, todo |-> {}]
    BY <2>1 DEF NoBackup, NoFiles
  <2>3. IsBackup(r) /\ r.at = "open" /\ r.cut = NoFiles /\ r.sums = NoFiles /\ r.todo = {}
    BY <2>2, BackupMade
  <2>4. Phase("open", NoFiles, NoFiles, {})'
    BY DEF Phase
  <2>5. backup' = [backup EXCEPT ![b] = r]
    BY <1>4, <2>1
  <2> QED
    BY <1>2, <2>3, <2>4, <2>5, BackupMoves
<1>5. CASE backup' = [backup EXCEPT ![b] = [NoBackup EXCEPT !.at = "download", !.todo = DOMAIN remote]]
  <2>1. PICK files : files = DOMAIN remote
    OBVIOUS
  <2>2. PICK r : r = [NoBackup EXCEPT !.at = "download", !.todo = files]
    OBVIOUS
  <2>3. r = [at |-> "download", cut |-> NoFiles, sums |-> NoFiles, todo |-> files]
    BY <2>2 DEF NoBackup, NoFiles
  <2>4. IsBackup(r) /\ r.at = "download" /\ r.cut = NoFiles /\ r.sums = NoFiles /\ r.todo = files
    BY <2>3, BackupMade
  <2>5. Phase("download", NoFiles, NoFiles, files)'
    BY <1>1, <2>1 DEF Phase
  <2>6. backup' = [backup EXCEPT ![b] = r]
    BY <1>5, <2>1, <2>2, Zenon
  <2> QED
    BY <1>2, <2>4, <2>5, <2>6, BackupMoves
<1> QED
  BY <1>3, <1>4, <1>5, Zenon DEF StartRestore

LEMMA DownloadKeeps == ASSUME NEW b \in Session, BackupInv(b), Download(b) PROVE BackupInv(b)'
<1>1. PICK cut, sums, awaited : cut = backup[b].cut /\ sums = backup[b].sums /\ awaited = backup[b].todo
  OBVIOUS
<1>2. backup[b].at = "download" /\ UNCHANGED <<remote, cuts, restored>>
  BY DEF Download, Doing
<1>3. PICK f \in awaited : /\ staged' = With(staged, f, remote[f])
                        /\ backup' = [backup EXCEPT ![b] = Onward(b, awaited \ {f}, "download", "open")]
  BY <1>1 DEF Download
<1>4. PICK r : r = Onward(b, awaited \ {f}, "download", "open")
  OBVIOUS
<1>5. PICK at : at = IF awaited \ {f} = {} THEN "open" ELSE "download"
  OBVIOUS
<1>6. IsBackup(r) /\ r.at = at /\ r.cut = cut /\ r.sums = sums /\ r.todo = awaited \ {f}
  BY <1>1, <1>4, <1>5, OnwardIs
<1>7. awaited \subseteq DOMAIN remote /\ cut = NoFiles /\ FilesKeep
  BY <1>1, <1>2, BackupFacts DEF Phase
<1>8. DOMAIN staged' = DOMAIN staged \cup {f} /\ staged'[f] = remote[f] /\ \A g \in DOMAIN staged \ {f} : staged'[g] = staged[g]
  BY <1>3 DEF With
<1>9. FilesKeep'
  BY <1>2, <1>7, <1>8 DEF FilesKeep, Manifested
<1>10. Phase(at, cut, sums, awaited \ {f})'
  BY <1>2, <1>5, <1>7 DEF Phase
<1> QED
  BY <1>3, <1>4, <1>6, <1>9, <1>10, BackupMoves

LEMMA OpenManifestKeeps == ASSUME NEW b \in Session, BackupInv(b), OpenManifest(b) PROVE BackupInv(b)'
<1>1. backup[b].at = "open" /\ UNCHANGED <<staged, remote, cuts, restored>>
  BY DEF OpenManifest, Doing
<1>2. FilesKeep' /\ FilesKeep
  BY <1>1, BackupFacts DEF FilesKeep, Manifested
<1>3. CASE Manifest \notin DOMAIN staged
  <2>1. backup' = [backup EXCEPT ![b] = NoBackup]
    BY <1>3 DEF OpenManifest, Fail
  <2> QED
    BY <1>2, <2>1, BackupRests
<1>4. CASE Manifest \in DOMAIN staged
  <2>1. PICK sums : sums = staged[Manifest]
    OBVIOUS
  <2>2. PICK awaited : awaited = DOMAIN sums
    OBVIOUS
  <2>3. PICK onward : onward = Onward(b, awaited, "check", "end")
    OBVIOUS
  <2>4. PICK r : r = [onward EXCEPT !.sums = sums]
    OBVIOUS
  <2>5. backup' = [backup EXCEPT ![b] = r]
    BY <1>4, <2>1, <2>2, <2>3, <2>4, Zenon DEF OpenManifest
  <2>6. PICK at : at = IF awaited = {} THEN "end" ELSE "check"
    OBVIOUS
  <2>7. IsBackup(onward) /\ onward.at = at /\ onward.cut = backup[b].cut /\ onward.todo = awaited
    BY <2>3, <2>6, OnwardIs
  <2>8. PICK V : onward \in [at : V, cut : V, sums : V, todo : V]
    BY <2>7 DEF IsBackup
  <2>9. r \in [at : V \cup {sums}, cut : V \cup {sums}, sums : V \cup {sums}, todo : V \cup {sums}]
    BY <2>4, <2>8
  <2>10. backup[b].cut = NoFiles
    BY <1>1, BackupFacts DEF Phase
  <2>11. r.at = at /\ r.cut = NoFiles /\ r.sums = sums /\ r.todo = awaited
    BY <2>4, <2>7, <2>8, <2>10
  <2>12. sums \in cuts
    BY <1>2, <1>4, <2>1 DEF FilesKeep, Manifested
  <2>13. NoFiles = PartOf(sums, DOMAIN sums \ awaited)
    <3>1. DOMAIN sums \ awaited = {}
      BY <2>2
    <3> QED
      BY <3>1, NothingYet
  <2>14. Phase(at, NoFiles, sums, awaited)'
    BY <1>1, <2>2, <2>6, <2>12, <2>13 DEF Phase
  <2>15. IsBackup(r)
    BY <2>9 DEF IsBackup
  <2> QED
    BY <1>2, <2>5, <2>11, <2>14, <2>15, BackupMoves
<1> QED
  BY <1>3, <1>4

LEMMA CheckFileKeeps == ASSUME NEW b \in Session, BackupInv(b), CheckFile(b) PROVE BackupInv(b)'
<1>1. PICK cut, sums, awaited, t :
         /\ cut = backup[b].cut /\ sums = backup[b].sums /\ awaited = backup[b].todo /\ t = First(awaited)
  OBVIOUS
<1>2. backup[b].at = "check" /\ UNCHANGED <<staged, remote, cuts, restored>>
  BY DEF CheckFile, Doing
<1>3. FilesKeep' /\ FilesKeep
  BY <1>2, BackupFacts DEF FilesKeep, Manifested
<1>4. CASE t \notin DOMAIN staged \/ staged[t] # sums[t]
  <2>1. backup' = [backup EXCEPT ![b] = NoBackup]
    BY <1>1, <1>4 DEF CheckFile, Fail
  <2> QED
    BY <1>3, <2>1, BackupRests
<1>5. CASE t \in DOMAIN staged /\ staged[t] = sums[t]
  <2>1. PICK r : r = [backup[b] EXCEPT !.at = "read"]
    OBVIOUS
  <2>2. backup' = [backup EXCEPT ![b] = r]
    BY <1>1, <1>5, <2>1 DEF CheckFile
  <2>3. PICK V : backup[b] \in [at : V, cut : V, sums : V, todo : V]
    BY BackupFacts
  <2>4. /\ r.at = "read" /\ r.cut = cut /\ r.sums = sums /\ r.todo = awaited
        /\ r \in [at : V \cup {"read"}, cut : V \cup {"read"}, sums : V \cup {"read"}, todo : V \cup {"read"}]
    BY <1>1, <2>1, <2>3
  <2>5. IsBackup(r)
    BY <2>4 DEF IsBackup
  <2>6. /\ sums \in cuts /\ awaited \subseteq DOMAIN sums /\ awaited # {}
        /\ cut = PartOf(sums, DOMAIN sums \ awaited)
    BY <1>1, <1>2, BackupFacts DEF Phase
  <2>7. Phase("read", cut, sums, awaited)'
    BY <1>1, <1>2, <1>5, <2>6 DEF Phase
  <2> QED
    BY <1>3, <2>2, <2>4, <2>5, <2>7, BackupMoves
<1> QED
  BY <1>4, <1>5

LEMMA ReadFileKeeps == ASSUME NEW b \in Session, BackupInv(b), ReadFile(b) PROVE BackupInv(b)'
<1>1. PICK cut, sums, awaited, t :
         /\ cut = backup[b].cut /\ sums = backup[b].sums /\ awaited = backup[b].todo /\ t = First(awaited)
  OBVIOUS
<1>2. PICK more : more = With(cut, t, staged[t])
  OBVIOUS
<1>3. /\ backup[b].at = "read" /\ UNCHANGED <<staged, remote, cuts, restored>>
      /\ backup' = [backup EXCEPT ![b].at = "ingest", ![b].cut = more]
  BY <1>1, <1>2, Zenon DEF ReadFile, Doing
<1>4. PICK V : backup[b] \in [at : V, cut : V, sums : V, todo : V]
  BY BackupFacts
<1>5. PICK r : r = [backup[b] EXCEPT !.at = "ingest", !.cut = more]
  OBVIOUS
<1>6. r.at = "ingest" /\ r.cut = more /\ r.sums = sums /\ r.todo = awaited
  BY <1>1, <1>4, <1>5
<1>7. PICK W : W = V \cup {"ingest", more}
  OBVIOUS
<1>8. r \in [at : W, cut : W, sums : W, todo : W]
  BY <1>4, <1>5, <1>7
<1>9. IsBackup(r)
  BY <1>8 DEF IsBackup
<1>10. backup' = [backup EXCEPT ![b] = r]
  <2>1. PICK first : first = [backup EXCEPT ![b].at = "ingest"]
    OBVIOUS
  <2>2. backup' = [first EXCEPT ![b].cut = more]
    BY <1>3, <2>1, Zenon
  <2>3. PICK half : half = [backup[b] EXCEPT !.at = "ingest"]
    OBVIOUS
  <2>4. first = [backup EXCEPT ![b] = half]
    BY <2>1, <2>3
  <2>5. r = [half EXCEPT !.cut = more]
    BY <1>5, <2>3, Zenon
  <2>6. DOMAIN backup = Session
    BY DEF BackupInv, BackupsAre
  <2>7. first[b] = half
    BY <2>4, <2>6
  <2>8. backup' = [first EXCEPT ![b] = r]
    BY <2>2, <2>5, <2>7
  <2> QED
    BY <2>4, <2>8
<1>11. /\ sums \in cuts /\ awaited \subseteq DOMAIN sums /\ awaited # {} /\ FilesKeep
       /\ cut = PartOf(sums, DOMAIN sums \ awaited) /\ staged[t] = sums[t]
  BY <1>1, <1>3, BackupFacts DEF Phase
<1>12. t \in awaited
  BY <1>1, <1>11, FirstOf DEF FilesKeep
<1>13. more = PartOf(sums, DOMAIN sums \ (awaited \ {t}))
  <2>1. PICK S : S = DOMAIN sums \ awaited
    OBVIOUS
  <2>2. more = PartOf(sums, S \cup {t})
    BY <1>2, <1>11, <2>1, PartGrows
  <2>3. S \cup {t} = DOMAIN sums \ (awaited \ {t})
    BY <1>11, <1>12, <2>1
  <2> QED
    BY <2>2, <2>3
<1>14. FilesKeep'
  BY <1>3, <1>11 DEF FilesKeep, Manifested
<1>15. Phase("ingest", more, sums, awaited)'
  BY <1>1, <1>3, <1>11, <1>13 DEF Phase
<1> QED
  BY <1>6, <1>9, <1>10, <1>14, <1>15, BackupMoves

LEMMA NextFileKeeps == ASSUME NEW b \in Session, BackupInv(b), NextFile(b) PROVE BackupInv(b)'
<1>1. PICK cut, sums, awaited, t :
         /\ cut = backup[b].cut /\ sums = backup[b].sums /\ awaited = backup[b].todo /\ t = First(awaited)
  OBVIOUS
<1>2. PICK r : r = Onward(b, awaited \ {t}, "check", "end")
  OBVIOUS
<1>3. backup[b].at = "ingest" /\ backup' = [backup EXCEPT ![b] = r] /\ UNCHANGED <<staged, remote, cuts, restored>>
  BY <1>1, <1>2 DEF NextFile, Doing
<1>4. PICK at : at = IF awaited \ {t} = {} THEN "end" ELSE "check"
  OBVIOUS
<1>5. IsBackup(r) /\ r.at = at /\ r.cut = cut /\ r.sums = sums /\ r.todo = awaited \ {t}
  BY <1>1, <1>2, <1>4, OnwardIs
<1>6. /\ sums \in cuts /\ awaited \subseteq DOMAIN sums /\ FilesKeep
      /\ cut = PartOf(sums, DOMAIN sums \ (awaited \ {t}))
  BY <1>1, <1>3, BackupFacts DEF Phase
<1>7. FilesKeep'
  BY <1>3, <1>6 DEF FilesKeep, Manifested
<1>8. Phase(at, cut, sums, awaited \ {t})'
  BY <1>3, <1>4, <1>6 DEF Phase
<1> QED
  BY <1>3, <1>5, <1>7, <1>8, BackupMoves

LEMMA EndRestoreKeeps == ASSUME NEW b \in Session, BackupInv(b), EndRestore(b) PROVE BackupInv(b)'
<1>1. /\ backup[b].at = "end" /\ restored' = restored \cup {backup[b].cut}
      /\ staged' = (IF destination = "remote" THEN NoFiles ELSE staged)
      /\ backup' = [backup EXCEPT ![b] = NoBackup] /\ UNCHANGED <<remote, cuts>>
  BY DEF EndRestore, Doing
<1>2. PICK cut, sums, awaited : cut = backup[b].cut /\ sums = backup[b].sums /\ awaited = backup[b].todo
  OBVIOUS
<1>3. sums \in cuts /\ awaited = {} /\ cut = PartOf(sums, DOMAIN sums \ awaited) /\ FilesKeep
  BY <1>1, <1>2, BackupFacts DEF Phase
<1>4. cut \in cuts
  <2>1. DOMAIN sums \ awaited = DOMAIN sums
    BY <1>3
  <2> QED
    BY <1>3, <2>1 DEF FilesKeep
<1>5. FilesKeep'
  BY <1>1, <1>2, <1>3, <1>4, NothingYet DEF FilesKeep, Manifested
<1> QED
  BY <1>1, <1>5, BackupRests

LEMMA BackupErrorKeeps == ASSUME NEW b \in Session, BackupInv(b), BackupError(b) PROVE BackupInv(b)'
<1>1. backup' = [backup EXCEPT ![b] = NoBackup] /\ UNCHANGED <<staged, remote, cuts, restored>>
  BY DEF BackupError, Fail
<1>2. FilesKeep'
  BY <1>1, BackupFacts DEF FilesKeep, Manifested
<1> QED
  BY <1>1, <1>2, BackupRests
-----------------------------------------------------------------------------
\* Scripts only get shorter, but for the CREATE of the log table.
LEMMA ScriptPut ==
    ASSUME NEW b, ScriptsPlain(b), NEW s \in Session, NEW q, IsSeq(q), s # b => NoBackups(q),
           script' = [script EXCEPT ![s] = q]
    PROVE  ScriptsPlain(b)'
<1>1. PICK V : script \in [Session -> Seq(V)]
  BY DEF ScriptsPlain
<1>2. PICK U : q \in Seq(U)
  BY DEF IsSeq
<1>3. Seq(V) \subseteq Seq(V \cup U) /\ Seq(U) \subseteq Seq(V \cup U)
  OBVIOUS
<1>4. script' \in [Session -> Seq(V \cup U)]
  BY <1>1, <1>2, <1>3
<1>5. script'[s] = q /\ \A u \in Session \ {s} : script'[u] = script[u]
  BY <1>1
<1> QED
  BY <1>4, <1>5 DEF ScriptsPlain

LEMMA ScriptFacts ==
    ASSUME NEW b, ScriptsPlain(b), NEW s \in Session
    PROVE  IsSeq(script[s]) /\ (s # b => NoBackups(script[s]))
BY DEF ScriptsPlain, IsSeq

LEMMA EmptyPlain == IsSeq(<<>>) /\ NoBackups(<<>>)
<1>1. 1 .. Len(<<>>) = {} /\ <<>> \in Seq({})
  OBVIOUS
<1> QED
  BY <1>1 DEF IsSeq, NoBackups

LEMMA TailPlain ==
    ASSUME NEW q, IsSeq(q), q # <<>>
    PROVE  IsSeq(Tail(q)) /\ (NoBackups(q) => NoBackups(Tail(q)))
<1>1. PICK S : q \in Seq(S)
  BY DEF IsSeq
<1>2. /\ Tail(q) \in Seq(S) /\ Len(q) \in Nat \ {0}
      /\ \A i \in 1 .. Len(Tail(q)) : i + 1 \in 1 .. Len(q) /\ Tail(q)[i] = q[i + 1]
  BY <1>1
<1> QED
  BY <1>2 DEF IsSeq, NoBackups

LEMMA StopPlain == ASSUME NEW b, ScriptsPlain(b), NEW s \in Session, Stop(s) PROVE ScriptsPlain(b)'
BY EmptyPlain, ScriptPut DEF Stop

LEMMA AdvancePlain ==
    ASSUME NEW b, ScriptsPlain(b), NEW s \in Session, Advance(s), script[s] # <<>>
    PROVE  ScriptsPlain(b)'
<1>1. PICK q : q = Tail(script[s])
  OBVIOUS
<1>2. IsSeq(q) /\ (s # b => NoBackups(q))
  BY <1>1, ScriptFacts, TailPlain
<1>3. script' = [script EXCEPT ![s] = q]
  BY <1>1 DEF Advance
<1> QED
  BY <1>2, <1>3, ScriptPut

LEMMA SamePlain == ASSUME NEW b, ScriptsPlain(b), UNCHANGED script PROVE ScriptsPlain(b)'
BY DEF ScriptsPlain

LEMMA EnsurePlain == ASSUME NEW b, ScriptsPlain(b), NEW s \in Session, EnsureLog(s) PROVE ScriptsPlain(b)'
<1>1. script[s] # <<>> /\ IsSeq(script[s]) /\ (s # b => NoBackups(script[s]))
  BY ScriptFacts DEF EnsureLog, Heading
<1>2. PICK rest : rest = Tail(script[s])
  OBVIOUS
<1>3. IsSeq(rest) /\ (s # b => NoBackups(rest))
  BY <1>1, <1>2, TailPlain
<1>4. PICK create : create = [do |-> "create", cell |-> LogTable, val |-> 0, new |-> 0]
  OBVIOUS
<1>5. PICK S : rest \in Seq(S)
  BY <1>3 DEF IsSeq
<1>6. PICK T : T = S \cup {create}
  OBVIOUS
<1>7. <<create>> \in Seq(T) /\ Len(<<create>>) = 1 /\ <<create>>[1] = create /\ rest \in Seq(T)
  BY <1>5, <1>6
<1>8. \A p, q \in Seq(T) : p \o q \in Seq(T) /\ Len(p \o q) = Len(p) + Len(q)
                           /\ \A i \in 1 .. Len(p \o q) : (p \o q)[i] = IF i <= Len(p) THEN p[i] ELSE q[i - Len(p)]
  OBVIOUS
<1>9. PICK q : q = <<create>> \o rest
  OBVIOUS
<1>10. /\ q \in Seq(T) /\ Len(q) = 1 + Len(rest)
       /\ \A i \in 1 .. Len(q) : q[i] = IF i <= 1 THEN <<create>>[i] ELSE rest[i - 1]
  BY <1>7, <1>8, <1>9
<1>11. IsSeq(q) /\ (s # b => NoBackups(q))
  <2>1. IsSeq(q)
    BY <1>10 DEF IsSeq
  <2>2. ASSUME s # b, NEW i \in 1 .. Len(q) PROVE q[i].do \notin {"backup", "restore"}
    <3>0. Len(rest) \in Nat
      BY <1>5
    <3>1. CASE i = 1
      BY <1>4, <1>7, <1>10, <3>1
    <3>2. CASE i # 1
      <4>1. i - 1 \in 1 .. Len(rest) /\ q[i] = rest[i - 1]
        BY <1>10, <3>0, <3>2
      <4> QED
        BY <1>3, <2>2, <4>1 DEF NoBackups
    <3> QED
      BY <3>1, <3>2
  <2> QED
    BY <2>1, <2>2 DEF NoBackups
<1>12. CASE script' = [script EXCEPT ![s] = q]
  BY <1>11, <1>12, ScriptPut
<1>13. <<>> \o rest = rest
  BY <1>5
<1>14. CASE script' = [script EXCEPT ![s] = rest]
  BY <1>3, <1>14, ScriptPut
<1>15. CASE mem[LogTable] = 0
  BY <1>2, <1>4, <1>9, <1>12, <1>15 DEF EnsureLog
<1>16. CASE mem[LogTable] # 0
  <2>1. script' = [script EXCEPT ![s] = <<>> \o rest]
    BY <1>2, <1>16 DEF EnsureLog
  <2> QED
    BY <1>13, <1>14, <2>1
<1> QED
  BY <1>15, <1>16

LEMMA LookUpPlain == ASSUME NEW b, ScriptsPlain(b), NEW s \in Session, LookUp(s) PROVE ScriptsPlain(b)'
<1>1. script[s] # <<>> /\ IsSeq(script[s]) /\ (s # b => NoBackups(script[s]))
  BY ScriptFacts DEF LookUp, Heading
<1>2. CASE Advance(s)
  BY <1>1, <1>2, AdvancePlain
<1>3. CASE script' = [script EXCEPT ![s] = SubSeq(@, 5, Len(@))]
  <2>1. PICK S, old : old = script[s] /\ old \in Seq(S)
    BY <1>1 DEF IsSeq
  <2>2. PICK q : q = SubSeq(old, 5, Len(old))
    OBVIOUS
  <2>3. Len(old) \in Nat
    BY <2>1
  <2>4. q \in Seq(S) /\ (Len(q) = IF 5 <= Len(old) THEN Len(old) - 4 ELSE 0)
        /\ \A i \in 1 .. Len(q) : i + 4 \in 1 .. Len(old) /\ q[i] = old[i + 4]
    BY <2>1, <2>2, <2>3
  <2>5. IsSeq(q) /\ (s # b => NoBackups(q))
    BY <1>1, <2>1, <2>4 DEF IsSeq, NoBackups
  <2>6. script' = [script EXCEPT ![s] = q]
    BY <1>3, <2>1, <2>2
  <2> QED
    BY <2>5, <2>6, ScriptPut
<1> QED
  BY <1>2, <1>3 DEF LookUp

LEMMA EnginePlain == ASSUME NEW b, ScriptsPlain(b), NEW s \in Session, EngineStep(s) PROVE ScriptsPlain(b)'
<1>1. CASE Execute(s)
  BY <1>1, StopPlain, AdvancePlain DEF Execute
<1>2. CASE Mark(s) \/ RecordOrApply(s) \/ StoreWrite(s) \/ IngestError(s) \/ Install(s) \/ ApplyLog(s)
  <2>1. UNCHANGED script
    BY <1>2, Zenon DEF Mark, RecordOrApply, StoreWrite, IngestError, Install, ApplyLog
  <2> QED
    BY <2>1, SamePlain
<1>3. CASE CommitError(s) \/ Restore(s) \/ VersionCall(s) \/ TakeDirty(s) \/ ExportDirty(s) \/ LoadCommit(s)
  BY <1>3, SamePlain DEF CommitError, Restore, VersionCall, TakeDirty, ExportDirty, LoadCommit, engineVars
<1>4. CASE StoreError(s)
  BY <1>4, StopPlain DEF StoreError
<1>5. CASE Begin(s) \/ CommitTxn(s) \/ Rollback(s)
  BY <1>5, StopPlain, AdvancePlain DEF Begin, CommitTxn, Rollback, Heading
<1>6. CASE EnsureLog(s) \/ LookUp(s)
  BY <1>6, EnsurePlain, LookUpPlain
<1>7. CASE CallVersion(s)
  BY <1>7, AdvancePlain DEF CallVersion
<1>8. CASE Return(s)
  BY <1>8, StopPlain, SamePlain DEF Return
<1> QED
  BY <1>1, <1>2, <1>3, <1>4, <1>5, <1>6, <1>7, <1>8 DEF EngineStep

LEMMA BackupPlain ==
    ASSUME NEW b, ScriptsPlain(b), NEW s \in Session, BackupStep(s) \/ BackupFailure(s) \/ ReadStep(s)
    PROVE  ScriptsPlain(b)'
<1>1. CASE StartSnapshot(s) \/ StartRestore(s)
  BY <1>1, AdvancePlain DEF StartSnapshot, StartRestore, Heading
<1>2. CASE UNCHANGED script
  BY <1>2, SamePlain
<1>3. StartSnapshot(s) \/ StartRestore(s) \/ UNCHANGED script
  <2>1. WriteFile(s) \/ HashFile(s) \/ WriteManifest(s) \/ Upload(s) \/ EndUpload(s) => UNCHANGED script
    BY Zenon DEF WriteFile, HashFile, WriteManifest, Upload, EndUpload
  <2>2. Download(s) \/ OpenManifest(s) \/ CheckFile(s) \/ NextFile(s) \/ EndRestore(s) => UNCHANGED script
    BY Zenon DEF Download, OpenManifest, CheckFile, NextFile, EndRestore, Fail
  <2>3. BackupError(s) \/ ReadFile(s) => UNCHANGED script
    BY Zenon DEF BackupError, Fail, ReadFile, IngestTable
  <2> QED
    BY <2>1, <2>2, <2>3 DEF BackupStep, BackupFailure, ReadStep
<1> QED
  BY <1>1, <1>2, <1>3

LEMMA CrashPlain ==
    ASSUME NEW b, ScriptsPlain(b), script' = [s \in Session |-> IF job[s] = Resting /\ ~Calling(s) THEN script[s] ELSE <<>>]
    PROVE  ScriptsPlain(b)'
<1>1. PICK V : script \in [Session -> Seq(V)]
  BY DEF ScriptsPlain
<1>2. script' \in [Session -> Seq(V)]
  BY <1>1
<1>3. \A s \in Session : script'[s] \in {script[s], <<>>}
  OBVIOUS
<1> QED
  BY <1>2, <1>3, ScriptFacts, EmptyPlain DEF ScriptsPlain

\* Only the one session works at backups.
LEMMA OneWorks ==
    ASSUME NEW b, BackupInv(b), ScriptsPlain(b), NEW s \in Session, BackupStep(s) \/ BackupFailure(s) \/ ReadStep(s)
    PROVE  s = b
<1> SUFFICES ASSUME s # b PROVE FALSE
  OBVIOUS
<1>1. backup[s].at = "rest"
  BY DEF BackupInv, NoBackup
<1>2. (StartSnapshot(s) \/ StartRestore(s))
  BY <1>1 DEF BackupStep, BackupFailure, ReadStep, WriteFile, HashFile, WriteManifest, Upload, EndUpload, Download,
         OpenManifest, CheckFile, NextFile, EndRestore, BackupError, ReadFile, Doing
<1>3. script[s] # <<>> /\ Head(script[s]).do \in {"backup", "restore"}
  BY <1>2 DEF StartSnapshot, StartRestore, Heading
<1>4. PICK S : script[s] \in Seq(S)
  BY ScriptFacts DEF IsSeq
<1>5. 1 \in 1 .. Len(script[s]) /\ Head(script[s]) = script[s][1]
  BY <1>3, <1>4
<1> QED
  BY <1>3, <1>5, ScriptFacts DEF NoBackups

LEMMA BackupKeeps ==
    ASSUME NEW b, BackupInv(b), ScriptsPlain(b), NEW s \in Session, BackupStep(s) \/ BackupFailure(s) \/ ReadStep(s)
    PROVE  BackupInv(b)' /\ ScriptsPlain(b)'
<1>1. s = b
  BY OneWorks
<1>2. BackupInv(s)'
  BY <1>1, StartSnapshotKeeps, WriteFileKeeps, HashFileKeeps, WriteManifestKeeps, UploadKeeps, EndUploadKeeps,
     StartRestoreKeeps, DownloadKeeps, OpenManifestKeeps, CheckFileKeeps, ReadFileKeeps, NextFileKeeps,
     EndRestoreKeeps, BackupErrorKeeps DEF BackupStep, BackupFailure, ReadStep
<1> QED
  BY <1>1, <1>2, BackupPlain

\* After a restart no backup is under way; the files are as they were.
LEMMA BackupsGone ==
    ASSUME NEW b, BackupInv(b), backup' = [s \in Session |-> NoBackup], UNCHANGED <<staged, remote, cuts, restored>>
    PROVE  BackupInv(b)'
<1>1. BackupsAre(backup')
  <2>1. NoBackup \in [at : {"rest", <<>>, {}}, cut : {"rest", <<>>, {}}, sums : {"rest", <<>>, {}}, todo : {"rest", <<>>, {}}]
    BY DEF NoBackup
  <2>2. backup' \in [Session -> [at : {"rest", <<>>, {}}, cut : {"rest", <<>>, {}}, sums : {"rest", <<>>, {}}, todo : {"rest", <<>>, {}}]]
    BY <2>1
  <2> QED
    BY <2>2 DEF BackupsAre
<1>2. FilesKeep'
  BY DEF BackupInv, FilesKeep, Manifested
<1>3. \A s \in Session : backup'[s] = NoBackup
  OBVIOUS
<1>4. b \in Session => Phase(backup[b].at, backup[b].cut, backup[b].sums, backup[b].todo)'
  BY <1>3 DEF Phase, NoBackup
<1> QED
  BY <1>1, <1>2, <1>3, <1>4 DEF BackupInv
-----------------------------------------------------------------------------
(***************************************************************************)
(* The process (Database): what holds of a component holds whatever the    *)
(* others do.                                                              *)
(***************************************************************************)
DatabaseInv == GraphInv /\ SyncInv /\ ConfigInv

LEMMA DatabaseStart == Init => DatabaseInv
<1> SUFFICES ASSUME Init PROVE DatabaseInv
  OBVIOUS
<1>1. PICK w : Start(w)
  BY DEF Init
<1>2. EngineInit(w) /\ ConfigInit(w.configs)
  BY <1>1 DEF Start
<1>3. VersionInit
  BY <1>2 DEF EngineInit
<1> QED
  BY <1>2, <1>3, GraphStart, SyncStart, ConfigStart DEF DatabaseInv

LEMMA GraphSame == GraphInv /\ UNCHANGED versionVars => GraphInv'
BY DEF versionVars, GraphInv, GraphTypes, TasksAre, TargetsExist, OneAtATime, Overlapped, Extending, CommitExtends,
       Busy, At, LandedReach

LEMMA EngineGraph == ASSUME GraphInv, NEW s \in Session, EngineStep(s) PROVE GraphInv'
<1>1. CASE CallVersion(s)
  <2>1. PICK op, branch, id, root : Call(s, op, branch, id, root) /\ branch \in Branch
    <3>1. (IF Head(script[s]).cell = OtherBranch THEN OtherBranch ELSE Main) \in Branch
      BY DEF Branch
    <3> QED
      BY <1>1, <3>1 DEF CallVersion
  <2> QED
    BY <2>1, CallKeeps
<1>2. CASE VersionCall(s)
  BY <1>2, VersionStepKeeps DEF VersionCall
<1>3. CASE Return(s)
  <2>1. s \in Busy
    BY <1>3 DEF Return, Busy, At
  <2> QED
    BY <1>3, <2>1, LeaveKeeps DEF Return, Leave
<1>4. CASE UNCHANGED versionVars
  BY <1>4, GraphSame
<1>5. CallVersion(s) \/ VersionCall(s) \/ Return(s) \/ UNCHANGED versionVars
  <2>1. Execute(s) \/ Mark(s) \/ RecordOrApply(s) \/ StoreWrite(s) \/ StoreError(s) => UNCHANGED versionVars
    BY Zenon DEF Execute, Mark, RecordOrApply, StoreWrite, StoreError
  <2>2. IngestError(s) \/ Install(s) \/ Begin(s) \/ CommitTxn(s) \/ ApplyLog(s) => UNCHANGED versionVars
    BY Zenon DEF IngestError, Install, Begin, CommitTxn, ApplyLog
  <2>3. CommitError(s) \/ Rollback(s) \/ Restore(s) \/ EnsureLog(s) \/ LookUp(s) => UNCHANGED versionVars
    BY Zenon DEF CommitError, Rollback, Restore, EnsureLog, LookUp
  <2>4. TakeDirty(s) \/ ExportDirty(s) \/ LoadCommit(s) => UNCHANGED versionVars
    BY Zenon DEF TakeDirty, ExportDirty, LoadCommit
  <2> QED
    BY <2>1, <2>2, <2>3, <2>4 DEF EngineStep
<1> QED
  BY <1>1, <1>2, <1>3, <1>4, <1>5

LEMMA EngineSync == ASSUME SyncInv, GraphInv, NEW s \in Session, EngineStep(s) PROVE SyncInv'
<1>1. CASE Execute(s) \/ Mark(s) \/ RecordOrApply(s) \/ StoreWrite(s) \/ StoreError(s)
  BY <1>1, ExecuteKeeps, MarkKeeps, RecordKeeps, StoreWriteKeeps, StoreErrorKeeps
<1>2. CASE IngestError(s) \/ Install(s) \/ Begin(s) \/ CommitTxn(s) \/ ApplyLog(s)
  BY <1>2, IngestErrorKeeps, InstallKeeps, BeginKeeps, CommitTxnKeeps, ApplyLogKeeps
<1>3. CASE CommitError(s) \/ Rollback(s) \/ Restore(s) \/ EnsureLog(s) \/ LookUp(s)
  BY <1>3, CommitErrorKeeps, RollbackKeeps, RestoreKeeps, EnsureKeeps
<1>4. CASE CallVersion(s) \/ VersionCall(s) \/ Return(s)
  BY <1>4, CallVersionSync, VersionCallSync, ReturnSync
<1>5. CASE TakeDirty(s) \/ ExportDirty(s) \/ LoadCommit(s)
  BY <1>5, TakeKeeps, ExportKeeps, LoadKeepsSync
<1> QED
  BY <1>1, <1>2, <1>3, <1>4, <1>5 DEF EngineStep

LEMMA BackupOfEngine ==
    ASSUME SyncInv, GraphInv, NEW s \in Session, BackupStep(s) \/ BackupFailure(s) \/ ReadStep(s)
    PROVE  SyncInv' /\ GraphInv'
<1>1. CASE BackupStep(s) \/ BackupFailure(s)
  <2>1. UNCHANGED <<mem, txn, dirty, job, mirror, unmarked, task>> /\ UNCHANGED versionVars
    BY <1>1 DEF BackupStep, BackupFailure, versionVars, engineHistory
  <2> QED
    BY <2>1, SyncStays, GraphSame
<1>2. CASE ReadStep(s)
  <2>1. PICK t, image : IngestTable(s, t, image)
    BY <1>2 DEF ReadStep, ReadFile
  <2>2. UNCHANGED versionVars
    BY <2>1 DEF IngestTable
  <2> QED
    BY <2>1, <2>2, IngestSync, GraphSame
<1> QED
  BY <1>1, <1>2

LEMMA CrashGraph == Crash => GraphInv'
<1> SUFFICES ASSUME Crash PROVE GraphInv'
  OBVIOUS
<1>1. VersionInit'
  BY DEF Crash, VersionInit
<1> QED
  BY <1>1, GraphStart, PTL

LEMMA DatabaseStep == DatabaseInv /\ [Next]_vars => DatabaseInv'
<1> SUFFICES ASSUME DatabaseInv, [Next]_vars PROVE DatabaseInv'
  OBVIOUS
<1>0. GraphInv /\ SyncInv /\ ConfigInv
  BY DEF DatabaseInv
<1>1. ASSUME NEW s \in Session, SessionStep(s) PROVE DatabaseInv'
  <2>1. EngineStep(s) /\ UNCHANGED configVars
    BY <1>1 DEF SessionStep
  <2> QED
    BY <1>0, <2>1, EngineGraph, EngineSync, ConfigKeep DEF DatabaseInv
<1>2. ASSUME NEW s \in Session, SessionBackup(s) PROVE DatabaseInv'
  <2>1. (BackupStep(s) \/ BackupFailure(s) \/ ReadStep(s)) /\ UNCHANGED configVars
    BY <1>2 DEF SessionBackup
  <2> QED
    BY <1>0, <2>1, BackupOfEngine, ConfigKeep DEF DatabaseInv
<1>3. CASE UNCHANGED <<mem, txn, dirty, job, mirror, unmarked, task>> /\ UNCHANGED versionVars
           /\ (ConfigStep \/ UNCHANGED configVars)
  BY <1>0, <1>3, SyncStays, GraphSame, ConfigKeep DEF DatabaseInv
<1>4. CASE \E f \in Refresher : OlapQuery(f)
  BY <1>3, <1>4 DEF OlapQuery, OlapStep, versionVars, engineHistory
<1>5. CASE Replicate
  BY <1>3, <1>5 DEF Replicate, ReplicaStep, versionVars, engineVars, engineHistory
<1>6. CASE Configure
  BY <1>3, <1>6 DEF Configure, versionVars, engineVars, engineHistory
<1>7. CASE Restart
  BY <1>0, <1>7, CrashGraph, CrashSync, ConfigKeep DEF Restart, DatabaseInv
<1>8. CASE UNCHANGED vars
  BY <1>3, <1>8 DEF vars, versionVars, engineVars, engineHistory
<1> QED
  BY <1>1, <1>2, <1>4, <1>5, <1>6, <1>7, <1>8 DEF Next

LEMMA DatabaseInvHolds == Spec => []DatabaseInv
BY DatabaseStart, DatabaseStep, PTL DEF Spec

\* Calls of the version control lock each other out in one way only (commit_graph.rs): a commit
\* that has inserted and a head that has locked the branches wait for each other.
THEOREM LocksHaveOneCycle == Spec => []OneLockCycle
BY DatabaseInvHolds, OneCycleOnly, PTL

\* A commit that was recorded on a branch stays in its history, unless calls overlapped or a
\* branch was moved off its line (commit_graph.rs), whatever sessions, restarts and backups do.
THEOREM RecordedCommitsReachable == Spec => []CommitsStayReachable
<1>1. DatabaseInv => CommitsStayReachable
  BY GraphReaches DEF DatabaseInv
<1> QED
  BY <1>1, DatabaseInvHolds, PTL

\* The sections of the admin file that the watcher has seen are in force (admin.rs, the schedule
\* and the sources of graphql's admin resolvers), but for those somebody set since.
THEOREM SeenFilesInForce == Spec => []FileInForce
<1>1. DatabaseInv => FileInForce
  BY ConfigInForce DEF DatabaseInv
<1> QED
  BY <1>1, DatabaseInvHolds, PTL

\* A row that the mirror has not got as it is will be exported by the next aruaru_commit: each
\* session's statements mark what they change (engine.rs, persist_row), for any workloads.
THEOREM MirrorIsOwedNothing == Spec => []MirrorCatchesUp
<1>1. DatabaseInv => MirrorCatchesUp
  BY SyncMarks DEF DatabaseInv
<1> QED
  BY <1>1, DatabaseInvHolds, PTL
-----------------------------------------------------------------------------
BackupsInv == \E b : BackupInv(b) /\ ScriptsPlain(b)

LEMMA BackupsStart == OneBackupSession /\ Init => BackupsInv
<1> SUFFICES ASSUME OneBackupSession, Init PROVE BackupsInv
  OBVIOUS
<1>1. ASSUME NEW w, Start(w), NEW b, \E V : w.script \in [Session -> Seq(V)],
             \A s \in Session \ {b} : NoBackups(w.script[s])
      PROVE  BackupsInv
  <2>1. /\ backup = [s \in Session |-> NoBackup] /\ staged = NoFiles /\ remote = NoFiles /\ cuts = {} /\ restored = {}
        /\ script = w.script
    BY <1>1 DEF Start, BackupInit, EngineInit
  <2>2. BackupsAre(backup)
    <3>1. PICK V : V = {"rest", <<>>, {}}
      OBVIOUS
    <3>2. NoBackup \in [at : V, cut : V, sums : V, todo : V]
      BY <3>1 DEF NoBackup
    <3>3. backup \in [Session -> [at : V, cut : V, sums : V, todo : V]]
      BY <2>1, <3>2
    <3> QED
      BY <3>3 DEF BackupsAre
  <2>3. FilesKeep
    BY <2>1, NothingYet DEF FilesKeep, Manifested
  <2>4. \A s \in Session : backup[s] = NoBackup
    BY <2>1
  <2>5. b \in Session => Phase(backup[b].at, backup[b].cut, backup[b].sums, backup[b].todo)
    BY <2>4 DEF Phase, NoBackup
  <2>6. BackupInv(b)
    BY <2>2, <2>3, <2>4, <2>5 DEF BackupInv
  <2>7. ScriptsPlain(b)
    BY <1>1, <2>1 DEF ScriptsPlain
  <2> QED
    BY <2>6, <2>7 DEF BackupsInv
<1>2. CASE \E w \in Workloads : Start(w)
  <2>1. PICK w \in Workloads : Start(w)
    BY <1>2
  <2> QED
    BY <1>1, <2>1 DEF OneBackupSession
<1>3. CASE Start(Nothing)
  <2>1. PICK nothing : nothing = Nothing
    OBVIOUS
  <2>2. nothing.script = [s \in Session |-> <<>>]
    BY <2>1 DEF Nothing
  <2>3. nothing.script \in [Session -> Seq({})]
    BY <2>2
  <2>4. \A s \in Session : NoBackups(nothing.script[s])
    BY <2>2, EmptyPlain
  <2> QED
    BY <1>1, <1>3, <2>1, <2>3, <2>4
<1> QED
  BY <1>2, <1>3 DEF Init

LEMMA BackupsStep == BackupsInv /\ [Next]_vars => BackupsInv'
<1> SUFFICES ASSUME BackupsInv, [Next]_vars PROVE BackupsInv'
  OBVIOUS
<1>0. PICK b : BackupInv(b) /\ ScriptsPlain(b)
  BY DEF BackupsInv
<1>1. ASSUME NEW s \in Session, SessionStep(s) PROVE BackupsInv'
  <2>1. EngineStep(s) /\ UNCHANGED <<backup, staged, remote, cuts, restored>>
    BY <1>1 DEF SessionStep, backupVars
  <2>2. BackupInv(b)' /\ ScriptsPlain(b)'
    BY <1>0, <2>1, EnginePlain, BackupStays
  <2> QED
    BY <2>2 DEF BackupsInv
<1>2. ASSUME NEW s \in Session, SessionBackup(s) PROVE BackupsInv'
  <2>1. BackupStep(s) \/ BackupFailure(s) \/ ReadStep(s)
    BY <1>2 DEF SessionBackup
  <2>2. BackupInv(b)' /\ ScriptsPlain(b)'
    BY <1>0, <2>1, BackupKeeps
  <2> QED
    BY <2>2 DEF BackupsInv
<1>3. CASE UNCHANGED <<backup, staged, remote, cuts, restored, script>>
  <2>1. BackupInv(b)' /\ ScriptsPlain(b)'
    BY <1>0, <1>3, SamePlain, BackupStays
  <2> QED
    BY <2>1 DEF BackupsInv
<1>4. CASE \E f \in Refresher : OlapQuery(f)
  BY <1>3, <1>4 DEF OlapQuery, OlapStep, backupVars
<1>5. CASE Replicate
  BY <1>3, <1>5 DEF Replicate, ReplicaStep, backupVars, engineVars
<1>6. CASE Configure
  BY <1>3, <1>6 DEF Configure, backupVars, engineVars
<1>7. CASE Restart
  <2>1. /\ backup' = [s \in Session |-> NoBackup] /\ UNCHANGED <<staged, remote, cuts, restored>>
        /\ script' = [s \in Session |-> IF job[s] = Resting /\ ~Calling(s) THEN script[s] ELSE <<>>]
    BY <1>7 DEF Restart, Crash
  <2>2. BackupInv(b)' /\ ScriptsPlain(b)'
    BY <1>0, <2>1, CrashPlain, BackupsGone
  <2> QED
    BY <2>2 DEF BackupsInv
<1>8. CASE UNCHANGED vars
  BY <1>3, <1>8 DEF vars, backupVars, engineVars
<1> QED
  BY <1>1, <1>2, <1>4, <1>5, <1>6, <1>7, <1>8 DEF Next

\* A restore that succeeds brings in all the tables as one snapshot held them (aruaru-backup,
\* restore), if one session makes the backups of an id: whatever other sessions write meanwhile,
\* and although snapshots before it, uploads that failed and crashes have left files.
THEOREM RestoresAreSnapshots == OneBackupSession /\ Spec => []RestoreIsSnapshot
<1>1. BackupsInv => RestoreIsSnapshot
  BY DEF BackupsInv, BackupInv, FilesKeep, RestoreIsSnapshot
<1>2. CASE OneBackupSession
  <2>1. Init => BackupsInv
    BY <1>2, BackupsStart
  <2> QED
    BY <1>1, <2>1, BackupsStep, PTL DEF Spec
<1> QED
  BY <1>2
=============================================================================
