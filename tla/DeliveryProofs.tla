--------------------------- MODULE DeliveryProofs ---------------------------
(***************************************************************************)
(* The invariants of the write path and of the tasks that hand something   *)
(* on (RaftApply, SnapshotPairing, ReplicatedWrites, KeyGuardian,          *)
(* DualMirror, Registry, EncryptedStream), each for the steps of its own   *)
(* component; ServicesProofs puts them side by side.                       *)
(***************************************************************************)
EXTENDS SnapshotPairing, ReplicatedWrites, KeyGuardian, DualMirror, Registry, EncryptedStream,
        Integers, FiniteSetTheorems, SequenceTheorems, WellFoundedInduction, TLAPS

-----------------------------------------------------------------------------
(***************************************************************************)
(* The apply pipeline (RaftApply, SnapshotPairing): the applier sees no    *)
(* gap, and a waiting writer finds its result.                             *)
(***************************************************************************)
Handed(i) == \E t \in Task : <<t, i>> \in applied

\* The result of entry i is there, or its writer has taken it.
Resulted(i) == i \in pending \/ \E w \in Writer : pc[w] = "done" /\ idx[w] = i

Settled(i) == Handed(i) /\ Resulted(i)

\* The driver only ticks.
DriverTicks == pc[Driver] \notin {"propose", "commit", "wait", "done"}

\* set_applied comes after every entry of the batch was applied and answered.
AppliedIsSettled == \A i \in 1 .. last_applied : Settled(i)

\* Before a batch, and in it up to next, everything is settled.
BatchIsSettled ==
    \A t \in Task :
        /\ pc[t] \in {"apply", "insert"} =>
             /\ next[t] \in 1 .. last[t]
             /\ \A i \in 1 .. next[t] - 1 : Settled(i)
        /\ pc[t] = "insert" => Handed(next[t])
        /\ pc[t] \in {"record", "publish"} => \A i \in 1 .. last[t] : Settled(i)

\* A writer's entry is committed before it copies, and in the batch it copies unless
\* another task has settled it.
WriterIsServed ==
    \A w \in Writer :
        /\ pc[w] # "propose" => idx[w] >= 1
        /\ pc[w] \notin {"propose", "commit"} => idx[w] <= commit_index
        /\ pc[w] \in {"apply", "insert", "record", "publish"} => idx[w] <= last[w]
        /\ pc[w] = "wait" => Settled(idx[w])

IndicesAreOwn == \A v, w \in Writer : idx[v] = idx[w] /\ idx[v] # 0 => v = w

ApplyInv ==
    /\ TypeOK
    /\ DriverTicks
    /\ AppliedIsSettled
    /\ BatchIsSettled
    /\ WriterIsServed
    /\ IndicesAreOwn
    /\ NoGaps

-----------------------------------------------------------------------------
\* Nothing has happened at the start.
LEMMA ApplyStart == Init => ApplyInv
<1> SUFFICES ASSUME Init PROVE ApplyInv
  OBVIOUS
<1>1. TypeOK
  BY DEF Init, TypeOK, Place
<1>2. \A t \in Task : pc[t] = IF t = Driver THEN "count" ELSE "propose"
  BY DEF Init
<1>3. DriverTicks
  BY <1>2 DEF DriverTicks, Task
<1>4. BatchIsSettled
  BY <1>2 DEF BatchIsSettled
<1>5. WriterIsServed
  BY <1>2, TaskAssumption DEF WriterIsServed, Task
<1>6. AppliedIsSettled /\ IndicesAreOwn /\ NoGaps
  BY DEF Init, AppliedIsSettled, IndicesAreOwn, NoGaps, Task
<1> QED
  BY <1>1, <1>3, <1>4, <1>5, <1>6 DEF ApplyInv

\* What is settled stays so when results are only added, taken by their writer, or
\* left alone.
LEMMA SettledStays ==
    ASSUME applied \subseteq applied',
           \A i \in pending : i \in pending' \/ \E w \in Writer : pc'[w] = "done" /\ idx'[w] = i,
           \A w \in Writer : pc[w] = "done" => pc'[w] = "done" /\ idx'[w] = idx[w]
    PROVE  \A i : /\ Settled(i) => Settled(i)'
                  /\ Handed(i) => Handed(i)'
BY DEF Settled, Handed, Resulted

\* propose.
LEMMA ProposeInv ==
    ASSUME ApplyInv, NEW t \in Task, Propose(t) PROVE ApplyInv'
<1>1. t \in Writer
  BY DEF ApplyInv, DriverTicks, Propose, Task
<1>2. TypeOK'
  BY DEF ApplyInv, TypeOK, Propose, Goto, Place
<1>3. \A i : (Settled(i) => Settled(i)') /\ (Handed(i) => Handed(i)')
  BY SettledStays DEF Propose, Goto, ApplyInv, TypeOK
<1>4. DriverTicks'
  BY <1>1, TaskAssumption DEF Propose, Goto, ApplyInv, DriverTicks, TypeOK, Task
<1>5. AppliedIsSettled'
  BY <1>3 DEF Propose, ApplyInv, AppliedIsSettled
<1>6. BatchIsSettled'
  BY <1>3 DEF Propose, Goto, ApplyInv, BatchIsSettled, TypeOK
<1>7. WriterIsServed'
  BY <1>3 DEF Propose, Goto, ApplyInv, WriterIsServed, TypeOK, Task
<1>8. IndicesAreOwn'
  BY DEF Propose, ApplyInv, IndicesAreOwn, TypeOK, Task
<1>9. NoGaps'
  BY DEF Propose, ApplyInv, NoGaps
<1> QED
  BY <1>2, <1>4, <1>5, <1>6, <1>7, <1>8, <1>9 DEF ApplyInv

\* try_commit_to.
LEMMA TryCommitInv ==
    ASSUME ApplyInv, NEW t \in Task, TryCommit(t) PROVE ApplyInv'
<1>1. t \in Writer
  BY DEF ApplyInv, DriverTicks, TryCommit, Task
<1>2. /\ commit_index' \in 0 .. last_index
      /\ commit_index' >= commit_index
      /\ commit_index' >= idx[t]
  BY DEF TryCommit, CommitTo, ApplyInv, TypeOK
<1>3. TypeOK'
  BY <1>2 DEF ApplyInv, TypeOK, TryCommit, Goto, Place, taskVars
<1>4. \A i : (Settled(i) => Settled(i)') /\ (Handed(i) => Handed(i)')
  BY SettledStays DEF TryCommit, Goto, ApplyInv, TypeOK, taskVars
<1>5. DriverTicks'
  BY <1>1, TaskAssumption DEF TryCommit, Goto, ApplyInv, DriverTicks, TypeOK, Task
<1>6. AppliedIsSettled'
  BY <1>4 DEF TryCommit, ApplyInv, AppliedIsSettled
<1>7. BatchIsSettled'
  BY <1>4 DEF TryCommit, Goto, ApplyInv, BatchIsSettled, TypeOK, taskVars
<1>8. WriterIsServed'
  BY <1>2, <1>4 DEF TryCommit, Goto, ApplyInv, WriterIsServed, TypeOK, Task, taskVars
<1>9. IndicesAreOwn' /\ NoGaps'
  BY DEF TryCommit, ApplyInv, IndicesAreOwn, NoGaps, taskVars
<1> QED
  BY <1>3, <1>5, <1>6, <1>7, <1>8, <1>9 DEF ApplyInv

\* maybe_commit, its read and its write.
LEMMA MaybeCommitInv ==
    ASSUME ApplyInv, NEW t \in Task, CountMatches(t) \/ CommitMajority(t) PROVE ApplyInv'
<1>1. /\ commit_index' \in 0 .. last_index
      /\ commit_index' >= commit_index
  BY DEF CountMatches, CommitMajority, CommitTo, logVars, ApplyInv, TypeOK
<1>2. TypeOK'
  <2>1. pc' \in [Task -> Place]
    BY DEF CountMatches, CommitMajority, Goto, ApplyInv, TypeOK, Place
  <2>2. seen' \in [Task -> 0 .. last_index]
    BY DEF CountMatches, CommitMajority, taskVars, ApplyInv, TypeOK
  <2>3. UNCHANGED <<last_index, last_applied, applied_index, pending, applied, idx, next, last>>
    BY DEF CountMatches, CommitMajority, taskVars, logVars
  <2> QED
    BY <1>1, <2>1, <2>2, <2>3 DEF ApplyInv, TypeOK
<1>3. \A i : (Settled(i) => Settled(i)') /\ (Handed(i) => Handed(i)')
  <2>1. UNCHANGED <<pending, applied, idx>>
    BY DEF CountMatches, CommitMajority, taskVars
  <2>2. \A w \in Writer : pc[w] = "done" => pc'[w] = "done"
    BY DEF CountMatches, CommitMajority, Goto, ApplyInv, TypeOK, Task
  <2> QED
    BY <2>1, <2>2, SettledStays
<1>4. DriverTicks'
  BY TaskAssumption DEF CountMatches, CommitMajority, Goto, ApplyInv, DriverTicks, TypeOK, Task
<1>5. AppliedIsSettled'
  BY <1>3 DEF CountMatches, CommitMajority, logVars, ApplyInv, AppliedIsSettled
<1>6. BatchIsSettled'
  BY <1>3 DEF CountMatches, CommitMajority, Goto, ApplyInv, BatchIsSettled, TypeOK, taskVars
<1>7. WriterIsServed'
  BY <1>1, <1>3 DEF CountMatches, CommitMajority, Goto, ApplyInv, WriterIsServed, TypeOK, Task, taskVars
<1>8. IndicesAreOwn' /\ NoGaps'
  BY DEF CountMatches, CommitMajority, ApplyInv, IndicesAreOwn, NoGaps, taskVars
<1> QED
  BY <1>2, <1>4, <1>5, <1>6, <1>7, <1>8 DEF ApplyInv

\* apply_committed copies its batch, or finds everything applied.
LEMMA CopyUnappliedInv ==
    ASSUME ApplyInv, NEW t \in Task, CopyUnapplied(t) PROVE ApplyInv'
<1>0. \E p \in {"apply", "wait", "count"} : pc' = [pc EXCEPT ![t] = p]
  BY DEF CopyUnapplied, Goto, Return
<1>1. TypeOK'
  <2>1. next' \in [Task -> Nat] /\ last' \in [Task -> 0 .. commit_index]
    BY DEF ApplyInv, TypeOK, CopyUnapplied
  <2>2. pc' \in [Task -> Place]
    BY <1>0 DEF ApplyInv, TypeOK, Place
  <2> QED
    BY <2>1, <2>2 DEF ApplyInv, TypeOK, CopyUnapplied, logVars
<1>2. \A i : (Settled(i) => Settled(i)') /\ (Handed(i) => Handed(i)')
  <2>1. \A w \in Writer : pc[w] = "done" => pc'[w] = "done"
    BY <1>0 DEF CopyUnapplied, ApplyInv, TypeOK, Task
  <2> QED
    BY <2>1, SettledStays DEF CopyUnapplied
<1>3. DriverTicks'
  BY TaskAssumption DEF CopyUnapplied, Goto, Return, ApplyInv, DriverTicks, TypeOK, Task
<1>4. AppliedIsSettled'
  BY <1>2 DEF CopyUnapplied, logVars, ApplyInv, AppliedIsSettled
<1>5. BatchIsSettled'
  BY <1>2 DEF CopyUnapplied, Goto, Return, ApplyInv, AppliedIsSettled, BatchIsSettled, TypeOK
<1>6. WriterIsServed'
  <2> SUFFICES ASSUME NEW w \in Writer
               PROVE  /\ pc'[w] # "propose" => idx'[w] >= 1
                      /\ pc'[w] \notin {"propose", "commit"} => idx'[w] <= commit_index'
                      /\ pc'[w] \in {"apply", "insert", "record", "publish"} => idx'[w] <= last'[w]
                      /\ pc'[w] = "wait" => Settled(idx[w])'
    BY DEF WriterIsServed, CopyUnapplied, Settled, Handed, Resulted
  <2>1. CASE w # t
    BY <1>2, <2>1 DEF CopyUnapplied, Goto, ApplyInv, WriterIsServed, TypeOK, Task, logVars
  <2>2. CASE w = t /\ commit_index > last_applied
    BY <2>2 DEF CopyUnapplied, Goto, ApplyInv, WriterIsServed, TypeOK, Task, logVars
  <2>3. CASE w = t /\ ~(commit_index > last_applied)
    <3>1. idx[w] \in 1 .. last_applied
      BY <2>3 DEF CopyUnapplied, ApplyInv, WriterIsServed, TypeOK, Task
    <3>2. Settled(idx[w])
      BY <3>1 DEF ApplyInv, AppliedIsSettled
    <3> QED
      BY <1>2, <2>3, <3>2 DEF CopyUnapplied, Goto, Return, ApplyInv, WriterIsServed, TypeOK, Task, logVars
  <2> QED
    BY <2>1, <2>2, <2>3
<1>7. IndicesAreOwn' /\ NoGaps'
  BY DEF CopyUnapplied, logVars, ApplyInv, IndicesAreOwn, NoGaps
<1> QED
  BY <1>1, <1>3, <1>4, <1>5, <1>6, <1>7 DEF ApplyInv

\* One entry goes to the applier; everything before it is settled.
LEMMA ApplyEntryInv ==
    ASSUME ApplyInv, NEW t \in Task, ApplyEntry(t) PROVE ApplyInv'
<1>1. next[t] \in 1 .. last[t] /\ last[t] \in 0 .. commit_index /\ next[t] \in 1 .. commit_index
  BY DEF ApplyEntry, ApplyInv, BatchIsSettled, TypeOK
<1>2. TypeOK'
  BY <1>1 DEF ApplyInv, TypeOK, ApplyEntry, Goto, Place, logVars, taskVars
<1>3. \A i : (Settled(i) => Settled(i)') /\ (Handed(i) => Handed(i)')
  BY SettledStays DEF ApplyEntry, Goto, ApplyInv, TypeOK, taskVars
<1>4. Handed(next[t])'
  BY DEF ApplyEntry, Handed, taskVars
<1>5. DriverTicks'
  BY TaskAssumption DEF ApplyEntry, Goto, ApplyInv, DriverTicks, TypeOK, Task
<1>6. AppliedIsSettled'
  BY <1>3 DEF ApplyEntry, logVars, ApplyInv, AppliedIsSettled
<1>7. BatchIsSettled'
  BY <1>3, <1>4 DEF ApplyEntry, Goto, ApplyInv, BatchIsSettled, TypeOK, taskVars
<1>8. WriterIsServed'
  BY <1>3 DEF ApplyEntry, Goto, ApplyInv, WriterIsServed, TypeOK, Task, taskVars, logVars
<1>9. IndicesAreOwn'
  BY DEF ApplyEntry, ApplyInv, IndicesAreOwn, taskVars
<1>10. NoGaps'
  <2> SUFFICES ASSUME NEW e \in applied', NEW i \in 1 .. e[2] PROVE Handed(i)'
    BY DEF NoGaps, Handed
  <2>1. CASE e \in applied
    <3>1. Handed(i)
      BY <2>1 DEF ApplyInv, NoGaps, Handed
    <3> QED
      BY <1>3, <3>1
  <2>2. CASE e = <<t, next[t]>>
    <3>1. CASE i = next[t]
      BY <1>4, <3>1 DEF ApplyEntry, taskVars, Handed
    <3>2. CASE i \in 1 .. next[t] - 1
      <4>1. Handed(i)
        BY <3>2 DEF ApplyEntry, ApplyInv, BatchIsSettled, Settled
      <4> QED
        BY <1>3, <4>1
    <3> QED
      BY <1>1, <2>2, <3>1, <3>2
  <2> QED
    BY <2>1, <2>2 DEF ApplyEntry
<1> QED
  BY <1>2, <1>5, <1>6, <1>7, <1>8, <1>9, <1>10 DEF ApplyInv

\* Its result is left for the writer.
LEMMA InsertResultInv ==
    ASSUME ApplyInv, NEW t \in Task, InsertResult(t) PROVE ApplyInv'
<1>1. next[t] \in 1 .. last[t] /\ last[t] \in 0 .. commit_index /\ next[t] \in 1 .. commit_index
  BY DEF InsertResult, ApplyInv, BatchIsSettled, TypeOK
<1>2. /\ pc' = [pc EXCEPT ![t] = IF next[t] < last[t] THEN "apply" ELSE "record"]
      /\ next' = [next EXCEPT ![t] = @ + 1]
      /\ pending' = pending \cup {next[t]}
      /\ UNCHANGED <<logVars, applied_index, applied, idx, seen, last>>
  BY DEF InsertResult, Goto
<1>3. TypeOK'
  <2>1. pc' \in [Task -> Place] /\ next' \in [Task -> Nat]
    BY <1>2 DEF ApplyInv, TypeOK, Place
  <2> QED
    BY <1>1, <1>2, <2>1 DEF ApplyInv, TypeOK, logVars
<1>4. \A i : (Settled(i) => Settled(i)') /\ (Handed(i) => Handed(i)')
  <2>1. \A w \in Writer : pc[w] = "done" => pc'[w] = "done"
    BY <1>2 DEF InsertResult, ApplyInv, TypeOK, Task
  <2> QED
    BY <1>2, <2>1, SettledStays
<1>5. \A i : i = next[t] => Settled(i)'
  <2> SUFFICES ASSUME NEW i, i = next[t] PROVE Handed(i)' /\ Resulted(i)'
    BY DEF Settled
  <2>1. Handed(i)
    BY DEF InsertResult, ApplyInv, BatchIsSettled
  <2>2. i \in pending'
    BY <1>2
  <2> QED
    BY <1>4, <2>1, <2>2 DEF Resulted
<1>6. \A i \in 1 .. next[t] : Settled(i)'
  <2>1. \A i \in 1 .. next[t] - 1 : Settled(i)
    BY DEF InsertResult, ApplyInv, BatchIsSettled
  <2>2. \A i \in 1 .. next[t] : i = next[t] \/ i \in 1 .. next[t] - 1
    BY <1>1
  <2> QED
    BY <1>4, <1>5, <2>1, <2>2
<1>7. DriverTicks'
  BY <1>2, TaskAssumption DEF InsertResult, ApplyInv, DriverTicks, TypeOK, Task
<1>8. AppliedIsSettled'
  BY <1>2, <1>4 DEF logVars, ApplyInv, AppliedIsSettled
<1>9. BatchIsSettled'
  <2> SUFFICES ASSUME NEW k \in Task
               PROVE  /\ pc'[k] \in {"apply", "insert"} =>
                           /\ next'[k] \in 1 .. last'[k]
                           /\ \A i \in 1 .. next'[k] - 1 : Settled(i)'
                      /\ pc'[k] = "insert" => \A i : i = next'[k] => Handed(i)'
                      /\ pc'[k] \in {"record", "publish"} => \A i \in 1 .. last'[k] : Settled(i)'
    BY DEF BatchIsSettled, Settled, Handed, Resulted
  <2>0. last'[k] = last[k]
    BY <1>2
  <2>1. CASE k = t
    <3>1. next'[k] = next[t] + 1 /\ next'[k] - 1 = next[t]
      BY <1>1, <1>2, <2>1 DEF ApplyInv, TypeOK
    <3>2. pc'[k] = IF next[t] < last[t] THEN "apply" ELSE "record"
      BY <1>2, <2>1 DEF ApplyInv, TypeOK
    <3>3. CASE next[t] < last[t]
      BY <1>1, <1>6, <2>0, <2>1, <3>1, <3>2, <3>3
    <3>4. CASE ~(next[t] < last[t])
      <4>1. last[t] = next[t]
        BY <1>1, <3>4
      <4> QED
        BY <1>6, <2>0, <2>1, <3>2, <3>4, <4>1
    <3> QED
      BY <3>3, <3>4
  <2>2. CASE k # t
    <3>1. pc'[k] = pc[k] /\ next'[k] = next[k]
      BY <1>2, <2>2 DEF ApplyInv, TypeOK
    <3> QED
      BY <1>4, <2>0, <3>1 DEF ApplyInv, BatchIsSettled
  <2> QED
    BY <2>1, <2>2
<1>10. WriterIsServed'
  BY <1>2, <1>4 DEF InsertResult, ApplyInv, WriterIsServed, TypeOK, Task, logVars
<1>11. IndicesAreOwn' /\ NoGaps'
  BY <1>2 DEF ApplyInv, IndicesAreOwn, NoGaps
<1> QED
  BY <1>3, <1>7, <1>8, <1>9, <1>10, <1>11 DEF ApplyInv

\* last_applied advances over a settled batch.
LEMMA SetAppliedInv ==
    ASSUME ApplyInv, NEW t \in Task, SetApplied(t) PROVE ApplyInv'
<1>1. TypeOK'
  BY DEF ApplyInv, TypeOK, SetApplied, Goto, Place, taskVars
<1>2. \A i : (Settled(i) => Settled(i)') /\ (Handed(i) => Handed(i)')
  BY SettledStays DEF SetApplied, Goto, ApplyInv, TypeOK, taskVars
<1>3. \A i \in 1 .. last[t] : Settled(i)
  BY DEF SetApplied, ApplyInv, BatchIsSettled
<1>4. DriverTicks'
  BY TaskAssumption DEF SetApplied, Goto, ApplyInv, DriverTicks, TypeOK, Task
<1>5. AppliedIsSettled'
  BY <1>2, <1>3 DEF SetApplied, ApplyInv, AppliedIsSettled
<1>6. BatchIsSettled'
  BY <1>2 DEF SetApplied, Goto, ApplyInv, BatchIsSettled, TypeOK, taskVars
<1>7. WriterIsServed'
  BY <1>2 DEF SetApplied, Goto, ApplyInv, WriterIsServed, TypeOK, Task, taskVars
<1>8. IndicesAreOwn' /\ NoGaps'
  BY DEF SetApplied, ApplyInv, IndicesAreOwn, NoGaps, taskVars
<1> QED
  BY <1>1, <1>4, <1>5, <1>6, <1>7, <1>8 DEF ApplyInv

\* The copy in RaftState is published and apply_committed returns.
LEMMA PublishStateInv ==
    ASSUME ApplyInv, NEW t \in Task, PublishState(t) PROVE ApplyInv'
<1>0. \E p \in {"wait", "count"} : pc' = [pc EXCEPT ![t] = p]
  BY DEF PublishState, Goto, Return
<1>1. TypeOK'
  <2>1. pc' \in [Task -> Place]
    BY <1>0 DEF ApplyInv, TypeOK, Place
  <2> QED
    BY <2>1 DEF ApplyInv, TypeOK, PublishState, taskVars, logVars
<1>2. \A i : (Settled(i) => Settled(i)') /\ (Handed(i) => Handed(i)')
  <2>1. \A w \in Writer : pc[w] = "done" => pc'[w] = "done"
    BY <1>0 DEF PublishState, ApplyInv, TypeOK, Task
  <2> QED
    BY <2>1, SettledStays DEF PublishState, taskVars
<1>3. DriverTicks'
  BY TaskAssumption DEF PublishState, Goto, Return, ApplyInv, DriverTicks, TypeOK, Task
<1>4. AppliedIsSettled'
  BY <1>2 DEF PublishState, logVars, ApplyInv, AppliedIsSettled
<1>5. BatchIsSettled'
  BY <1>0, <1>2 DEF PublishState, ApplyInv, BatchIsSettled, TypeOK, taskVars
<1>6. WriterIsServed'
  <2> SUFFICES ASSUME NEW w \in Writer
               PROVE  /\ pc'[w] # "propose" => idx'[w] >= 1
                      /\ pc'[w] \notin {"propose", "commit"} => idx'[w] <= commit_index'
                      /\ pc'[w] \in {"apply", "insert", "record", "publish"} => idx'[w] <= last'[w]
                      /\ pc'[w] = "wait" => \A i : i = idx'[w] => Settled(i)'
    BY DEF WriterIsServed, Settled, Handed, Resulted
  <2>0. idx'[w] = idx[w] /\ last'[w] = last[w] /\ commit_index' = commit_index
    BY DEF PublishState, taskVars, logVars
  <2>1. CASE w # t
    BY <1>2, <2>0, <2>1 DEF PublishState, Goto, ApplyInv, WriterIsServed, TypeOK, Task
  <2>2. CASE w = t
    <3>1. idx[w] \in 1 .. last[w] /\ idx[w] <= commit_index
      BY <2>2 DEF PublishState, ApplyInv, WriterIsServed, TypeOK, Task
    <3>2. Settled(idx[w])
      BY <2>2, <3>1 DEF PublishState, ApplyInv, BatchIsSettled
    <3> QED
      BY <1>0, <1>2, <2>0, <2>2, <3>1, <3>2 DEF ApplyInv, TypeOK, Task
  <2> QED
    BY <2>1, <2>2
<1>7. IndicesAreOwn' /\ NoGaps'
  BY DEF PublishState, ApplyInv, IndicesAreOwn, NoGaps, taskVars
<1> QED
  BY <1>1, <1>3, <1>4, <1>5, <1>6, <1>7 DEF ApplyInv

\* A writer takes its result; nobody else waits for it.
LEMMA TakeResultInv ==
    ASSUME ApplyInv, NEW t \in Task, TakeResult(t) PROVE ApplyInv'
<1>1. t \in Writer
  BY DEF ApplyInv, DriverTicks, TakeResult, Task
<1>2. TypeOK'
  BY DEF ApplyInv, TypeOK, TakeResult, Goto, Place, logVars, taskVars
<1>3. \A i : (Settled(i) => Settled(i)') /\ (Handed(i) => Handed(i)')
  BY <1>1, SettledStays DEF TakeResult, Goto, ApplyInv, TypeOK, taskVars, Task
<1>4. DriverTicks'
  BY <1>1, TaskAssumption DEF TakeResult, Goto, ApplyInv, DriverTicks, TypeOK, Task
<1>5. AppliedIsSettled'
  BY <1>3 DEF TakeResult, logVars, ApplyInv, AppliedIsSettled
<1>6. BatchIsSettled'
  BY <1>3 DEF TakeResult, Goto, ApplyInv, BatchIsSettled, TypeOK, taskVars
<1>7. WriterIsServed'
  BY <1>3 DEF TakeResult, Goto, ApplyInv, WriterIsServed, TypeOK, Task, taskVars, logVars
<1>8. IndicesAreOwn' /\ NoGaps'
  BY DEF TakeResult, ApplyInv, IndicesAreOwn, NoGaps, taskVars
<1> QED
  BY <1>2, <1>4, <1>5, <1>6, <1>7, <1>8 DEF ApplyInv

\* Every step keeps ApplyInv.
LEMMA ApplyKeep == ApplyInv /\ [Next]_vars => ApplyInv'
<1>1. ASSUME ApplyInv, UNCHANGED vars PROVE ApplyInv'
  <2>1. UNCHANGED <<last_index, commit_index, last_applied, applied_index, pending, applied, pc,
                    idx, seen, next, last>>
    BY <1>1 DEF vars, logVars, taskVars
  <2>2. TypeOK' /\ DriverTicks' /\ IndicesAreOwn' /\ NoGaps'
    BY <1>1, <2>1 DEF ApplyInv, TypeOK, DriverTicks, IndicesAreOwn, NoGaps
  <2>3. AppliedIsSettled'
    BY <1>1, <2>1 DEF ApplyInv, AppliedIsSettled, Settled, Handed, Resulted
  <2>4. BatchIsSettled'
    BY <1>1, <2>1 DEF ApplyInv, BatchIsSettled, Settled, Handed, Resulted
  <2>5. WriterIsServed'
    BY <1>1, <2>1 DEF ApplyInv, WriterIsServed, Settled, Handed, Resulted
  <2> QED
    BY <2>2, <2>3, <2>4, <2>5 DEF ApplyInv
<1>2. ASSUME ApplyInv, NEW t \in Task, Step(t) PROVE ApplyInv'
  BY <1>2, ProposeInv, TryCommitInv, MaybeCommitInv, CopyUnappliedInv, ApplyEntryInv,
     InsertResultInv, SetAppliedInv, PublishStateInv, TakeResultInv DEF Step
<1> QED
  BY <1>1, <1>2 DEF Next

\* A result that is due and not taken by its writer, who alone knows its index, is
\* still there.
LEMMA ApplyReady == ApplyInv => ResultReady
<1> SUFFICES ASSUME ApplyInv, NEW w \in Writer, pc[w] = "wait" PROVE idx[w] \in pending
  BY DEF ResultReady
<1>1. Settled(idx[w]) /\ idx[w] >= 1
  BY DEF ApplyInv, WriterIsServed
<1>2. ASSUME NEW v \in Writer, pc[v] = "done", idx[v] = idx[w] PROVE FALSE
  <2>1. v = w
    BY <1>1, <1>2 DEF ApplyInv, IndicesAreOwn, TypeOK, Task
  <2> QED
    BY <1>2, <2>1
<1> QED
  BY <1>1, <1>2 DEF Settled, Resulted

\* The indices stay ordered: last_applied <= commit_index <= last_index (log.rs:71-83).
THEOREM IndicesAreOrdered == Spec => []TypeOK
<1>1. ApplyInv => TypeOK
  BY DEF ApplyInv
<1> QED
  BY <1>1, ApplyStart, ApplyKeep, PTL DEF Spec

\* However many tasks run apply_committed at once, no entry reaches the applier
\* before every earlier one has (node.rs:395-427).
THEOREM ApplierSeesNoGaps == Spec => []NoGaps
<1>1. ApplyInv => NoGaps
  BY DEF ApplyInv
<1> QED
  BY <1>1, ApplyStart, ApplyKeep, PTL DEF Spec

\* In single-node mode every writer finds its result at its first poll
\* (writer.rs:91-98, node.rs:433-441), for any number of writers.
THEOREM WritersNeverWait == Spec => []ResultReady
BY ApplyReady, ApplyStart, ApplyKeep, PTL DEF Spec

-----------------------------------------------------------------------------
(***************************************************************************)
(* The snapshots that go with the applied indices (SnapshotPairing).       *)
(***************************************************************************)
PairingTypes ==
    /\ due \in [Task -> Nat]
    /\ taken \subseteq {t \in Task : due[t] # 0 /\ due[t] \in DOMAIN snapshots}

\* A hook is called with an index up to which everything was applied, so every snapshot of its name
\* holds at least that, whichever task took it.
HooksReach == \A t \in Task : 1 .. due[t] \subseteq Reached

SnapshotsReach ==
    /\ mappings \subseteq DOMAIN snapshots
    /\ \A i \in DOMAIN snapshots : 1 .. i \subseteq snapshots[i]

\* The last entry applied is noted, or some task still has it to note.
LastIsNoted ==
    \/ last_applied \in mappings \cup refused \cup {0}
    \/ \E t \in Task : due[t] = last_applied \/ (pc[t] = "publish" /\ last[t] = last_applied)

PairingInv == ApplyInv /\ PairingTypes /\ HooksReach /\ SnapshotsReach /\ LastIsNoted

LEMMA PairingStart == Init /\ PairingInit => PairingInv
<1> SUFFICES ASSUME Init, PairingInit PROVE PairingInv
  OBVIOUS
<1>1. PairingTypes
  BY DEF PairingInit, PairingTypes
<1>2. HooksReach /\ SnapshotsReach /\ LastIsNoted
  BY DEF Init, PairingInit, HooksReach, SnapshotsReach, LastIsNoted
<1> QED
  BY <1>1, <1>2, ApplyStart DEF PairingInv

LEMMA ReachedGrows == applied \subseteq applied' => Reached \subseteq Reached'
BY DEF Reached

LEMMA HandedIsReached == ASSUME NEW i, Handed(i) PROVE i \in Reached
<1>1. PICK t \in Task : <<t, i>> \in applied
  BY DEF Handed
<1>2. <<t, i>>[2] = i
  OBVIOUS
<1> QED
  BY <1>1, <1>2 DEF Reached

\* A batch has ended; its hook is called.
LEMMA CallHookStep ==
    ASSUME PairingInv, NEW t \in Task, CallHook(t)
    PROVE  PairingInv'
<1>1. /\ pc[t] = "publish" /\ due' = [due EXCEPT ![t] = last[t]]
      /\ pc' = [pc EXCEPT ![t] = Return(t)]
      /\ UNCHANGED <<last, last_applied, applied, taken, snapshots, mappings, refused>> /\ due[t] = 0
  BY DEF CallHook, PublishState, Goto, logVars, taskVars
<1>2. ApplyInv'
  BY PublishStateInv DEF PairingInv, CallHook
<1>3. last \in [Task -> 0 .. commit_index] /\ commit_index \in Nat /\ pc \in [Task -> Place]
  BY DEF PairingInv, ApplyInv, TypeOK
<1>4. last[t] \in Nat /\ due \in [Task -> Nat]
  BY <1>3 DEF PairingInv, PairingTypes
<1>5. \A s \in Task \ {t} : due'[s] = due[s] /\ pc'[s] = pc[s]
  BY <1>1, <1>3, <1>4
<1>6. due'[t] = last[t]
  BY <1>1, <1>4
<1>7. 1 .. last[t] \subseteq Reached
  <2>1. \A i \in 1 .. last[t] : \E s \in Task : <<s, i>> \in applied
    BY <1>1 DEF PairingInv, ApplyInv, BatchIsSettled, Settled, Handed
  <2> QED
    BY <2>1, HandedIsReached DEF Handed
<1>8. Reached' = Reached
  BY <1>1 DEF Reached
<1>9. PairingTypes'
  <2>1. due' \in [Task -> Nat]
    BY <1>1, <1>4
  <2>2. t \notin taken
    BY <1>1 DEF PairingInv, PairingTypes
  <2> QED
    BY <1>1, <1>5, <2>1, <2>2 DEF PairingInv, PairingTypes
<1>10. HooksReach'
  BY <1>5, <1>6, <1>7, <1>8 DEF PairingInv, HooksReach
<1>11. SnapshotsReach'
  BY <1>1 DEF PairingInv, SnapshotsReach
<1>12. LastIsNoted'
  BY <1>1, <1>5, <1>6 DEF PairingInv, LastIsNoted
<1> QED
  BY <1>2, <1>9, <1>10, <1>11, <1>12 DEF PairingInv

\* The hook takes its snapshot, is refused, or notes it.
LEMMA HookStepsKeep ==
    ASSUME PairingInv, NEW t \in Task, TakeSnapshot(t) \/ RefuseSnapshot(t) \/ NoteMapping(t)
    PROVE  PairingInv'
<1>1. UNCHANGED vars
  BY DEF TakeSnapshot, RefuseSnapshot, NoteMapping
<1>2. ApplyInv'
  BY <1>1, ApplyKeep DEF PairingInv
<1>3. UNCHANGED <<applied, last_applied, pc, last>> /\ Reached' = Reached
  BY <1>1 DEF vars, logVars, taskVars, Reached
<1>4. due \in [Task -> Nat] /\ taken \subseteq Task
  BY DEF PairingInv, PairingTypes
<1>5. CASE TakeSnapshot(t)
  <2> PICK d \in Nat : d = due[t]
    BY <1>4
  <2>1. /\ snapshots' = [i \in DOMAIN snapshots \cup {d} |-> IF i = d THEN Reached ELSE snapshots[i]]
        /\ taken' = taken \cup {t} /\ UNCHANGED <<due, mappings, refused>> /\ d # 0
    BY <1>5 DEF TakeSnapshot
  <2>2. PairingTypes'
    BY <2>1 DEF PairingInv, PairingTypes
  <2>3. HooksReach' /\ LastIsNoted'
    BY <1>3, <2>1 DEF PairingInv, HooksReach, LastIsNoted
  <2>4. SnapshotsReach'
    <3>1. 1 .. d \subseteq Reached
      BY DEF PairingInv, HooksReach
    <3> QED
      BY <2>1, <3>1 DEF PairingInv, SnapshotsReach
  <2> QED
    BY <1>2, <2>2, <2>3, <2>4 DEF PairingInv
<1>6. CASE RefuseSnapshot(t) \/ NoteMapping(t)
  <2>1. /\ due' = [due EXCEPT ![t] = 0] /\ UNCHANGED snapshots
        /\ mappings' \cup refused' = mappings \cup refused \cup {due[t]}
        /\ taken' = taken \ {t} /\ mappings \subseteq mappings' /\ mappings' \subseteq DOMAIN snapshots
    BY <1>6 DEF RefuseSnapshot, NoteMapping, PairingInv, PairingTypes, SnapshotsReach
  <2>2. due'[t] = 0 /\ \A s \in Task \ {t} : due'[s] = due[s]
    BY <1>4, <2>1
  <2>3. PairingTypes'
    BY <1>4, <2>1, <2>2 DEF PairingInv, PairingTypes
  <2>4. HooksReach'
    BY <1>3, <2>2 DEF PairingInv, HooksReach
  <2>5. SnapshotsReach'
    BY <2>1 DEF PairingInv, SnapshotsReach
  <2>6. LastIsNoted'
    BY <1>3, <2>1, <2>2 DEF PairingInv, LastIsNoted
  <2> QED
    BY <1>2, <2>3, <2>4, <2>5, <2>6 DEF PairingInv
<1> QED
  BY <1>5, <1>6

\* Any other step of a task outside its hook.
LEMMA OutsideStep ==
    ASSUME PairingInv, NEW t \in Task, due[t] = 0, pc[t] # "publish", Step(t), UNCHANGED pairingVars
    PROVE  PairingInv'
<1>1. ApplyInv'
  BY ApplyKeep DEF PairingInv, Next
<1>2. UNCHANGED <<due, taken, snapshots, mappings, refused>>
  BY DEF pairingVars
<1>3. applied \subseteq applied'
  BY DEF Step, Propose, TryCommit, CountMatches, CommitMajority, CopyUnapplied, ApplyEntry, InsertResult,
         SetApplied, PublishState, TakeResult
<1>4. PairingTypes' /\ SnapshotsReach'
  BY <1>2 DEF PairingInv, PairingTypes, SnapshotsReach
<1>5. HooksReach'
  BY <1>2, <1>3, ReachedGrows DEF PairingInv, HooksReach
<1>6. LastIsNoted'
  <2>0. pc \in [Task -> Place] /\ last \in [Task -> 0 .. commit_index]
    BY DEF PairingInv, ApplyInv, TypeOK
  <2>1. \A s \in Task \ {t} : pc'[s] = pc[s] /\ last'[s] = last[s]
    BY <2>0 DEF Step, Propose, TryCommit, CountMatches, CommitMajority, CopyUnapplied, ApplyEntry, InsertResult,
         SetApplied, PublishState, TakeResult, Goto, taskVars
  <2>2. CASE SetApplied(t) /\ last[t] > last_applied
    <3>1. last_applied' = last[t] /\ last' = last /\ pc'[t] = "publish"
      BY <2>0, <2>2 DEF SetApplied, Goto, taskVars
    <3> QED
      BY <3>1 DEF LastIsNoted
  <2>3. CASE ~(SetApplied(t) /\ last[t] > last_applied)
    <3>1. last_applied' = last_applied
      BY <2>3 DEF Step, Propose, TryCommit, CountMatches, CommitMajority, CopyUnapplied, ApplyEntry, InsertResult,
         SetApplied, PublishState, TakeResult, logVars
    <3> QED
      BY <1>2, <2>1, <3>1 DEF PairingInv, LastIsNoted
  <2> QED
    BY <2>2, <2>3
<1> QED
  BY <1>1, <1>4, <1>5, <1>6 DEF PairingInv

LEMMA PairingKeep == PairingInv /\ [\E t \in Task : HookedStep(t)]_hookedVars => PairingInv'
<1> SUFFICES ASSUME PairingInv, [\E t \in Task : HookedStep(t)]_hookedVars PROVE PairingInv'
  OBVIOUS
<1>1. CASE UNCHANGED hookedVars
  <2>1. UNCHANGED vars /\ UNCHANGED <<due, taken, snapshots, mappings, refused>>
    BY <1>1 DEF hookedVars, pairingVars
  <2>2. UNCHANGED <<applied, last_applied, pc, last>> /\ Reached' = Reached
    BY <2>1 DEF vars, logVars, taskVars, Reached
  <2>3. ApplyInv'
    BY <2>1, ApplyKeep DEF PairingInv
  <2> QED
    BY <2>1, <2>2, <2>3 DEF PairingInv, PairingTypes, HooksReach, SnapshotsReach, LastIsNoted
<1> QED
  BY <1>1, CallHookStep, HookStepsKeep, OutsideStep DEF HookedStep

LEMMA PairingCovers == PairingInv => SnapshotsCover
<1> SUFFICES ASSUME PairingInv PROVE SnapshotsCover
  OBVIOUS
<1>1. \A i \in mappings : 1 .. i \subseteq snapshots[i]
  BY DEF PairingInv, SnapshotsReach
<1>2. (\A t \in Task : due[t] = 0 /\ pc[t] \notin {"apply", "insert", "record", "publish"}) =>
          last_applied \in mappings \cup refused \cup {0}
  BY DEF PairingInv, LastIsNoted
<1> QED
  BY <1>1, <1>2 DEF SnapshotsCover
-----------------------------------------------------------------------------
(***************************************************************************)
(* Writes on a node of a cluster (ReplicatedWrites).                       *)
(***************************************************************************)
LogEntry == [term : Nat, cmd : Proposer \cup {Theirs}]

TaskRecord ==
    [at : {"start", "term", "append", "wait", "done"}, term : Nat, index : Nat,
     answer : {"none", "not leader", "ok", "refused", "timeout"}]

WriteTypes ==
    /\ role \in {"Leader", "Follower"} /\ term \in Nat
    /\ log_entries \in Seq(LogEntry)
    /\ commit_to \in 0 .. LastIndex /\ applied_to \in 0 .. commit_to
    /\ task \in [Proposer -> TaskRecord]
    /\ deposed \subseteq Proposer

\* Committed entries are never cut off, so a result is for good that of the entry at its index.
ResultsAreTheLogs ==
    /\ DOMAIN results \subseteq 1 .. applied_to
    /\ \A i \in DOMAIN results : results[i] = log_entries[i].cmd

OwnAt(p) == task[p].index \in 1 .. LastIndex /\ log_entries[task[p].index].cmd = p

\* A task that was not deposed has its entry where it put it: a leader cuts nothing off.
OwnEntries ==
    \A p \in Proposer \ deposed :
        /\ task[p].at \in {"term", "append", "wait"} => role = "Leader"
        /\ task[p].at = "wait" => OwnAt(p)
        /\ task[p].at = "done" /\ task[p].answer \in {"ok", "refused"} =>
             /\ task[p].index \in 1 .. commit_to
             /\ OwnAt(p)
             /\ task[p].answer = "refused" <=> p \in Invalid

AnswersWhenDone == \A p \in Proposer : task[p].at # "done" => task[p].answer = "none"

WritesInv == WriteTypes /\ ResultsAreTheLogs /\ OwnEntries /\ AnswersWhenDone

\* Nothing is written yet.
LEMMA WritesStart == WritesInit => WritesInv
BY DEF WritesInit, WritesInv, WriteTypes, ResultsAreTheLogs, OwnEntries, AnswersWhenDone, TaskRecord,
       LastIndex

TaskPlace == {"start", "term", "append", "wait", "done"}
TaskAnswer == {"none", "not leader", "ok", "refused", "timeout"}

At(a, t, i, b) == [at |-> a, term |-> t, index |-> i, answer |-> b]

\* A record of a task, and what becomes of it.
LEMMA TaskMoves ==
    ASSUME task \in [Proposer -> TaskRecord], NEW p \in Proposer,
           NEW a \in TaskPlace, NEW t \in Nat, NEW i \in Nat, NEW b \in TaskAnswer,
           task' = [task EXCEPT ![p] = At(a, t, i, b)]
    PROVE  /\ task' \in [Proposer -> TaskRecord]
           /\ task'[p].at = a /\ task'[p].answer = b /\ task'[p].term = t /\ task'[p].index = i
           /\ \A q \in Proposer \ {p} : task'[q] = task[q]
<1>1. At(a, t, i, b) \in TaskRecord
  BY DEF At, TaskRecord, TaskPlace, TaskAnswer
<1>2. task'[p] = At(a, t, i, b)
  OBVIOUS
<1>3. task' \in [Proposer -> TaskRecord] /\ \A q \in Proposer \ {p} : task'[q] = task[q]
  BY <1>1
<1> QED
  BY <1>2, <1>3 DEF At

\* What the parts of a record are.
LEMMA TaskParts ==
    ASSUME NEW r \in TaskRecord
    PROVE  /\ r.at \in TaskPlace /\ r.term \in Nat /\ r.index \in Nat /\ r.answer \in TaskAnswer
           /\ \A a : [r EXCEPT !.at = a] = At(a, r.term, r.index, r.answer)
           /\ \A a, b : [r EXCEPT !.at = a, !.answer = b] = At(a, r.term, r.index, b)
           /\ \A a, t : [r EXCEPT !.at = a, !.term = t] = At(a, t, r.index, r.answer)
           /\ \A a, i : [r EXCEPT !.at = a, !.index = i] = At(a, r.term, i, r.answer)
<1>1. r.at \in TaskPlace /\ r.term \in Nat /\ r.index \in Nat /\ r.answer \in TaskAnswer
  BY DEF TaskRecord, TaskPlace, TaskAnswer
<1>2. PICK a0 \in TaskPlace, t0 \in Nat, i0 \in Nat, b0 \in TaskAnswer : r = At(a0, t0, i0, b0)
  BY DEF TaskRecord, TaskPlace, TaskAnswer, At
<1>3. \A a : [r EXCEPT !.at = a] = At(a, r.term, r.index, r.answer)
  BY <1>2 DEF At
<1>4. \A a, b : [r EXCEPT !.at = a, !.answer = b] = At(a, r.term, r.index, b)
  <2> TAKE a, b
  <2>1. [r EXCEPT !.at = a, !.answer = b] = [[r EXCEPT !.at = a] EXCEPT !.answer = b]
    OBVIOUS
  <2>3. [r EXCEPT !.at = a] = At(a, t0, i0, b0)
    BY <1>2 DEF At
  <2>2. [At(a, t0, i0, b0) EXCEPT !.answer = b] = At(a, r.term, r.index, b)
    BY <1>2 DEF At
  <2> QED
    BY <2>1, <2>2, <2>3
<1>5. \A a, t : [r EXCEPT !.at = a, !.term = t] = At(a, t, r.index, r.answer)
  <2> TAKE a, t
  <2>1. [r EXCEPT !.at = a, !.term = t] = [[r EXCEPT !.at = a] EXCEPT !.term = t]
    OBVIOUS
  <2>3. [r EXCEPT !.at = a] = At(a, t0, i0, b0)
    BY <1>2 DEF At
  <2>2. [At(a, t0, i0, b0) EXCEPT !.term = t] = At(a, t, r.index, r.answer)
    BY <1>2 DEF At
  <2> QED
    BY <2>1, <2>2, <2>3
<1>6. \A a, i : [r EXCEPT !.at = a, !.index = i] = At(a, r.term, i, r.answer)
  <2> TAKE a, i
  <2>1. [r EXCEPT !.at = a, !.index = i] = [[r EXCEPT !.at = a] EXCEPT !.index = i]
    OBVIOUS
  <2>3. [r EXCEPT !.at = a] = At(a, t0, i0, b0)
    BY <1>2 DEF At
  <2>2. [At(a, t0, i0, b0) EXCEPT !.index = i] = At(a, r.term, i, r.answer)
    BY <1>2 DEF At
  <2> QED
    BY <2>1, <2>2, <2>3
<1> QED
  BY <1>1, <1>3, <1>4, <1>5, <1>6

\* The steps that leave the node's log alone.
LEMMA TaskSteps ==
    ASSUME WritesInv, NEW p \in Proposer,
           ReadRole(p) \/ ReadTerm(p) \/ TakeCommitted(p) \/ TimeOut(p)
    PROVE  WritesInv'
<1>1. /\ UNCHANGED nodeVars /\ LastIndex' = LastIndex
      /\ \A q \in Proposer \ {p} : task'[q] = task[q] /\ (q \in deposed' <=> q \in deposed)
      /\ deposed' \subseteq deposed
  BY DEF ReadRole, ReadTerm, TakeCommitted, TimeOut, Answered, LastIndex, nodeVars, WritesInv,
         WriteTypes
<1>0. task \in [Proposer -> TaskRecord] /\ task[p] \in TaskRecord /\ term \in Nat
  BY DEF WritesInv, WriteTypes
<1>2. PICK a \in TaskPlace, b \in TaskAnswer, t \in Nat :
         /\ task' = [task EXCEPT ![p] = At(a, t, task[p].index, b)]
         /\ \/ ReadRole(p) /\ a = "term" /\ role = "Leader" /\ b = task[p].answer /\ task[p].at # "done"
            \/ ReadRole(p) /\ a = "done" /\ b = "not leader"
            \/ ReadTerm(p) /\ a = "append" /\ b = task[p].answer /\ task[p].at = "term"
            \/ /\ TakeCommitted(p) /\ a = "done" /\ task[p].at = "wait"
               /\ b = IF results[task[p].index] \in Invalid THEN "refused" ELSE "ok"
            \/ TimeOut(p) /\ a = "done" /\ b = "timeout"
  <2> DEFINE r == task[p]
  <2>0. /\ r.at \in TaskPlace /\ r.term \in Nat /\ r.index \in Nat /\ r.answer \in TaskAnswer
        /\ \A a : [r EXCEPT !.at = a] = At(a, r.term, r.index, r.answer)
        /\ \A a, b : [r EXCEPT !.at = a, !.answer = b] = At(a, r.term, r.index, b)
        /\ \A a, t : [r EXCEPT !.at = a, !.term = t] = At(a, t, r.index, r.answer)
    BY <1>0, TaskParts
  <2>1. CASE ReadRole(p)
    <3>1. CASE role = "Leader"
      <4>1. task' = [task EXCEPT ![p] = [r EXCEPT !.at = "term"]] /\ r.at # "done"
        BY <1>0, <2>1, <3>1 DEF ReadRole
      <4> QED
        BY <2>0, <2>1, <3>1, <4>1 DEF TaskPlace
    <3>2. CASE role # "Leader"
      <4>1. task' = [task EXCEPT ![p] = [r EXCEPT !.at = "done", !.answer = "not leader"]]
        BY <1>0, <2>1, <3>2 DEF ReadRole, Answered
      <4> QED
        BY <2>0, <2>1, <4>1 DEF TaskPlace, TaskAnswer
    <3> QED
      BY <3>1, <3>2
  <2>2. CASE ReadTerm(p)
    <3>1. task' = [task EXCEPT ![p] = [r EXCEPT !.at = "append", !.term = term]] /\ r.at = "term"
      BY <1>0, <2>2 DEF ReadTerm
    <3> QED
      BY <1>0, <2>0, <2>2, <3>1 DEF TaskPlace
  <2>3. CASE TakeCommitted(p)
    <3> DEFINE said == IF results[r.index] \in Invalid THEN "refused" ELSE "ok"
    <3>1. task' = [task EXCEPT ![p] = [r EXCEPT !.at = "done", !.answer = said]] /\ r.at = "wait"
      BY <1>0, <2>3 DEF TakeCommitted, Answered, Waiting
    <3>2. said \in TaskAnswer
      BY DEF TaskAnswer
    <3> HIDE DEF said
    <3>3. task' = [task EXCEPT ![p] = At("done", r.term, r.index, said)]
      BY <2>0, <3>1
    <3> QED
      BY <2>0, <2>3, <3>1, <3>2, <3>3 DEF TaskPlace, said
  <2>4. CASE TimeOut(p)
    <3>1. task' = [task EXCEPT ![p] = [r EXCEPT !.at = "done", !.answer = "timeout"]]
      BY <1>0, <2>4 DEF TimeOut, Answered
    <3>2. task' = [task EXCEPT ![p] = At("done", r.term, r.index, "timeout")]
      BY <2>0, <3>1
    <3>3. "done" \in TaskPlace /\ "timeout" \in TaskAnswer
      BY DEF TaskPlace, TaskAnswer
    <3> QED
      BY <2>0, <2>4, <3>2, <3>3
  <2> QED
    BY <2>1, <2>2, <2>3, <2>4
<1>7. /\ task' \in [Proposer -> TaskRecord]
      /\ task'[p].at = a /\ task'[p].answer = b /\ task'[p].index = task[p].index
  <2>1. task[p].index \in Nat
    BY <1>0, TaskParts
  <2>2. task' = [task EXCEPT ![p] = At(a, t, task[p].index, b)]
    BY <1>2
  <2>3. task \in [Proposer -> TaskRecord]
    BY <1>0
  <2> QED
    BY <2>1, <2>2, <2>3, TaskMoves, ZenonT(30)
<1>3. WriteTypes'
  BY <1>1, <1>7 DEF WritesInv, WriteTypes, nodeVars
<1>4. ResultsAreTheLogs'
  BY <1>1 DEF WritesInv, ResultsAreTheLogs, nodeVars, ReadRole, ReadTerm, TakeCommitted, TimeOut
<1>5. AnswersWhenDone'
  BY <1>1, <1>2, <1>7 DEF WritesInv, AnswersWhenDone
<1>6. OwnEntries'
  <2> SUFFICES ASSUME NEW q \in Proposer \ deposed'
               PROVE  /\ task'[q].at \in {"term", "append", "wait"} => role' = "Leader"
                      /\ task'[q].at = "wait" => OwnAt(q)'
                      /\ task'[q].at = "done" /\ task'[q].answer \in {"ok", "refused"} =>
                           /\ task'[q].index \in 1 .. commit_to'
                           /\ OwnAt(q)'
                           /\ task'[q].answer = "refused" <=> q \in Invalid
    BY DEF OwnEntries
  <2>1. CASE q # p
    BY <1>1, <2>1 DEF WritesInv, OwnEntries, OwnAt, nodeVars
  <2>2. CASE q = p
    <3>1. CASE ReadRole(p) /\ a = "term" /\ role = "Leader"
      BY <1>1, <1>7, <2>2, <3>1 DEF nodeVars
    <3>2. CASE a = "done" /\ b \in {"not leader", "timeout"}
      BY <1>7, <2>2, <3>2
    <3>3. CASE ReadTerm(p) /\ a = "append" /\ task[p].at = "term"
      BY <1>1, <1>7, <2>2, <3>3 DEF ReadTerm, WritesInv, OwnEntries, nodeVars
    <3>4. CASE /\ TakeCommitted(p) /\ a = "done" /\ task[p].at = "wait"
               /\ b = IF results[task[p].index] \in Invalid THEN "refused" ELSE "ok"
      <4>1. task[p].index \in DOMAIN results /\ p \notin deposed
        BY <2>2, <3>4 DEF TakeCommitted
      <4>2. OwnAt(p) /\ results[task[p].index] = log_entries[task[p].index].cmd
        BY <3>4, <4>1 DEF WritesInv, OwnEntries, ResultsAreTheLogs
      <4>3. task[p].index \in 1 .. commit_to
        BY <4>1 DEF WritesInv, WriteTypes, ResultsAreTheLogs, LastIndex
      <4>4. task'[p].answer = "refused" <=> p \in Invalid
        BY <1>7, <3>4, <4>2 DEF OwnAt
      <4> QED
        BY <1>1, <1>7, <2>2, <3>4, <4>2, <4>3, <4>4 DEF OwnAt, nodeVars
    <3> QED
      BY <1>2, <3>1, <3>2, <3>3, <3>4
  <2> QED
    BY <2>1, <2>2
<1> QED
  BY <1>3, <1>4, <1>5, <1>6 DEF WritesInv

\* An entry is put at the end.
LEMMA AppendStep ==
    ASSUME WritesInv, NEW p \in Proposer, AppendCommand(p)
    PROVE  WritesInv'
<1>1. /\ task[p].at = "append"
      /\ log_entries' = Append(log_entries, [term |-> task[p].term, cmd |-> p])
      /\ task' = [task EXCEPT ![p].at = "wait", ![p].index = LastIndex + 1]
      /\ UNCHANGED <<role, term, commit_to, applied_to, results, deposed>>
  BY DEF AppendCommand, AppendWith
<1>2. /\ LastIndex \in Nat /\ LastIndex' = LastIndex + 1
      /\ \A i \in 1 .. LastIndex : log_entries'[i] = log_entries[i]
      /\ log_entries'[LastIndex + 1] = [term |-> task[p].term, cmd |-> p]
      /\ log_entries' \in Seq(LogEntry)
  <2>1. log_entries \in Seq(LogEntry) /\ [term |-> task[p].term, cmd |-> p] \in LogEntry
    BY DEF WritesInv, WriteTypes, LogEntry, TaskRecord
  <2> QED
    BY <1>1, <2>1 DEF LastIndex
<1>3. /\ task' \in [Proposer -> TaskRecord]
      /\ task'[p].at = "wait" /\ task'[p].answer = task[p].answer /\ task'[p].index = LastIndex + 1
      /\ \A q \in Proposer \ {p} : task'[q] = task[q]
  <2>1. task \in [Proposer -> TaskRecord] /\ task[p] \in TaskRecord
    BY DEF WritesInv, WriteTypes
  <2>2. PICK j \in Nat : j = LastIndex + 1
    BY <1>2
  <2>3. task' = [task EXCEPT ![p] = [task[p] EXCEPT !.at = "wait", !.index = j]]
    BY <1>1, <2>1, <2>2
  <2>4. /\ task[p].answer \in TaskAnswer /\ task[p].term \in Nat
        /\ [task[p] EXCEPT !.at = "wait", !.index = j] = At("wait", task[p].term, j, task[p].answer)
    BY <2>1, TaskParts
  <2>5. task' = [task EXCEPT ![p] = At("wait", task[p].term, j, task[p].answer)]
    BY <2>3, <2>4
  <2>6. "wait" \in TaskPlace
    BY DEF TaskPlace
  <2>7. task[p].term \in Nat /\ task[p].answer \in TaskAnswer
    BY <2>4
  <2>8. /\ task' \in [Proposer -> TaskRecord]
        /\ task'[p].at = "wait" /\ task'[p].answer = task[p].answer /\ task'[p].index = j
        /\ \A q \in Proposer \ {p} : task'[q] = task[q]
    <3>1. PICK u \in Nat, c \in TaskAnswer, w \in TaskPlace :
            u = task[p].term /\ c = task[p].answer /\ w = "wait"
      BY <2>6, <2>7
    <3>2. task' = [task EXCEPT ![p] = At(w, u, j, c)]
      BY <2>5, <3>1
    <3>3. task \in [Proposer -> TaskRecord] /\ p \in Proposer /\ j \in Nat
      BY <2>1, <2>2
    <3>4. /\ task' \in [Proposer -> TaskRecord]
          /\ task'[p].at = w /\ task'[p].answer = c /\ task'[p].term = u /\ task'[p].index = j
          /\ \A q \in Proposer \ {p} : task'[q] = task[q]
      BY <3>2, <3>3, TaskMoves
    <3> QED
      BY <3>1, <3>4
  <2> QED
    BY <2>2, <2>8
<1>4. WriteTypes'
  BY <1>1, <1>2, <1>3 DEF WritesInv, WriteTypes
<1>5. ResultsAreTheLogs' /\ AnswersWhenDone'
  <2>1. applied_to \in Nat /\ applied_to <= LastIndex
    BY <1>2 DEF WritesInv, WriteTypes
  <2>2. \A i \in DOMAIN results : i \in 1 .. LastIndex
    BY <1>2, <2>1 DEF WritesInv, ResultsAreTheLogs
  <2> QED
    BY <1>1, <1>2, <1>3, <2>2 DEF WritesInv, ResultsAreTheLogs, AnswersWhenDone
<1>6. \A q \in Proposer \ {p} : OwnAt(q) => OwnAt(q)'
  BY <1>2, <1>3 DEF OwnAt
<1>7. OwnAt(p)'
  BY <1>2, <1>3 DEF OwnAt
<1>8. OwnEntries'
  BY <1>1, <1>3, <1>6, <1>7 DEF WritesInv, OwnEntries
<1> QED
  BY <1>4, <1>5, <1>8 DEF WritesInv

\* The node commits, applies, follows or leads; what is committed stays where it is.
LEMMA NodeSteps ==
    ASSUME WritesInv, MaybeCommit \/ ApplyNext \/ AppendEntries \/ RejectEntries \/ WinElection
    PROVE  WritesInv'
<1> DEFINE Kept ==
             /\ commit_to' \in commit_to .. LastIndex' /\ log_entries' \in Seq(LogEntry)
             /\ \A i \in 1 .. commit_to : log_entries'[i] = log_entries[i]
             /\ role = "Leader" /\ role' # "Leader" => \A p \in Proposer \ deposed' : task[p].at = "done"
             /\ role = "Leader" /\ role' = "Leader" => log_entries' = log_entries
             /\ deposed \subseteq deposed' /\ deposed' \subseteq Proposer
             /\ role' \in {"Leader", "Follower"} /\ term' \in Nat
<1>0. /\ log_entries \in Seq(LogEntry) /\ LastIndex \in Nat /\ commit_to \in 0 .. LastIndex
      /\ term \in Nat /\ role \in {"Leader", "Follower"} /\ deposed \subseteq Proposer
  BY DEF WritesInv, WriteTypes, LastIndex
<1>1. UNCHANGED task
  BY DEF MaybeCommit, ApplyNext, AppendEntries, RejectEntries, WinElection
<1>2. Kept
  <2>1. CASE MaybeCommit \/ ApplyNext \/ WinElection
    BY <1>0, <2>1 DEF MaybeCommit, ApplyNext, WinElection, LastIndex
  <2>2. CASE AppendEntries
    <3>1. PICK t \in term .. MaxRaftTerm, n \in 0 .. 1, prev \in commit_to .. LastIndex :
            /\ term' = t /\ role' = "Follower"
            /\ log_entries' = IF n = 0 THEN log_entries
                              ELSE SubSeq(log_entries, 1, prev) \o [i \in 1 .. n |-> [term |-> t, cmd |-> Theirs]]
            /\ commit_to' \in commit_to .. prev + n
            /\ Deposes
      BY <2>2 DEF AppendEntries
    <3>2. /\ t \in Nat /\ prev \in Nat /\ prev <= LastIndex /\ commit_to <= prev
      BY <1>0, <3>1
    <3>3. CASE n = 0
      BY <1>0, <3>1, <3>2, <3>3 DEF LastIndex, Deposes
    <3>4. CASE n = 1
      <4> DEFINE S == SubSeq(log_entries, 1, prev)
                 X == [i \in 1 .. 1 |-> [term |-> t, cmd |-> Theirs]]
      <4>1. S \in Seq(LogEntry) /\ Len(S) = prev /\ \A i \in 1 .. prev : S[i] = log_entries[i]
        BY <1>0, <3>2 DEF LastIndex
      <4>2. X \in Seq(LogEntry) /\ Len(X) = 1
        BY <3>2 DEF LogEntry
      <4>3. log_entries' = S \o X
        BY <3>1, <3>4
      <4> HIDE DEF S, X
      <4>4. /\ log_entries' \in Seq(LogEntry) /\ Len(log_entries') = prev + 1
            /\ \A i \in 1 .. prev : log_entries'[i] = S[i]
        <5>1. S \o X \in Seq(LogEntry) /\ Len(S \o X) = Len(S) + Len(X)
          BY <4>1, <4>2, ConcatProperties
        <5>2. \A i \in 1 .. Len(S) + Len(X) : (S \o X)[i] = IF i <= Len(S) THEN S[i] ELSE X[i - Len(S)]
          BY <4>1, <4>2, ConcatProperties
        <5> QED
          BY <3>2, <4>1, <4>2, <4>3, <5>1, <5>2
      <4> QED
        BY <1>0, <3>1, <3>2, <3>4, <4>1, <4>4 DEF LastIndex, Deposes
    <3> QED
      BY <3>3, <3>4
  <2>3. CASE RejectEntries
    BY <1>0, <2>3 DEF RejectEntries, Deposes, LastIndex
  <2> QED
    BY <2>1, <2>2, <2>3
<1> HIDE DEF Kept
<1>3. /\ applied_to' \in applied_to .. commit_to'
      /\ DOMAIN results' \subseteq 1 .. applied_to'
      /\ \A i \in DOMAIN results' : results'[i] = log_entries'[i].cmd
  <2>1. CASE ApplyNext
    BY <1>0, <2>1 DEF ApplyNext, WritesInv, WriteTypes, ResultsAreTheLogs
  <2>2. CASE ~ApplyNext
    <3>1. UNCHANGED <<applied_to, results>>
      BY <2>2 DEF MaybeCommit, AppendEntries, RejectEntries, WinElection
    <3> QED
      BY <1>0, <1>2, <3>1, SMTT(30) DEF WritesInv, WriteTypes, ResultsAreTheLogs, Kept
  <2> QED
    BY <2>1, <2>2
<1>4. WriteTypes'
  BY <1>0, <1>1, <1>2, <1>3 DEF WritesInv, WriteTypes, Kept
<1>5. OwnEntries'
  <2> SUFFICES ASSUME NEW p \in Proposer \ deposed'
               PROVE  /\ task[p].at \in {"term", "append", "wait"} => role' = "Leader"
                      /\ task[p].at = "wait" => OwnAt(p)'
                      /\ task[p].at = "done" /\ task[p].answer \in {"ok", "refused"} =>
                           /\ task[p].index \in 1 .. commit_to'
                           /\ OwnAt(p)'
                           /\ task[p].answer = "refused" <=> p \in Invalid
    BY <1>1 DEF OwnEntries
  <2>0. p \in Proposer \ deposed
    BY <1>2 DEF Kept
  <2>1. ASSUME task[p].at \in {"term", "append", "wait"}
        PROVE  role' = "Leader" /\ log_entries' = log_entries /\ (task[p].at = "wait" => OwnAt(p))
    BY <1>2, <2>0, <2>1 DEF Kept, WritesInv, WriteTypes, OwnEntries
  <2>2. task[p].at = "wait" => OwnAt(p)'
    BY <1>1, <2>1 DEF OwnAt, LastIndex
  <2>3. ASSUME task[p].at = "done", task[p].answer \in {"ok", "refused"}
        PROVE  /\ task[p].index \in 1 .. commit_to'
               /\ OwnAt(p)'
               /\ task[p].answer = "refused" <=> p \in Invalid
    <3>1. /\ task[p].index \in 1 .. commit_to /\ OwnAt(p)
          /\ task[p].answer = "refused" <=> p \in Invalid
      BY <2>0, <2>3 DEF WritesInv, OwnEntries
    <3>2. /\ commit_to' \in commit_to .. LastIndex' /\ LastIndex' \in Nat
          /\ log_entries'[task[p].index] = log_entries[task[p].index]
      BY <1>2, <3>1 DEF Kept, LastIndex
    <3> QED
      BY <1>0, <1>1, <3>1, <3>2 DEF OwnAt
  <2> QED
    BY <2>1, <2>2, <2>3
<1>6. ResultsAreTheLogs' /\ AnswersWhenDone'
  BY <1>1, <1>3 DEF WritesInv, ResultsAreTheLogs, AnswersWhenDone
<1> QED
  BY <1>4, <1>5, <1>6 DEF WritesInv

LEMMA WritesKeep == WritesInv /\ [WriteStep]_writeVars => WritesInv'
<1> SUFFICES ASSUME WritesInv, [WriteStep]_writeVars PROVE WritesInv'
  OBVIOUS
<1>1. CASE UNCHANGED <<nodeVars, results, task, deposed>>
  BY <1>1 DEF WritesInv, WriteTypes, ResultsAreTheLogs, OwnEntries, OwnAt, AnswersWhenDone, LastIndex,
              nodeVars
<1>2. UNCHANGED writeVars \/ SetMailbox \/ InjectMailbox => UNCHANGED <<nodeVars, results, task, deposed>>
  BY DEF writeVars, SetMailbox, InjectMailbox, nodeVars
<1> QED
  BY <1>1, <1>2, TaskSteps, AppendStep, NodeSteps DEF WriteStep

LEMMA WritesAnswer == WritesInv => AnswersAreOwn
BY DEF WritesInv, WriteTypes, TaskRecord, OwnEntries, OwnAt, AnswersWhenDone, AnswersAreOwn
-----------------------------------------------------------------------------
(***************************************************************************)
(* Keys that decide (KeyGuardian).                                         *)
(***************************************************************************)
KeyTypes ==
    /\ keys \subseteq [key : IssuedKey, expires_at : Nat, revoked : BOOLEAN]
    /\ issuing \subseteq IssuedKey /\ handed_out \subseteq IssuedKey
    /\ now \in Nat /\ known_nonempty \in BOOLEAN /\ token_set \in BOOLEAN
    /\ check \in [Request -> {"start", "flag", "lookup", "count", "done"}]
    /\ shown \in [Request -> NoKey \cup IssuedKey]
    /\ decision \in [Request -> {"none", "ok", "unauthorized", "unavailable"}]
    /\ ever_valid \in [Request -> BOOLEAN] /\ always_valid \in [Request -> BOOLEAN]

\* A key is in the registry once and since its issue began, the flag is set before anybody has a key,
\* and nobody shows one before he has it.
KeysAreIssued ==
    /\ \A rec \in keys : rec.key \in issuing \cup handed_out
    /\ \A rec, other \in keys : rec.key = other.key => rec = other
    /\ handed_out # {} => known_nonempty
    /\ \A r \in Request : shown[r] \in NoKey \cup handed_out

\* While a check looks, a key that is good was so when the check began, one that has been good since
\* is still there, and a check that only counts has none.
CheckFollows(r) ==
    /\ check[r] \in {"flag", "lookup"} =>
         /\ Valid(shown[r]) => ever_valid[r]
         /\ always_valid[r] => Valid(shown[r])
    /\ check[r] \in {"start", "count"} => ~always_valid[r]

ChecksFollow == \A r \in Request : CheckFollows(r)

KeysInv == KeyTypes /\ KeysAreIssued /\ ChecksFollow /\ KeysDecide

LEMMA KeysStart == KeyInit => KeysInv
<1> SUFFICES ASSUME KeyInit PROVE KeysInv
  OBVIOUS
<1>1. KeyTypes
  BY DEF KeyInit, KeyTypes, NoKey
<1>2. KeysAreIssued
  BY DEF KeyInit, KeysAreIssued, NoKey
<1>3. ChecksFollow /\ KeysDecide
  BY DEF KeyInit, ChecksFollow, CheckFollows, KeysDecide
<1> QED
  BY <1>1, <1>2, <1>3 DEF KeysInv

\* Only a key that somebody may have been handed is good.
LEMMA ValidIsIssued ==
    ASSUME KeysInv, NEW r \in Request, Valid(shown[r])
    PROVE  shown[r] \in handed_out /\ known_nonempty
<1>1. PICK rec \in keys : rec.key = shown[r]
  BY DEF Valid, Record
<1>2. rec.key \in IssuedKey
  BY DEF KeysInv, KeyTypes
<1>3. shown[r] \notin NoKey
  BY <1>1, <1>2, KeyAssumption
<1> QED
  BY <1>3 DEF KeysInv, KeysAreIssued

LEMMA IssueStep ==
    ASSUME KeysInv, NEW k \in IssuedKey, InsertKey(k)
    PROVE  KeysInv'
<1> DEFINE new == [key |-> k, expires_at |-> now + Ttl, revoked |-> FALSE]
<1>1. /\ keys' = keys \cup {new} /\ issuing' = issuing \cup {k} /\ k \notin handed_out \cup issuing
      /\ UNCHANGED <<known_nonempty, handed_out, now, token_set, check, shown, decision, ever_valid, always_valid>>
  BY DEF InsertKey
<1>2. new \in [key : IssuedKey, expires_at : Nat, revoked : BOOLEAN] /\ new.key = k
  BY KeyAssumption DEF KeysInv, KeyTypes
<1> HIDE DEF new
<1>3. KeyTypes'
  BY <1>1, <1>2 DEF KeysInv, KeyTypes
<1>4. KeysAreIssued'
  BY <1>1, <1>2 DEF KeysInv, KeysAreIssued
<1>5. ASSUME NEW r \in Request PROVE Valid(shown[r])' <=> Valid(shown[r])
  <2>1. shown[r] # k
    BY <1>1, KeyAssumption DEF KeysInv, KeysAreIssued
  <2> QED
    BY <1>1, <1>2, <2>1 DEF Valid, Record, Good
<1>6. ChecksFollow'
  BY <1>1, <1>5 DEF KeysInv, ChecksFollow, CheckFollows
<1>7. KeysDecide'
  BY <1>1 DEF KeysInv, KeysDecide
<1> QED
  BY <1>3, <1>4, <1>6, <1>7 DEF KeysInv

LEMMA HandOutStep ==
    ASSUME KeysInv, NEW k \in IssuedKey, HandOut(k)
    PROVE  KeysInv'
<1>1. /\ keys' = keys /\ issuing' = issuing \ {k} /\ handed_out' = handed_out \cup {k} /\ known_nonempty' = TRUE
      /\ UNCHANGED <<now, token_set, check, shown, decision, ever_valid, always_valid>>
  BY DEF HandOut
<1>2. \A r \in Request : Valid(shown[r])' <=> Valid(shown[r])
  BY <1>1 DEF Valid, Record, Good
<1>3. KeyTypes'
  BY <1>1 DEF KeysInv, KeyTypes
<1>4. KeysAreIssued'
  BY <1>1 DEF KeysInv, KeysAreIssued
<1>5. ChecksFollow'
  BY <1>1, <1>2 DEF KeysInv, ChecksFollow, CheckFollows
<1>6. KeysDecide'
  BY <1>1 DEF KeysInv, KeysDecide
<1> QED
  BY <1>3, <1>4, <1>5, <1>6 DEF KeysInv

\* Keys are revoked, or expire.
LEMMA KeysEndStep ==
    ASSUME KeysInv, RevokeOwner \/ TimePasses
    PROVE  KeysInv'
<1>0. /\ UNCHANGED <<known_nonempty, issuing, handed_out, token_set, check, shown, decision, ever_valid>>
      /\ always_valid' \in [Request -> BOOLEAN]
      /\ \A r \in Request : always_valid'[r] => always_valid[r]
  BY DEF RevokeOwner, TimePasses, KeysInv, KeyTypes
<1>1. /\ now' \in Nat /\ keys' \subseteq [key : IssuedKey, expires_at : Nat, revoked : BOOLEAN]
      /\ \A rec \in keys' : \E old \in keys :
            /\ rec.key = old.key /\ rec.expires_at = old.expires_at /\ (Good(rec)' => Good(old))
            /\ rec = IF RevokeOwner THEN [old EXCEPT !.revoked = TRUE] ELSE old
  <2>1. CASE RevokeOwner
    <3>1. now' = now /\ keys' = {[rec EXCEPT !.revoked = TRUE] : rec \in keys}
      BY <2>1 DEF RevokeOwner, KeysInv, KeyTypes
    <3>2. \A old \in keys : LET rec == [old EXCEPT !.revoked = TRUE] IN
             /\ rec \in [key : IssuedKey, expires_at : Nat, revoked : BOOLEAN]
             /\ rec.key = old.key /\ rec.expires_at = old.expires_at /\ rec.revoked
      BY DEF KeysInv, KeyTypes
    <3> QED
      BY <2>1, <3>1, <3>2 DEF KeysInv, KeyTypes, Good
  <2>2. CASE ~RevokeOwner
    <3>1. now' = now + 1 /\ keys' = keys
      BY <2>2 DEF TimePasses
    <3> QED
      BY <2>2, <3>1 DEF KeysInv, KeyTypes, Good
  <2> QED
    BY <2>1, <2>2
<1>2. \A r \in Request : Valid(shown[r])' => Valid(shown[r])
  BY <1>0, <1>1 DEF Valid, Record
<1>3. ASSUME NEW r \in Request, always_valid'[r], check[r] # "done"
      PROVE  Valid(shown[r])'
  <2>1. CASE RevokeOwner
    BY <1>3, <2>1 DEF RevokeOwner
  <2>2. CASE TimePasses
    <3>1. /\ always_valid'[r] = /\ always_valid[r]
                                /\ check[r] = "done" \/ \E rec \in Record(shown[r]) : now + 1 < rec.expires_at
          /\ keys' = keys /\ now' = now + 1 /\ shown' = shown
      BY <2>2 DEF TimePasses
    <3>2. PICK rec \in keys : rec.key = shown[r] /\ now + 1 < rec.expires_at
      BY <1>3, <3>1 DEF Record
    <3>3. always_valid[r] /\ CheckFollows(r)
      BY <1>0, <1>3 DEF KeysInv, ChecksFollow
    <3>4. check[r] \in {"flag", "lookup"}
      BY <1>3, <3>3 DEF KeysInv, KeyTypes, CheckFollows
    <3>5. PICK good \in keys : good.key = shown[r] /\ Good(good)
      BY <3>3, <3>4 DEF CheckFollows, Valid, Record
    <3>6. good = rec
      BY <3>2, <3>5 DEF KeysInv, KeysAreIssued
    <3> QED
      BY <3>1, <3>2, <3>5, <3>6 DEF Valid, Record, Good
  <2> QED
    BY <2>1, <2>2
<1>4. KeyTypes'
  BY <1>0, <1>1 DEF KeysInv, KeyTypes
<1>5. KeysAreIssued'
  <2>1. \A rec \in keys' : rec.key \in issuing' \cup handed_out'
    BY <1>0, <1>1 DEF KeysInv, KeysAreIssued
  <2>2. \A rec, other \in keys' : rec.key = other.key => rec = other
    BY <1>1 DEF KeysInv, KeysAreIssued
  <2> QED
    BY <1>0, <2>1, <2>2 DEF KeysInv, KeysAreIssued
<1>6. ChecksFollow'
  <2> SUFFICES ASSUME NEW r \in Request PROVE CheckFollows(r)'
    BY DEF ChecksFollow
  <2> QED
    BY <1>0, <1>2, <1>3 DEF KeysInv, KeyTypes, ChecksFollow, CheckFollows
<1>7. KeysDecide'
  BY <1>0 DEF KeysInv, KeysDecide
<1> QED
  BY <1>4, <1>5, <1>6, <1>7 DEF KeysInv

\* A request begins; what it has of a key is one it was handed.
LEMMA BeginStep ==
    ASSUME KeysInv, NEW r \in Request, BeginCheck(r)
    PROVE  KeysInv'
<1>1. PICK what \in NoKey \cup handed_out :
        /\ shown' = [shown EXCEPT ![r] = what]
        /\ ever_valid' = [ever_valid EXCEPT ![r] = Valid(what)]
        /\ always_valid' = [always_valid EXCEPT ![r] = Valid(what)]
        /\ \/ what = "token" /\ token_set /\ Decide(r, "ok")
           \/ what = "nothing" /\ GoOn(r, "count")
           \/ what # "nothing" /\ GoOn(r, "flag")
  BY DEF BeginCheck
<1>2. check[r] = "start" /\ UNCHANGED <<keys, known_nonempty, issuing, handed_out, now, token_set>>
  BY DEF BeginCheck
<1>3. \A q \in Request \ {r} :
         /\ shown'[q] = shown[q] /\ check'[q] = check[q] /\ decision'[q] = decision[q]
         /\ ever_valid'[q] = ever_valid[q] /\ always_valid'[q] = always_valid[q]
  BY <1>1 DEF Decide, GoOn, KeysInv, KeyTypes
<1>4. shown'[r] = what /\ ever_valid'[r] = Valid(what) /\ always_valid'[r] = Valid(what)
  BY <1>1 DEF KeysInv, KeyTypes
<1>5. Valid(what) \in BOOLEAN
  BY DEF Valid
<1>6. KeyTypes'
  <2>1. ever_valid' \in [Request -> BOOLEAN] /\ always_valid' \in [Request -> BOOLEAN]
    BY <1>1, <1>5 DEF KeysInv, KeyTypes
  <2>2. shown' \in [Request -> NoKey \cup IssuedKey]
    BY <1>1 DEF KeysInv, KeyTypes
  <2>3. /\ check' \in [Request -> {"start", "flag", "lookup", "count", "done"}]
        /\ decision' \in [Request -> {"none", "ok", "unauthorized", "unavailable"}]
    BY <1>1 DEF KeysInv, KeyTypes, Decide, GoOn
  <2> QED
    BY <1>2, <2>1, <2>2, <2>3 DEF KeysInv, KeyTypes
<1>7. KeysAreIssued'
  BY <1>1, <1>2, <1>3, <1>4 DEF KeysInv, KeysAreIssued
<1>8. \A k : Valid(k)' <=> Valid(k)
  BY <1>2 DEF Valid, Record, Good
<1>9. \/ check'[r] = "done" /\ decision'[r] = "ok" /\ token_set /\ shown'[r] = "token"
      \/ check'[r] = "count" /\ ~Valid(what)
      \/ check'[r] = "flag"
  <2>1. what = "nothing" => ~Valid(what)
    <3> SUFFICES ASSUME what = "nothing", NEW rec \in keys, rec.key = what PROVE FALSE
      BY DEF Valid, Record
    <3> QED
      BY KeyAssumption DEF KeysInv, KeyTypes, NoKey
  <2> QED
    BY <1>1, <1>4, <2>1 DEF Decide, GoOn, KeysInv, KeyTypes
<1>10. ChecksFollow'
  <2> SUFFICES ASSUME NEW q \in Request PROVE CheckFollows(q)'
    BY DEF ChecksFollow
  <2>1. CASE q = r
    BY <1>4, <1>8, <1>9, <2>1 DEF CheckFollows
  <2>2. CASE q # r
    BY <1>3, <1>8, <2>2 DEF KeysInv, ChecksFollow, CheckFollows
  <2> QED
    BY <2>1, <2>2
<1>11. KeysDecide'
  BY <1>2, <1>3, <1>9 DEF KeysInv, KeysDecide
<1> QED
  BY <1>6, <1>7, <1>10, <1>11 DEF KeysInv

\* A check reads the flag, looks its key up, or counts.
LEMMA CheckStep ==
    ASSUME KeysInv, NEW r \in Request, ReadFlag(r) \/ LookUpKey(r) \/ CountKeys(r)
    PROVE  KeysInv'
<1>1. /\ UNCHANGED <<known_nonempty, issuing, handed_out, now, token_set, shown, ever_valid, always_valid>>
      /\ keys' \subseteq keys
      /\ \A rec \in keys : Good(rec) => rec \in keys'
  BY DEF ReadFlag, LookUpKey, CountKeys, Good
<1>2. \A k : Valid(k)' <=> Valid(k)
  BY <1>1 DEF Valid, Record, Good
<1>3. \A q \in Request \ {r} : check'[q] = check[q] /\ decision'[q] = decision[q]
  BY DEF ReadFlag, LookUpKey, CountKeys, Decide, GoOn, KeysInv, KeyTypes
<1>4. KeyTypes'
  <2>1. /\ check' \in [Request -> {"start", "flag", "lookup", "count", "done"}]
        /\ decision' \in [Request -> {"none", "ok", "unauthorized", "unavailable"}]
    BY DEF ReadFlag, LookUpKey, CountKeys, Decide, GoOn, KeysInv, KeyTypes
  <2> QED
    BY <1>1, <2>1 DEF KeysInv, KeyTypes
<1>5. KeysAreIssued'
  BY <1>1 DEF KeysInv, KeysAreIssued
<1>6. always_valid[r] /\ check[r] \in {"flag", "lookup"} => Valid(shown[r]) /\ known_nonempty
  BY ValidIsIssued DEF KeysInv, ChecksFollow, CheckFollows
<1>7. \/ check'[r] = "lookup" /\ check[r] = "flag"
      \/ check'[r] = "count" /\ ~always_valid[r]
      \/ check'[r] = "done" /\ decision'[r] = "ok" /\ ever_valid[r]
      \/ check'[r] = "done" /\ decision'[r] # "ok" /\ ~always_valid[r]
  <2>1. CASE ReadFlag(r)
    BY <1>6, <2>1 DEF ReadFlag, GoOn, KeysInv, KeyTypes
  <2>2. CASE LookUpKey(r)
    <3>1. CASE Valid(shown[r])
      BY <2>2, <3>1 DEF LookUpKey, Decide, KeysInv, KeyTypes, ChecksFollow, CheckFollows
    <3>2. CASE ~Valid(shown[r])
      BY <1>6, <2>2, <3>2 DEF LookUpKey, GoOn, KeysInv, KeyTypes
    <3> QED
      BY <3>1, <3>2
  <2>3. CASE CountKeys(r)
    BY <2>3 DEF CountKeys, Decide, KeysInv, KeyTypes, ChecksFollow, CheckFollows
  <2> QED
    BY <2>1, <2>2, <2>3
<1>8. ChecksFollow'
  <2> SUFFICES ASSUME NEW q \in Request PROVE CheckFollows(q)'
    BY DEF ChecksFollow
  <2>1. CASE q = r
    BY <1>1, <1>2, <1>7, <2>1 DEF KeysInv, ChecksFollow, CheckFollows
  <2>2. CASE q # r
    BY <1>1, <1>2, <1>3, <2>2 DEF KeysInv, ChecksFollow, CheckFollows
  <2> QED
    BY <2>1, <2>2
<1>9. KeysDecide'
  BY <1>1, <1>3, <1>7 DEF KeysInv, KeysDecide
<1> QED
  BY <1>4, <1>5, <1>8, <1>9 DEF KeysInv

LEMMA KeysKeep == KeysInv /\ [KeyStep]_keyVars => KeysInv'
<1> SUFFICES ASSUME KeysInv, [KeyStep]_keyVars PROVE KeysInv'
  OBVIOUS
<1>1. CASE UNCHANGED keyVars
  BY <1>1 DEF KeysInv, KeyTypes, KeysAreIssued, ChecksFollow, CheckFollows, KeysDecide, Valid, Record, Good,
              keyVars
<1> QED
  BY <1>1, IssueStep, HandOutStep, KeysEndStep, BeginStep, CheckStep DEF KeyStep
-----------------------------------------------------------------------------
(***************************************************************************)
(* The newest row in the mirror (DualMirror).                              *)
(***************************************************************************)
Mutation == [row : Row, commit : Commits, at : Nat]
Mutations == mirrored \cup UNION {stamped[c] : c \in Commits}

MirrorTypes ==
    /\ made \in 0 .. MaxCommits /\ clock \in Nat
    /\ todo \in [Commits -> SUBSET Row] /\ stamped \in [Commits -> SUBSET Mutation]
    /\ mirrored \subseteq Mutation

\* What there is of a mutation is of a commit that was made, and no newer than the clock.
MutationsPast ==
    /\ \A c \in Commits : \A m \in stamped[c] : m.commit = c
    /\ \A c \in Commits : AtWork(c) => c <= made
    /\ \A m \in Mutations : m.commit <= made /\ m.at <= clock

\* When a commit was made while no task was at work, those of earlier commits have ended for good ...
EarlierEnded == \A c, d \in Commits : c < d /\ d <= made /\ d \notin overlapped => ~AtWork(c)

\* ... so whatever they stamped is no newer than what the task of that commit stamps.
StampsInOrder ==
    \A m, n \in Mutations : m.commit < n.commit /\ n.commit \notin overlapped => m.at <= n.at

MirrorInv == MirrorTypes /\ MutationsPast /\ EarlierEnded /\ StampsInOrder

LEMMA MirrorStart == MirrorInit => MirrorInv
BY MirrorAssumption
   DEF MirrorInit, MirrorInv, MirrorTypes, MutationsPast, EarlierEnded, StampsInOrder, Mutations, AtWork, Commits

LEMMA MutationsTyped ==
    ASSUME MirrorInv, NEW m \in Mutations PROVE m \in Mutation
BY DEF MirrorInv, MirrorTypes, Mutations

\* A commit is made.
LEMMA HookStep ==
    ASSUME MirrorInv, NEW rows \in SUBSET Row, RunHook(rows)
    PROVE  MirrorInv'
<1>1. /\ made + 1 \in Commits /\ made' = made + 1 /\ made \in Nat
      /\ todo' = [todo EXCEPT ![made + 1] = rows]
      /\ overlapped' = IF \E c \in Commits : AtWork(c) THEN overlapped \cup {made + 1} ELSE overlapped
      /\ UNCHANGED <<stamped, mirrored, clock>>
  BY MirrorAssumption DEF RunHook, MirrorInv, MirrorTypes, Commits
<1>2. MirrorTypes'
  BY <1>1 DEF MirrorInv, MirrorTypes, Commits
<1>3. Mutations' = Mutations
  BY <1>1 DEF Mutations
<1>4. \A c \in Commits \ {made + 1} : AtWork(c)' <=> AtWork(c)
  BY <1>1 DEF AtWork, MirrorInv, MirrorTypes
<1>5. MutationsPast'
  <2>1. \A c \in Commits : AtWork(c)' => c <= made'
    BY <1>1, <1>4 DEF MirrorInv, MutationsPast, Commits
  <2>2. \A m \in Mutations' : m.commit <= made' /\ m.at <= clock'
    BY <1>1, <1>3, MutationsTyped DEF MirrorInv, MutationsPast, Mutation, Commits
  <2> QED
    BY <1>1, <2>1, <2>2 DEF MirrorInv, MutationsPast
<1>6. EarlierEnded'
  <2> SUFFICES ASSUME NEW c \in Commits, NEW d \in Commits, c < d, d <= made', d \notin overlapped'
               PROVE  ~AtWork(c)'
    BY DEF EarlierEnded
  <2>1. c # made + 1 /\ c <= made
    BY <1>1 DEF Commits
  <2>2. CASE d = made + 1
    BY <1>1, <1>4, <2>1, <2>2
  <2>3. CASE d # made + 1
    BY <1>1, <1>4, <2>1, <2>3 DEF MirrorInv, EarlierEnded, Commits
  <2> QED
    BY <2>2, <2>3
<1>7. StampsInOrder'
  BY <1>1, <1>3 DEF MirrorInv, StampsInOrder
<1> QED
  BY <1>2, <1>5, <1>6, <1>7 DEF MirrorInv

\* A task stamps a row.
LEMMA StampStep ==
    ASSUME MirrorInv, NEW c \in Commits, Stamp(c)
    PROVE  MirrorInv'
<1> PICK r \in todo[c] :
        /\ stamped' = [stamped EXCEPT ![c] = {[row |-> r, commit |-> c, at |-> clock]}]
        /\ todo' = [todo EXCEPT ![c] = @ \ {r}]
  BY DEF Stamp
<1>1. PICK new \in Mutation : new = [row |-> r, commit |-> c, at |-> clock]
  BY DEF MirrorInv, MirrorTypes, Mutation
<1>2. /\ stamped' = [stamped EXCEPT ![c] = {new}] /\ stamped[c] = {}
      /\ UNCHANGED <<made, mirrored, clock, overlapped>>
  BY <1>1 DEF Stamp
<1>3. new.commit = c /\ new.at = clock
  BY <1>1
<1>4. MirrorTypes'
  BY <1>2 DEF MirrorInv, MirrorTypes
<1>5. Mutations' = Mutations \cup {new}
  BY <1>2 DEF MirrorInv, MirrorTypes, Mutations
<1>6. AtWork(c) /\ c <= made
  BY DEF AtWork, MirrorInv, MutationsPast
<1>7. \A b \in Commits : AtWork(b)' => AtWork(b)
  BY <1>2, <1>6 DEF AtWork, MirrorInv, MirrorTypes
<1>8. MutationsPast'
  <2>1. \A b \in Commits : \A m \in stamped'[b] : m.commit = b
    BY <1>2, <1>3 DEF MirrorInv, MirrorTypes, MutationsPast
  <2>2. \A m \in Mutations' : m.commit <= made' /\ m.at <= clock'
    BY <1>2, <1>3, <1>5, <1>6 DEF MirrorInv, MirrorTypes, MutationsPast
  <2> QED
    BY <1>2, <1>7, <2>1, <2>2 DEF MirrorInv, MutationsPast
<1>9. EarlierEnded'
  BY <1>2, <1>7 DEF MirrorInv, EarlierEnded
<1>10. StampsInOrder'
  <2> SUFFICES ASSUME NEW m \in Mutations', NEW n \in Mutations', m.commit < n.commit, n.commit \notin overlapped'
               PROVE  m.at <= n.at
    BY DEF StampsInOrder
  <2>1. CASE n = new
    BY <1>2, <1>3, <1>8, <2>1 DEF MutationsPast
  <2>2. CASE n # new /\ m = new
    <3>1. n \in Mutations /\ n.commit \in Commits /\ n.commit <= made
      BY <1>5, <2>2, MutationsTyped DEF MirrorInv, MutationsPast, Mutation
    <3> QED
      BY <1>2, <1>3, <1>6, <2>2, <3>1 DEF MirrorInv, EarlierEnded
  <2>3. CASE n # new /\ m # new
    BY <1>2, <1>5, <2>3 DEF MirrorInv, StampsInOrder
  <2> QED
    BY <2>1, <2>2, <2>3
<1> QED
  BY <1>4, <1>8, <1>9, <1>10 DEF MirrorInv

\* An INSERT ends, one way or the other, the process stops, or time passes: nothing is added to the
\* mutations there are, or to the work.
LEMMA MirrorLess ==
    ASSUME MirrorInv, UNCHANGED <<made, overlapped>>, clock' \in Nat, clock <= clock',
           todo' \in [Commits -> SUBSET Row], stamped' \in [Commits -> SUBSET Mutation],
           \A b \in Commits : todo'[b] \subseteq todo[b] /\ stamped'[b] \subseteq stamped[b],
           mirrored' \subseteq Mutations
    PROVE  MirrorInv'
<1>1. MirrorTypes'
  BY MutationsTyped DEF MirrorInv, MirrorTypes
<1>2. Mutations' \subseteq Mutations
  BY DEF Mutations
<1>3. \A b \in Commits : AtWork(b)' => AtWork(b)
  BY DEF AtWork
<1>4. MutationsPast'
  <2>1. \A m \in Mutations' : m.commit <= made' /\ m.at <= clock'
    BY <1>2, MutationsTyped DEF MirrorInv, MirrorTypes, MutationsPast, Mutation
  <2> QED
    BY <1>3, <2>1 DEF MirrorInv, MutationsPast
<1>5. EarlierEnded'
  BY <1>3 DEF MirrorInv, EarlierEnded
<1>6. StampsInOrder'
  BY <1>2 DEF MirrorInv, StampsInOrder
<1> QED
  BY <1>1, <1>4, <1>5, <1>6 DEF MirrorInv

LEMMA MirrorKeep == MirrorInv /\ [MirrorStep]_mirrorVars => MirrorInv'
<1> SUFFICES ASSUME MirrorInv, [MirrorStep]_mirrorVars PROVE MirrorInv'
  OBVIOUS
<1>0. /\ clock \in Nat /\ todo \in [Commits -> SUBSET Row] /\ stamped \in [Commits -> SUBSET Mutation]
      /\ mirrored \subseteq Mutations
  BY DEF MirrorInv, MirrorTypes, Mutations
<1>1. CASE UNCHANGED mirrorVars
  BY <1>0, <1>1, MirrorLess DEF mirrorVars
<1>2. ASSUME NEW c \in Commits, Mirror(c) PROVE MirrorInv'
  BY <1>0, <1>2, MirrorLess DEF Mirror, Mutations
<1>3. ASSUME NEW c \in Commits, MirrorFails(c) PROVE MirrorInv'
  BY <1>0, <1>3, MirrorLess DEF MirrorFails
<1>4. CASE MirrorCrash
  BY <1>0, <1>4, MirrorLess DEF MirrorCrash
<1>5. CASE Tick
  BY <1>0, <1>5, MirrorLess DEF Tick
<1> QED
  BY <1>1, <1>2, <1>3, <1>4, <1>5, HookStep, StampStep DEF MirrorStep, MirrorTask

LEMMA MirrorLatest == MirrorInv => LatestIsNewest
<1> SUFFICES ASSUME MirrorInv, NEW r \in Row, NEW c \in Latest(r), NEW d \in Newer(r, c), d \notin overlapped
             PROVE  \E m, n \in mirrored : m.row = r /\ n.row = r /\ m # n /\ m.at = n.at
  BY DEF LatestIsNewest
<1>1. PICK m \in mirrored : m.row = r /\ m.commit = c /\ \A o \in mirrored : o.row = r => o.at <= m.at
  BY DEF Latest
<1>2. d \in Commits /\ d > c /\ AtCommit(r, d) # {}
  BY DEF Newer
<1>3. PICK n \in mirrored : n.row = r /\ n.commit = d
  BY <1>2 DEF AtCommit
<1>4. /\ m \in Mutations /\ n \in Mutations /\ m.at \in Nat /\ n.at \in Nat
      /\ m.commit \in Nat /\ n.commit \in Nat
  BY MutationsTyped DEF Mutations, Mutation, Commits
<1>5. m.at <= n.at
  BY <1>1, <1>2, <1>3, <1>4 DEF MirrorInv, StampsInOrder
<1>6. n.at <= m.at
  BY <1>1, <1>3
<1>7. m.at = n.at /\ m # n
  BY <1>1, <1>2, <1>3, <1>4, <1>5, <1>6
<1> QED
  BY <1>1, <1>3, <1>7
-----------------------------------------------------------------------------
(***************************************************************************)
(* The ranking of databases (Registry).                                    *)
(***************************************************************************)
Stage == {"idle", "fetching", "fallback", "apply"}

RegistryTypes ==
    /\ crawls \in 0 .. MaxCrawls
    /\ ended \subseteq 1 .. crawls
    /\ crawling \in [Crawler -> 0 .. crawls]
    /\ stage \in [Crawler -> Stage]
    /\ asking \in [Crawler -> SUBSET Starred]
    /\ DOMAIN found = Crawler
    /\ DOMAIN before = 1 .. MaxCrawls /\ DOMAIN matched = 1 .. MaxCrawls

\* A crawl is that of one crawler until it ends, and one that has not ended is nowhere else.
CrawlsAreOwn ==
    /\ \A c \in Crawler : stage[c] # "idle" => crawling[c] # 0 /\ crawling[c] \notin ended
    /\ \A c, d \in Crawler : c # d /\ stage[c] # "idle" /\ stage[d] # "idle" => crawling[c] # crawling[d]
    /\ \A i \in 1 .. MaxCrawls : before[i] \subseteq ended /\ (i \notin ended => matched[i] = {})
    /\ \A e \in Entry : entries[e].crawl \in ended \cup {0}

\* In what a crawl found no name and no rank comes twice, and what it still asks for is not in it.
FoundIsRanking(set) ==
    /\ \A m \in set : m = [name |-> m.name, rank |-> m.rank] /\ m.rank \in Int
    /\ \A m, n \in set : m.name = n.name \/ m.rank = n.rank => m = n

FoundAreRankings ==
    \A c \in Crawler :
        /\ FoundIsRanking(found[c])
        /\ stage[c] \in {"idle", "fetching"} => found[c] = {}
        /\ stage[c] = "fallback" => \A m \in found[c] : m.name \notin asking[c]

RegistryInv == RegistryTypes /\ CrawlsAreOwn /\ FoundAreRankings /\ RanksAreNewest

LEMMA RegistryStart == RegistryInit => RegistryInv
<1> SUFFICES ASSUME RegistryInit PROVE RegistryInv
  OBVIOUS
<1>1. RegistryTypes
  BY RegistryAssumption DEF RegistryInit, RegistryTypes, Stage
<1>2. CrawlsAreOwn
  BY DEF RegistryInit, CrawlsAreOwn
<1>3. FoundAreRankings
  BY DEF RegistryInit, FoundAreRankings, FoundIsRanking
<1>4. RanksAreNewest
  BY DEF RegistryInit, RanksAreNewest
<1> QED
  BY <1>1, <1>2, <1>3, <1>4 DEF RegistryInv

\* A page is counted; rows of one name leave one.
LEMMA PageIsRanking ==
    ASSUME NEW page \in Pages PROVE FoundIsRanking(ParseDbEngines(page))
<1> DEFINE final == {j \in DOMAIN page : \A k \in DOMAIN page : page[k] = page[j] => k <= j}
<1>1. DOMAIN page \subseteq Int
  BY RegistryAssumption
<1>2. \A m \in ParseDbEngines(page) : \E i \in final : m = [name |-> page[i], rank |-> i]
  BY DEF ParseDbEngines
<1>3. \A i, j \in final : page[i] = page[j] => i = j
  BY <1>1
<1> HIDE DEF final
<1>4. final \subseteq Int
  BY <1>1 DEF final
<1> QED
  BY <1>2, <1>3, <1>4 DEF FoundIsRanking

Inserted(set, e, position) ==
    {[m EXCEPT !.rank = IF @ >= position THEN @ + 1 ELSE @] : m \in set} \cup {[name |-> e, rank |-> position]}

\* A repository that answers gets its place, and those behind it move.
LEMMA InsertIsRanking ==
    ASSUME NEW set, FoundIsRanking(set), NEW e, \A m \in set : m.name # e, NEW position \in Int
    PROVE  /\ FoundIsRanking(Inserted(set, e, position))
           /\ \A n \in Inserted(set, e, position) : n.name = e \/ \E m \in set : n.name = m.name
<1> DEFINE moved(m) == [m EXCEPT !.rank = IF @ >= position THEN @ + 1 ELSE @]
           new == {moved(m) : m \in set} \cup {[name |-> e, rank |-> position]}
<1>1. ASSUME NEW m \in set
      PROVE  /\ moved(m) = [name |-> m.name, rank |-> IF m.rank >= position THEN m.rank + 1 ELSE m.rank]
             /\ m.rank \in Int
  <2>1. m = [name |-> m.name, rank |-> m.rank] /\ m.rank \in Int
    BY DEF FoundIsRanking
  <2>2. PICK nm : nm = m.name
    OBVIOUS
  <2>4. PICK rk \in Int : rk = m.rank
    BY <2>1
  <2>3. m = [name |-> nm, rank |-> rk]
    BY <2>1, <2>2, <2>4
  <2> QED
    BY <2>2, <2>3, <2>4
<1> DEFINE at(m) == IF m.rank >= position THEN m.rank + 1 ELSE m.rank
<1>2. \A n \in new : \/ n = [name |-> e, rank |-> position]
                     \/ \E m \in set : n = [name |-> m.name, rank |-> at(m)] /\ m.rank \in Int
  <2> HIDE DEF moved
  <2> QED
    BY <1>1
<1>3. \A m, n \in set : at(m) = at(n) => m = n
  BY <1>1 DEF FoundIsRanking
<1>4. \A m \in set : at(m) # position /\ at(m) \in Int
  BY DEF FoundIsRanking
<1>5. \A m, n \in set : m.name = n.name => m = n
  BY DEF FoundIsRanking
<1> HIDE DEF new, at
<1>6. \A n \in new : n = [name |-> n.name, rank |-> n.rank] /\ n.rank \in Int
  BY <1>2, <1>4
<1>7. ASSUME NEW m \in new, NEW n \in new, m.name = n.name \/ m.rank = n.rank PROVE m = n
  <2>1. CASE m = [name |-> e, rank |-> position] /\ n = [name |-> e, rank |-> position]
    BY <2>1
  <2>2. CASE m = [name |-> e, rank |-> position] /\ \E o \in set : n = [name |-> o.name, rank |-> at(o)]
    BY <1>4, <1>7, <2>2
  <2>3. CASE n = [name |-> e, rank |-> position] /\ \E o \in set : m = [name |-> o.name, rank |-> at(o)]
    BY <1>4, <1>7, <2>3
  <2>4. CASE /\ \E o \in set : m = [name |-> o.name, rank |-> at(o)]
             /\ \E o \in set : n = [name |-> o.name, rank |-> at(o)]
    <3>1. PICK o \in set : m = [name |-> o.name, rank |-> at(o)]
      BY <2>4
    <3>2. PICK q \in set : n = [name |-> q.name, rank |-> at(q)]
      BY <2>4
    <3>3. o = q
      BY <1>3, <1>5, <1>7, <3>1, <3>2
    <3> QED
      BY <3>1, <3>2, <3>3
  <2> QED
    BY <1>2, <2>1, <2>2, <2>3, <2>4
<1>8. FoundIsRanking(new)
  BY <1>6, <1>7 DEF FoundIsRanking
<1>9. \A n \in new : n.name = e \/ \E m \in set : n.name = m.name
  BY <1>2
<1>10. new = Inserted(set, e, position)
  BY DEF new, Inserted
<1> QED
  BY <1>8, <1>9, <1>10

\* A crawl begins.
LEMMA CrawlStep ==
    ASSUME RegistryInv, NEW c \in Crawler, StartCrawl(c)
    PROVE  RegistryInv'
<1>0. /\ crawls \in Nat /\ crawls + 1 \in 1 .. MaxCrawls /\ crawls' = crawls + 1 /\ stage[c] = "idle"
      /\ crawling' = [crawling EXCEPT ![c] = crawls + 1]
      /\ stage' = [stage EXCEPT ![c] = "fetching"]
      /\ before' = [before EXCEPT ![crawls + 1] = ended]
      /\ UNCHANGED <<entries, found, asking, ended, matched>>
  BY RegistryAssumption DEF StartCrawl, RegistryInv, RegistryTypes
<1>1. /\ \A d \in Crawler \ {c} : stage'[d] = stage[d] /\ crawling'[d] = crawling[d]
      /\ crawling'[c] = crawls + 1 /\ stage'[c] = "fetching"
      /\ \A i \in 1 .. MaxCrawls : before'[i] = IF i = crawls + 1 THEN ended ELSE before[i]
  BY <1>0 DEF RegistryInv, RegistryTypes
<1>2. crawls + 1 \notin ended /\ \A d \in Crawler : crawling[d] # crawls + 1
  BY <1>0 DEF RegistryInv, RegistryTypes
<1>3. RegistryTypes'
  <2>1. crawling' \in [Crawler -> 0 .. crawls + 1]
    BY <1>0 DEF RegistryInv, RegistryTypes
  <2>2. stage' \in [Crawler -> Stage]
    BY <1>0 DEF RegistryInv, RegistryTypes, Stage
  <2> QED
    BY <1>0, <2>1, <2>2 DEF RegistryInv, RegistryTypes
<1>4. CrawlsAreOwn'
  BY <1>0, <1>1, <1>2 DEF RegistryInv, CrawlsAreOwn
<1>5. FoundAreRankings'
  BY <1>0, <1>1 DEF RegistryInv, FoundAreRankings
<1>6. RanksAreNewest'
  BY <1>0, <1>1, <1>2 DEF RegistryInv, RanksAreNewest, CrawlsAreOwn
<1> QED
  BY <1>3, <1>4, <1>5, <1>6 DEF RegistryInv

\* A crawl finds something, or has something left to ask for.
LEMMA FindStep ==
    ASSUME RegistryInv, NEW c \in Crawler, FetchPage(c) \/ FetchFails(c) \/ AskStars(c) \/ FallbackDone(c)
    PROVE  RegistryInv'
<1>1. /\ UNCHANGED <<entries, crawling, crawls, ended, before, matched>>
      /\ stage' \in [Crawler -> Stage] /\ asking' \in [Crawler -> SUBSET Starred] /\ DOMAIN found' = Crawler
      /\ stage[c] # "idle" /\ stage'[c] \in {"fallback", "apply"}
      /\ \A d \in Crawler \ {c} : stage'[d] = stage[d] /\ asking'[d] = asking[d] /\ found'[d] = found[d]
  BY DEF FetchPage, FetchFails, AskStars, FallbackDone, RegistryInv, RegistryTypes, Stage
<1>2. RegistryTypes'
  BY <1>1 DEF RegistryInv, RegistryTypes
<1>3. CrawlsAreOwn'
  BY <1>1 DEF RegistryInv, CrawlsAreOwn
<1>4. FoundIsRanking(found'[c]) /\ (stage'[c] = "fallback" => \A m \in found'[c] : m.name \notin asking'[c])
  <2>1. CASE FetchPage(c)
    <3>1. PICK page \in Pages : found' = [found EXCEPT ![c] = ParseDbEngines(page)]
      BY <2>1 DEF FetchPage
    <3>2. found'[c] = ParseDbEngines(page) /\ stage'[c] = "apply"
      BY <2>1, <3>1 DEF FetchPage, RegistryInv, RegistryTypes
    <3> QED
      BY <3>2, PageIsRanking
  <2>2. CASE FetchFails(c)
    BY <2>2 DEF FetchFails, RegistryInv, FoundAreRankings, FoundIsRanking
  <2>3. CASE FallbackDone(c)
    BY <2>3 DEF FallbackDone, RegistryInv, RegistryTypes, FoundAreRankings
  <2>4. CASE AskStars(c)
    <3>1. PICK e \in asking[c] :
            /\ asking' = [asking EXCEPT ![c] = @ \ {e}]
            /\ \/ UNCHANGED found
               \/ \E position \in 1 .. Cardinality(found[c]) + 1 :
                     found' = [found EXCEPT ![c] =
                         {[m EXCEPT !.rank = IF @ >= position THEN @ + 1 ELSE @] : m \in found[c]}
                           \cup {[name |-> e, rank |-> position]}]
      BY <2>4 DEF AskStars
    <3>2. /\ FoundIsRanking(found[c]) /\ \A m \in found[c] : m.name \notin asking[c]
          /\ asking'[c] = asking[c] \ {e}
      BY <2>4, <3>1 DEF AskStars, RegistryInv, RegistryTypes, FoundAreRankings
    <3>3. CASE UNCHANGED found
      BY <3>2, <3>3
    <3>4. CASE ~UNCHANGED found
      <4>1. PICK position \in 1 .. Cardinality(found[c]) + 1 :
                     found' = [found EXCEPT ![c] =
                         {[m EXCEPT !.rank = IF @ >= position THEN @ + 1 ELSE @] : m \in found[c]}
                           \cup {[name |-> e, rank |-> position]}]
        BY <3>1, <3>4
      <4>2. found'[c] = {[m EXCEPT !.rank = IF @ >= position THEN @ + 1 ELSE @] : m \in found[c]}
                           \cup {[name |-> e, rank |-> position]}
        BY <4>1 DEF RegistryInv, RegistryTypes
      <4>3. position \in Int
        OBVIOUS
      <4>4. \A m \in found[c] : m.name # e
        BY <3>2
      <4>5. FoundIsRanking(found'[c]) /\ \A n \in found'[c] : n.name = e \/ \E m \in found[c] : n.name = m.name
        <5>1. found'[c] = Inserted(found[c], e, position)
          BY <4>2 DEF Inserted
        <5>2. PICK set : set = found[c]
          OBVIOUS
        <5>3. FoundIsRanking(set) /\ \A m \in set : m.name # e
          BY <3>2, <4>4, <5>2
        <5>4. /\ FoundIsRanking(Inserted(set, e, position))
              /\ \A n \in Inserted(set, e, position) : n.name = e \/ \E m \in set : n.name = m.name
          BY <4>3, <5>3, InsertIsRanking
        <5> QED
          BY <5>1, <5>2, <5>4
      <4> QED
        BY <3>2, <4>5
    <3> QED
      BY <3>3, <3>4
  <2> QED
    BY <2>1, <2>2, <2>3, <2>4
<1>5. FoundAreRankings'
  BY <1>1, <1>4 DEF RegistryInv, FoundAreRankings
<1>6. RanksAreNewest'
  BY <1>1 DEF RegistryInv, RanksAreNewest
<1> QED
  BY <1>2, <1>3, <1>5, <1>6 DEF RegistryInv

\* A crawl is applied.
LEMMA ApplyStep ==
    ASSUME RegistryInv, NEW c \in Crawler, ApplyRanks(c)
    PROVE  RegistryInv'
<1> PICK i : i = crawling[c]
  OBVIOUS
<1>9. ApplyRanks(c)
  OBVIOUS
<1>0. /\ stage[c] = "apply" /\ i \in 1 .. crawls /\ i \notin ended /\ i # 0 /\ i \in 1 .. MaxCrawls
      /\ entries' = [e \in Entry |-> IF e \in Named(c) THEN [rank |-> RankIn(c, e), crawl |-> i]
                                     ELSE entries[e]]
      /\ matched' = [matched EXCEPT ![i] = Named(c)]
      /\ ended' = ended \cup {i}
      /\ stage' = [stage EXCEPT ![c] = "idle"]
      /\ found' = [found EXCEPT ![c] = {}]
      /\ crawling' = [crawling EXCEPT ![c] = 0]
      /\ UNCHANGED <<asking, crawls, before>>
  <2>1. stage[c] = "apply" /\ i # 0 /\ i \notin ended
    BY <1>9 DEF ApplyRanks, RegistryInv, CrawlsAreOwn
  <2>2. i \in 1 .. crawls /\ i \in 1 .. MaxCrawls
    BY <2>1, RegistryAssumption DEF RegistryInv, RegistryTypes
  <2> QED
    BY <1>9, <2>1, <2>2 DEF ApplyRanks
<1>1. /\ \A d \in Crawler \ {c} : stage'[d] = stage[d] /\ crawling'[d] = crawling[d] /\ found'[d] = found[d]
      /\ stage'[c] = "idle" /\ found'[c] = {}
      /\ \A j \in 1 .. MaxCrawls : matched'[j] = IF j = i THEN Named(c) ELSE matched[j]
  BY <1>0 DEF RegistryInv, RegistryTypes
<1>2. \A d \in Crawler \ {c} : stage[d] # "idle" => crawling[d] # i
  BY <1>0 DEF RegistryInv, CrawlsAreOwn
<1>3. /\ \A e \in Named(c) : entries'[e].rank = RankIn(c, e) /\ entries'[e].crawl = i
      /\ \A e \in Entry \ Named(c) : entries'[e] = entries[e]
  BY <1>0 DEF Named
<1>4. RegistryTypes'
  <2>1. crawling' \in [Crawler -> 0 .. crawls] /\ ended' \subseteq 1 .. crawls
    <3>1. crawls \in Nat /\ crawling \in [Crawler -> 0 .. crawls] /\ ended \subseteq 1 .. crawls
      BY RegistryAssumption DEF RegistryInv, RegistryTypes
    <3>2. 0 \in 0 .. crawls
      BY <3>1
    <3>3. crawling' \in [Crawler -> 0 .. crawls]
      BY <1>0, <3>1, <3>2
    <3> QED
      BY <1>0, <3>1, <3>3
  <2>2. stage' \in [Crawler -> Stage]
    BY <1>0 DEF RegistryInv, RegistryTypes, Stage
  <2> QED
    BY <1>0, <2>1, <2>2 DEF RegistryInv, RegistryTypes
<1>5. CrawlsAreOwn'
  BY <1>0, <1>1, <1>2, <1>3 DEF RegistryInv, CrawlsAreOwn
<1>6. FoundAreRankings'
  BY <1>0, <1>1 DEF RegistryInv, FoundAreRankings, FoundIsRanking
<1>7. ASSUME NEW d \in Named(c), NEW e \in Named(c), d # e PROVE RankIn(c, d) # RankIn(c, e)
  <2>1. PICK m \in found[c] : m = (CHOOSE n \in found[c] : n.name = d) /\ m.name = d
    BY DEF Named
  <2>2. PICK n \in found[c] : n = (CHOOSE o \in found[c] : o.name = e) /\ n.name = e
    BY DEF Named
  <2>3. m.rank # n.rank
    BY <1>7, <2>1, <2>2 DEF RegistryInv, FoundAreRankings, FoundIsRanking
  <2> QED
    BY <2>1, <2>2, <2>3 DEF RankIn
<1>8. RanksAreNewest'
  <2>1. ASSUME NEW d \in Entry, NEW e \in Entry, d # e, entries'[d].crawl = entries'[e].crawl, entries'[e].crawl # 0
        PROVE  entries'[d].rank # entries'[e].rank
    <3>0. \A f \in Entry : entries[f].crawl # i
      BY <1>0 DEF RegistryInv, CrawlsAreOwn
    <3>1. CASE d \in Named(c) /\ e \in Named(c)
      BY <1>3, <1>7, <2>1, <3>1
    <3>2. CASE d \notin Named(c) /\ e \notin Named(c)
      BY <1>3, <2>1, <3>2 DEF RegistryInv, RanksAreNewest
    <3> QED
      BY <1>3, <2>1, <3>0, <3>1, <3>2
  <2>2. ASSUME NEW e \in Entry, NEW j \in 1 .. MaxCrawls, e \in matched'[j]
        PROVE  entries'[e].crawl \notin before'[j] \cup {0}
    <3>1. i \notin before[j]
      BY <1>0 DEF RegistryInv, CrawlsAreOwn
    <3>2. CASE e \in Named(c)
      BY <1>0, <1>3, <3>1, <3>2
    <3>3. CASE e \notin Named(c)
      BY <1>0, <1>1, <1>3, <2>2, <3>3 DEF RegistryInv, RanksAreNewest
    <3> QED
      BY <3>2, <3>3
  <2> QED
    BY <2>1, <2>2 DEF RanksAreNewest
<1> QED
  BY <1>4, <1>5, <1>6, <1>8 DEF RegistryInv

LEMMA RegistryKeep == RegistryInv /\ [RegistryStep]_registryVars => RegistryInv'
<1> SUFFICES ASSUME RegistryInv, [RegistryStep]_registryVars PROVE RegistryInv'
  OBVIOUS
<1>1. CASE UNCHANGED registryVars
  BY <1>1 DEF RegistryInv, RegistryTypes, CrawlsAreOwn, FoundAreRankings, RanksAreNewest, registryVars
<1> QED
  BY <1>1, CrawlStep, FindStep, ApplyStep DEF RegistryStep
-----------------------------------------------------------------------------
(***************************************************************************)
(* The bytes of an encrypted stream (EncryptedStream).                     *)
(***************************************************************************)
Byte == (Nat \ {0}) \X (1 .. FrameLen)

\* The bytes of s are those that follow the first k of the stream.
Follows(s, k) ==
    /\ s \in Seq(Byte)
    /\ \A i \in 1 .. Len(s) : (s[i][1] - 1) * FrameLen + s[i][2] = k + i

\* Less than a frame is none.
LEMMA NoPart ==
    ASSUME NEW x \in Int, NEW n \in Nat, n > 0, -n < x * n, x * n < n
    PROVE  x = 0
<1>1. CASE x >= 1
  <2>1. x * n = (x - 1) * n + n /\ (x - 1) * n >= 0
    BY <1>1
  <2> QED
    BY <2>1
<1>2. CASE x <= -1
  <2>1. x * n = (x + 1) * n - n /\ (x + 1) * n <= 0
    BY <1>2
  <2> QED
    BY <2>1
<1> QED
  BY <1>1, <1>2

LEMMA FramesOrdered ==
    ASSUME NEW a \in Nat, NEW b \in Nat, NEW n \in Nat, n > 0, a * n < b * n + n
    PROVE  a <= b
<1> SUFFICES ASSUME a >= b + 1 PROVE FALSE
  OBVIOUS
<1>1. a * n = (a - b - 1) * n + b * n + n /\ (a - b - 1) * n >= 0
  OBVIOUS
<1> QED
  BY <1>1

\* Which byte it is that has a place in the stream.
LEMMA ByteOfPlace ==
    ASSUME NEW b \in Byte, NEW d \in Nat, NEW p \in 1 .. FrameLen, (b[1] - 1) * FrameLen + b[2] = d * FrameLen + p
    PROVE  b = <<d + 1, p>>
<1>0. FrameLen \in Nat /\ FrameLen > 0 /\ b[1] \in Nat /\ b[1] >= 1 /\ b[2] \in 1 .. FrameLen /\ b = <<b[1], b[2]>>
  BY StreamAssumption DEF Byte
<1> PICK x \in Int : x = b[1] - 1 - d
  BY <1>0
<1>1. x * FrameLen = p - b[2]
  BY <1>0
<1>2. x = 0
  <2>1. -FrameLen < x * FrameLen /\ x * FrameLen < FrameLen
    BY <1>0, <1>1
  <2> QED
    BY <1>0, <2>1, NoPart
<1>3. b[1] = d + 1 /\ b[2] = p
  <2>1. x * FrameLen = 0
    BY <1>0, <1>2
  <2>2. p - b[2] = 0 /\ b[1] - 1 - d = 0
    BY <1>1, <1>2, <2>1
  <2> QED
    BY <1>0, <2>2
<1> QED
  BY <1>0, <1>3

LEMMA FollowsFrame ==
    ASSUME NEW m \in Nat \ {0}
    PROVE  Follows(Frame(m), (m - 1) * FrameLen) /\ Len(Frame(m)) = FrameLen
<1>1. FrameLen \in Nat
  BY StreamAssumption
<1>2. Frame(m) \in Seq(Byte) /\ Len(Frame(m)) = FrameLen
  BY <1>1 DEF Frame, Byte
<1>3. \A i \in 1 .. FrameLen : Frame(m)[i] = <<m, i>>
  BY DEF Frame
<1> QED
  BY <1>2, <1>3 DEF Follows

LEMMA FollowsBoth ==
    ASSUME NEW s, NEW t, NEW k \in Nat, NEW n \in Nat, Follows(s, k), Follows(t, n), n = k + Len(s)
    PROVE  Follows(s \o t, k) /\ Len(s \o t) = Len(s) + Len(t)
<1>1. s \in Seq(Byte) /\ t \in Seq(Byte) /\ Len(s) \in Nat /\ Len(t) \in Nat
  BY DEF Follows
<1>2. /\ s \o t \in Seq(Byte) /\ Len(s \o t) = Len(s) + Len(t)
      /\ \A i \in 1 .. Len(s) + Len(t) : (s \o t)[i] = IF i <= Len(s) THEN s[i] ELSE t[i - Len(s)]
  BY <1>1, ConcatProperties
<1>3. ASSUME NEW i \in 1 .. Len(s) + Len(t)
      PROVE  ((s \o t)[i][1] - 1) * FrameLen + (s \o t)[i][2] = k + i
  <2>1. CASE i <= Len(s)
    BY <1>1, <1>2, <2>1 DEF Follows
  <2>2. CASE i > Len(s)
    <3>0. i - Len(s) \in 1 .. Len(t)
      BY <1>1, <2>2
    <3>1. PICK j \in 1 .. Len(t) : j = i - Len(s)
      BY <3>0
    <3>2. (s \o t)[i] = t[j]
      BY <1>1, <1>2, <2>2, <3>1
    <3>3. (t[j][1] - 1) * FrameLen + t[j][2] = n + j
      BY DEF Follows
    <3>4. n + j = k + i
      BY <1>1, <3>1
    <3> QED
      BY <3>2, <3>3, <3>4
  <2> QED
    BY <1>1, <2>1, <2>2
<1> QED
  BY <1>2, <1>3 DEF Follows

LEMMA FollowsPart ==
    ASSUME NEW s, NEW k \in Nat, Follows(s, k), NEW a \in Nat, NEW b \in Nat, a >= 1, a <= b + 1, b <= Len(s)
    PROVE  Follows(SubSeq(s, a, b), k + a - 1) /\ Len(SubSeq(s, a, b)) = b - a + 1
<1>1. s \in Seq(Byte) /\ Len(s) \in Nat
  BY DEF Follows
<1>2. /\ SubSeq(s, a, b) \in Seq(Byte) /\ Len(SubSeq(s, a, b)) = b - a + 1
      /\ \A i \in 1 .. b - a + 1 : SubSeq(s, a, b)[i] = s[a + i - 1]
  BY <1>1
<1>3. \A i \in 1 .. b - a + 1 : a + i - 1 \in 1 .. Len(s)
  BY <1>1
<1> QED
  BY <1>2, <1>3 DEF Follows

\* How many frames the reader has decrypted.
Opened == IF read_plain = <<>> THEN 0 ELSE read_plain[1][1]

StreamTypes ==
    /\ accepted \in Nat /\ flushed \in 0 .. accepted
    /\ write_staged = IF accepted = 0 THEN <<>> ELSE Frame(accepted)
    /\ write_pos \in 0 .. Len(write_staged)
    /\ sending \in {"open", "closed", "broken"} /\ same_key \in BOOLEAN
    /\ Opened \in Nat /\ read_plain = IF Opened = 0 THEN <<>> ELSE Plain(Opened)
    /\ read_plain_pos \in 0 .. Len(read_plain)
    /\ ending \in {"none", "eof", "error"}

Staged == Len(write_staged) - write_pos

\* What is under way are the bytes that follow the decrypted frames, up to the part of the last one
\* that is staged; a connection that breaks may lose the end of them.
BytesInOrder ==
    /\ Follows(read_raw, Opened * FrameLen)
    /\ Follows(carried, Opened * FrameLen + Len(read_raw))
    /\ LET there == Opened * FrameLen + Len(read_raw) + Len(carried) + Staged IN
       IF sending = "broken" THEN there <= accepted * FrameLen ELSE there = accepted * FrameLen

Unread == Len(read_plain) - read_plain_pos

\* What the caller has is the plaintext of the decrypted frames, but for the rest of the last one.
PlainInOrder ==
    /\ received \in Seq(Nat \X Nat)
    /\ PlainLen * Opened = Len(received) + Unread
    /\ \A i \in 1 .. Len(received) : received[i] = <<((i - 1) \div PlainLen) + 1, ((i - 1) % PlainLen) + 1>>

EndsKnown ==
    /\ Staged > 0 => flushed < accepted
    /\ ~same_key => Opened = 0
    /\ ending = "error" => ~same_key \/ sending = "broken" \/ (sending = "closed" /\ Staged > 0)
    /\ ending = "eof" => sending = "closed" /\ Opened >= flushed /\ Unread = 0 /\ read_raw = <<>> /\ carried = <<>>

StreamInv == StreamTypes /\ BytesInOrder /\ PlainInOrder /\ EndsKnown

LEMMA StreamStart == StreamInit => StreamInv
<1> SUFFICES ASSUME StreamInit PROVE StreamInv
  OBVIOUS
<1>0. FrameLen \in Nat /\ 0 * FrameLen = 0 /\ Len(<<>>) = 0
  BY StreamAssumption
<1>1. Opened = 0 /\ Staged = 0 /\ Unread = 0
  BY <1>0 DEF StreamInit, Opened, Staged, Unread
<1>2. StreamTypes
  BY <1>0, <1>1 DEF StreamInit, StreamTypes
<1>3. BytesInOrder
  BY <1>0, <1>1 DEF StreamInit, BytesInOrder, Follows
<1>4. PlainInOrder
  BY <1>0, <1>1 DEF StreamInit, PlainInOrder, PlainLen
<1>5. EndsKnown
  BY <1>0, <1>1 DEF StreamInit, EndsKnown
<1> QED
  BY <1>2, <1>3, <1>4, <1>5 DEF StreamInv

\* What is staged is the rest of the last frame.
LEMMA StagedPart ==
    ASSUME StreamInv, NEW n \in 0 .. Staged
    PROVE  /\ Staged \in Nat /\ Len(Unsent) = Staged /\ Staged <= FrameLen
           /\ Staged <= accepted * FrameLen /\ (accepted > 0 => Len(write_staged) = FrameLen)
           /\ Follows(Unsent, accepted * FrameLen - Staged)
           /\ Follows(SubSeq(Unsent, 1, n), accepted * FrameLen - Staged) /\ Len(SubSeq(Unsent, 1, n)) = n
<1>0. FrameLen \in Nat /\ accepted \in Nat
  BY StreamAssumption DEF StreamInv, StreamTypes
<1>1. CASE accepted = 0
  <2>1. write_staged = <<>> /\ Len(write_staged) = 0 /\ Staged = 0 /\ write_pos = 0 /\ accepted * FrameLen = 0
    BY <1>0, <1>1 DEF StreamInv, StreamTypes, Staged
  <2>2. Follows(<<>>, 0)
    BY DEF Follows
  <2>3. Unsent = <<>> /\ SubSeq(Unsent, 1, n) = <<>>
    BY <2>1 DEF Unsent
  <2>4. accepted * FrameLen - Staged = 0 /\ n = 0 /\ Len(<<>>) = 0
    BY <2>1
  <2>5. Follows(Unsent, accepted * FrameLen - Staged) /\ Len(Unsent) = Staged
    BY <2>1, <2>2, <2>3, <2>4
  <2>6. Follows(SubSeq(Unsent, 1, n), accepted * FrameLen - Staged) /\ Len(SubSeq(Unsent, 1, n)) = n
    BY <2>1, <2>2, <2>3, <2>4
  <2> QED
    BY <1>0, <1>1, <2>1, <2>5, <2>6
<1>2. CASE accepted > 0
  <2>1. write_staged = Frame(accepted) /\ Len(write_staged) = FrameLen /\ write_pos \in 0 .. FrameLen
        /\ Staged = FrameLen - write_pos /\ Follows(write_staged, (accepted - 1) * FrameLen)
    BY <1>0, <1>2, FollowsFrame DEF StreamInv, StreamTypes, Staged
  <2>2. (accepted - 1) * FrameLen \in Nat /\ accepted * FrameLen = (accepted - 1) * FrameLen + FrameLen
    BY <1>0, <1>2
  <2>3. Follows(Unsent, (accepted - 1) * FrameLen + write_pos) /\ Len(Unsent) = Staged
    <3> PICK s : s = write_staged
      OBVIOUS
    <3> PICK k \in Nat : k = (accepted - 1) * FrameLen
      BY <2>2
    <3> PICK a \in Nat : a = write_pos + 1
      BY <2>1
    <3>1. Follows(SubSeq(s, a, FrameLen), k + a - 1) /\ Len(SubSeq(s, a, FrameLen)) = FrameLen - a + 1
      BY <1>0, <2>1, FollowsPart
    <3>2. k + a - 1 = k + write_pos /\ FrameLen - a + 1 = Staged
      BY <1>0, <2>1
    <3> QED
      BY <2>1, <3>1, <3>2 DEF Unsent
  <2>4. (accepted - 1) * FrameLen + write_pos = accepted * FrameLen - Staged
    BY <1>0, <2>1, <2>2
  <2>5. Follows(SubSeq(Unsent, 1, n), accepted * FrameLen - Staged) /\ Len(SubSeq(Unsent, 1, n)) = n
    <3> PICK s : s = Unsent
      OBVIOUS
    <3> PICK k \in Nat : k = accepted * FrameLen - Staged
      BY <1>0, <2>1, <2>2, <2>4
    <3>1. Follows(SubSeq(s, 1, n), k + 1 - 1) /\ Len(SubSeq(s, 1, n)) = n - 1 + 1
      BY <1>0, <2>1, <2>3, <2>4, FollowsPart
    <3>2. n \in Int /\ k + 1 - 1 = k /\ n - 1 + 1 = n
      BY <1>0, <2>1
    <3> QED
      BY <3>1, <3>2
  <2> QED
    BY <1>0, <1>2, <2>1, <2>2, <2>3, <2>4, <2>5
<1> QED
  BY <1>0, <1>1, <1>2

\* Part of what is staged goes out, of the same frame.
LEMMA PushStep ==
    ASSUME StreamInv, sending = "open", NEW n \in 0 .. Staged,
           carried' = carried \o SubSeq(Unsent, 1, n), write_pos' = write_pos + n,
           UNCHANGED <<accepted, write_staged, sending, readerVars>>, flushed' \in flushed .. accepted,
           n < Staged => flushed' = flushed
    PROVE  StreamInv'
<1>0. UNCHANGED <<read_raw, read_plain, read_plain_pos, received, ending, same_key>>
  BY DEF readerVars
<1>1. FrameLen \in Nat /\ accepted \in Nat /\ Opened \in Nat /\ Opened * FrameLen \in Nat /\ write_pos \in Nat
      /\ Len(write_staged) \in Nat
  BY StreamAssumption, FollowsFrame DEF StreamInv, StreamTypes
<1>2. Opened' = Opened /\ Unread' = Unread /\ Staged' = Staged - n /\ Staged \in Nat
  BY <1>0, <1>1, StagedPart DEF Opened, Unread, Staged, StreamInv, StreamTypes
<1>3. StreamTypes'
  BY <1>0, <1>1, <1>2 DEF StreamInv, StreamTypes, Staged
<1>4. BytesInOrder'
  <2>1. /\ Len(read_raw) \in Nat /\ Len(carried) \in Nat
        /\ Opened * FrameLen + Len(read_raw) + Len(carried) + Staged = accepted * FrameLen
    BY DEF StreamInv, BytesInOrder, Follows
  <2>2. /\ Follows(SubSeq(Unsent, 1, n), accepted * FrameLen - Staged)
        /\ Len(SubSeq(Unsent, 1, n)) = n
    BY StagedPart
  <2>14. Opened * FrameLen + Len(read_raw) \in Nat /\ n \in Nat
    <3>1. Opened * FrameLen \in Nat /\ Len(read_raw) \in Nat
      BY <1>1, <2>1
    <3>2. n \in Nat
      BY <1>2
    <3> QED
      BY <3>1, <3>2
  <2>3. PICK j \in Nat : j = Opened * FrameLen + Len(read_raw)
    BY <2>14
  <2>4. PICK k \in Nat : k = accepted * FrameLen - Staged
    BY <1>1, <1>2, <2>1
  <2>5. PICK s : s = carried
    OBVIOUS
  <2>6. PICK t : t = SubSeq(Unsent, 1, n)
    OBVIOUS
  <2>7. Follows(s, j) /\ Follows(t, k) /\ k = j + Len(s)
    BY <1>1, <1>2, <2>1, <2>2, <2>3, <2>4, <2>5, <2>6 DEF StreamInv, BytesInOrder
  <2>8. Follows(s \o t, j) /\ Len(s \o t) = Len(s) + Len(t)
    BY <2>7, FollowsBoth
  <2>9. Follows(carried', Opened * FrameLen + Len(read_raw)) /\ Len(carried') = Len(carried) + n
    BY <2>2, <2>3, <2>5, <2>6, <2>8
  <2>11. Opened * FrameLen + Len(read_raw) + Len(carried') + Staged' = accepted * FrameLen
    BY <1>2, <2>1, <2>9, <2>14
  <2>12. Follows(read_raw', Opened' * FrameLen) /\ Follows(carried', Opened' * FrameLen + Len(read_raw'))
    BY <1>0, <1>2, <2>9 DEF StreamInv, BytesInOrder
  <2>13. Opened' * FrameLen + Len(read_raw') + Len(carried') + Staged' = accepted' * FrameLen /\ sending' # "broken"
    BY <1>0, <1>2, <2>11
  <2> QED
    BY <2>12, <2>13 DEF BytesInOrder
<1>5. PlainInOrder'
  BY <1>0, <1>2 DEF StreamInv, PlainInOrder
<1>6. EndsKnown'
  BY <1>0, <1>1, <1>2 DEF StreamInv, StreamTypes, EndsKnown
<1> QED
  BY <1>3, <1>4, <1>5, <1>6 DEF StreamInv

\* A new frame is staged, after the rest of the earlier one.
LEMMA AcceptStep ==
    ASSUME StreamInv, NEW n \in 0 .. FrameLen, WriteAccepted(n)
    PROVE  StreamInv'
<1>0. /\ UNCHANGED <<read_raw, read_plain, read_plain_pos, received, ending, same_key, sending, flushed>>
      /\ sending = "open" /\ accepted' = accepted + 1 /\ write_staged' = Frame(accepted + 1) /\ write_pos' = n
      /\ carried' = carried \o Unsent \o SubSeq(Frame(accepted + 1), 1, n)
  BY DEF WriteAccepted, readerVars
<1>1. FrameLen \in Nat /\ accepted \in Nat /\ Opened \in Nat /\ Opened * FrameLen \in Nat /\ n \in Nat
  BY StreamAssumption DEF StreamInv, StreamTypes
<1>2. /\ Len(Frame(accepted + 1)) = FrameLen /\ accepted + 1 \in Nat \ {0}
      /\ Follows(Frame(accepted + 1), (accepted + 1 - 1) * FrameLen)
  BY <1>1, FollowsFrame
<1>3. accepted + 1 - 1 = accepted /\ (accepted + 1) * FrameLen = accepted * FrameLen + FrameLen
      /\ accepted * FrameLen \in Nat
  BY <1>1
<1>4. Opened' = Opened /\ Unread' = Unread /\ Staged' = FrameLen - n
  BY <1>0, <1>2 DEF Opened, Unread, Staged
<1>5. StreamTypes'
  BY <1>0, <1>1, <1>2, <1>4 DEF StreamInv, StreamTypes
<1>6. BytesInOrder'
  <2>0. /\ Len(read_raw) \in Nat /\ Len(carried) \in Nat
        /\ Opened * FrameLen + Len(read_raw) + Len(carried) + Staged = accepted * FrameLen
    BY <1>0 DEF StreamInv, BytesInOrder, Follows
  <2>1. Follows(Unsent, accepted * FrameLen - Staged) /\ Len(Unsent) = Staged /\ Staged \in Nat
    <3>1. Staged \in Nat
      BY <1>1, FollowsFrame DEF StreamInv, StreamTypes, Staged
    <3>2. 0 \in 0 .. Staged
      BY <3>1
    <3> QED
      BY <3>2, StagedPart
  <2>10. accepted * FrameLen - Staged = Opened * FrameLen + Len(read_raw) + Len(carried)
    BY <1>1, <2>0, <2>1
  <2> PICK j \in Nat : j = Opened * FrameLen + Len(read_raw)
    BY <1>1, <2>0
  <2> PICK k \in Nat : k = accepted * FrameLen - Staged
    BY <1>1, <2>0, <2>10
  <2> PICK l \in Nat : l = accepted * FrameLen
    BY <1>3
  <2> PICK s : s = carried
    OBVIOUS
  <2> PICK t : t = Unsent
    OBVIOUS
  <2> PICK u : u = Frame(accepted + 1)
    OBVIOUS
  <2>2. Follows(s, j) /\ Follows(t, k) /\ k = j + Len(s) /\ l = k + Len(t)
    BY <1>1, <2>0, <2>1 DEF StreamInv, BytesInOrder
  <2>3. Follows(s \o t, j) /\ Len(s \o t) = Len(s) + Len(t)
    BY <2>2, FollowsBoth
  <2>4. Follows(SubSeq(u, 1, n), l) /\ Len(SubSeq(u, 1, n)) = n
    <3>1. Follows(u, l) /\ Len(u) = FrameLen
      BY <1>2, <1>3
    <3>2. Follows(SubSeq(u, 1, n), l + 1 - 1) /\ Len(SubSeq(u, 1, n)) = n - 1 + 1
      BY <1>1, <3>1, FollowsPart
    <3>3. l + 1 - 1 = l /\ n - 1 + 1 = n
      BY <1>1
    <3> QED
      BY <3>2, <3>3
  <2>5. PICK v : v = s \o t
    OBVIOUS
  <2>6. PICK w : w = SubSeq(u, 1, n)
    OBVIOUS
  <2>7. Follows(v, j) /\ Follows(w, l) /\ l = j + Len(v)
    <3>1. Len(s) \in Nat /\ Len(t) \in Nat
      BY <2>2 DEF Follows
    <3> QED
      BY <2>2, <2>3, <2>4, <2>5, <2>6, <3>1
  <2>8. Follows(v \o w, j) /\ Len(v \o w) = Len(v) + Len(w)
    BY <2>7, FollowsBoth
  <2>9. Follows(carried', Opened * FrameLen + Len(read_raw)) /\ Len(carried') = Len(carried) + Staged + n
    BY <1>0, <2>1, <2>3, <2>4, <2>5, <2>6, <2>8
  <2>11. Opened * FrameLen + Len(read_raw) + Len(carried') + Staged' = (accepted + 1) * FrameLen
    BY <1>1, <1>3, <1>4, <2>0, <2>1, <2>9
  <2>12. Follows(read_raw', Opened' * FrameLen) /\ Follows(carried', Opened' * FrameLen + Len(read_raw'))
    BY <1>0, <1>4, <2>9 DEF StreamInv, BytesInOrder
  <2>13. Opened' * FrameLen + Len(read_raw') + Len(carried') + Staged' = accepted' * FrameLen /\ sending' # "broken"
    BY <1>0, <1>4, <2>11
  <2> QED
    BY <2>12, <2>13 DEF BytesInOrder
<1>7. PlainInOrder'
  BY <1>0, <1>4 DEF StreamInv, PlainInOrder
<1>8. EndsKnown'
  BY <1>0, <1>1, <1>4 DEF StreamInv, StreamTypes, EndsKnown
<1> QED
  BY <1>5, <1>6, <1>7, <1>8 DEF StreamInv

\* The writer's end: a poll writes, flushes, shuts down, or finds the connection broken.
LEMMA WriterStep ==
    ASSUME StreamInv, StreamWrite \/ StreamFlush \/ StreamEnds
    PROVE  StreamInv'
<1>0. FrameLen \in Nat /\ accepted \in Nat /\ flushed \in 0 .. accepted /\ Staged \in Nat
  BY StreamAssumption, FollowsFrame DEF StreamInv, StreamTypes, Staged
<1>1. Len(Unsent) = Staged
  <2>1. 0 \in 0 .. Staged
    BY <1>0
  <2> QED
    BY <2>1, StagedPart
<1>2. ASSUME NEW n \in 0 .. FrameLen, WritePending(n) PROVE StreamInv'
  <2>1. n \in 0 .. Staged /\ flushed' \in flushed .. accepted /\ flushed' = flushed
    BY <1>0, <1>1, <1>2 DEF WritePending
  <2>2. /\ sending = "open" /\ carried' = carried \o SubSeq(Unsent, 1, n) /\ write_pos' = write_pos + n
        /\ UNCHANGED <<accepted, write_staged, sending, readerVars>>
    BY <1>2 DEF WritePending
  <2> QED
    BY <2>1, <2>2, PushStep
<1>3. ASSUME NEW n \in 1 .. FrameLen, PollFlush(n) PROVE StreamInv'
  <2>1. /\ n \in 0 .. Staged /\ flushed' \in flushed .. accepted /\ (n < Staged => flushed' = flushed)
    BY <1>0, <1>1, <1>3 DEF PollFlush
  <2>2. /\ sending = "open" /\ carried' = carried \o SubSeq(Unsent, 1, n) /\ write_pos' = write_pos + n
        /\ UNCHANGED <<accepted, write_staged, sending, readerVars>>
    BY <1>3 DEF PollFlush
  <2> QED
    BY <2>1, <2>2, PushStep
<1>4. CASE FlushNothing
  <2>1. Staged = 0 /\ flushed' = accepted /\ sending = "open"
        /\ UNCHANGED <<accepted, write_staged, write_pos, sending, carried, read_raw, read_plain, read_plain_pos,
                       received, ending, same_key>>
    BY <1>1, <1>4 DEF FlushNothing, readerVars
  <2>2. Opened' = Opened /\ Unread' = Unread /\ Staged' = Staged
    BY <2>1 DEF Opened, Unread, Staged
  <2>3. StreamTypes'
    BY <1>0, <2>1, <2>2 DEF StreamInv, StreamTypes
  <2>4. BytesInOrder' /\ PlainInOrder'
    BY <2>1, <2>2 DEF StreamInv, BytesInOrder, PlainInOrder
  <2>5. EndsKnown'
    BY <1>0, <2>1, <2>2 DEF StreamInv, StreamTypes, EndsKnown
  <2> QED
    BY <2>3, <2>4, <2>5 DEF StreamInv
<1>5. CASE PollShutdown
  <2>1. /\ sending = "open" /\ sending' = "closed"
        /\ UNCHANGED <<accepted, write_staged, write_pos, flushed, carried, read_raw, read_plain, read_plain_pos,
                       received, ending, same_key>>
    BY <1>5 DEF PollShutdown, readerVars, writerVars
  <2>2. Opened' = Opened /\ Unread' = Unread /\ Staged' = Staged
    BY <2>1 DEF Opened, Unread, Staged
  <2>3. StreamTypes'
    BY <2>1, <2>2 DEF StreamInv, StreamTypes
  <2>4. BytesInOrder' /\ PlainInOrder'
    BY <2>1, <2>2 DEF StreamInv, BytesInOrder, PlainInOrder
  <2>5. EndsKnown'
    BY <2>1, <2>2 DEF StreamInv, EndsKnown
  <2> QED
    BY <2>3, <2>4, <2>5 DEF StreamInv
<1>6. ASSUME NEW n \in 0 .. Len(carried), Break(n) PROVE StreamInv'
  <2>1. /\ sending = "open" /\ sending' = "broken" /\ carried' = SubSeq(carried, 1, n)
        /\ UNCHANGED <<accepted, write_staged, write_pos, flushed, read_raw, read_plain, read_plain_pos,
                       received, ending, same_key>>
    BY <1>6 DEF Break, readerVars, writerVars
  <2>2. Opened' = Opened /\ Unread' = Unread /\ Staged' = Staged
    BY <2>1 DEF Opened, Unread, Staged
  <2>3. StreamTypes'
    BY <2>1, <2>2 DEF StreamInv, StreamTypes
  <2>4. BytesInOrder'
    <3>0. /\ Opened \in Nat /\ Opened * FrameLen \in Nat /\ Len(read_raw) \in Nat /\ Len(carried) \in Nat
          /\ Opened * FrameLen + Len(read_raw) + Len(carried) + Staged = accepted * FrameLen
      BY <1>0, <2>1 DEF StreamInv, StreamTypes, BytesInOrder, Follows
    <3>1. n \in Nat /\ n <= Len(carried)
      BY <3>0
    <3>2. PICK j \in Nat : j = Opened * FrameLen + Len(read_raw)
      BY <3>0
    <3>3. PICK s : s = carried
      OBVIOUS
    <3>4. Follows(SubSeq(s, 1, n), j + 1 - 1) /\ Len(SubSeq(s, 1, n)) = n - 1 + 1
      BY <3>1, <3>2, <3>3, FollowsPart DEF StreamInv, BytesInOrder
    <3>5. j + 1 - 1 = j /\ n - 1 + 1 = n
      BY <3>1
    <3>6. Follows(carried', Opened * FrameLen + Len(read_raw)) /\ Len(carried') = n
      BY <2>1, <3>2, <3>3, <3>4, <3>5
    <3>7. Opened * FrameLen + Len(read_raw) + n + Staged <= accepted * FrameLen
      BY <1>0, <3>0, <3>1
    <3> QED
      BY <2>1, <2>2, <3>6, <3>7 DEF StreamInv, BytesInOrder
  <2>5. PlainInOrder'
    BY <2>1, <2>2 DEF StreamInv, PlainInOrder
  <2>6. EndsKnown'
    BY <2>1, <2>2 DEF StreamInv, EndsKnown
  <2> QED
    BY <2>3, <2>4, <2>5, <2>6 DEF StreamInv
<1> QED
  BY <1>2, <1>3, <1>4, <1>5, <1>6, AcceptStep DEF StreamWrite, StreamFlush, StreamEnds

\* The caller takes plaintext that was decrypted.
LEMMA GiveStep ==
    ASSUME StreamInv, NEW room \in 1 .. PlainLen, GivePlain(room)
    PROVE  StreamInv'
<1> DEFINE n == IF room < Unread THEN room ELSE Unread
           part == SubSeq(read_plain, read_plain_pos + 1, read_plain_pos + n)
<1>0. /\ UNCHANGED <<accepted, write_staged, write_pos, flushed, sending, carried, read_raw, read_plain, ending,
                      same_key>>
      /\ received' = received \o part /\ read_plain_pos' = read_plain_pos + n /\ read_plain_pos < Len(read_plain)
  BY DEF GivePlain, writerVars, Unread
<1>1. Opened' = Opened /\ Staged' = Staged
  BY <1>0 DEF Opened, Staged
<1>2. /\ Opened \in Nat /\ Opened # 0 /\ read_plain = Plain(Opened) /\ Len(read_plain) = 2
      /\ \A i \in 1 .. 2 : read_plain[i] = <<Opened, i>>
  <2>1. Opened = 0 => read_plain = <<>>
    BY DEF StreamInv, StreamTypes
  <2>2. Opened # 0
    BY <1>0, <2>1 DEF StreamInv, StreamTypes
  <2> QED
    BY <2>2 DEF StreamInv, StreamTypes, Plain, PlainLen
<1>3. read_plain_pos \in 0 .. 1 /\ Unread = 2 - read_plain_pos /\ n \in 1 .. Unread
  <2>1. read_plain_pos \in 0 .. 1
    <3>1. read_plain_pos \in 0 .. Len(read_plain)
      BY DEF StreamInv, StreamTypes
    <3>2. Len(read_plain) = 2
      BY <1>2
    <3> QED
      BY <1>0, <3>1, <3>2
  <2>2. Unread = 2 - read_plain_pos /\ room \in 1 .. 2
    BY <1>2 DEF Unread, PlainLen
  <2> QED
    BY <2>1, <2>2
<1> HIDE DEF n
<1>4. /\ part \in Seq(Nat \X Nat) /\ Len(part) = n
      /\ \A i \in 1 .. n : part[i] = <<Opened, read_plain_pos + i>>
  <2>1. read_plain \in Seq(Nat \X Nat)
    BY <1>2 DEF Plain, PlainLen
  <2>2. /\ part \in Seq(Nat \X Nat) /\ Len(part) = n /\ \A i \in 1 .. n : part[i] = read_plain[read_plain_pos + i]
    BY <1>2, <1>3, <2>1
  <2>3. \A i \in 1 .. n : read_plain_pos + i \in 1 .. 2
    BY <1>3
  <2> QED
    BY <1>2, <2>2, <2>3
<1> HIDE DEF part
<1>5. /\ received' \in Seq(Nat \X Nat) /\ Len(received') = Len(received) + n
      /\ \A i \in 1 .. Len(received) + n :
            received'[i] = IF i <= Len(received) THEN received[i] ELSE part[i - Len(received)]
  BY <1>0, <1>4, ConcatProperties DEF StreamInv, PlainInOrder
<1>6. Len(received) \in Nat /\ 2 * Opened = Len(received) + Unread
  BY DEF StreamInv, PlainInOrder, PlainLen
<1>7. Unread' = Unread - n
  BY <1>0, <1>2, <1>3 DEF Unread
<1>8. StreamTypes'
  <2>1. read_plain_pos' \in 0 .. Len(read_plain')
    BY <1>0, <1>2, <1>3
  <2> QED
    BY <1>0, <1>1, <2>1 DEF StreamInv, StreamTypes
<1>9. BytesInOrder'
  BY <1>0, <1>1 DEF StreamInv, BytesInOrder
<1>10. PlainInOrder'
  <2>0. Len(received') = Len(received) + n /\ n \in Nat
    BY <1>3, <1>5
  <2>1. ASSUME NEW i \in 1 .. Len(received') PROVE received'[i] = <<((i - 1) \div 2) + 1, ((i - 1) % 2) + 1>>
    <3>1. CASE i <= Len(received)
      <4>1. i \in 1 .. Len(received) /\ received'[i] = received[i]
        <5>1. i \in 1 .. Len(received)
          BY <1>6, <2>0, <3>1
        <5>2. i \in 1 .. Len(received) + n
          BY <1>6, <2>0, <3>1
        <5> QED
          BY <1>5, <3>1, <5>1, <5>2
      <4> QED
        BY <4>1 DEF StreamInv, PlainInOrder, PlainLen
    <3>2. CASE i > Len(received)
      <4>1. PICK k \in 1 .. n : i = Len(received) + k
        <5>1. i - Len(received) \in 1 .. n
          BY <1>3, <1>5, <1>6, <3>2
        <5> QED
          BY <1>6, <5>1
      <4>2. received'[i] = <<Opened, read_plain_pos + k>>
        <5>1. i \in 1 .. Len(received) + n /\ ~(i <= Len(received)) /\ i - Len(received) = k
          BY <1>3, <1>5, <1>6, <4>1
        <5>2. received'[i] = part[k]
          BY <1>5, <5>1
        <5> QED
          BY <1>4, <5>2
      <4>3. i - 1 = 2 * (Opened - 1) + read_plain_pos + k - 1 /\ read_plain_pos + k - 1 \in 0 .. 1
        BY <1>2, <1>3, <1>6, <4>1
      <4>4. (i - 1) \div 2 = Opened - 1 /\ (i - 1) % 2 = read_plain_pos + k - 1
        BY <1>2, <1>3, <4>3
      <4> QED
        BY <1>2, <1>3, <4>2, <4>4
    <3> QED
      BY <1>6, <2>0, <3>1, <3>2
  <2>2. 2 * Opened' = Len(received') + Unread'
    <3>1. Unread \in Int
      BY <1>3
    <3> QED
      BY <1>1, <1>2, <1>6, <1>7, <2>0, <3>1
  <2> QED
    BY <1>5, <2>1, <2>2 DEF PlainInOrder, PlainLen
<1>11. EndsKnown'
  BY <1>0, <1>1, <1>3 DEF StreamInv, EndsKnown
<1> QED
  BY <1>8, <1>9, <1>10, <1>11 DEF StreamInv

\* A complete frame is opened: it is the next one.
LEMMA OpenStep ==
    ASSUME StreamInv, Decrypt
    PROVE  StreamInv'
<1>0. /\ UNCHANGED <<accepted, write_staged, write_pos, flushed, sending, carried, received, same_key>>
      /\ ending # "error" /\ read_plain_pos = Len(read_plain) /\ read_raw # <<>> /\ Len(read_raw) >= FrameLen
  BY DEF Decrypt, Complete, writerVars
<1>1. /\ FrameLen \in Nat /\ FrameLen > 1 /\ accepted \in Nat /\ Opened \in Nat /\ Opened * FrameLen \in Nat
      /\ Len(read_raw) \in Nat /\ Len(carried) \in Nat /\ Staged \in Nat /\ Follows(read_raw, Opened * FrameLen)
      /\ Len(read_plain) \in Nat
  BY StreamAssumption, FollowsFrame DEF StreamInv, StreamTypes, Staged, BytesInOrder, Follows, Plain, PlainLen
<1>2. PICK k \in Nat : k = Opened * FrameLen
  BY <1>1
<1>3. PICK s : s = read_raw
  OBVIOUS
<1>4. PICK frame : frame = SubSeq(s, 1, FrameLen)
  OBVIOUS
<1>5. frame = Frame(Opened + 1) /\ frame[1][1] = Opened + 1
  <2>1. Follows(s, k) /\ Len(s) >= FrameLen /\ Len(s) \in Nat
    BY <1>0, <1>1, <1>2, <1>3
  <2>2. Follows(SubSeq(s, 1, FrameLen), k + 1 - 1) /\ Len(SubSeq(s, 1, FrameLen)) = FrameLen - 1 + 1
    BY <1>1, <2>1, FollowsPart
  <2>3. Follows(frame, k) /\ Len(frame) = FrameLen
    <3>1. k + 1 - 1 = k /\ FrameLen - 1 + 1 = FrameLen
      BY <1>1
    <3> QED
      BY <1>4, <2>2, <3>1
  <2>4. \A i \in 1 .. FrameLen : frame[i] = <<Opened + 1, i>>
    <3> TAKE i \in 1 .. FrameLen
    <3>1. frame[i] \in Byte /\ (frame[i][1] - 1) * FrameLen + frame[i][2] = Opened * FrameLen + i
      BY <1>2, <2>3 DEF Follows
    <3> PICK d \in Nat : d = Opened
      BY <1>1
    <3> PICK b \in Byte : b = frame[i]
      BY <3>1
    <3>2. (b[1] - 1) * FrameLen + b[2] = d * FrameLen + i
      BY <3>1
    <3> QED
      BY <3>2, ByteOfPlace
  <2>5. frame = [i \in 1 .. FrameLen |-> frame[i]]
    BY <2>3 DEF Follows
  <2>6. frame = Frame(Opened + 1)
    BY <2>4, <2>5 DEF Frame
  <2>7. 1 \in 1 .. FrameLen
    BY <1>1
  <2> QED
    BY <2>4, <2>6, <2>7
<1>6. CASE ~same_key
  <2>1. ending' = "error" /\ UNCHANGED <<read_raw, read_plain, read_plain_pos>>
    BY <1>6 DEF Decrypt
  <2>2. Opened' = Opened /\ Unread' = Unread /\ Staged' = Staged
    BY <1>0, <2>1 DEF Opened, Unread, Staged
  <2>3. StreamTypes'
    BY <1>0, <2>1, <2>2 DEF StreamInv, StreamTypes
  <2>4. BytesInOrder' /\ PlainInOrder'
    BY <1>0, <2>1, <2>2 DEF StreamInv, BytesInOrder, PlainInOrder
  <2>5. EndsKnown'
    BY <1>0, <1>6, <2>1, <2>2 DEF StreamInv, EndsKnown
  <2> QED
    BY <2>3, <2>4, <2>5 DEF StreamInv
<1>7. CASE same_key
  <2>1. /\ read_plain' = Plain(Opened + 1) /\ read_plain_pos' = 0 /\ ending' = ending
        /\ read_raw' = SubSeq(read_raw, FrameLen + 1, Len(read_raw))
    BY <1>3, <1>4, <1>5, <1>7 DEF Decrypt
  <2>2. Plain(Opened + 1)[1] = <<Opened + 1, 1>> /\ Len(Plain(Opened + 1)) = 2 /\ Plain(Opened + 1) # <<>>
    BY <1>1 DEF Plain, PlainLen
  <2>3. Opened' = Opened + 1 /\ Unread' = 2 /\ Staged' = Staged /\ Unread = 0
    BY <1>0, <1>1, <2>1, <2>2 DEF Opened, Unread, Staged
  <2>4. (Opened + 1) * FrameLen = Opened * FrameLen + FrameLen
    BY <1>1
  <2>5. StreamTypes'
    BY <1>0, <1>1, <2>1, <2>2, <2>3 DEF StreamInv, StreamTypes
  <2>6. Follows(read_raw', Opened' * FrameLen) /\ Len(read_raw') = Len(read_raw) - FrameLen
    <3>1. Follows(SubSeq(s, FrameLen + 1, Len(s)), k + (FrameLen + 1) - 1)
          /\ Len(SubSeq(s, FrameLen + 1, Len(s))) = Len(s) - (FrameLen + 1) + 1
      <4>1. PICK a \in Nat : a = FrameLen + 1
        BY <1>1
      <4>2. PICK b \in Nat : b = Len(s)
        BY <1>1, <1>3
      <4>3. Follows(s, k) /\ a >= 1 /\ a <= b + 1 /\ b <= Len(s)
        BY <1>0, <1>1, <1>2, <1>3, <4>1, <4>2
      <4> QED
        BY <4>1, <4>2, <4>3, FollowsPart
    <3>2. k + (FrameLen + 1) - 1 = (Opened + 1) * FrameLen /\ Len(s) - (FrameLen + 1) + 1 = Len(read_raw) - FrameLen
      BY <1>1, <1>2, <1>3, <2>4
    <3> QED
      BY <1>3, <2>1, <2>3, <3>1, <3>2
  <2>7. BytesInOrder'
    <3>1. Opened' * FrameLen + Len(read_raw') = Opened * FrameLen + Len(read_raw)
      BY <1>1, <2>3, <2>4, <2>6
    <3>2. Follows(carried', Opened' * FrameLen + Len(read_raw'))
      BY <1>0, <3>1 DEF StreamInv, BytesInOrder
    <3> QED
      BY <1>0, <2>3, <2>6, <3>1, <3>2 DEF StreamInv, BytesInOrder
  <2>8. PlainInOrder'
    <3>1. Len(received) \in Nat /\ 2 * Opened = Len(received)
      BY <1>1, <2>3 DEF StreamInv, PlainInOrder, PlainLen
    <3>2. 2 * Opened' = Len(received') + Unread'
      BY <1>0, <1>1, <2>3, <3>1
    <3> QED
      BY <1>0, <3>2 DEF StreamInv, PlainInOrder, PlainLen
  <2>9. EndsKnown'
    BY <1>0, <1>7, <2>1, <2>3 DEF StreamInv, EndsKnown
  <2> QED
    BY <2>5, <2>7, <2>8, <2>9 DEF StreamInv
<1> QED
  BY <1>6, <1>7 DEF StreamInv, StreamTypes

\* Bytes come to the reader, or it sees the end.
LEMMA FillStep ==
    ASSUME StreamInv, NEW n \in 1 .. Len(carried), Fill(n)
    PROVE  StreamInv'
<1>0. /\ UNCHANGED <<accepted, write_staged, write_pos, flushed, sending, read_plain, read_plain_pos, received,
                     ending, same_key>>
      /\ read_raw' = read_raw \o SubSeq(carried, 1, n) /\ carried' = SubSeq(carried, n + 1, Len(carried))
      /\ ending = "none"
  BY DEF Fill, Hungry, writerVars
<1>1. /\ FrameLen \in Nat /\ Opened \in Nat /\ Opened * FrameLen \in Nat
      /\ Len(read_raw) \in Nat /\ Len(carried) \in Nat
  BY StreamAssumption DEF StreamInv, StreamTypes, BytesInOrder, Follows
<1>2. n \in Nat /\ n <= Len(carried)
  BY <1>1
<1>3. Opened' = Opened /\ Unread' = Unread /\ Staged' = Staged
  BY <1>0 DEF Opened, Unread, Staged
<1>4. StreamTypes'
  BY <1>0, <1>3 DEF StreamInv, StreamTypes
<1>5. BytesInOrder'
  <2>1. PICK j \in Nat : j = Opened * FrameLen
    BY <1>1
  <2>2. PICK r : r = read_raw
    OBVIOUS
  <2>3. PICK s : s = carried
    OBVIOUS
  <2>4. PICK k \in Nat : k = j + Len(r)
    BY <1>1, <2>2
  <2>5. PICK l \in Nat : l = Len(s)
    BY <1>1, <2>3
  <2>6. Follows(r, j) /\ Follows(s, k) /\ n <= l
    BY <1>2, <2>1, <2>2, <2>3, <2>4, <2>5 DEF StreamInv, BytesInOrder
  <2>7. Follows(SubSeq(s, 1, n), k + 1 - 1) /\ Len(SubSeq(s, 1, n)) = n - 1 + 1
    BY <1>2, <2>5, <2>6, FollowsPart
  <2>8. PICK m \in Nat : m = n + 1
    BY <1>2
  <2>9. Follows(SubSeq(s, m, l), k + m - 1) /\ Len(SubSeq(s, m, l)) = l - m + 1
    BY <1>2, <2>5, <2>6, <2>8, FollowsPart
  <2>10. PICK t : t = SubSeq(s, 1, n)
    OBVIOUS
  <2>11. Follows(t, k) /\ Len(t) = n
    <3>1. k + 1 - 1 = k /\ n - 1 + 1 = n
      BY <1>2
    <3> QED
      BY <2>7, <2>10, <3>1
  <2>12. Follows(r \o t, j) /\ Len(r \o t) = Len(r) + Len(t)
    BY <2>4, <2>6, <2>11, FollowsBoth
  <2>13. Follows(read_raw', j) /\ Len(read_raw') = Len(read_raw) + n
    BY <1>0, <2>2, <2>3, <2>10, <2>11, <2>12
  <2>14. Follows(carried', k + n) /\ Len(carried') = Len(carried) - n
    <3>1. k + m - 1 = k + n /\ l - m + 1 = l - n
      BY <1>2, <2>8
    <3> QED
      BY <1>0, <2>3, <2>5, <2>8, <2>9, <3>1
  <2>15. k + n = Opened * FrameLen + Len(read_raw')
    BY <1>1, <1>2, <2>1, <2>2, <2>4, <2>13
  <2>16. Opened * FrameLen + Len(read_raw') + Len(carried') = Opened * FrameLen + Len(read_raw) + Len(carried)
    BY <1>1, <1>2, <2>13, <2>14
  <2> QED
    BY <1>0, <1>3, <2>1, <2>13, <2>14, <2>15, <2>16 DEF StreamInv, BytesInOrder
<1>6. PlainInOrder'
  BY <1>0, <1>3 DEF StreamInv, PlainInOrder
<1>7. EndsKnown'
  BY <1>0, <1>3 DEF StreamInv, EndsKnown
<1> QED
  BY <1>4, <1>5, <1>6, <1>7 DEF StreamInv

LEMMA EndStep ==
    ASSUME StreamInv, ReadEnd
    PROVE  StreamInv'
<1>0. /\ UNCHANGED <<accepted, write_staged, write_pos, flushed, sending, carried, read_raw, read_plain, read_plain_pos,
                     received, same_key>>
      /\ carried = <<>> /\ sending # "open" /\ read_plain_pos = Len(read_plain)
      /\ (read_raw = <<>> \/ Len(read_raw) < FrameLen)
      /\ ending' = IF read_raw = <<>> /\ sending = "closed" THEN "eof" ELSE "error"
  BY StreamAssumption DEF ReadEnd, Hungry, Complete, writerVars, StreamInv, BytesInOrder, Follows
<1>1. /\ FrameLen \in Nat /\ FrameLen > 0 /\ accepted \in Nat /\ Opened \in Nat /\ flushed \in 0 .. accepted
      /\ Opened * FrameLen \in Nat /\ accepted * FrameLen \in Nat /\ Len(carried) = 0 /\ Len(read_plain) \in Nat
      /\ Len(read_raw) \in Nat /\ (read_raw = <<>> <=> Len(read_raw) = 0) /\ Staged \in Nat /\ Staged <= FrameLen
  <2>1. Staged \in Nat
    BY StreamAssumption, FollowsFrame DEF StreamInv, StreamTypes, Staged
  <2>2. Staged <= FrameLen
    BY <2>1, StagedPart
  <2>3. Len(read_plain) \in Nat
    BY DEF StreamInv, StreamTypes, Plain, PlainLen
  <2>4. Len(read_raw) \in Nat /\ (read_raw = <<>> <=> Len(read_raw) = 0) /\ Len(carried) = 0
    BY <1>0 DEF StreamInv, BytesInOrder, Follows
  <2> QED
    BY <2>1, <2>2, <2>3, <2>4, StreamAssumption DEF StreamInv, StreamTypes
<1>2. Opened' = Opened /\ Unread' = Unread /\ Staged' = Staged /\ Unread = 0
  BY <1>0, <1>1 DEF Opened, Unread, Staged
<1>3. StreamTypes'
  BY <1>0, <1>2 DEF StreamInv, StreamTypes
<1>4. BytesInOrder' /\ PlainInOrder'
  BY <1>0, <1>2 DEF StreamInv, BytesInOrder, PlainInOrder
<1>5. sending = "closed" => Opened * FrameLen + Len(read_raw) + Staged = accepted * FrameLen
  BY <1>1 DEF StreamInv, BytesInOrder
<1>6. CASE ending' = "error"
  <2>1. sending = "closed" /\ Staged = 0 => FALSE
    <3> SUFFICES ASSUME sending = "closed", Staged = 0 PROVE FALSE
      OBVIOUS
    <3>1. 0 < Len(read_raw) /\ Len(read_raw) < FrameLen
      BY <1>0, <1>1, <1>6
    <3>2. PICK x \in Int : x = accepted - Opened
      BY <1>1
    <3>3. x * FrameLen = Len(read_raw)
      BY <1>1, <1>5, <3>2
    <3>4. -FrameLen < x * FrameLen /\ x * FrameLen < FrameLen
      BY <1>1, <3>1, <3>3
    <3>5. x = 0
      BY <1>1, <3>4, NoPart
    <3> QED
      BY <1>1, <3>1, <3>3, <3>5
  <2> QED
    BY <1>0, <1>1, <1>2, <1>3, <1>4, <1>6, <2>1 DEF StreamInv, StreamTypes, EndsKnown
<1>7. CASE ending' = "eof"
  <2>1. read_raw = <<>> /\ sending = "closed" /\ Opened * FrameLen + Staged = accepted * FrameLen
    BY <1>0, <1>1, <1>5, <1>7
  <2>2. Opened >= flushed
    <3>1. CASE Staged = 0
      <4>1. PICK a \in Nat : a = accepted
        BY <1>1
      <4>2. PICK b \in Nat : b = Opened
        BY <1>1
      <4>3. a * FrameLen < b * FrameLen + FrameLen
        BY <1>1, <2>1, <3>1, <4>1, <4>2
      <4>4. a <= b
        BY <1>1, <4>3, FramesOrdered
      <4> QED
        BY <1>1, <4>1, <4>2, <4>4
    <3>2. CASE Staged > 0
      <4>1. flushed < accepted
        BY <3>2 DEF StreamInv, EndsKnown
      <4>2. PICK a \in Nat : a = accepted - 1
        BY <1>1, <4>1
      <4>3. PICK b \in Nat : b = Opened
        BY <1>1
      <4>4. a * FrameLen = accepted * FrameLen - FrameLen
        BY <1>1, <4>2
      <4>5. a * FrameLen < b * FrameLen + FrameLen
        BY <1>1, <2>1, <4>3, <4>4
      <4>6. a <= b
        BY <1>1, <4>5, FramesOrdered
      <4> QED
        BY <1>1, <4>1, <4>2, <4>3, <4>6
    <3> QED
      BY <1>1, <3>1, <3>2
  <2> QED
    BY <1>0, <1>2, <1>3, <1>4, <1>7, <2>1, <2>2 DEF StreamInv, EndsKnown
<1> QED
  BY <1>0, <1>6, <1>7

LEMMA StreamKeep == StreamInv /\ [StreamStep]_streamVars => StreamInv'
<1> SUFFICES ASSUME StreamInv, [StreamStep]_streamVars PROVE StreamInv'
  OBVIOUS
<1>1. CASE UNCHANGED streamVars
  BY <1>1 DEF StreamInv, StreamTypes, BytesInOrder, PlainInOrder, EndsKnown, Opened, Staged, Unread, streamVars,
              writerVars, readerVars
<1> QED
  BY <1>1, WriterStep, GiveStep, OpenStep, FillStep, EndStep DEF StreamStep, StreamRead

LEMMA StreamFaithful == StreamInv => StreamIsFaithful
<1> SUFFICES ASSUME StreamInv PROVE StreamIsFaithful
  OBVIOUS
<1>1. /\ FrameLen \in Nat /\ FrameLen > 0 /\ accepted \in Nat /\ Opened \in Nat /\ Opened * FrameLen \in Nat
      /\ Len(read_plain) \in Nat /\ read_plain_pos \in 0 .. Len(read_plain) /\ Len(read_raw) \in Nat
      /\ Len(carried) \in Nat /\ Staged \in Nat /\ accepted * FrameLen \in Nat
  BY StreamAssumption, FollowsFrame DEF StreamInv, StreamTypes, Staged, BytesInOrder, Follows, Plain, PlainLen
<1>2. Opened <= accepted
  <2>1. PICK a \in Nat : a = Opened
    BY <1>1
  <2>2. PICK b \in Nat : b = accepted
    BY <1>1
  <2>3. Opened * FrameLen + Len(read_raw) + Len(carried) + Staged <= accepted * FrameLen
    BY <1>1 DEF StreamInv, BytesInOrder
  <2>4. a * FrameLen < b * FrameLen + FrameLen
    BY <1>1, <2>1, <2>2, <2>3
  <2> QED
    BY <1>1, <2>1, <2>2, <2>4, FramesOrdered
<1>3. Unread \in Nat /\ Len(received) \in Nat /\ 2 * Opened = Len(received) + Unread
  BY <1>1 DEF StreamInv, PlainInOrder, Unread, PlainLen
<1>4. Len(received) <= 2 * accepted
  BY <1>1, <1>2, <1>3
<1>5. received = SubSeq(Sent(accepted), 1, Len(received))
  <2>1. \A i \in 1 .. 2 * accepted : Sent(accepted)[i] = <<((i - 1) \div 2) + 1, ((i - 1) % 2) + 1>>
    BY DEF Sent, PlainLen
  <2>2. /\ \A i \in 1 .. 2 * accepted : Sent(accepted)[i] \in Nat \X Nat
        /\ DOMAIN Sent(accepted) = 1 .. 2 * accepted
    <3>1. \A i \in 1 .. 2 * accepted : ((i - 1) \div 2) + 1 \in Nat /\ ((i - 1) % 2) + 1 \in Nat
      BY <1>1
    <3> QED
      BY <2>1, <3>1 DEF Sent, PlainLen
  <2>a. Sent(accepted) = [i \in 1 .. 2 * accepted |-> Sent(accepted)[i]]
    BY <2>2 DEF Sent, PlainLen
  <2>3. PICK s \in Seq(Nat \X Nat) : s = Sent(accepted) /\ Len(s) = 2 * accepted
    <3>1. 2 * accepted \in Nat
      BY <1>1
    <3>2. \E n \in Nat : DOMAIN Sent(accepted) = 1 .. n
      BY <2>2, <3>1
    <3>3. Sent(accepted) \in Seq(Nat \X Nat)
      BY <2>2, <2>a, <3>1
    <3>4. Len(Sent(accepted)) = 2 * accepted
      BY <2>2, <3>1, <3>3
    <3> QED
      BY <3>3, <3>4
  <2>4. /\ SubSeq(s, 1, Len(received)) \in Seq(Nat \X Nat)
        /\ Len(SubSeq(s, 1, Len(received))) = Len(received)
        /\ \A i \in 1 .. Len(received) : SubSeq(s, 1, Len(received))[i] = s[i]
    BY <1>1, <1>3, <1>4, <2>3
  <2>5. \A i \in 1 .. Len(received) : received[i] = s[i]
    <3>1. \A i \in 1 .. Len(received) : i \in 1 .. 2 * accepted
      BY <1>1, <1>3, <1>4
    <3>2. \A i \in 1 .. Len(received) : received[i] = <<((i - 1) \div 2) + 1, ((i - 1) % 2) + 1>>
      BY DEF StreamInv, PlainInOrder, PlainLen
    <3> QED
      BY <2>1, <2>3, <3>1, <3>2
  <2>6. received \in Seq(Nat \X Nat)
    BY DEF StreamInv, PlainInOrder
  <2>7. \A t \in Seq(Nat \X Nat) : Len(t) = Len(received) /\ (\A i \in 1 .. Len(received) : t[i] = received[i])
                                  => t = received
    BY <2>6, SeqEqual
  <2> QED
    BY <2>3, <2>4, <2>5, <2>7
<1>6. ending = "error" => ~same_key \/ sending = "broken" \/ write_pos < Len(write_staged)
  BY <1>1 DEF StreamInv, EndsKnown, Staged, StreamTypes
<1>7. ending = "eof" => Len(received) >= 2 * flushed
  BY <1>1, <1>3 DEF StreamInv, StreamTypes, EndsKnown
<1>8. ~same_key => received = <<>>
  BY <1>1, <1>3 DEF StreamInv, PlainInOrder, EndsKnown
<1> QED
  BY <1>4, <1>5, <1>6, <1>7, <1>8 DEF StreamIsFaithful, PlainLen
=============================================================================
