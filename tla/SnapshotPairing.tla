-------------------------- MODULE SnapshotPairing ----------------------------
(***************************************************************************)
(* SnapshotPairingRegistry (aruaru-dist/src/snapshot_pairing.rs) wired to  *)
(* the node of RaftApply: every task that has applied a batch calls the    *)
(* commit hook with the last index of it, and goes on when the hook is     *)
(* through.  The hook has the storage take a snapshot and then notes it    *)
(* under the index; meanwhile other tasks apply further entries, or the    *)
(* same ones.                                                              *)
(***************************************************************************)
EXTENDS RaftApply

CONSTANT Refusable   \* the indices whose snapshot the storage may refuse

VARIABLES
    due,        \* [Task -> the index its hook was called with, 0 for no hook under way]
    taken,      \* tasks whose hook has its snapshot and has not noted it yet
    snapshots,  \* [label -> the indices applied when the snapshot of that name was taken]
    mappings,   \* indices with a snapshot noted
    refused     \* history: indices whose snapshot the storage refused

pairingVars == <<due, taken, snapshots, mappings, refused>>
hookedVars == <<vars, pairingVars>>

PairingInit ==
    /\ due = [t \in Task |-> 0] /\ taken = {}
    /\ snapshots = [i \in {} |-> {}]
    /\ mappings = {} /\ refused = {}

Reached == {e[2] : e \in applied}

\* apply_committed ends with the hook.
CallHook(t) ==
    /\ due[t] = 0
    /\ PublishState(t)
    /\ due' = [due EXCEPT ![t] = last[t]]
    /\ UNCHANGED <<taken, snapshots, mappings, refused>>

\* record_commit_snapshot: the storage takes the snapshot; one of the same name gives way.
TakeSnapshot(t) ==
    /\ due[t] # 0 /\ t \notin taken
    /\ snapshots' = [i \in DOMAIN snapshots \cup {due[t]} |-> IF i = due[t] THEN Reached ELSE snapshots[i]]
    /\ taken' = taken \cup {t}
    /\ UNCHANGED <<vars, due, mappings, refused>>

\* It refuses; the hook only warns, and the batch stays applied.
RefuseSnapshot(t) ==
    /\ due[t] # 0 /\ t \notin taken /\ due[t] \in Refusable
    /\ refused' = refused \cup {due[t]}
    /\ due' = [due EXCEPT ![t] = 0]
    /\ UNCHANGED <<vars, taken, snapshots, mappings>>

\* The index is noted.
NoteMapping(t) ==
    /\ t \in taken
    /\ mappings' = mappings \cup {due[t]}
    /\ taken' = taken \ {t}
    /\ due' = [due EXCEPT ![t] = 0]
    /\ UNCHANGED <<vars, snapshots, refused>>

\* A task is in its hook, or takes any other step of RaftApply.
HookedStep(t) ==
    \/ CallHook(t) \/ TakeSnapshot(t) \/ RefuseSnapshot(t) \/ NoteMapping(t)
    \/ due[t] = 0 /\ pc[t] # "publish" /\ Step(t) /\ UNCHANGED pairingVars
-----------------------------------------------------------------------------
PairingOK ==
    /\ \A t \in Task : due[t] \in 0 .. commit_index
    /\ taken \subseteq {t \in Task : due[t] # 0}
    /\ \A i \in DOMAIN snapshots : snapshots[i] \subseteq 1 .. commit_index
    /\ mappings \cup refused \cup DOMAIN snapshots \subseteq 1 .. commit_index

\* snapshot_for_commit: what is noted for an index holds every entry up to it, although hooks of
\* several tasks run at once and in any order; and when no task has a hook to run, the last entry
\* applied has its snapshot noted, unless the storage refused it.
SnapshotsCover ==
    /\ \A i \in mappings : 1 .. i \subseteq snapshots[i]
    /\ (\A t \in Task : due[t] = 0 /\ pc[t] \notin {"apply", "insert", "record", "publish"}) =>
          last_applied \in mappings \cup refused \cup {0}
=============================================================================
