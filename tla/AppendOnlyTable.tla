-------------------------- MODULE AppendOnlyTable ---------------------------
(***************************************************************************)
(* What a table on object storage promises its writers (table_format.rs):  *)
(* it is a sequence of segments that are stored, and a commit adds one at  *)
(* the end.  No commit loses or changes what another one added, and no     *)
(* object is taken away.                                                   *)
(***************************************************************************)
EXTENDS Sequences

VARIABLES
    stored,   \* segments that are stored
    committed \* segments of the table's current version, in order

Init == stored = {} /\ committed = <<>>

Store == stored \subseteq stored' /\ UNCHANGED committed

Commit == \E segment \in stored : committed' = Append(committed, segment) /\ UNCHANGED stored

Next == Store \/ Commit

Spec == Init /\ [][Next]_<<stored, committed>>
=============================================================================
