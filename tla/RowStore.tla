------------------------------ MODULE RowStore ------------------------------
(***************************************************************************)
(* PersistentStore (storage/mod.rs): three fjall partitions, of schemas,   *)
(* rows and row checksums.  A cell is a table, whose value says whether    *)
(* its schema is there, or the primary key of a row; 0 stands for absent.  *)
(* An operation of the store is a sequence of writes, each atomic, and     *)
(* nothing holds them together: another session's writes or a crash come   *)
(* in between.  A write that returned survives a crash of the process.     *)
(***************************************************************************)
EXTENDS Naturals, Sequences, SequencesExt, FiniteSetsExt

CONSTANTS
    UserTable, LogTable, \* a table of the user, and __idempotency_log
    UserKey, LogKey,     \* their primary keys, numbers
    MaxVal               \* rows are 1..MaxVal

ASSUME RowStoreAssumption ==
    /\ UserTable # LogTable
    /\ UserKey \subseteq Nat /\ LogKey \subseteq Nat \ {0} /\ UserKey \cap LogKey = {}
    /\ {UserTable, LogTable} \cap (UserKey \cup LogKey) = {}
    /\ IsFiniteSet(UserKey) /\ IsFiniteSet(LogKey) \* keys have a width
    /\ MaxVal \in Nat \ {0}

Table == {UserTable, LogTable}
Key == UserKey \cup LogKey
Cell == Table \cup Key
TableOf(k) == IF k \in UserKey THEN UserTable ELSE LogTable
KeysOf(t) == {k \in Key : TableOf(k) = t}
Val == 0..MaxVal

VARIABLES
    data,    \* partitions __meta and __data
    checksum \* partition __checksums: the row that the checksum was computed from

storeVars == <<data, checksum>>
-----------------------------------------------------------------------------
RowStoreInit ==
    /\ data = [c \in Cell |-> 0]
    /\ checksum = [k \in Key |-> 0]

\* Operations: save_schema and drop_table of a table, save_row and delete_row of a key.
Op == [cell : Cell, val : Val]

\* The i-th of a set of keys is the one with i - 1 smaller ones.
Ordered(S) == [i \in 1..Cardinality(S) |-> CHOOSE k \in S : Cardinality({m \in S : m < k}) = i - 1]

\* What a sequence holds at some of its places, in order.
AtPlaces(seq, places) == LET order == Ordered(places) IN [i \in DOMAIN order |-> seq[order[i]]]

Part == {"value", "checksum", "rows"}
WriteStep == [part : Part, cell : Cell, val : Val]

Write(part, op) == [part |-> part, cell |-> op.cell, val |-> op.val]

\* The writes of save_row and delete_row.
RowWrites(op) == <<Write("value", op), Write("checksum", op)>>

\* The writes of an operation.  drop_table removes the schema and then scans for rows.
Writes(op) ==
    CASE op.cell \in Key -> RowWrites(op)
      [] op.cell \in Table /\ op.val # 0 -> <<Write("value", op)>>
      [] OTHER -> <<Write("value", op), Write("rows", op)>>

\* The scan of drop_table, into the removals it goes on with.
Removals(t) ==
    LET found == Ordered({k \in Key : TableOf(k) = t /\ data[k] # 0})
    IN FlattenSeq([i \in 1..Len(found) |-> RowWrites([cell |-> found[i], val |-> 0])])

\* One write.
Perform(step) ==
    CASE step.part = "value" -> data' = [data EXCEPT ![step.cell] = step.val] /\ UNCHANGED checksum
      [] step.part = "checksum" -> checksum' = [checksum EXCEPT ![step.cell] = step.val] /\ UNCHANGED data
      [] step.part = "rows" -> UNCHANGED storeVars

\* The rows whose checksum is there and does not match: what scrub lists, and where scan_table stops.
Corrupted == {k \in Key : data[k] # 0 /\ checksum[k] # 0 /\ checksum[k] # data[k]}

\* load_schemas and scan_table: tables in the order of their names, up to the first that fails.
Loadable(t) ==
    /\ data[t] # 0
    /\ \A k \in Corrupted : data[TableOf(k)] # 0 => TableOf(k) = UserTable /\ t = LogTable

Loaded == [c \in Cell |->
    IF Loadable(IF c \in Table THEN c ELSE TableOf(c)) THEN data[c] ELSE 0]

RowStoreOK == data \in [Cell -> Val] /\ checksum \in [Key -> Val]
=============================================================================
