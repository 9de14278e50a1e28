----------------------------- MODULE OlapCache ------------------------------
(***************************************************************************)
(* OlapCache (olap.rs): columnar copies of the tables, brought up to date  *)
(* by each query before it reads, and by a subscriber when a table         *)
(* changes.  A refresh takes the keys that statements marked and reads     *)
(* those rows again, or copies the whole table when its schema changed;    *)
(* engine and cache have locks of their own, so that a step is one call    *)
(* into either.                                                            *)
(***************************************************************************)
EXTENDS QueryEngine

CONSTANTS
    Refresher,  \* tasks that query the cache
    SegmentRows \* rows in a segment

ASSUME OlapAssumption == SegmentRows \in Nat \ {0}

VARIABLES
    querying,   \* tasks at work
    cached,     \* tables that are cached
    batch,      \* their rows as pairs <<key, val>>: the base in order, merged rows at the end
    refresh,    \* where each task is
    lost_marks  \* history: keys whose mark was taken while a copy older than the change was under way

olapVars == <<querying, cached, batch, refresh, lost_marks>>
-----------------------------------------------------------------------------
NoRefresh == [at |-> "rest", todo |-> <<>>, keys |-> {}, copy |-> <<>>]

OlapInit(w) ==
    /\ querying = w.querying
    /\ cached = {}
    /\ batch = [t \in Table |-> <<>>]
    /\ refresh = [f \in Refresher |-> NoRefresh]
    /\ lost_marks = {}

On(f) == Head(refresh[f].todo)
BatchKeys(t) == {batch[t][i][1] : i \in DOMAIN batch[t]}
BatchRow(t, k) == LET rows == {i \in DOMAIN batch[t] : batch[t][i][1] = k}
                  IN IF rows = {} THEN 0 ELSE batch[t][Max(rows)][2]

CopyRow(copy, k) == LET rows == {i \in DOMAIN copy : copy[i][1] = k}
                    IN IF rows = {} THEN 0 ELSE copy[CHOOSE i \in rows : TRUE][2]

\* Marks that disappear while a task holds a copy from before the change.
Forgotten(keys) ==
    {k \in keys : \E f \in Refresher : refresh[f].at \in {"copied", "cleared", "taken"}
                     /\ TableOf(k) = On(f) /\ CopyRow(refresh[f].copy, k) # mem[k]}

Go(f, at) == refresh' = [refresh EXCEPT ![f].at = at]
NextTable(f) ==
    LET left == Tail(refresh[f].todo)
    IN refresh' = [refresh EXCEPT ![f] = IF left = <<>> THEN NoRefresh ELSE [NoRefresh EXCEPT !.at = "check", !.todo = left]]

TableNames ==
    (IF mem[LogTable] # 0 THEN <<LogTable>> ELSE <<>>) \o (IF mem[UserTable] # 0 THEN <<UserTable>> ELSE <<>>)

\* query and subscribe: table_names, and what is no table leaves the cache; refresh_one of a table.
StartRefresh(f) ==
    /\ f \in querying /\ refresh[f].at = "rest"
    /\ \/ /\ refresh' = [refresh EXCEPT ![f] = [NoRefresh EXCEPT !.at = "check",
                            !.todo = TableNames]]
          /\ \E t \in Table : mem[t] # 0
          /\ cached' = {t \in cached : mem[t] # 0}
       \/ /\ \E t \in {u \in Table : mem[u] # 0 \/ u \in schema_dirty} :
             refresh' = [refresh EXCEPT ![f] = [NoRefresh EXCEPT !.at = "check", !.todo = <<t>>]]
          /\ UNCHANGED cached
    /\ UNCHANGED <<deltas, schema_dirty, batch, lost_marks>>

NeedsFullRebuild(t) == t \in schema_dirty \/ t \notin cached

\* One table: a copy of it, or the keys that changed.
CheckTable(f) ==
    /\ refresh[f].at = "check"
    /\ Go(f, IF NeedsFullRebuild(On(f)) THEN "full" ELSE "incremental")
    /\ UNCHANGED <<deltas, schema_dirty, cached, batch, lost_marks>>

\* rebuild_full: snapshot_table ...
SnapshotTable(f) ==
    /\ refresh[f].at = "full"
    /\ IF mem[On(f)] = 0
       THEN /\ cached' = cached \ {On(f)}
            /\ NextTable(f)
       ELSE /\ refresh' = [refresh EXCEPT ![f].copy = SnapshotOf(On(f)), ![f].at = "copied"]
            /\ UNCHANGED cached
    /\ UNCHANGED <<deltas, schema_dirty, batch, lost_marks>>

\* ... then the marks are cleared, those of changes since the snapshot with them ...
ClearSchemaDirty(f) ==
    /\ refresh[f].at = "copied"
    /\ schema_dirty' = schema_dirty \ {On(f)}
    /\ lost_marks' = lost_marks \cup (IF On(f) \in schema_dirty THEN Forgotten(KeysOf(On(f))) ELSE {})
    /\ Go(f, "cleared")
    /\ UNCHANGED <<deltas, cached, batch>>

DropDeltas(f) ==
    /\ refresh[f].at = "cleared"
    /\ deltas' = deltas \ KeysOf(On(f))
    /\ lost_marks' = lost_marks \cup Forgotten(deltas \cap KeysOf(On(f)))
    /\ Go(f, "taken")
    /\ UNCHANGED <<schema_dirty, cached, batch>>

\* ... and the copy becomes the base.
InsertCopy(f) ==
    /\ refresh[f].at = "taken"
    /\ cached' = cached \cup {On(f)}
    /\ batch' = [batch EXCEPT ![On(f)] = refresh[f].copy]
    /\ NextTable(f)
    /\ UNCHANGED <<deltas, schema_dirty, lost_marks>>

\* take_olap_delta_pks; nothing to do without marks.
TakeDeltas(f) ==
    /\ refresh[f].at = "incremental"
    /\ deltas' = deltas \ KeysOf(On(f))
    /\ lost_marks' = lost_marks \cup Forgotten(deltas \cap KeysOf(On(f)))
    /\ IF deltas \cap KeysOf(On(f)) = {} THEN NextTable(f)
       ELSE refresh' = [refresh EXCEPT ![f].keys = deltas \cap KeysOf(On(f)), ![f].at = "merge"]
    /\ UNCHANGED <<schema_dirty, cached, batch>>

\* Variant: only rows that are still there replace their old version.
MergedOver(t, keys) ==
    LET there == Ordered({k \in keys : mem[k] # 0})
    IN AtPlaces(batch[t], {i \in DOMAIN batch[t] : batch[t][i][1] \notin ToSet(there)}) \o [i \in DOMAIN there |-> <<there[i], mem[there[i]]>>]

\* The base without the changed keys, and their rows as they are now.
Merged(t, keys) ==
    LET there == Ordered({k \in keys : mem[k] # 0})
    IN AtPlaces(batch[t], {i \in DOMAIN batch[t] : batch[t][i][1] \notin keys}) \o [i \in DOMAIN there |-> <<there[i], mem[there[i]]>>]

\* rebuild_incremental, under the cache's lock; without an entry by now it does nothing.
MergeDeltas(f) ==
    /\ refresh[f].at = "merge"
    /\ batch' = IF On(f) \in cached THEN [batch EXCEPT ![On(f)] = Merged(On(f), refresh[f].keys)] ELSE batch
    /\ NextTable(f)
    /\ UNCHANGED <<deltas, schema_dirty, cached, lost_marks>>

OlapStep(f) ==
    /\ \/ StartRefresh(f) \/ CheckTable(f) \/ SnapshotTable(f) \/ ClearSchemaDirty(f) \/ DropDeltas(f)
       \/ InsertCopy(f) \/ TakeDeltas(f) \/ MergeDeltas(f)
    /\ UNCHANGED <<querying, attached, storeVars, versionVars, mem, txn, dirty, script, job, faults, mirror, engineHistory>>
-----------------------------------------------------------------------------
\* Zone maps: segments of a batch with the least and the largest value of each, and the queries
\* `val op num` they disprove.
Segments(rows) ==
    [n \in 1..((Len(rows) + SegmentRows - 1) \div SegmentRows) |->
        {rows[i] : i \in {j \in DOMAIN rows : (j - 1) \div SegmentRows = n - 1}}]

RowValues(segment) == {r[2] : r \in segment}

Satisfies(val, op, num) ==
    CASE op = ">" -> val > num [] op = ">=" -> val >= num [] op = "<" -> val < num [] op = "<=" -> val <= num

ZoneMapDisproves(segment, op, num) ==
    CASE op = ">" -> Max(RowValues(segment)) <= num
      [] op = ">=" -> Max(RowValues(segment)) < num
      [] op = "<" -> Min(RowValues(segment)) >= num
      [] op = "<=" -> Min(RowValues(segment)) > num

\* The rows a query gets from the segments that are left.
QueryRows(t, op, num) ==
    {r \in UNION {Segments(batch[t])[n] : n \in {i \in DOMAIN Segments(batch[t]) :
                      ~ZoneMapDisproves(Segments(batch[t])[i], op, num)}} : Satisfies(r[2], op, num)}

OlapOK ==
    /\ cached \subseteq Table /\ lost_marks \subseteq Key
    /\ \A t \in Table : batch[t] \in Seq(Key \X (Val \ {0}))
    /\ \A f \in Refresher :
          /\ refresh[f].at \in {"rest", "check", "full", "copied", "cleared", "taken", "incremental", "merge"}
          /\ refresh[f].keys \subseteq Key

\* The cache loses no change: a row that differs from the table is marked, or will be by a
\* statement under way, or a task is about to read it; the next query then sees it.  Excepted are
\* rows changed without a mark, and marks that a full rebuild swept away with a copy older than
\* they are.  A query that skips segments by their zone maps returns what it would without.
OlapCatchesUp ==
    \A t \in cached :
        /\ mem[t] # 0 /\ t \notin schema_dirty =>
              \A k \in KeysOf(t) \ (unmarked \cup lost_marks) : BatchRow(t, k) # mem[k] =>
                  \/ k \in deltas
                  \/ \E s \in Session : k \in Marking(s) \/ t \in Marking(s)
                  \/ \E f \in Refresher :
                        \/ refresh[f].at = "merge" /\ k \in refresh[f].keys
                        \/ refresh[f].at \in {"cleared", "taken"} /\ On(f) = t /\ CopyRow(refresh[f].copy, k) = mem[k]
        /\ \A op \in {">", ">=", "<", "<="}, num \in Val :
              QueryRows(t, op, num) = {r \in ToSet(batch[t]) : Satisfies(r[2], op, num)}
=============================================================================
