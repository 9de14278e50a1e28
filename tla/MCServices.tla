----------------------------- MODULE MCServices ------------------------------
(* Small instances of the services. *)
EXTENDS Services, TLC

MCShardOf == (1 :> 1) @@ (2 :> 2)

\* Two pages with a row the registry does not know and with a row that comes twice, and an empty one.
MCPages == {<<"a", "b">>, <<"b", "x", "a">>, <<"a", "b", "a">>}
-----------------------------------------------------------------------------
\* The wire: one statement of each kind that clients prepare ...
id == <<"id">>
nm == <<"name">>
T == <<"t">>
MCTemplate ==
    { [kind |-> "insert", table |-> T, columns |-> <<id, nm>>, values |-> <<<<"$1">>, <<"$2">>>>],
      [kind |-> "upsert", table |-> T, columns |-> <<id>>, values |-> <<<<"$1">>>>, on |-> id,
       sets |-> <<[column |-> nm, value |-> <<"EXCLUDED.", nm>>],
                  [column |-> nm, value |-> <<"literal", <<"$2">>>>]>>],
      [kind |-> "select", table |-> T, columns |-> <<nm, id>>, filter |-> <<id, <<"$1">>>>],
      [kind |-> "select", table |-> T, columns |-> AllColumns, filter |-> NoFilter],
      [kind |-> "select_as_of", table |-> T, columns |-> <<nm>>, filter |-> <<id, <<"$1">>>>, commit |-> <<"c1">>],
      [kind |-> "select_as_of", table |-> T, columns |-> AllColumns, filter |-> NoFilter, commit |-> <<"c1">>],
      [kind |-> "select_as_of", table |-> T, columns |-> AllColumns, filter |-> <<id, <<"$1">>>>, commit |-> <<"c1">>],
      [kind |-> "delete", table |-> T, filter |-> <<id, <<"$1">>>>],
      [kind |-> "update", table |-> T, set |-> <<nm, <<"$1">>>>, filter |-> <<id, <<"$2">>>>],
      [kind |-> "function", name |-> "aruaru_branch_from", arg |-> <<"b", "'", ",", "'", "c1">>],
      [kind |-> "function", name |-> "aruaru_commit", arg |-> <<"m">>],
      [kind |-> "log"], [kind |-> "rollback"] }

\* ... a text that makes a table, commits it and makes another of its name, one that is cut inside a
\* value ...
InsertOf(value) == [kind |-> "insert", table |-> T, columns |-> <<id>>, values |-> <<value>>]
PutX == InsertOf(<<"x">>)
Keep == [kind |-> "function", name |-> "aruaru_commit", arg |-> <<"m">>]
MCBatch ==
    { << [kind |-> "create", table |-> T, columns |-> <<id, nm>>], PutX, Keep, [kind |-> "drop", table |-> T],
         [kind |-> "create", table |-> T, columns |-> <<id>>], PutX >>,
      << [kind |-> "create", table |-> T, columns |-> <<id>>], InsertOf(<<"'", "a", ";", "b", "'">>), PutX >> }

\* ... and values that have a comma, a bracket, a quote, a placeholder or a word of SQL in them, name
\* a function, with and without its brackets, or are NULL.
Txt(v) == [value |-> v, type |-> "text"]
MCCommon == Txt(<<"x">>)
MCParam ==
    {MCCommon, [value |-> <<"1">>, type |-> "numeric"], [value |-> <<"1">>, type |-> "bool"],
     [value |-> <<>>, type |-> "null"]} \cup
    {Txt(v) : v \in {<<"a", ",", "name", "=", "b">>, <<"a", ")">>, <<"it", "'", "s">>, <<"$1">>, <<"$2">>, <<"\"", "v", "\"">>,
                     <<"a", "WHERE", "b">>, <<"see", "aruaru_log">>, <<"x", "AS OF COMMIT", "y">>,
                     <<"aruaru_merge">>, <<"aruaru_commit", "(", "x", ")">>}}
-----------------------------------------------------------------------------
\* Imports: a table with more rows than are read, one of the same name in another schema whose rows
\* are equal, one without rows, and a collection whose documents have different keys.
Cell(type, text) == [type |-> type, text |-> text]
TextCell(text) == Cell("text", text)
R(a, b) == ("id" :> a) @@ ("v" :> b)
T1 == [schema |-> "s1", name |-> "t", columns |-> <<"id", "v">>,
       rows |-> <<R(Cell("int4", <<"1">>), TextCell(<<"a">>)), R(Cell("int4", <<"2">>), TextCell(<<"b">>)),
                  R(Cell("int4", <<"3">>), Cell("null", <<>>))>>]
T2 == [schema |-> "s2", name |-> "t", columns |-> <<"id", "v">>,
       rows |-> <<R(TextCell(<<"a">>), TextCell(<<"'">>)), R(TextCell(<<"a">>), TextCell(<<"'">>))>>]
T3 == [schema |-> "s1", name |-> "u", columns |-> <<"id">>, rows |-> <<>>]
File == [T2 EXCEPT !.schema = "file"]
Collection == [T2 EXCEPT !.rows = <<"id" :> TextCell(<<"a">>), R(TextCell(<<"a">>), TextCell(<<"b">>))>>]
MCSources ==
    { [wire |-> "postgres", tables |-> <<T1, T2, T3>>], [wire |-> "mysql", tables |-> <<T3, T2>>],
      [wire |-> "mongo", tables |-> <<Collection, T3>>], [wire |-> "cql", tables |-> <<T1, T2>>],
      [wire |-> "csv", tables |-> <<File>>], [wire |-> "parquet", tables |-> <<File>>] }
-----------------------------------------------------------------------------
\* A learner's logs: rows put twice, one whose first statement fails, and one with a commit.
MCLearnerLog == {<<"put", "put">>, <<"bad", "put">>, <<"put", "commit">>}
=============================================================================
