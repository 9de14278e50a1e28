----------------------------- MODULE DataImport ------------------------------
(***************************************************************************)
(* Tables of another database are taken over: by the server, which reads   *)
(* them through an adapter and ingests them (aruaru-registry/adapter.rs,   *)
(* admin.rs migrate_run, engine.rs ingest_table), or by the command line   *)
(* tool, which sends SQL to the server (aruaru-migrate).  The source and   *)
(* the server's other sessions go on changing their tables meanwhile.      *)
(***************************************************************************)
EXTENDS SqlText

CONSTANTS Sources,      \* sources to begin with: [wire, tables], a table is [schema, name, columns, rows]
          Limit,        \* rows read of a table: 100 000 in the server, batch_size in the tool
          MaxChanges    \* bound on changes by others, for TLC

Nothing == [columns |-> <<>>, rows |-> <<>>]
Numbered == <<"#1", "#2", "#3">>

VARIABLES
    source,      \* the other database: it changes while it is read
    by,          \* who imports: the server or the tool
    step,        \* where the import is
    unread,        \* tables listed and not yet done
    got,         \* columns and rows read of the first of them, as text
    done,        \* rows of it that the target took
    target,      \* [name -> columns and [key -> row]], for the tables that are there
    reports,     \* [table, rows]: what the import says it took over; rows = -1 for an error
    imported,    \* history: what was read for each report
    edited,      \* history: tables of the target that others changed
    changes

importVars == <<source, by, step, unread, got, done, target, reports, imported, edited, changes>>

ImportInit ==
    /\ source \in Sources
    /\ by \in {"server", "tool"}
    /\ source.wire \in {"csv", "parquet"} => by = "tool"
    /\ source.wire \in {"mongo", "cql"} => by = "server"
    /\ step = "list" /\ unread = <<>> /\ got = Nothing /\ done = 0
    /\ target = [n \in {} |-> Nothing]
    /\ reports = <<>> /\ imported = <<>> /\ edited = {} /\ changes = 0
-----------------------------------------------------------------------------
FirstOf(rows) == SubSeq(rows, 1, IF Len(rows) < Limit THEN Len(rows) ELSE Limit)
TextRows(columns, rows, Text(_, _)) ==
    [i \in DOMAIN rows |-> [j \in DOMAIN columns |-> Text(rows[i], columns[j])]]
NoColumnsIfEmpty(table, rows) == IF rows = <<>> THEN <<>> ELSE table.columns

\* PgWireAdapter: what is no text, bigint, double or bool, an int4 too, comes as an empty text.
ReadPgWire(table) ==
    LET rows == FirstOf(table.rows)
        columns == NoColumnsIfEmpty(table, rows) IN
    [columns |-> columns,
     rows |-> TextRows(columns, rows, LAMBDA r, c : IF r[c].type \in {"text", "int8"} THEN r[c].text ELSE <<>>)]

\* MySqlAdapter.
ReadMySql(table) ==
    LET rows == FirstOf(table.rows)
        columns == NoColumnsIfEmpty(table, rows) IN
    [columns |-> columns,
     rows |-> TextRows(columns, rows, LAMBDA r, c : IF r[c].type = "null" THEN <<>> ELSE r[c].text)]

\* MongoAdapter: the columns are the keys of all documents, in the order they are met.
ReadMongo(table) ==
    LET rows == FirstOf(table.rows)
        columns == SelectSeq(table.columns, LAMBDA c : \E i \in DOMAIN rows : c \in DOMAIN rows[i]) IN
    [columns |-> columns,
     rows |-> TextRows(columns, rows,
                LAMBDA r, c : IF c \notin DOMAIN r \/ r[c].type = "null" THEN <<>> ELSE r[c].text)]

\* CqlAdapter: a value as Rust's Debug shows it.
ReadCql(table) ==
    [columns |-> table.columns,
     rows |-> TextRows(table.columns, FirstOf(table.rows),
                LAMBDA r, c : IF r[c].type = "null" THEN <<>> ELSE <<"Debug">> \o r[c].text)]

\* read_csv_rows: the whole file; all is text.
ReadCsv(table) ==
    [columns |-> table.columns, rows |-> TextRows(table.columns, table.rows, LAMBDA r, c : r[c].text)]

\* read_parquet_rows: the whole file.
ReadParquet(table) ==
    [columns |-> table.columns,
     rows |-> TextRows(table.columns, table.rows, LAMBDA r, c : IF r[c].type = "null" THEN <<>> ELSE r[c].text)]

\* adapter_for, and run_migration of the tool.
Read(wire, table) ==
    CASE wire = "postgres" -> ReadPgWire(table)
      [] wire = "mysql" -> ReadMySql(table)
      [] wire = "mongo" -> ReadMongo(table)
      [] wire = "cql" -> ReadCql(table)
      [] wire = "csv" -> ReadCsv(table)
      [] wire = "parquet" -> ReadParquet(table)
-----------------------------------------------------------------------------
\* The server: list_tables, then the tables one after the other ...
ListTables ==
    /\ by = "server" /\ step = "list"
    /\ \/ step' = "read" /\ unread' = [i \in DOMAIN source.tables |-> [schema |-> source.tables[i].schema, name |-> source.tables[i].name]]
       \/ step' = "end" /\ unread' = unread
    /\ UNCHANGED <<source, by, got, done, target, reports, imported, edited, changes>>

TablesNamed(t) == {i \in DOMAIN source.tables : source.tables[i].schema = t.schema /\ source.tables[i].name = t.name}

\* ... read_table, from the source as it is by then, or an error of this table alone ...
ReadTable ==
    /\ by = "server" /\ step = "read" /\ unread # <<>>
    /\ \/ /\ step' = "ingest"
          /\ \E i \in TablesNamed(Head(unread)) : got' = Read(source.wire, source.tables[i])
          /\ UNCHANGED <<unread, reports, imported>>
       \/ /\ step' = step /\ unread' = Tail(unread) /\ got' = got
          /\ reports' = Append(reports, [table |-> <<Head(unread).name>>, rows |-> -1])
          /\ imported' = Append(imported, Nothing)
    /\ UNCHANGED <<source, by, done, target, edited, changes>>

\* ingest_table: a row's key is its first value; a key that is taken gets a number.
KeyFor(rows, key) ==
    LET k[i \in DOMAIN rows] ==
          LET first == IF rows[i] = <<>> THEN <<>> ELSE rows[i][1]
              taken == {k[j] : j \in 1 .. i - 1}
              Numbers[n \in 0 .. 3] == IF n = 0 THEN first ELSE first \o <<Numbered[n]>> IN
          Numbers[Min({n \in 0 .. 3 : Numbers[n] \notin taken})]
    IN k[key]

\* Variant: the last row with a key stays.
KeyIsFirst(rows, key) == rows[key][1]

Ingested(rows, Key(_, _)) ==
    [k \in {Key(rows, i) : i \in DOMAIN rows} |-> rows[Max({i \in DOMAIN rows : Key(rows, i) = k})]]
RowMapOverwriting(rows) == Ingested(rows, KeyIsFirst)
RowMap(rows) == Ingested(rows, KeyFor)

\* ... and ingest_table puts it in the place of whatever has this name.
Ingest ==
    /\ step = "ingest"
    /\ LET name == <<Head(unread).name>>
           rows == RowMap(got.rows) IN
       /\ target' = [n \in DOMAIN target \cup {name} |->
                       IF n = name THEN [columns |-> got.columns, rows |-> rows] ELSE target[n]]
       /\ reports' = Append(reports, [table |-> name, rows |-> Cardinality(DOMAIN rows)])
       /\ imported' = Append(imported, got)
       /\ edited' = edited \ {name}
    /\ unread' = Tail(unread) /\ got' = Nothing /\ step' = "read"
    /\ UNCHANGED <<source, by, done, changes>>

\* aruaru_commit at the end; it says success whatever came of the tables.
EndImport ==
    /\ by = "server" /\ step = "read" /\ unread = <<>>
    /\ step' = "end"
    /\ UNCHANGED <<source, by, unread, got, done, target, reports, imported, edited, changes>>
-----------------------------------------------------------------------------
\* sql_build: identifiers and values in their quotes; an INSERT without a list of columns.
QuoteValue(value) == <<"'">> \o Replaced(value, "'", <<"'", "'">>) \o <<"'">>
QuoteIdent(name) == <<"\"", name, "\"">>
BuildCreateTable(table, columns) ==
    <<"CREATE TABLE", "IF NOT EXISTS">> \o QuoteIdent(table) \o
      <<"(">> \o Listed([i \in DOMAIN columns |-> QuoteIdent(columns[i])]) \o <<")">>
BuildInsert(table, row) ==
    <<"INSERT INTO">> \o QuoteIdent(table) \o <<"VALUES", "(">> \o Listed([i \in DOMAIN row |-> QuoteValue(row[i])]) \o <<")">>

\* The tool, for a database: list_tables, then connect to the target; an error of either ends it ...
StartMigration ==
    /\ by = "tool" /\ step = "list"
    /\ \/ step' = "read" /\ unread' = [i \in DOMAIN source.tables |-> [schema |-> source.tables[i].schema, name |-> source.tables[i].name]]
       \/ step' = "end" /\ unread' = unread
    /\ UNCHANGED <<source, by, got, done, target, reports, imported, edited, changes>>

\* ... and so does one of read_table; a table of which no columns came is left out.
MigrateTable ==
    /\ by = "tool" /\ step = "read" /\ unread # <<>>
    /\ \/ \E i \in TablesNamed(Head(unread)) :
             LET table == Read(source.wire, source.tables[i]) IN
             IF table.columns = <<>>
             THEN step' = step /\ unread' = Tail(unread) /\ got' = got
             ELSE step' = "create" /\ unread' = unread /\ got' = table
       \/ step' = "end" /\ unread' = <<>> /\ got' = got
    /\ done' = 0
    /\ UNCHANGED <<source, by, target, reports, imported, edited, changes>>

\* ensure_table: the statement as the server's parser reads it.
EnsureTable ==
    LET st == Parse(BuildCreateTable(Head(unread).name, got.columns)) IN
    /\ step = "create"
    /\ \/ /\ st \notin {Failed, Panicked} /\ step' = "insert" /\ unread' = unread
          /\ target' = IF st.table \in DOMAIN target THEN target
                       ELSE [n \in DOMAIN target \cup {st.table} |->
                               IF n = st.table THEN [columns |-> st.columns, rows |-> [k \in {} |-> <<>>]] ELSE target[n]]
       \/ step' = "end" /\ unread' = <<>> /\ target' = target
    /\ UNCHANGED <<source, by, got, done, reports, imported, edited, changes>>

\* insert_rows: a row that fails is logged and passed over.
InsertRow ==
    LET st == Parse(BuildInsert(Head(unread).name, Head(got.rows))) IN
    /\ step = "insert" /\ got.rows # <<>>
    /\ got' = [got EXCEPT !.rows = Tail(@)]
    /\ IF st.kind = "insert" /\ st.table \in DOMAIN target
       THEN /\ target' = [target EXCEPT ![st.table].rows = [k \in DOMAIN @ \cup {st.values[1]} |->
                                                              IF k = st.values[1] THEN st.values ELSE @[k]]]
            /\ done' = done + 1
       ELSE UNCHANGED <<target, done>>
    /\ UNCHANGED <<source, by, step, unread, reports, imported, edited, changes>>

\* The progress it reports: Done, whatever became of the rows.
EndTable ==
    /\ step = "insert" /\ got.rows = <<>>
    /\ reports' = Append(reports, [table |-> QuoteIdent(Head(unread).name), rows |-> done])
    /\ imported' = Append(imported, Nothing)
    /\ unread' = Tail(unread) /\ step' = "read"
    /\ UNCHANGED <<source, by, got, done, target, edited, changes>>
-----------------------------------------------------------------------------
\* The source's own clients write: a row comes to a table, or a table goes.
SourceChanges ==
    /\ changes < MaxChanges /\ step # "end"
    /\ \E i \in DOMAIN source.tables :
          \/ source' = [source EXCEPT !.tables[i].rows = Append(@, [c \in ToSet(source.tables[i].columns) |->
                                                                      [type |-> "text", text |-> <<"new">>]])]
          \/ source' = [source EXCEPT !.tables = SubSeq(@, 1, i - 1) \o SubSeq(@, i + 1, Len(@))]
    /\ changes' = changes + 1
    /\ UNCHANGED <<by, step, unread, got, done, target, reports, imported, edited>>

\* A session of the target deletes a row.
TargetChanges ==
    /\ changes < MaxChanges
    /\ \E n \in DOMAIN target : \E gone \in DOMAIN target[n].rows :
          /\ target' = [target EXCEPT ![n].rows = [k \in DOMAIN @ \ {gone} |-> @[k]]]
          /\ edited' = edited \cup {n}
    /\ changes' = changes + 1
    /\ UNCHANGED <<source, by, step, unread, got, done, reports, imported>>

ImportStep ==
    \/ ListTables \/ ReadTable \/ Ingest \/ EndImport
    \/ StartMigration \/ MigrateTable \/ EnsureTable \/ InsertRow \/ EndTable
    \/ SourceChanges \/ TargetChanges
-----------------------------------------------------------------------------
ImportOK ==
    /\ step \in {"list", "read", "ingest", "create", "insert", "end"}
    /\ Len(imported) = Len(reports)
    /\ \A i \in DOMAIN got.rows : Len(got.rows[i]) = Len(got.columns)
    /\ changes \in 0 .. MaxChanges

\* A table of the same name, of another schema, that was ingested later stands in its place.
PutAside(i) == \E j \in DOMAIN reports : j > i /\ reports[j].table = reports[i].table

\* What an import says of a table is what is there: as many rows as it reports, and, in the server,
\* every row that was read, under keys of their own, with all its columns; as long as nobody else
\* changed the table and none of the same name from another schema was put in its place.
ImportsAreWhole ==
    \A i \in DOMAIN reports :
        LET r == reports[i] IN
        r.rows # -1 /\ r.table \notin edited /\ ~PutAside(i) =>
            /\ r.table \in DOMAIN target
            /\ r.rows = Cardinality(DOMAIN target[r.table].rows)
            /\ by = "server" =>
                 /\ r.rows = Len(imported[i].rows)
                 /\ target[r.table].columns = imported[i].columns
                 /\ \A row \in ToSet(imported[i].rows) :
                      Cardinality({k \in DOMAIN target[r.table].rows : target[r.table].rows[k] = row})
                        = Cardinality({j \in DOMAIN imported[i].rows : imported[i].rows[j] = row})
=============================================================================
