---------------------------- MODULE WireSession ------------------------------
(***************************************************************************)
(* A connection of the PostgreSQL wire server (aruaru-wire/src/lib.rs): a  *)
(* client prepares a text with placeholders, may ask what columns it will  *)
(* answer with, and executes it with parameters that the server writes     *)
(* into the text, before the parser (SqlText) sees it.  Other connections  *)
(* send plain text and change the tables meanwhile.  Of the engine, what   *)
(* an answer looks like; QueryEngine has what it does.                     *)
(***************************************************************************)
EXTENDS SqlText

CONSTANTS Template,   \* what clients prepare: statements whose values may be placeholders
          Batch,      \* what they send as plain text: sequences of statements, put together with ";"
          Param,      \* parameters: a value, as tokens, and the type declared for it; or NULL
          Common,     \* one of them; of a statement's parameters one at most is another
          MaxSends    \* bound on executions and batches, for TLC

Placeholder == <<"$1", "$2">>
NoTable == [columns |-> <<>>, pks |-> {}]
NoCommit == <<>>
NoAnswer == [is |-> "none", columns |-> <<>>, rows |-> 0]

VARIABLES
    tables,      \* [table -> its columns and the keys of its rows]
    commits,     \* at most one commit: its tables
    prepared,    \* the statement the client prepared, as it meant it
    bound,       \* its parameters and their types
    described,   \* the columns that Describe announced
    answer,      \* what the last execution answered
    read,        \* history: the statement as the parser read it
    settled,     \* history: no table changed its columns since Describe
    batch,       \* texts of a plain query still to execute
    sends

wireVars == <<tables, commits, prepared, bound, described, answer, read, settled, batch, sends>>

Tables == {<<"t">>}
NothingPrepared == [kind |-> "none"]

WireInit ==
    /\ tables = [t \in Tables |-> NoTable]
    /\ commits = NoCommit
    /\ prepared = NothingPrepared /\ bound = <<>> /\ described = <<>>
    /\ answer = NoAnswer /\ read = Failed /\ settled = FALSE
    /\ batch = <<>> /\ sends = 0
-----------------------------------------------------------------------------
Where(filter) == IF filter = NoFilter THEN <<>> ELSE <<"WHERE">> \o filter[1] \o <<"=">> \o filter[2]
Assigned(set) == set.column \o <<"=">> \o
    (IF set.value[1] = "EXCLUDED." THEN <<"EXCLUDED.">> \o set.value[2] ELSE set.value[2])
Insertion(st) ==
    <<"INSERT INTO">> \o st.table \o <<"(">> \o Listed(st.columns) \o <<")", "VALUES", "(">>
      \o Listed(st.values) \o <<")">>

\* The text a client writes for a statement.
Text(st) ==
    CASE st.kind = "create" -> <<"CREATE TABLE", "IF NOT EXISTS">> \o st.table \o <<"(">> \o Listed(st.columns) \o <<")">>
      [] st.kind = "drop" -> <<"DROP TABLE", "IF EXISTS">> \o st.table
      [] st.kind = "insert" -> Insertion(st)
      [] st.kind = "upsert" ->
            Insertion(st) \o <<"ON CONFLICT", "(">> \o st.on \o <<")">> \o
              (IF st.sets = <<>> THEN <<"DO NOTHING">>
               ELSE <<"DO UPDATE SET">> \o Listed([i \in DOMAIN st.sets |-> Assigned(st.sets[i])]))
      [] st.kind = "select" -> <<"SELECT">> \o Listed(st.columns) \o <<"FROM">> \o st.table \o Where(st.filter)
      [] st.kind = "select_as_of" ->
            <<"SELECT">> \o Listed(st.columns) \o <<"FROM">> \o st.table \o Where(st.filter)
              \o <<"AS OF COMMIT", "'">> \o st.commit \o <<"'">>
      [] st.kind = "delete" -> <<"DELETE FROM">> \o st.table \o Where(st.filter)
      [] st.kind = "update" ->
            <<"UPDATE">> \o st.table \o <<"SET">> \o st.set[1] \o <<"=">> \o st.set[2] \o Where(st.filter)
      [] st.kind = "function" -> <<"SELECT", st.name, "(", "'">> \o st.arg \o <<"'", ")">>
      [] st.kind = "log" -> <<"SELECT", "*", "FROM", "aruaru_log">>
      [] st.kind = "begin" -> <<"BEGIN">>
      [] st.kind = "commit" -> <<"COMMIT">>
      [] st.kind = "rollback" -> <<"ROLLBACK">>

\* quote_text_literal: each quote inside is doubled.
Quoted(value) == <<"'">> \o Replaced(value, "'", <<"'", "'">>) \o <<"'">>

\* format_param_literal: numbers go bare, truth values and NULL by name, all else in quotes.
Literal(value, type) ==
    CASE type = "null" -> <<"NULL">>
      [] type = "numeric" /\ value = <<"1">> -> value
      [] type = "bool" /\ value = <<"1">> -> <<"TRUE">>
      [] OTHER -> Quoted(value)

\* Variant: the first placeholder is filled in first.
SubstituteUpwards(text, params) ==
    FoldLeft(LAMBDA got, i : Replaced(got, Placeholder[i], Literal(params[i].value, params[i].type)),
             text, [i \in DOMAIN params |-> i])

\* substitute_params: the highest placeholder first, so later ones go into the values put in before.
SubstituteParams(text, params) ==
    FoldLeft(LAMBDA got, i : Replaced(got, Placeholder[i], Literal(params[i].value, params[i].type)),
             text, [i \in DOMAIN params |-> Len(params) + 1 - i])

\* max_placeholder.
MaxPlaceholder(text) ==
    Max({0} \cup {i \in DOMAIN Placeholder : Has(text, Placeholder[i])})
-----------------------------------------------------------------------------
RowsOf(columns, n) == [is |-> "rows", columns |-> columns, rows |-> n]
Command == [is |-> "command", columns |-> <<>>, rows |-> 0]
Error == [is |-> "error", columns |-> <<>>, rows |-> 0]
\* The parser panicked: the connection's task is gone, and nobody answers.
NobodyAnswers == [is |-> "gone", columns |-> <<>>, rows |-> 0]
There(t) == t \in Tables /\ tables[t] # NoTable
LogColumns == <<<<"commit_id">>, <<"author">>, <<"message">>, <<"timestamp">>>>
Projected(wanted, all) == IF wanted = AllColumns THEN all ELSE wanted
Known(wanted, all) == \A i \in DOMAIN wanted : wanted[i] \in ToSet(all)
Generic(n) == [i \in 1 .. n |-> <<"col", i>>]

\* select: every column that is asked for, and that of the condition, must be there.
SelectAnswer(st) ==
    LET all == tables[st.table].columns
        out == Projected(st.columns, all) IN
    IF ~There(st.table) \/ ~Known(out, all) \/ (st.filter # NoFilter /\ ~Known(<<st.filter[1]>>, all)) THEN Error
    ELSE RowsOf(out, Cardinality({pk \in tables[st.table].pks :
                                  st.filter = NoFilter \/ st.filter[1] # Head(all) \/ st.filter[2] = pk}))

\* select_as_of: rows come from the commit; the columns are those of today's table if their number
\* agrees, else they have no names; a row that is not there answers for no column but those asked for.
PastAnswer(st, wanted) ==
    LET past == IF commits = NoCommit \/ st.table \notin Tables THEN NoTable ELSE Head(commits)[st.table]
        hits == {pk \in past.pks : st.filter = NoFilter \/ st.filter[2] = pk}
        width == IF hits = {} THEN 0 ELSE Len(past.columns)
        full == IF There(st.table) /\ Len(tables[st.table].columns) = width
                THEN tables[st.table].columns ELSE Generic(width) IN
    CASE commits = NoCommit -> Error
      [] st.filter # NoFilter /\ hits = {} -> RowsOf(IF wanted = AllColumns THEN <<>> ELSE wanted, 0)
      [] wanted # AllColumns /\ ~Known(wanted, full) -> Error
      [] OTHER -> RowsOf(Projected(wanted, full), Cardinality(hits))

\* Variant: the projection is not carried out on the past.
SelectAsOfWhole(st) == PastAnswer(st, AllColumns)
SelectAsOfAnswer(st) == PastAnswer(st, st.columns)

AnswerTo(st) ==
    CASE st = Failed -> Error
      [] st = Panicked -> NobodyAnswers
      [] st.kind = "select" -> IF There(st.table) THEN SelectAnswer(st) ELSE Error
      [] st.kind = "select_as_of" -> SelectAsOfAnswer(st)
      [] st.kind = "log" -> RowsOf(LogColumns, Len(commits))
      [] st.kind = "function" -> RowsOf(<<<<st.name>>>>, 1)
      [] st.kind \in {"insert", "upsert", "delete", "update"} /\ ~There(st.table) -> Error
      [] st.kind \in {"insert", "upsert"} /\ ~Known(st.columns, tables[st.table].columns) -> Error
      [] OTHER -> Command

\* What the statement leaves of the tables, as far as answers depend on it.
After(st) ==
    LET put == [tables EXCEPT ![st.table].pks = @ \cup {st.values[1]}] IN
    CASE AnswerTo(st).is \in {"error", "gone"} -> tables
      [] st.kind = "create" ->
            IF st.table \notin Tables \/ There(st.table) THEN tables
            ELSE [tables EXCEPT ![st.table] = [columns |-> st.columns, pks |-> {}]]
      [] st.kind = "drop" /\ st.table \in Tables -> [tables EXCEPT ![st.table] = NoTable]
      [] st.kind \in {"insert", "upsert"} -> put
      [] st.kind = "delete" ->
            [tables EXCEPT ![st.table].pks = IF st.filter = NoFilter THEN {} ELSE @ \ {st.filter[2]}]
      [] OTHER -> tables

Committed(st) ==
    IF AnswerTo(st).is = "rows" /\ st.kind = "function" /\ st.name = "aruaru_commit" /\ commits = NoCommit
    THEN <<tables>> ELSE commits

\* execute_one, here or on every node through the replicator: the answer is the same but for its tag.
Run(st) ==
    /\ tables' = After(st)
    /\ commits' = Committed(st)
    /\ answer' = AnswerTo(st)
    /\ settled' = (settled /\ \A t \in Tables : tables'[t].columns = tables[t].columns)
-----------------------------------------------------------------------------
\* Parse: the text is kept as it is.  The client prepares once, for TLC.
Prepare ==
    /\ prepared = NothingPrepared
    /\ prepared' \in Template
    /\ UNCHANGED <<tables, commits, bound, described, answer, read, settled, batch, sends>>

\* describe_columns: from the text with its placeholders and today's tables.
DescribeColumns(st) ==
    CASE st.kind \in {"select", "select_as_of"} ->
            IF st.columns # AllColumns THEN st.columns
            ELSE IF There(st.table) THEN tables[st.table].columns ELSE <<>>
      [] st.kind = "log" -> LogColumns
      [] st.kind = "function" /\ st.name # "aruaru_branch_from" -> <<<<st.name>>>>
      [] OTHER -> <<>>

Describe ==
    /\ prepared # NothingPrepared /\ ~settled /\ answer # NobodyAnswers
    /\ described' = DescribeColumns(Parse(Text(prepared)))
    /\ settled' = TRUE
    /\ bound' = <<>> /\ read' = Failed
    /\ answer' = IF Parse(Text(prepared)) = Panicked THEN NobodyAnswers ELSE NoAnswer
    /\ UNCHANGED <<tables, commits, prepared, batch, sends>>

\* Bind and Execute: the parameters go into the text, the text is parsed and run.
BindAndExecute ==
    LET n == MaxPlaceholder(Text(prepared)) IN
    /\ prepared # NothingPrepared /\ sends < MaxSends /\ answer # NobodyAnswers
    /\ \E params \in {f \in [1 .. n -> Param] : \A i, j \in 1 .. n : i = j \/ Common \in {f[i], f[j]}} :
          LET st == Parse(SubstituteParams(Text(prepared), params)) IN
          /\ bound' = params
          /\ read' = st
          /\ Run(st)
    /\ sends' = sends + 1
    /\ UNCHANGED <<prepared, described, batch>>

\* do_query of a connection that sends plain text, which is cut at every ";", also at one inside a
\* value in quotes; one text after the other, others in between ...
Cut(text) == SelectSeq(Split(text, ";"), LAMBDA t : t # <<>>)
Joined(statements) ==
    FlattenSeq([i \in DOMAIN statements |-> (IF i = 1 THEN <<>> ELSE <<";">>) \o Text(statements[i])])

SendBatch ==
    /\ batch = <<>> /\ sends < MaxSends
    /\ \E statements \in Batch : batch' = Cut(Joined(statements))
    /\ sends' = sends + 1
    /\ UNCHANGED <<tables, commits, prepared, bound, described, answer, read, settled>>

\* ... until one fails or ends the connection; what was done before it stays.
RunNext ==
    /\ batch # <<>>
    /\ LET st == Parse(Head(batch)) IN
          /\ tables' = After(st)
          /\ commits' = Committed(st)
          /\ settled' = (settled /\ \A t \in Tables : tables'[t].columns = tables[t].columns)
          /\ batch' = IF AnswerTo(st).is \in {"error", "gone"} THEN <<>> ELSE Tail(batch)
    /\ UNCHANGED <<prepared, bound, described, answer, read, sends>>

WireStep == Prepare \/ Describe \/ BindAndExecute \/ SendBatch \/ RunNext
-----------------------------------------------------------------------------
\* The statement with the parameters in their places, as the client means it.
Given(value) ==
    IF \E i \in DOMAIN bound : value = <<Placeholder[i]>>
    THEN LET p == bound[CHOOSE i \in DOMAIN bound : value = <<Placeholder[i]>>] IN
         IF p.type = "bool" /\ p.value = <<"1">> THEN <<"TRUE">> ELSE p.value
    ELSE value

Filled(filter) == IF filter = NoFilter THEN NoFilter ELSE <<filter[1], Given(filter[2])>>

Meant(st) ==
    CASE st.kind = "insert" -> [st EXCEPT !.values = [i \in DOMAIN @ |-> Given(@[i])]]
      [] st.kind = "upsert" ->
            [st EXCEPT !.values = [i \in DOMAIN @ |-> Given(@[i])],
                       !.sets = [i \in DOMAIN @ |-> [@[i] EXCEPT !.value = <<@[1], Given(@[2])>>]]]
      [] st.kind = "update" -> [st EXCEPT !.set = Filled(@), !.filter = Filled(@)]
      [] st.kind \in {"select", "select_as_of", "delete"} -> [st EXCEPT !.filter = Filled(@)]
      [] OTHER -> st

\* A value the parser gives back where it stands: it has none of the tokens that end it there, or at
\* which the parser looks for another statement wherever they stand in the text, no placeholder that
\* is still to be filled, and no double quote at an end, which the parser would take off.  And it is
\* not NULL, which the parser knows as the text NULL only.
Special(st) ==
    {"'", "aruaru_log", "$1"} \cup ToSet(Functions) \cup
    CASE st.kind \in {"insert", "upsert"} -> {",", ")"}
      [] st.kind = "update" -> {"WHERE"}
      [] st.kind \in {"select", "select_as_of"} -> {"AS OF COMMIT"}
      [] OTHER -> {}

ReadAsIs(p) ==
    /\ p.type # "null"
    /\ ToSet(p.value) \cap Special(prepared) = {}
    /\ p.value = Unquoted(p.value)

PlainValues == \A i \in DOMAIN bound : ReadAsIs(bound[i])

WireOK ==
    /\ \A t \in Tables : Len(tables[t].columns) <= 2
    /\ Len(commits) <= 1 /\ sends \in 0 .. MaxSends
    /\ answer.is \in {"none", "rows", "command", "error", "gone"}

\* What a client prepares and binds is read as it means it, if its values are plain (PlainValues): then no
\* part of one is lost and none is taken for SQL.  For the others see ValuesStayValues.
StatementsReadBack == read # Failed /\ PlainValues => read = Meant(prepared)

\* quote_text_literal says (lib.rs:192-194) that it leaves no way around for the parser to read a value
\* as something else, and its test (lib.rs:638-639) that a value cannot get out of its place in the
\* statement: whatever values are bound, what is executed is a statement of the kind that was prepared.
ValuesStayValues == read \notin {Failed, Panicked} => read.kind = prepared.kind

\* Of the past, "*" for a row that is not there answers with no columns; and where the table has other
\* columns today, or is gone, Describe looks at today's.
PastIsDifferent ==
    /\ prepared.kind = "select_as_of"
    /\ \/ prepared.columns = AllColumns /\ answer.rows = 0
       \/ Head(commits)[prepared.table].columns # tables[prepared.table].columns

\* Describe, which does not execute, announces the columns that an execution with plain values then
\* answers with, rows or none, as long as no table changed its columns in between; aruaru_branch_from
\* and the tables of the past above are left out.
DescribeAgrees ==
    settled /\ answer.is = "rows" /\ PlainValues =>
        \/ described = answer.columns
        \/ prepared.kind = "function" /\ prepared.name = "aruaru_branch_from"
        \/ PastIsDifferent
=============================================================================
