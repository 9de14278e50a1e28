------------------------------- MODULE SqlText -------------------------------
(***************************************************************************)
(* The SQL parser (aruaru-query/src/parser.rs): it does not read a grammar *)
(* but looks for the first place of a keyword or a bracket in the text.    *)
(* A text is a sequence of tokens; what the code finds between two spaces, *)
(* or splits off by one character, is a token here.                        *)
(***************************************************************************)
EXTENDS Integers, SequencesExt

Quotes == {"'", "\""}
Functions == <<"aruaru_branch_from", "aruaru_branch", "aruaru_checkout", "aruaru_commit", "aruaru_merge">>

\* find: the first place of a token, 0 if there is none.
Find(text, token) == SelectInSeq(text, LAMBDA t : t = token)
Has(text, token) == Find(text, token) # 0
Upto(text, place) == SubSeq(text, 1, place - 1)
From(text, place) == SubSeq(text, place + 1, Len(text))

\* split: the pieces between places of a token, at least one.
Split(text, token) ==
    LET cuts == {i \in DOMAIN text : text[i] = token}
        Cut(k) == IF k = 0 THEN 0
                  ELSE CHOOSE i \in cuts \cup {Len(text) + 1} : Cardinality({j \in cuts : j < i}) = k - 1
    IN [k \in 1 .. Cardinality(cuts) + 1 |-> SubSeq(text, Cut(k - 1) + 1, Cut(k) - 1)]

Pieces(text) == Split(text, ",")

\* What stands between the first bracket and the first closing one is sliced out, after each was
\* looked for in the whole text: the slice panics if they are the wrong way round.
Reversed(open, close) == close < open

\* How texts are put together: pieces with commas between, and a literal in the places of a token.
Listed(pieces) == FlattenSeq([i \in DOMAIN pieces |-> (IF i = 1 THEN <<>> ELSE <<",">>) \o pieces[i]])
Replaced(text, token, literal) ==
    FlattenSeq([i \in DOMAIN text |-> IF text[i] = token THEN literal ELSE <<text[i]>>])

\* trim_matches: quotes at both ends go, however many.
Unquoted(text) ==
    LET inner == {i \in DOMAIN text : text[i] \notin Quotes} IN
    IF inner = {} THEN <<>> ELSE SubSeq(text, Min(inner), Max(inner))

\* What is not in a statement: no list of columns (all of them), no condition.
AllColumns == <<<<"*">>>>
NoFilter == <<>>
\* What comes of a text that is no statement: an error, or a panic of the task that parses it.
Failed == [kind |-> "error"]
Panicked == [kind |-> "panic"]
-----------------------------------------------------------------------------
\* parse_where: without "=" there is no condition.
ParseWhere(cond) ==
    LET eq == Find(cond, "=") IN
    IF eq = 0 THEN NoFilter ELSE <<Upto(cond, eq), Unquoted(From(cond, eq))>>

\* The part before WHERE, and the condition after it.
SplitWhere(text) ==
    LET at == Find(text, "WHERE") IN
    IF at = 0 THEN [head |-> text, filter |-> NoFilter]
    ELSE [head |-> Upto(text, at), filter |-> ParseWhere(From(text, at))]

ParseCreateTable(text) ==
    LET after == IF text[2] = "IF NOT EXISTS" THEN From(text, 2) ELSE Tail(text)
        paren == Find(after, "(")
        closing == {i \in DOMAIN after : after[i] = ")"} IN
    CASE paren = 0 \/ closing = {} -> Failed
      [] paren # 0 /\ closing # {} /\ Reversed(paren, Max(closing)) -> Panicked
      [] OTHER ->
            [kind |-> "create", table |-> Upto(after, paren),
             columns |-> LET defs == SelectSeq(Pieces(SubSeq(after, paren + 1, Max(closing) - 1)), LAMBDA d : d # <<>>)
                         IN [i \in DOMAIN defs |-> <<Head(defs[i])>>]]

\* One assignment of DO UPDATE SET: a literal, or EXCLUDED and the column.
ParseAssignment(clause) ==
    LET eq == Find(clause, "=")
        right == From(clause, eq) IN
    [column |-> Upto(clause, eq),
     value |-> IF right # <<>> /\ Head(right) = "EXCLUDED." THEN <<"EXCLUDED.", Tail(right)>>
               ELSE <<"literal", Unquoted(right)>>]

ParseOnConflict(text) ==
    LET target == Len(text) > 1 /\ text[2] = "("
        close == Find(text, ")")
        action == IF target THEN From(text, close) ELSE Tail(text)
        on == IF target THEN SubSeq(text, 3, close - 1) ELSE <<>>
        clauses == Pieces(From(action, 1)) IN
    CASE target /\ close = 0 -> Failed
      [] action # <<>> /\ Head(action) = "DO NOTHING" -> [kind |-> "conflict", on |-> on, sets |-> <<>>]
      [] action = <<>> \/ Head(action) # "DO UPDATE SET" -> Failed
      [] \E i \in DOMAIN clauses : ~Has(clauses[i], "=") -> Failed
      [] OTHER -> [kind |-> "conflict", on |-> on,
                   sets |-> [i \in DOMAIN clauses |-> ParseAssignment(clauses[i])]]

\* The first brackets hold the columns, the first ones after VALUES the values; checked in this order.
ParseInsert(text) ==
    LET after == Tail(text)
        paren == Find(after, "(")  close == Find(after, ")")
        part == From(after, Find(after, "VALUES"))
        vopen == Find(part, "(")  vclose == Find(part, ")")
        columns == SelectSeq(Pieces(SubSeq(after, paren + 1, close - 1)), LAMBDA c : c # <<>>)
        raw == Pieces(SubSeq(part, vopen + 1, vclose - 1))
        values == [i \in DOMAIN raw |-> Unquoted(raw[i])]
        rest == From(part, vclose)
        conflict == ParseOnConflict(rest) IN
    IF paren = 0 \/ close = 0 THEN Failed
    ELSE IF Reversed(paren, close) THEN Panicked
    ELSE IF ~Has(after, "VALUES") \/ vopen = 0 \/ vclose = 0 THEN Failed
    ELSE IF Reversed(vopen, vclose) THEN Panicked
    ELSE IF Len(columns) # Len(values) THEN Failed
    ELSE IF rest # <<>> /\ Head(rest) = "ON CONFLICT"
    THEN IF conflict = Failed THEN Failed
         ELSE [kind |-> "upsert", table |-> Upto(after, paren), columns |-> columns, values |-> values,
               on |-> conflict.on, sets |-> conflict.sets]
    ELSE [kind |-> "insert", table |-> Upto(after, paren), columns |-> columns, values |-> values]

\* A SELECT without AS OF COMMIT.
ParsePlainSelect(text) ==
    LET from == Find(text, "FROM")
        cols == SubSeq(text, 2, from - 1)
        rest == SplitWhere(From(text, from)) IN
    IF from = 0 THEN Failed
    ELSE [kind |-> "select", table |-> rest.head, filter |-> rest.filter,
          columns |-> IF cols = <<"*">> THEN AllColumns ELSE Pieces(cols)]

ParseSelect(text) ==
    LET at == Find(text, "AS OF COMMIT")
        inner == ParsePlainSelect(Upto(text, at))
        commit == Unquoted(From(text, at)) IN
    CASE at = 0 -> ParsePlainSelect(text)
      [] commit = <<>> \/ inner = Failed -> Failed
      [] OTHER -> [kind |-> "select_as_of", table |-> inner.table, columns |-> inner.columns,
                   filter |-> inner.filter, commit |-> commit]

ParseDelete(text) ==
    LET rest == SplitWhere(Tail(text)) IN
    IF rest.head = <<>> THEN Failed ELSE [kind |-> "delete", table |-> rest.head, filter |-> rest.filter]

ParseUpdate(text) ==
    LET at == Find(text, "SET")
        rest == SplitWhere(From(text, at))
        set == ParseWhere(rest.head) IN
    IF at <= 2 \/ set = NoFilter THEN Failed
    ELSE [kind |-> "update", table |-> SubSeq(text, 2, at - 1), set |-> set, filter |-> rest.filter]

ParseDrop(text) ==
    LET table == IF Len(text) > 1 /\ text[2] = "IF EXISTS" THEN From(text, 2) ELSE Tail(text) IN
    IF table = <<>> THEN Failed ELSE [kind |-> "drop", table |-> table]
-----------------------------------------------------------------------------
\* extract_fn_arg: what is in the brackets that come first after the name, which may stand anywhere.
CallOf(text, name) ==
    LET after == From(text, Find(text, name))
        open == Find(after, "(")  close == Find(after, ")") IN
    CASE ~Has(text, name) \/ open = 0 \/ close = 0 -> {}
      [] Has(text, name) /\ open # 0 /\ close # 0 /\ Reversed(open, close) -> {Panicked}
      [] OTHER -> {[kind |-> "function", name |-> name, arg |-> Unquoted(SubSeq(after, open + 1, close - 1))]}

Calls(text) == {i \in DOMAIN Functions : CallOf(text, Functions[i]) # {}}

\* parse, of a text without the ";" at its end: the log and the functions are found before the kind of the statement is looked at.
Parse(text) ==
    CASE Has(text, "aruaru_log") -> [kind |-> "log"]
      [] ~Has(text, "aruaru_log") /\ Calls(text) # {} ->
            CHOOSE call \in CallOf(text, Functions[Min(Calls(text))]) : TRUE
      [] OTHER ->
            CASE text = <<>> -> Failed
              [] Head(text) = "CREATE TABLE" -> ParseCreateTable(text)
              [] Head(text) = "INSERT INTO" -> ParseInsert(text)
              [] Head(text) = "SELECT" -> ParseSelect(text)
              [] Head(text) = "DELETE FROM" -> ParseDelete(text)
              [] Head(text) = "UPDATE" -> ParseUpdate(text)
              [] Head(text) \in {"BEGIN", "START TRANSACTION"} -> [kind |-> "begin"]
              [] Head(text) \in {"COMMIT", "END"} -> [kind |-> "commit"]
              [] Head(text) \in {"ROLLBACK", "ABORT"} -> [kind |-> "rollback"]
              [] Head(text) = "DROP TABLE" -> ParseDrop(text)
              [] OTHER -> Failed
=============================================================================
