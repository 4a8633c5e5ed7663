------------------------------- MODULE SqlSchema -------------------------------
(***************************************************************************)
(* What sql_schema makes of a database's catalog: a page of tables or the  *)
(* detail of one, and what is left of it under a byte budget               *)
(* (service/src/sql_schema/executor.rs, output.rs).  And what sql_query    *)
(* makes of rows (sql_query/executor.rs, output.rs).                       *)
(*                                                                         *)
(* A name is a sequence of characters, numbered in the order of their      *)
(* codes; of white space there is a line break and a blank.  A table is    *)
(* named <<namespace, name>>.  A catalog is a function from tables to      *)
(* [kind, columns, key, indexes].                                          *)
(***************************************************************************)
EXTENDS Naturals, Sequences, FiniteSets, FiniteSetsExt, Functions, SequencesExt

CONSTANTS
    HiddenNamespaces,   \* pg_catalog and information_schema
    EnvelopeBytes,      \* an answer without tables, names and numbers
    ItemBytes,          \* a table, column or index without its names
    MoreBytes,          \* the advice of an answer that was cut
    NumberBytes,        \* a number but 0
    MaxSchemaBytes      \* MAX_MAX_BYTES

ASSUME SqlSchemaAssumption ==
    /\ {EnvelopeBytes, ItemBytes, MoreBytes, MaxSchemaBytes} \subseteq Nat
    /\ NumberBytes \in Nat \ {0}

Break == 0
Blank == 1
Comma == 2
Dot == 3

\* What str::trim takes off
White == {Break, Blank}

\* Postgres has no empty names.
SqlName == Seq(Nat) \ {<<>>}

Cut(rows, max) == SubSeq(rows, 1, IF max < Len(rows) THEN max ELSE Len(rows))

\* Codes compared one by one, as Postgres compares names
Below(s, t) ==
    \E n \in 0 .. Len(s) :
        /\ n < Len(t) /\ \A i \in 1 .. n : s[i] = t[i]
        /\ n = Len(s) \/ s[n + 1] < t[n + 1]

\* (namespace, name) > (namespace, name)
After(a, b) == Below(b[1], a[1]) \/ (a[1] = b[1] /\ Below(b[2], a[2]))

-----------------------------------------------------------------------------
(* Lists of tables *)

\* information_schema.tables knows of no materialized view, and a foreign
\* table is left out.
Listable(catalog) ==
    {t \in DOMAIN catalog : t[1] \notin HiddenNamespaces
                            /\ catalog[t].kind \in {"table", "view", "partitioned_table"}}

\* join_cursor
JoinCursor(t) == t[1] \o <<Dot>> \o t[2]

\* split_cursor, at the first dot
SplitCursor(cursor) ==
    LET dots == {i \in DOMAIN cursor : cursor[i] = Dot}
    IN  IF dots = {} THEN <<<<>>, cursor>>
        ELSE <<SubSeq(cursor, 1, Min(dots) - 1), SubSeq(cursor, Min(dots) + 1, Len(cursor))>>

\* ORDER BY: the place of a table is the number of those before it.
Ordered(tables) ==
    [k \in 1 .. Cardinality(tables) |->
        CHOOSE t \in tables : Cardinality({u \in tables : After(t, u)}) = k - 1]

\* The SELECT of list_tables, without its LIMIT
Rest(catalog, cursor) ==
    LET split == SplitCursor(cursor)
    IN  Ordered({t \in Listable(catalog) : split = <<<<>>, <<>>>> \/ After(t, split)})

NoAnswer ==
    [tables |-> <<>>, table |-> <<>>, page |-> <<>>, truncated |-> FALSE, more |-> FALSE,
     returned |-> 0]

\* Mutant: a LIMIT of the page and not of one more.
ListWithoutNext(catalog, cursor, limit) ==
    LET rest == Rest(catalog, cursor)
    IN  [NoAnswer EXCEPT !.tables = Cut(rest, limit), !.page = <<[has_more |-> FALSE, next |-> <<>>]>>]

\* list_tables
ListTables(catalog, cursor, limit) ==
    LET rest == Rest(catalog, cursor)
        more == Len(Cut(rest, limit + 1)) > limit
        tables == Cut(rest, limit)
    IN  [NoAnswer EXCEPT
            !.tables = tables,
            !.page = <<[has_more |-> more,
                        next |-> IF more THEN JoinCursor(Last(tables)) ELSE <<>>]>>]

-----------------------------------------------------------------------------
(* Details *)

\* array_to_string(.., ','), which keeps no names apart
Joined(names) ==
    LET text[n \in 0 .. Len(names)] ==
            IF n = 0 THEN <<>> ELSE IF n = 1 THEN names[1]
            ELSE text[n - 1] \o <<Comma>> \o names[n]
    IN  text[Len(names)]

\* str::trim
TrimBlanks(word) ==
    LET kept == {i \in DOMAIN word : word[i] \notin White}
    IN  IF kept = {} THEN <<>> ELSE SubSeq(word, Min(kept), Max(kept))

\* Whether normalize_input takes a cursor or, for a detail, a name
Unbroken(word) == \A i \in DOMAIN word : word[i] # Break

\* A word of a list ends.
EndOfWord(list) ==
    LET word == TrimBlanks(list.word)
    IN  IF word = <<>> THEN list.words ELSE Append(list.words, word)

\* split_comma_list
SplitCommas(text) ==
    LET read[n \in 0 .. Len(text)] ==
            IF n = 0 THEN [words |-> <<>>, word |-> <<>>]
            ELSE IF text[n] = Comma THEN [words |-> EndOfWord(read[n - 1]), word |-> <<>>]
            ELSE [words |-> read[n - 1].words, word |-> Append(read[n - 1].word, text[n])]
    IN  EndOfWord(read[Len(text)])

Names(names) == SplitCommas(Joined(names))

-----------------------------------------------------------------------------
(* Budgets *)

NamesBytes(names) == SumFunction([i \in DOMAIN names |-> ItemBytes + Len(names[i])])

IndexesBytes(indexes) ==
    SumFunction([i \in DOMAIN indexes |-> ItemBytes + NamesBytes(indexes[i])])

Width(n) == IF n = 0 THEN 1 ELSE NumberBytes

\* encoded_len; the answer holds the number that is being made up, as it was.
EncodedLen(out) ==
    EnvelopeBytes + Width(out.returned)
        + NamesBytes([i \in DOMAIN out.tables |-> out.tables[i][1] \o out.tables[i][2]])
        + (IF out.page = <<>> THEN 0 ELSE Len(out.page[1].next))
        + (IF out.table = <<>> THEN 0
           ELSE NamesBytes(out.table[1].columns) + NamesBytes(out.table[1].key)
                + IndexesBytes(out.table[1].indexes))
        + (IF out.more THEN MoreBytes ELSE 0)

Measured(out) == [out EXCEPT !.returned = EncodedLen(out)]

\* One turn of the loop of trim_table_detail
ShorterTable(table) ==
    IF table.indexes # <<>> THEN [table EXCEPT !.indexes = <<>>]
    ELSE IF table.key # <<>> THEN [table EXCEPT !.key = <<>>]
    ELSE [table EXCEPT !.columns = Front(@)]

\* One turn of the loop of trim_table_list
ShorterList(out) ==
    LET tables == Front(out.tables)
        next == IF tables = <<>> THEN <<>> ELSE JoinCursor(Last(tables))
    IN  [out EXCEPT !.tables = tables, !.page = <<[has_more |-> TRUE, next |-> next]>>]

Shorter(out) ==
    IF out.table # <<>> THEN [out EXCEPT !.table = <<ShorterTable(out.table[1])>>]
    ELSE ShorterList(out)

Bare(out) ==
    out.tables = <<>> /\
    (out.table = <<>> \/ (out.table[1].columns = <<>> /\ out.table[1].key = <<>>
                          /\ out.table[1].indexes = <<>>))

\* The most turns that the loops can take
Turns(out) ==
    Len(out.tables) + IF out.table = <<>> THEN 0 ELSE Len(out.table[1].columns) + 2

\* trim_schema_payload, which goes by the size that was measured last
Trimmed(out, max) ==
    LET cut[n \in 0 .. Turns(out)] ==
            IF n = 0 THEN out
            ELSE IF cut[n - 1].returned <= max \/ Bare(cut[n - 1]) THEN cut[n - 1]
            ELSE Measured(Shorter(cut[n - 1]))
    IN  cut[Turns(out)]

\* Mutant: the advice is not taken back when it does not fit.
FinalizeWithAdvice(out, max) ==
    LET whole == Measured(out)
        cut == Trimmed([whole EXCEPT !.truncated = TRUE], max)
    IN  IF whole.returned <= max THEN whole
        ELSE Measured([cut EXCEPT !.more = max < MaxSchemaBytes])

\* finalize_output
Finalize(out, max) ==
    LET whole == Measured(out)
        cut == Trimmed([whole EXCEPT !.truncated = TRUE], max)
        advised == Measured([cut EXCEPT !.more = max < MaxSchemaBytes])
    IN  IF whole.returned <= max THEN whole
        ELSE IF advised.returned <= max THEN advised
        ELSE Measured(Trimmed([advised EXCEPT !.more = FALSE], max))

-----------------------------------------------------------------------------
(* Rows *)

\* A row is the sequence of its columns, [name, value], as json_agg writes
\* it; read back as a JSON object it has each name once, with the last value.
ReadBack(row) ==
    [n \in {row[i].name : i \in DOMAIN row} |->
        row[CHOOSE i \in DOMAIN row : row[i].name = n /\ \A j \in DOMAIN row :
                row[j].name = n => j <= i].value]

\* transpose_rows
Transpose(rows) ==
    [n \in UNION {DOMAIN rows[i] : i \in DOMAIN rows} |->
        [i \in DOMAIN rows |-> IF n \in DOMAIN rows[i] THEN rows[i][n] ELSE "null"]]

\* Mutant: a LIMIT of max and not of one more.
LoadExactly(rows, max) ==
    LET read == [i \in DOMAIN Cut(rows, max) |-> ReadBack(rows[i])]
    IN  [columns |-> Transpose(read), row_count |-> Len(read), truncated |-> Len(read) > max]

\* load_rows, of the rows there are; the query is asked for one more than
\* max.  A plan's lines are all asked for and then cut.
LoadRows(rows, max) ==
    LET read == [i \in DOMAIN Cut(rows, max + 1) |-> ReadBack(rows[i])]
    IN  [columns |-> Transpose(Cut(read, max)), row_count |-> Len(Cut(read, max)),
         truncated |-> Len(read) > max]
=============================================================================
