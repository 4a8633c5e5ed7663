------------------------------- MODULE SqlTools -------------------------------
(***************************************************************************)
(* A caller explores a database with sql_schema and queries it with        *)
(* sql_query while others change its tables.                               *)
(*                                                                         *)
(* A list of tables is one SELECT a page.  A detail is up to three SELECTs *)
(* in one transaction, which is READ COMMITTED: each sees what is          *)
(* committed when it begins.  Connections and failures of statements are   *)
(* TargetPool's, inputs and policy limits Admission's, and a body over its *)
(* budget JsonOutput's.                                                    *)
(***************************************************************************)
EXTENDS SqlPolicy, SqlSchema

CONSTANTS
    DefaultNamespace, \* DEFAULT_NAMESPACE, where a dot in a table's name ends a namespace
    Catalogs,         \* what a database may hold at first
    Definitions,      \* what a table may be made to be: [kind, columns, key, indexes]
    Limits,           \* pages that callers ask for
    SchemaBudgets,    \* max_bytes that callers ask for
    Programs,         \* texts of queries, parsed
    Policies,         \* policies of the credential
    Results,          \* what a query may return
    RowLimits,        \* max_rows that callers ask for
    MaxTableChanges,  \* bound on the changes of the catalog
    MaxPages          \* bound on the pages of a list

\* A table's key and indexes are of its columns.
IsDefinition(d) ==
    /\ d.columns \in Seq(SqlName)
    /\ d.key \in Seq(Range(d.columns))
    /\ d.indexes \in Seq(Seq(Range(d.columns)))

\* The tables there can be
Created == UNION {DOMAIN c : c \in Catalogs}

\* A list of one table that was cut
OneTable(t) ==
    [NoAnswer EXCEPT !.tables = <<t>>, !.truncated = TRUE, !.more = TRUE, !.returned = 1,
                     !.page = <<[has_more |-> TRUE, next |-> JoinCursor(t)]>>]

\* The least max_bytes has room for a table, whose names Postgres keeps short.
ASSUME SqlToolsAssumption ==
    /\ \A c \in Catalogs : IsFiniteSet(DOMAIN c) /\ \A t \in DOMAIN c : IsDefinition(c[t])
    /\ Created \subseteq SqlName \X SqlName
    /\ \A d \in Definitions : IsDefinition(d)
    /\ Limits \cup RowLimits \subseteq Nat \ {0}
    /\ SchemaBudgets \subseteq 1 .. MaxSchemaBytes
    /\ \A t \in Created, max \in SchemaBudgets : EncodedLen(OneTable(t)) <= max
    /\ \A statements \in Programs : Len(statements) = 1 /\ statements[1].of # <<>> =>
          \A site \in Written(statements[1].of[1]) : IsSite(site)
    /\ \A rows \in Results : IsSequence(rows) /\ \A i \in DOMAIN rows : IsSequence(rows[i])
    /\ {MaxTableChanges, MaxPages} \subseteq Nat

VARIABLES
    catalog,  \* the database's tables
    changes,  \* how often they were changed
    list,     \* the caller's list of tables
    detail,   \* its call for one table
    query     \* its query

toolsVars == <<catalog, changes, list, detail, query>>

NoList == [pc |-> "idle", cursor |-> <<>>, listed |-> <<>>, pages |-> 0,
           throughout |-> {}, ever |-> {}]

NoDetail == [pc |-> "idle", table |-> <<>>, was |-> <<>>, steady |-> TRUE, columns |-> <<>>,
             key |-> <<>>, max |-> 0, out |-> NoAnswer]

NoQuery == [pc |-> "idle"]

ToolsInit ==
    /\ catalog \in Catalogs /\ changes = 0
    /\ list = NoList /\ detail = NoDetail /\ query = NoQuery

Idle == list.pc = "idle" /\ detail.pc = "idle" /\ query.pc = "idle"

-----------------------------------------------------------------------------
(* Others *)

\* Bound: tables change while a caller looks at them; what was changed before
\* is another catalog to begin with.  After a change: what the list's caller
\* could have been told by now, and whether the table of the detail is what it
\* was.
Changed ==
    /\ changes < MaxTableChanges /\ changes' = changes + 1
    /\ ~Idle /\ query.pc = "idle"
    /\ list' = [list EXCEPT !.throughout = @ \cap Listable(catalog'),
                            !.ever = @ \cup Listable(catalog')]
    /\ detail' = [detail EXCEPT !.steady = FALSE]
    /\ UNCHANGED query

DefineTable ==
    \E t \in Created, d \in Definitions :
        catalog' = [u \in DOMAIN catalog \cup {t} |-> IF u = t THEN d ELSE catalog[u]] /\ Changed

DropTable ==
    \E t \in DOMAIN catalog :
        catalog' = [u \in DOMAIN catalog \ {t} |-> catalog[u]] /\ Changed

-----------------------------------------------------------------------------
(* sql_schema, mode=tables *)

BeginList ==
    /\ Idle
    /\ list' = [NoList EXCEPT !.pc = "asking", !.throughout = Listable(catalog),
                              !.ever = Listable(catalog)]
    /\ UNCHANGED <<catalog, changes, detail, query>>

\* A page, cut to its budget.  The caller goes on with next_cursor as it is,
\* and normalize_input trims what the caller gives.
ReadPage ==
    /\ list.pc = "asking" /\ list.pages < MaxPages
    /\ Unbroken(TrimBlanks(list.cursor))
    /\ \E limit \in Limits, max \in SchemaBudgets :
          LET out == Finalize(ListTables(catalog, TrimBlanks(list.cursor), limit), max)
          IN  list' = [list EXCEPT
                        !.pc = IF out.page[1].has_more THEN "asking" ELSE "done",
                        !.cursor = out.page[1].next, !.pages = @ + 1,
                        !.listed = @ \o out.tables]
    /\ UNCHANGED <<catalog, changes, detail, query>>

\* A line break in a name makes next_cursor one that is refused.
RefuseCursor ==
    /\ list.pc = "asking" /\ list.pages < MaxPages
    /\ ~Unbroken(TrimBlanks(list.cursor))
    /\ list' = [list EXCEPT !.pc = "refused"]
    /\ UNCHANGED <<catalog, changes, detail, query>>

-----------------------------------------------------------------------------
(* sql_schema, mode=table *)

\* normalize_input leaves a table's names as they are.
Namable(t) ==
    /\ \A name \in {t[1], t[2]} : TrimBlanks(name) = name /\ Unbroken(name)
    /\ t[1] = DefaultNamespace => Dot \notin Range(t[2])

\* load_columns, which says the kind as well
LoadColumns ==
    /\ Idle
    /\ \E t \in {u \in DOMAIN catalog : Namable(u)} :
          detail' = [NoDetail EXCEPT !.pc = "key", !.table = t, !.was = catalog[t],
                                     !.columns = catalog[t].columns]
    /\ UNCHANGED <<catalog, changes, list, query>>

Exists == detail.table \in DOMAIN catalog

\* load_primary_key; a table without columns ends here.
LoadKey ==
    /\ detail.pc = "key"
    /\ detail' = [detail EXCEPT
                    !.pc = IF detail.columns = <<>> THEN "not_found" ELSE "indexes",
                    !.key = IF Exists THEN Names(catalog[detail.table].key) ELSE <<>>]
    /\ UNCHANGED <<catalog, changes, list, query>>

\* load_indexes, if asked for, and the answer
LoadIndexes ==
    /\ detail.pc = "indexes"
    /\ \E asked \in BOOLEAN, max \in SchemaBudgets :
          LET found == IF asked /\ Exists THEN catalog[detail.table].indexes ELSE <<>>
              whole == [columns |-> detail.columns, key |-> detail.key,
                        indexes |-> [i \in DOMAIN found |-> Names(found[i])]]
          IN  detail' = [detail EXCEPT
                           !.pc = "done", !.max = max,
                           !.out = Finalize([NoAnswer EXCEPT !.table = <<whole>>], max)]
    /\ UNCHANGED <<catalog, changes, list, query>>

-----------------------------------------------------------------------------
(* sql_query *)

\* The text passes the credential's policy and is sent, or is refused.
\* Bound: before any change, for what a query returns is any of Results.
AskQuery ==
    /\ Idle /\ changes = 0
    /\ \E statements \in Programs, policy \in Policies :
          query' = IF Granted(policy, statements)
                   THEN [pc |-> "sent", policy |-> policy, statement |-> statements[1]]
                   ELSE [pc |-> "refused"]
    /\ UNCHANGED <<catalog, changes, list, detail>>

AnswerQuery ==
    /\ query.pc = "sent"
    /\ \E rows \in Results, max \in RowLimits :
          query' = [pc |-> "done", rows |-> rows, max |-> max, out |-> LoadRows(rows, max)]
    /\ UNCHANGED <<catalog, changes, list, detail>>

-----------------------------------------------------------------------------

Return ==
    /\ {list.pc, detail.pc, query.pc} \cap {"done", "not_found", "refused"} # {}
    /\ list' = NoList /\ detail' = NoDetail /\ query' = NoQuery
    /\ UNCHANGED <<catalog, changes>>

\* A caller need not go on.
GiveUp ==
    /\ list.pc = "asking" /\ list' = NoList
    /\ UNCHANGED <<catalog, changes, detail, query>>

ToolsNext ==
    \/ DefineTable \/ DropTable
    \/ BeginList \/ ReadPage \/ RefuseCursor \/ GiveUp
    \/ LoadColumns \/ LoadKey \/ LoadIndexes
    \/ AskQuery \/ AnswerQuery
    \/ Return

ToolsSpec == ToolsInit /\ [][ToolsNext]_toolsVars

-----------------------------------------------------------------------------
(* Properties *)

Dotted(t) == Dot \in {t[1][i] : i \in DOMAIN t[1]}

Indented(t) == t[1][1] \in White

Trailing(t) == t[2][Len(t[2])] \in White

\* A caller who follows next_cursor to the end is told of every table that was
\* there all the time, of none that never was, and of each once and in order,
\* whatever is created and dropped between two pages and however the pages are
\* cut.  The exceptions come from the cursor, which is trimmed and split: of a
\* namespace that begins with white space it may become a later place, and
\* tables are left out; of a table that ends with white space, or a namespace
\* with a dot in it, an earlier one, and tables are told of again, it may be
\* without end.
TablesAreListed ==
    /\ list.pc = "done" /\ (\A t \in list.ever : ~Indented(t)) =>
          list.throughout \subseteq {list.listed[i] : i \in DOMAIN list.listed}
    /\ \A i \in DOMAIN list.listed : list.listed[i] \in list.ever
    /\ (\A t \in list.ever : ~Dotted(t) /\ ~Indented(t) /\ ~Trailing(t)) =>
          \A i \in 2 .. Len(list.listed) : After(list.listed[i], list.listed[i - 1])

\* A name that comes back from a list of names as it was
Clean(name) ==
    /\ Comma \notin {name[i] : i \in DOMAIN name}
    /\ name[1] \notin White /\ name[Len(name)] \notin White

\* The detail of a table is within its budget, but for the digits of its own
\* size, or holds nothing but names; it begins with the table's first column,
\* what is not said to be cut is whole, and what is cut goes from its end:
\* the key stays only with all columns, an index only with the key.  Of a
\* table that was not changed meanwhile the key and the indexes name columns
\* that are told, unless a column's name has a comma in it or white space at
\* an end.
DetailIsOfTable ==
    detail.pc = "done" =>
        LET out == detail.out.table[1]
            was == detail.was
            named == UNION {{n[i] : i \in DOMAIN n} :
                              n \in {out.key} \cup {out.indexes[i] : i \in DOMAIN out.indexes}}
            told == {out.columns[i] : i \in DOMAIN out.columns}
        IN  /\ EncodedLen(detail.out) < detail.max + NumberBytes \/ Bare(detail.out)
            /\ IsPrefix(out.columns, was.columns)
            /\ (out.key # <<>> \/ ~detail.out.truncated) => out.columns = was.columns
            /\ out.indexes # <<>> => ~detail.out.truncated
            /\ (detail.steady /\ \A n \in {was.columns[i] : i \in DOMAIN was.columns} : Clean(n))
                  => named \subseteq told

\* A site where the policy reads a name, and reads what Postgres reads
Legible(site) == site.at \in Hooked /\ Escaped(site.name) = {}

\* policy.rs:160 says that denials on the parsed AST are immune to evasions by
\* white space and quotes.  A query that is sent explains only what the policy
\* allows and, however deep and in capitals, quotes or not, where it names a
\* relation, calls a function or has a value, it runs no function denied by
\* name, whichever schema it comes from, and reads no metadata unless the
\* policy allows it.  The exceptions are the names that the policy is not
\* shown, those of TABLE r, FROM LATERAL f(..) and of functions with a syntax
\* of their own, and names written U&"..".  A denied name with a schema denies
\* that spelling alone.
RunsOnlyGranted ==
    query.pc = "sent" =>
        LET policy == query.policy
            s == query.statement
            named == {site \in Written(s.of[1]) : Legible(site)}
        IN  /\ s.kind = "query" \/ (policy.explain /\ (s.analyze => policy.analyze))
            /\ \A f \in Runs(named) :
                  /\ f[2] \notin BuiltinDenied
                  /\ <<f[2]>> \notin policy.deniedFunctions
            /\ ReadsMetadata(named) => policy.metadata

\* docs/mcp/tools/sql-query.md: entries of one index are one row.  Each column
\* has an entry for each row that is counted, the row's own, in order; and
\* rows are said to be missing if and only if some are.  Of two columns of
\* one name the last is kept.
ColumnsAreRows ==
    query.pc = "done" =>
        LET out == query.out
        IN  /\ out.row_count <= query.max
            /\ out.truncated <=> Len(query.rows) > out.row_count
            /\ \A i \in 1 .. out.row_count :
                  LET row == query.rows[i]
                  IN  \A j \in DOMAIN row :
                        (\A k \in j + 1 .. Len(row) : row[k].name # row[j].name) =>
                            /\ Len(out.columns[row[j].name]) = out.row_count
                            /\ out.columns[row[j].name][i] = row[j].value
=============================================================================
