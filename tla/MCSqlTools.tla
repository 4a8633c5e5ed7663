------------------------------ MODULE MCSqlTools ------------------------------
(* SqlTools on small catalogs and on queries of every shape.  The characters *)
(* a, b and c are 4, 5 and 6.                                                *)
EXTENDS SqlTools, TLC

A == <<4>>
B == <<5>>
AdotB == <<4, Dot, 5>>
AcommaB == <<4, Comma, 5>>
Padded == <<Blank, 4, Blank>>
Long == <<6, 6>>

T1 == <<A, A>>
T2 == <<A, Long>>
T3 == <<B, AdotB>>
T4 == <<AdotB, A>>
T5 == <<<<9>>, A>>
T6 == <<<<Blank, 5>>, A>>
T7 == <<A, <<4, Blank>>>>
T8 == <<A, <<4, Break, 5>>>>

Def(kind, columns, key, indexes) ==
    [kind |-> kind, columns |-> columns, key |-> key, indexes |-> indexes]

Table == Def("table", <<A, B>>, <<A>>, <<<<A>>, <<B, A>>>>)
Wide  == Def("partitioned_table", <<Long, A, B>>, <<Long, A>>, <<>>)
Comm  == Def("table", <<AcommaB, A>>, <<AcommaB>>, <<>>)
Pad   == Def("table", <<B, Padded>>, <<Padded>>, <<<<B>>>>)
View  == Def("view", <<B>>, <<>>, <<>>)
Empty == Def("table", <<>>, <<>>, <<>>)
Other == Def("materialized_view", <<B>>, <<>>, <<<<B>>>>)

MCHidden == {<<9>>}

MCDefinitions == {Table, Wide, Other}

MCCatalogs ==
    {[t \in ts |-> Table] : ts \in {{}, {T1, T2, T3}, {T1, T3, T5}, {T1, T2, T4},
                             {T2, T6}, {T2, T7}, {T2, T8}}}
        \cup {T1 :> d : d \in {Wide, Comm, Pad, View, Empty, Other}}

-----------------------------------------------------------------------------
Ident(word, odd) == Text(word, odd)

NamesUsed == {<<Ident("sleep", {})>>, <<Ident("sleep", {"case"})>>, <<Ident("udf", {"quote"})>>,
              <<Ident("pg_catalog", {}), Ident("sleep", {"quote", "case"})>>,
              <<Ident("public", {}), Ident("udf", {})>>, <<Ident("other", {}), Ident("udf", {})>>,
              <<Ident("abs", {})>>, <<Ident("user", {})>>, <<Ident("pg_class", {"case"})>>,
              <<Ident("information_schema", {}), Ident("tables", {})>>,
              <<Ident("db", {}), Ident("pg_catalog", {}), Ident("pg_class", {})>>,
              <<Ident("payments", {})>>}

\* Written U&".."
EscapedNames == {<<Ident("sleep", {"escape"})>>, <<Ident("udf", {"escape"})>>,
                 <<Ident("pg_catalog", {"escape"}), Ident("sleep", {})>>}

MCSites == [at : {"relation", "call", "value"}, name : NamesUsed]
           \cup [at : {"call", "value"}, name : EscapedNames]
           \cup [at : {"lateral", "special"}, name : {<<Ident("sleep", {})>>, <<Ident("udf", {})>>}]

\* Parts of a syntax tree, and one at the end of a step
Part(kind, locks, into, sites) == [kind |-> kind, locks |-> locks, into |-> into, sites |-> sites]

Under(step, tree) == [p \in {<<step>> \o q : q \in DOMAIN tree} |-> tree[Tail(p)]]

Node(part, trees) == (<<>> :> part) @@ trees

None == [p \in {} |-> p]

Leaf(part) == Node(part, None)

Query(locks, with, body) ==
    Node(Part("query", locks, FALSE, {}), with @@ Under(<<"body", 1>>, body))

With(q) == Under(<<"with", 1>>, q)

Select(sites) == Leaf(Part("select", FALSE, FALSE, sites))

SelectOf(q) == Node(Part("select", FALSE, FALSE, {}), Under(<<"inner", 1>>, q))

Simple(sites) == Query(FALSE, None, Select(sites))

OneSite == {[at |-> "relation", name |-> <<Ident("payments", {})>>]}

One == Simple(OneSite)

\* A query around another, at every place where one can be.
Around(q) ==
    {q, Query(FALSE, With(q), Select({})), Query(FALSE, None, SelectOf(q)),
     Node(Part("query", FALSE, FALSE, {}), Under(<<"body", 1>>, q)),
     Query(FALSE, None, Node(Part("union", FALSE, FALSE, {}),
                             Under(<<"left", 1>>, Select(OneSite)) @@ Under(<<"right", 1>>, q)))}

Odd == {Query(TRUE, None, Select(OneSite)),
        Query(FALSE, None, Leaf(Part("select", FALSE, TRUE, OneSite))),
        Query(FALSE, None, Leaf(Part("insert", FALSE, FALSE, {})))}

\* TABLE r, within a SELECT and not
Tables == {Query(FALSE, None, Leaf(Part("table", FALSE, FALSE, {[at |-> "table", name |-> n]}))) :
              n \in {<<Ident("pg_class", {})>>, <<Ident("payments", {})>>}}

Queries == UNION {Around(Simple({site})) : site \in MCSites} \cup UNION {Around(q) : q \in Odd \cup Tables}
           \cup UNION {Around(q) : q \in Around(Simple(
                {[at |-> "call", name |-> <<Ident("udf", {"case"})>>]}))}

Explained == {Simple({[at |-> "call", name |-> n]}) : n \in NamesUsed}

MCPrograms ==
    {<<[kind |-> "query", analyze |-> FALSE, of |-> <<q>>]>> : q \in Queries}
    \cup {<<[kind |-> "explain", analyze |-> a, of |-> <<q>>]>> : a \in BOOLEAN, q \in Explained}
    \cup {<<>>, <<[kind |-> "explain", analyze |-> FALSE, of |-> <<>>]>>,
          <<[kind |-> "delete", analyze |-> FALSE, of |-> <<>>]>>,
          [i \in {1, 2} |-> [kind |-> "query", analyze |-> FALSE, of |-> <<One>>]]}

MCPolicies ==
    {[metadata |-> m, explain |-> e, analyze |-> FALSE, deniedFunctions |-> d] :
        m \in BOOLEAN, e \in BOOLEAN, d \in {{}, {<<"udf">>, <<"user">>}, {<<"public", "udf">>}}}
    \cup {[metadata |-> FALSE, explain |-> TRUE, analyze |-> TRUE, deniedFunctions |-> {}]}

MCFunctions == {<<"pg_catalog", "sleep">>, <<"pg_catalog", "abs">>, <<"public", "udf">>,
                <<"other", "udf">>}

-----------------------------------------------------------------------------
Cell(name, value) == [name |-> name, value |-> value]

MCResults ==
    {[i \in 1 .. n |-> <<Cell("a", i), Cell("b", 10 + i)>>] : n \in 0 .. 4}
    \cup {[i \in 1 .. n |-> <<Cell("a", i), Cell("b", 5), Cell("a", 10 + i)>>] : n \in 0 .. 3}
    \cup {[i \in 1 .. n |-> <<>>] : n \in 0 .. 3}
=============================================================================
