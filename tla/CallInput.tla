------------------------------ MODULE CallInput ------------------------------
(***************************************************************************)
(* What a call is asked with, what the service makes of it and what a      *)
(* credential's policy says to that: input.rs and policy.rs of             *)
(* service/src/api_call, sql_query and sql_schema.                         *)
(*                                                                         *)
(* An optional field is a sequence of at most one value.  A map of texts   *)
(* is a function on the texts that are its keys.  A JSONPath is a text,    *)
(* "foreign" outside RFC 9535, "descent" with .., "sum" with .count() or   *)
(* .length().  A value whose word is "json" is a media type of JSON.       *)
(***************************************************************************)
EXTENDS CredentialRow

CONSTANTS
    MaxQueryKeys,    \* MAX_QUERY_KEYS
    MaxHeaders,      \* MAX_HEADERS
    MaxParams,       \* MAX_PARAMS
    MaxJsonPaths     \* MAX_JSON_PATHS

MB == 1024 * 1024

OptionSet(S) == {o \in Seq(S) : Len(o) <= 1}

MapOf(map, K) == DOMAIN map \subseteq K /\ map \in [DOMAIN map -> TextSet]

\* ApiCallInput and TableInput
TypedApi(in) ==
    /\ in \in [alias : TextSet, purpose : TextSet, method : TextSet, path : PathSet,
              query : {in.query}, headers : {in.headers}, body : OptionSet(TextSet),
              contentType : TextSet, jsonpath : Seq(TextSet), table : {in.table},
              maxBytes : OptionSet(Nat)]
    /\ MapOf(in.query, NameSet) /\ MapOf(in.headers, TextSet)
    /\ in.table # <<>> =>
          /\ in.table = <<[base |-> in.table[1].base, columns |-> in.table[1].columns]>>
          /\ in.table[1].base \in TextSet /\ MapOf(in.table[1].columns, NameSet)

\* SqlQueryInput
QueryInput ==
    [alias : TextSet, purpose : TextSet, database : OptionSet(TextSet), query : TextSet,
     params : Seq(TextSet), jsonpath : Seq(TextSet), maxRows : OptionSet(Int),
     maxBytes : OptionSet(Nat), timeout : OptionSet(Nat)]

\* SqlSchemaInput
SchemaInput ==
    [alias : TextSet, purpose : TextSet, database : OptionSet(TextSet), mode : TextSet,
     namespace : TextSet, table : PathSet, limit : OptionSet(Int), cursor : TextSet,
     maxBytes : OptionSet(Nat), timeout : OptionSet(Nat)]

Given(option, default) == IF option = <<>> THEN default ELSE option[1]

\* A map rebuilt under other keys, key[k] for k.  Of keys that become one, the
\* value of the last stays; how they are written decides which that is.
Rekeyed(map, key) ==
    LET keys == {key[k] : k \in DOMAIN map}
        values == {map[k] : k \in DOMAIN map}
    IN  {m \in [keys -> values] :
            \A n \in keys : \E k \in DOMAIN map : key[k] = n /\ m[n] = map[k]}

\* validate_purpose
ValidPurpose(t) == ValidBounded(t)

\* validate_json_paths
ValidJsonPaths(paths) ==
    /\ Cardinality(DOMAIN paths) <= MaxJsonPaths
    /\ \A i \in DOMAIN paths :
          ~IsEmpty(paths[i])
          /\ paths[i].odd \cap {"long", "relative", "descent", "foreign", "nul", "crlf"} = {}

-----------------------------------------------------------------------------
(* api_call *)

\* validate_table_projection and the names of its columns
ValidTable(table) ==
    LET names == DOMAIN table.columns
        paths == {table.base} \cup {table.columns[n] : n \in names}
    IN  /\ names # {}
        /\ Cardinality(names) < MaxJsonPaths
        /\ \A n \in names : ValidName(Trim(n))
        /\ \A n, o \in names : Trim(n) = Trim(o) => n = o
        /\ \A p \in paths : ValidJsonPaths(<<p>>) /\ "sum" \notin p.odd

\* normalize_query, which refuses
ValidQuery(query) ==
    /\ Cardinality(DOMAIN query) <= MaxQueryKeys
    /\ \A k \in DOMAIN query :
          ValidName(Trim(k)) /\ ValidValue(query[k]) /\ "nul" \notin query[k].odd

\* The names and values of headers; values may hold any character but CR and LF.
ValidHeaders(headers) ==
    /\ Cardinality(DOMAIN headers) <= MaxHeaders
    /\ \A n \in DOMAIN headers :
          /\ ValidToken(n) /\ "long" \notin n.odd
          /\ ValidValue(headers[n])
          /\ n.word = "accept" => headers[n].word = "json"

NormalMethod(t) == Default(Fold(Trim(t)), "GET")

\* normalize_input of an api_call, what it refuses
ValidApi(in) ==
    LET method == NormalMethod(in.method)
    IN  /\ ~IsEmpty(in.alias)
        /\ ValidPurpose(in.purpose)
        /\ method.word \in Methods /\ method.odd = {}
        /\ in.body # <<>> => method.word # "GET"
        /\ in.path.word # <<>> /\ ValidPath(in.path)
        /\ InRange(Given(in.maxBytes, 4096), 256, MB)
        /\ ValidJsonPaths(in.jsonpath)
        /\ in.table # <<>> => in.jsonpath = <<>> /\ ValidTable(in.table[1])
        /\ ValidQuery(in.query)
        /\ ValidHeaders(in.headers)
        /\ ~IsEmpty(in.contentType) =>
              ValidValue(in.contentType) /\ (in.body # <<>> => in.contentType.word = "json")

NormalTable(table) ==
    [base |-> Trim(table.base),
     columns |-> [n \in {Trim(o) : o \in DOMAIN table.columns} |->
        Trim(table.columns[CHOOSE o \in DOMAIN table.columns : Trim(o) = n])]]

\* HeaderName lowers what it is given.
HeaderName(t) == Fold(Trim(t))

\* The input with the maps that its query and headers became
NormalCall(in, query, headers) ==
    [in EXCEPT
        !.alias = Trim(@), !.purpose = Trim(@), !.method = NormalMethod(@),
        !.path = Trim(@), !.query = query, !.headers = headers,
        !.contentType = Trim(@),
        !.jsonpath = [i \in DOMAIN @ |-> Trim(@[i])],
        !.table = [i \in DOMAIN @ |-> NormalTable(@[i])],
        !.maxBytes = Given(@, 4096)]

\* normalize_query, and the headers under their own names, what each may return
NormalQueries(in) == Rekeyed(in.query, [k \in DOMAIN in.query |-> Trim(k)])

NormalHeaders(in) == Rekeyed(in.headers, [n \in DOMAIN in.headers |-> HeaderName(n)])

\* normalize_input of an api_call, what it may return
NormalApi(in) ==
    {NormalCall(in, query, headers) : query \in NormalQueries(in), headers \in NormalHeaders(in)}

\* validate_policy_boundary of an api_call, in the order in which it asks
ApiDenial(policy, in) ==
    LET names == DOMAIN in.headers
    IN  IF ~ContainsFold(policy.methods, in.method)
        THEN "policy_method_not_allowed"
        ELSE IF ~\E p \in policy.prefixes : MatchesPrefix(in.path.word, p.word)
        THEN "policy_request_path_not_allowed"
        ELSE IF \E k \in DOMAIN in.query : ContainsFold(policy.deniedKeys, k)
        THEN "policy_query_key_denied"
        ELSE IF \E n \in names : HeaderBlocked(n)
        THEN "policy_request_header_blocked"
        ELSE IF \E n \in names : ~ContainsFold(policy.headers, n)
        THEN "policy_request_header_not_allowed"
        ELSE "none"

\* caller_overrides_secret_header
CallerOverrides(secret, in) ==
    \E i \in DOMAIN secret : ContainsFold(DOMAIN in.headers, secret[i].name)

-----------------------------------------------------------------------------
(* sql_query and sql_schema *)

\* normalize_database_name
ValidDatabase(database) ==
    \A i \in DOMAIN database :
        ~IsEmpty(database[i]) =>
            database[i].odd \cap {"long", "foreign", "nul", "crlf"} = {}

NormalDatabase(database) ==
    IF database = <<>> THEN <<>>
    ELSE IF IsEmpty(database[1]) THEN <<>> ELSE <<Trim(database[1])>>

\* The budgets the SQL tools share
ValidBudgets(in) ==
    /\ InRange(Given(in.maxBytes, 64 * 1024), 1024, MB)
    /\ InRange(Given(in.timeout, 3000), 1, 30000)

\* normalize_input of an sql_query
ValidQueryInput(in) ==
    /\ ~IsEmpty(in.alias)
    /\ ValidPurpose(in.purpose)
    /\ ValidDatabase(in.database)
    /\ ~IsEmpty(in.query) /\ in.query.odd \cap {"long", "nul"} = {}
    /\ Len(in.params) <= MaxParams
    /\ ValidJsonPaths(in.jsonpath)
    /\ InRange(Given(in.maxRows, 100), 1, 1000)
    /\ ValidBudgets(in)

\* sha256_hex; no two texts here have one digest.
Sha256(t) == <<"sha256", t>>

\* The query without what surrounds it and the semicolons behind it
NormalSql(t) == [Trim(t) EXCEPT !.odd = @ \ {"semicolon"}]

NormalQueryInput(in) ==
    [in EXCEPT
        !.alias = Trim(@), !.purpose = Trim(@), !.database = NormalDatabase(@),
        !.query = NormalSql(@), !.maxRows = Given(@, 100),
        !.maxBytes = Given(@, 64 * 1024), !.timeout = Given(@, 3000)]

\* The mode, and the two parts of a table named "namespace.table".
NormalMode(t) == Default(Fold(Trim(t)), "tables")

SchemaTarget(in) ==
    LET namespace == Default(Trim(in.namespace), "public")
    IN  IF NormalMode(in.mode).word = "table"
        THEN IF namespace = Plain("public") /\ Len(in.table.word) > 1
             THEN [namespace |-> Text(Head(in.table.word), in.table.odd \ {"pad"}),
                   table |-> [Trim(in.table) EXCEPT !.word = Tail(@)]]
             ELSE [namespace |-> namespace, table |-> Trim(in.table)]
        ELSE [namespace |-> Trim(in.namespace), table |-> Trim(in.table)]

\* validate_identifier
ValidIdentifier(t, empty) == t.word # empty /\ t.odd \cap {"long", "nul", "crlf"} = {}

\* normalize_input of an sql_schema
ValidSchemaInput(in) ==
    LET mode == NormalMode(in.mode)
        target == SchemaTarget(in)
    IN  /\ ~IsEmpty(in.alias)
        /\ ValidPurpose(in.purpose)
        /\ ValidDatabase(in.database)
        /\ mode.word \in {"tables", "table"} /\ mode.odd = {}
        /\ InRange(Given(in.limit, 50), 1, 100)
        /\ ValidBudgets(in)
        /\ in.cursor.odd \cap {"nul", "crlf"} = {}
        /\ mode.word = "table" =>
              ValidIdentifier(target.namespace, "") /\ ValidIdentifier(target.table, <<>>)

NormalSchemaInput(in) ==
    [in EXCEPT
        !.alias = Trim(@), !.purpose = Trim(@), !.database = NormalDatabase(@),
        !.mode = NormalMode(@), !.namespace = SchemaTarget(in).namespace,
        !.table = SchemaTarget(in).table, !.limit = Given(@, 50), !.cursor = Trim(@),
        !.maxBytes = Given(@, 64 * 1024), !.timeout = Given(@, 3000)]

\* A limit of 0 is none.
Exceeds(asked, limit) == limit > 0 /\ asked > limit

\* validate_policy_boundary of an sql_query
QueryDenied(policy, in) ==
    \/ policy.analyze /\ ~policy.explain
    \/ Exceeds(in.maxRows, policy.maxRows)
    \/ Exceeds(in.maxBytes, policy.maxBytes)
    \/ Exceeds(in.timeout, policy.timeout)

\* validate_policy of an sql_schema
SchemaDenied(policy, in) ==
    \/ policy.analyze /\ ~policy.explain
    \/ in.mode.word = "tables" /\ Exceeds(in.limit, policy.maxRows)
    \/ Exceeds(in.maxBytes, policy.maxBytes)
    \/ Exceeds(in.timeout, policy.timeout)
=============================================================================
