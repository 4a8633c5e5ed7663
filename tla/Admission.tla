------------------------------ MODULE Admission ------------------------------
(***************************************************************************)
(* From what is registered and asked to what is stored, sent and recorded: *)
(* a credential is registered, calls of the three tools are made with its  *)
(* alias or another, and the process restarts with this or another master  *)
(* key.  A registration and a call are one step each, since here it is     *)
(* their inputs that vary; CredentialStore and ToolCall have their         *)
(* interleavings.                                                          *)
(*                                                                         *)
(* Targets answer or fail as they like.  What a request says is modelled   *)
(* up to the library that sends it, with what the URL library makes of its *)
(* path.                                                                   *)
(***************************************************************************)
EXTENDS Records

CONSTANTS
    Keys,                \* master keys
    HttpRegistrations, SqlRegistrations,      \* inputs of credential_register_*
    ApiInputs, QueryInputs, SchemaInputs,     \* inputs of the tools
    ApiOutputs, QueryOutputs,                 \* what a target answers
    Readings             \* segments of paths that the URL library reads as others

\* The structs that serde makes of a request
ASSUME InputsAssumption ==
    /\ HttpRegistrations \subseteq HttpRegistration
    /\ SqlRegistrations \subseteq SqlRegistration
    /\ \A in \in ApiInputs : TypedApi(in)
    /\ QueryInputs \subseteq QueryInput
    /\ SchemaInputs \subseteq SchemaInput

\* A segment is read as "." or ".." where its dots are percent-encoded, as
\* several where it holds backslashes, and without the tabs in it.
ASSUME ReadingsAssumption ==
    \A segment \in DOMAIN Readings : Readings[segment] \in Seq(Words \cup {".", ".."}) \ {<<>>}

\* Postgres names no column with a NUL.
ASSUME OutputsAssumption ==
    /\ MaxInt \in Nat
    /\ QueryOutputs \subseteq
          [rows : Nat, returned : Nat, truncated : BOOLEAN,
           columns : SUBSET {t \in TextSet : "nul" \notin t.odd}]

VARIABLES
    key,       \* the process's master key
    given,     \* the accepted registration as it was written
    row,       \* its row of credentials
    asked,     \* the last call as it was written
    wire,      \* what has left for the target in it
    audit,     \* its row of audit_logs
    history,   \* its row of api_call_history or sql_query_history
    lost       \* the tables that did not take its row

vars == <<key, given, row, asked, wire, audit, history, lost>>

Init ==
    /\ key \in Keys
    /\ given = <<>> /\ row = <<>> /\ asked = <<>> /\ wire = <<>>
    /\ audit = <<>> /\ history = <<>> /\ lost = {}

\* A registration, a call and a restart find no other under way.
Idle == asked = <<>>

NoCall == asked' = <<>> /\ wire' = <<>> /\ audit' = <<>> /\ history' = <<>> /\ lost' = {}

-----------------------------------------------------------------------------
(* Registration *)

\* CredentialService::register, with the INSERT that Postgres may refuse
Accept(in) ==
    LET new == Row(in, key)
    IN  /\ Idle /\ row = <<>>
        /\ ValidRegister(in)
        /\ row' = IF RowFits(new) /\ ~HoldsNul(new) THEN <<new>> ELSE <<>>
        /\ UNCHANGED key
        /\ NoCall

RegisterHttp ==
    \E in \in HttpRegistrations :
        given' = <<FromHttp(in)>> /\ Accept(NormalRegister(FromHttp(in)))

RegisterSql ==
    \E in \in SqlRegistrations :
        given' = <<FromSql(in)>> /\ Accept(NormalRegister(FromSql(in)))

\* MASTER_KEY is read when the process starts.
Restart == Idle /\ key' \in Keys /\ UNCHANGED <<given, row>> /\ NoCall

-----------------------------------------------------------------------------
(* What a call comes to *)

Denied(kind) == [outcome |-> "denied", kind |-> kind, quotes |-> {}, output |-> <<>>]

Failed(kind) == [outcome |-> "error", kind |-> kind, quotes |-> {}, output |-> <<>>]

Answered(output) ==
    [outcome |-> "ok", kind |-> "none", quotes |-> {}, output |-> <<output>>]

\* As {:?} writes it
Escaped(t) == [t EXCEPT !.odd = @ \ {"pad", "nul", "crlf"}]

\* The path that is named in the message that refuses it
BadInput(paths) ==
    {[Denied("bad_input") EXCEPT !.quotes =
        {Escaped(p)}] :
        p \in {q \in paths : ~IsEmpty(q) /\ q.odd \cap {"relative", "foreign"} # {}}}
    \cup {Denied("bad_input")}

\* find_credential_secret_by_alias
Finds(in) == row # <<>> /\ row[1].alias = in.alias

Opened == Opens(key, row[1].alias, row[1].secret[1])

\* ApiCallService::call up to the target
ApiVerdict(in) ==
    IF ~Finds(in) THEN Denied("credential_not_found")
    ELSE LET credential == Credential(row[1])
         IN  IF credential.category # "http" THEN Denied("wrong_credential_category")
             ELSE IF ApiDenial(credential.policy, in) # "none"
             THEN Denied(ApiDenial(credential.policy, in))
             ELSE IF ~Opened THEN Failed("secret_open_failed")
             ELSE IF CallerOverrides(OpenSecret(row[1]), in)
             THEN Denied("policy_request_header_not_allowed")
             ELSE [outcome |-> "send"]

\* SqlQueryService::execute and SqlSchemaService::execute up to the target;
\* the SQL policy of a query is SqlPolicy's.
SqlVerdict(in, denied) ==
    IF ~Finds(in) THEN Denied("credential_not_found")
    ELSE IF row[1].category # "sql" THEN Denied("wrong_credential_provider")
    ELSE IF denied THEN Denied("policy_denied")
    ELSE IF ~Opened THEN Failed("secret_open_failed")
    ELSE [outcome |-> "send"]

\* send_target: HeaderMap::insert replaces, HeaderName lowers.
WireHeaders(in, secret) ==
    [n \in {Fold(secret[i].name) : i \in DOMAIN secret} |->
        secret[CHOOSE i \in DOMAIN secret : Fold(secret[i].name) = n].value]
        ++ in.headers
        ++ [n \in {Plain("accept")} |-> Plain("json")]

ContentType(in) ==
    IF in.method = Plain("GET") \/ in.body = <<>> THEN <<>>
    ELSE <<Default(in.contentType, "json")>>

\* header_value, and the builder's own for the content type
Sendable(in, secret) ==
    LET headers == WireHeaders(in, secret)
    IN  /\ \A n \in DOMAIN headers : "nul" \notin headers[n].odd
        /\ NoNul(TextsOf(ContentType(in)))

AsWritten(path) == \A i \in DOMAIN path : path[i] \notin DOMAIN Readings

\* The segments of a path, as the URL library reads them
Segments(path) ==
    LET read[n \in 0 .. Len(path)] ==
            IF n = 0 THEN <<>>
            ELSE read[n - 1] \o (IF path[n] \in DOMAIN Readings THEN Readings[path[n]]
                                 ELSE <<path[n]>>)
    IN  read[Len(path)]

\* Two dots take the segment before them out; dots at the end leave a slash.
WithoutDots(path) ==
    LET kept[n \in 0 .. Len(path)] ==
            IF n = 0 THEN <<>>
            ELSE LET above == kept[n - 1]
                     left == IF path[n] # ".." \/ above = <<>> THEN above
                             ELSE SubSeq(above, 1, Len(above) - 1)
                 IN  IF path[n] \notin {".", ".."} THEN Append(left, path[n])
                     ELSE IF n = Len(path) THEN Append(left, "") ELSE left
    IN  kept[Len(path)]

\* Url::set_path
SetPath(path) == IF AsWritten(path) THEN path ELSE WithoutDots(Segments(path))

\* build_target_url and send_target
HttpRequest(in, credential, secret) ==
    [origin |-> credential.origin,
     path |-> SetPath(JoinBasePath(credential.base.word, in.path.word)),
     query |-> in.query, headers |-> WireHeaders(in, secret),
     contentType |-> ContentType(in), method |-> in.method,
     body |-> IF in.method = Plain("GET") THEN <<>> ELSE in.body]

\* prepare_postgres_target and begin_read_only_connection
SqlSession(in, credential, secret) ==
    [url |-> credential.url, sslmode |-> credential.sslmode,
     private |-> credential.private, insecure |-> credential.insecure,
     username |-> secret.username, password |-> secret.password,
     database |-> in.database, timeout |-> in.timeout]

-----------------------------------------------------------------------------
(* The calls *)

Keep(table, new, fits) == table' = IF fits THEN <<new>> ELSE <<>>

LostOf(auditFits, historyFits) ==
    lost' = (IF auditFits THEN {} ELSE {"audit"}) \cup (IF historyFits THEN {} ELSE {"history"})

\* append_event and insert, each of which may be refused
StoreApi(auditRow, historyRow) ==
    /\ Keep(audit, auditRow, AuditFits(auditRow))
    /\ Keep(history, historyRow, ApiHistoryFits(historyRow))
    /\ LostOf(AuditFits(auditRow), ApiHistoryFits(historyRow))

StoreQuery(auditRow, historyRow) ==
    /\ Keep(audit, auditRow, AuditFits(auditRow))
    /\ Keep(history, historyRow, QueryHistoryFits(historyRow))
    /\ LostOf(AuditFits(auditRow), QueryHistoryFits(historyRow))

StoreSchema(auditRow) ==
    /\ Keep(audit, auditRow, AuditFits(auditRow))
    /\ history' = <<>>
    /\ LostOf(AuditFits(auditRow), TRUE)

Channels == {"api", "mcp"}

Called(tool, in) ==
    Idle /\ asked' = <<[tool |-> tool, in |-> in]>> /\ UNCHANGED <<key, given, row>>

SnapshotOf(in) == IF Finds(in) THEN <<Snapshot(Credential(row[1]))>> ELSE <<>>

\* record_bad_input
RefuseApi(in) ==
    /\ ~ValidApi(in)
    /\ wire' = <<>>
    /\ \E channel \in Channels :
          \E result \in BadInput(TextsOf(in.jsonpath)
                            \cup UNION {Paths(t) : t \in TextsOf(in.table)}) :
              StoreApi(DenialRow("api.call", channel, SafeMessage(in.alias), result),
                       ApiDenialHistory(channel, SafeMessage(in.alias), result))

\* Postgres takes no NUL in the alias it is asked for: the error is returned
\* as it is.
FindFails(in) ==
    /\ "nul" \in in.alias.odd
    /\ wire' = <<>> /\ audit' = <<>> /\ history' = <<>> /\ lost' = {}

RecordApi(in, result) ==
    \E channel \in Channels :
        StoreApi(ApiAudit(channel, in, SnapshotOf(in), result),
                 ApiHistory(channel, in, SnapshotOf(in), result))

StopApi(in) ==
    /\ "nul" \notin in.alias.odd
    /\ ApiVerdict(in).outcome # "send"
    /\ wire' = <<>>
    /\ RecordApi(in, ApiVerdict(in))

HttpFailures == {"target_request_failed", "target_not_json", "target_read_failed",
                 "output_build_failed"}

SendApi(in) ==
    LET secret == OpenSecret(row[1])
    IN  /\ "nul" \notin in.alias.odd
        /\ ApiVerdict(in).outcome = "send"
        /\ IF Sendable(in, secret)
           THEN /\ wire' = <<HttpRequest(in, Credential(row[1]), secret)>>
                /\ \E result \in {Answered(o) : o \in ApiOutputs}
                                   \cup {Failed(k) : k \in HttpFailures} :
                      RecordApi(in, result)
           ELSE wire' = <<>> /\ RecordApi(in, Failed("target_request_failed"))

CallApi ==
    \E in \in ApiInputs :
        /\ Called("api_call", in)
        /\ \/ RefuseApi(in)
           \/ /\ ValidApi(in)
              /\ \E normal \in NormalApi(in) : FindFails(normal) \/ StopApi(normal) \/ SendApi(normal)

RefuseQuery(in) ==
    /\ ~ValidQueryInput(in)
    /\ wire' = <<>>
    /\ \E channel \in Channels :
          \E result \in BadInput(TextsOf(in.jsonpath)) :
              StoreQuery(DenialRow("sql.query", channel, SafeMessage(in.alias), result),
                         QueryDenialHistory(channel, SafeMessage(in.alias), result))

RecordQuery(in, result) ==
    \E channel \in Channels :
        StoreQuery(QueryAudit(channel, in, SnapshotOf(in), result),
                   QueryHistory(channel, in, SnapshotOf(in), result))

QueryVerdict(in) == SqlVerdict(in, row # <<>> /\ QueryDenied(Credential(row[1]).policy, in))

StopQuery(in) ==
    /\ "nul" \notin in.alias.odd
    /\ QueryVerdict(in).outcome # "send"
    /\ wire' = <<>>
    /\ RecordQuery(in, QueryVerdict(in))

SqlFailures == {"target_prepare_failed", "query_failed", "output_build_failed"}

SendQuery(in) ==
    /\ "nul" \notin in.alias.odd
    /\ QueryVerdict(in).outcome = "send"
    /\ wire' = <<SqlSession(in, Credential(row[1]), OpenSecret(row[1]))
                   ++ [rows |-> in.maxRows, bytes |-> in.maxBytes]>>
    /\ \E result \in {Answered(o) : o \in QueryOutputs} \cup {Failed(k) : k \in SqlFailures} :
          RecordQuery(in, result)

CallQuery ==
    \E in \in QueryInputs :
        /\ Called("sql_query", in)
        /\ \/ RefuseQuery(in)
           \/ /\ ValidQueryInput(in)
              /\ LET normal == NormalQueryInput(in)
                 IN  FindFails(normal) \/ StopQuery(normal) \/ SendQuery(normal)

\* sql_schema is a tool of MCP alone.
RefuseSchema(in) ==
    /\ ~ValidSchemaInput(in)
    /\ wire' = <<>>
    /\ StoreSchema(DenialRow("sql.schema", "mcp", SafeMessage(in.alias), Denied("bad_input")))

RecordSchema(in, result) == StoreSchema(SchemaAudit("mcp", in, SnapshotOf(in), result))

SchemaVerdict(in) == SqlVerdict(in, row # <<>> /\ SchemaDenied(Credential(row[1]).policy, in))

StopSchema(in) ==
    /\ "nul" \notin in.alias.odd
    /\ SchemaVerdict(in).outcome # "send"
    /\ wire' = <<>>
    /\ RecordSchema(in, SchemaVerdict(in))

SendSchema(in) ==
    /\ "nul" \notin in.alias.odd
    /\ SchemaVerdict(in).outcome = "send"
    /\ wire' = <<SqlSession(in, Credential(row[1]), OpenSecret(row[1]))
                   ++ [rows |-> IF in.mode.word = "tables" THEN in.limit ELSE 0,
                       bytes |-> in.maxBytes]>>
    /\ \E result \in {Answered(o) : o \in QueryOutputs} \cup {Failed("schema_lookup_failed")} :
          RecordSchema(in, result)

CallSchema ==
    \E in \in SchemaInputs :
        /\ Called("sql_schema", in)
        /\ \/ RefuseSchema(in)
           \/ /\ ValidSchemaInput(in)
              /\ LET normal == NormalSchemaInput(in)
                 IN  FindFails(normal) \/ StopSchema(normal) \/ SendSchema(normal)

\* The caller has its answer, and the tables are left to others.
Return == ~Idle /\ NoCall /\ UNCHANGED <<key, given, row>>

Next == RegisterHttp \/ RegisterSql \/ Restart \/ CallApi \/ CallQuery \/ CallSchema \/ Return

Spec == Init /\ [][Next]_vars

-----------------------------------------------------------------------------
(* Properties *)

\* What validation lets through, the table's own CHECKs let through as well,
\* and a call reads back what was registered, policy, target and secret.  The
\* exception is a NUL, which validation leaves in a description, in a denied
\* query key and before the origin, and which Postgres refuses.
AcceptedIsStored ==
    given # <<>> =>
        LET in == NormalRegister(given[1])
        IN  IF row = <<>>
            THEN "nul" \in in.description.odd \cup in.origin.odd \cup in.url.odd
                              \cup UNION {k.odd : k \in in.policy.deniedKeys}
            ELSE Credential(row[1]) = Registered(in) /\ OpenSecret(row[1]) = in.secret

HttpGranted(request, reg, in) ==
    LET base == WithoutTail(reg.base.word)
        rest == SubSeq(request.path, Len(base) + 1, Len(request.path))
        sealed == {reg.secret[i].name.word : i \in DOMAIN reg.secret}
    IN  /\ request.origin.word = reg.origin.word
        /\ AsWritten(reg.base.word) /\ AsWritten(in.path.word) =>
              /\ SubSeq(request.path, 1, Len(base)) = base
              /\ \E p \in OrDefault(reg.policy.prefixes, Text(Root, {})) : MatchesPrefix(rest, p.word)
        /\ \E m \in OrDefault(reg.policy.methods, Plain("GET")) : m.word = request.method.word
        /\ \A k \in DOMAIN request.query, d \in reg.policy.deniedKeys :
              d.word = k.word => d.odd \cap {"pad", "crlf"} # {}
        /\ \A i \in DOMAIN reg.secret : \E n \in DOMAIN request.headers :
              n.word = reg.secret[i].name.word /\ request.headers[n] = reg.secret[i].value
        /\ \A n \in DOMAIN request.headers : n.word \notin sealed =>
              \/ n.word = "accept"
              \/ \E h \in reg.policy.headers, o \in DOMAIN in.headers :
                    h.word = n.word /\ o.word = n.word /\ request.headers[n] = in.headers[o]
        /\ request.body # <<>> => request.method.word # "GET" /\ request.contentType # <<>>

SqlGranted(session, reg) ==
    LET policy == reg.policy
    IN  /\ session.url.word = reg.url.word
        /\ session.username = reg.secret.username /\ session.password = reg.secret.password
        /\ session.sslmode = "require" \/ (reg.private /\ reg.insecure)
        /\ policy.maxRows > 0 => session.rows <= policy.maxRows
        /\ policy.maxBytes > 0 => session.bytes <= policy.maxBytes
        /\ policy.timeout > 0 => session.timeout <= policy.timeout

\* What leaves for a target is within the policy as the registrant wrote it,
\* however names and methods were spelled in it and in the call, goes to the
\* registered target and carries the registered secret unaltered.  There are
\* two exceptions.  A denied query key written with white space around it or a
\* line break inside denies nothing.  And a path is granted as it is written
\* (policy.rs:134, validation.rs:80), and the URL library reads it after that
\* (target.rs:183): with segments that it reads as others, such as %2e%2e, the
\* request may be for a path beside the base path and the granted prefixes.
SentIsGranted ==
    wire # <<>> =>
        IF asked[1].tool = "api_call"
        THEN HttpGranted(wire[1], given[1], asked[1].in)
        ELSE SqlGranted(wire[1], given[1])

\* What a call may hold a NUL in and still be let through
AskedNul ==
    LET in == asked[1].in
        listing == asked[1].tool = "sql_schema" /\ NormalMode(in.mode).word # "table"
    IN  "nul" \in in.alias.odd \cup in.purpose.odd
                     \cup (IF asked[1].tool = "api_call" THEN in.path.odd ELSE {})
                     \cup (IF listing THEN in.namespace.odd \cup in.table.odd ELSE {})

\* Whatever a call is asked with and whatever its target answers, its rows pass
\* the CHECKs of their tables and none is lost.  The exceptions: a NUL in the
\* alias, the purpose, the path or, of a listing, the namespace or the table,
\* and a status above 599, which api_call_history does not take.
RecordsAreKept ==
    asked # <<>> /\ ~AskedNul =>
        /\ audit # <<>>
        /\ lost # {} => lost = {"history"} /\ asked[1].tool = "api_call" /\ audit[1].outcome = "ok"

HistoryTexts ==
    IF history = <<>> THEN {}
    ELSE IF asked[1].tool = "api_call" THEN ApiHistoryTexts(history[1])
    ELSE QueryHistoryTexts(history[1])

Recorded == (UNION {AuditTexts(audit[i]) : i \in DOMAIN audit}) \cup HistoryTexts

\* What registrant and caller hand over in confidence
SecretTexts(reg) ==
    {reg.origin, reg.url}
        \cup IF reg.category = "http" THEN {reg.secret[i].value : i \in DOMAIN reg.secret}
             ELSE {reg.secret.username, reg.secret.password}

AskedTexts(tool, in) ==
    IF tool = "api_call"
    THEN {in.query[k] : k \in DOMAIN in.query} \cup {in.headers[n] : n \in DOMAIN in.headers}
            \cup TextsOf(in.body)
    ELSE IF tool = "sql_query" THEN {in.query} \cup TextsOf(in.params) ELSE {}

WordsOf(texts) == {t.word : t \in texts}

Confidential ==
    (UNION {SecretTexts(FromHttp(in)) : in \in HttpRegistrations})
        \cup (UNION {SecretTexts(FromSql(in)) : in \in SqlRegistrations})
        \cup (UNION {AskedTexts("api_call", in) : in \in ApiInputs})
        \cup UNION {AskedTexts("sql_query", in) : in \in QueryInputs}

\* The words the code puts into a row
CodeWords ==
    {"", "postgres", "dev", "GET", "tables", "public", "bad_input", "credential_not_found",
     "wrong_credential_category", "wrong_credential_provider", "policy_method_not_allowed",
     "policy_request_path_not_allowed", "policy_query_key_denied",
     "policy_request_header_blocked", "policy_request_header_not_allowed", "policy_denied",
     "secret_open_failed", "schema_lookup_failed"} \cup HttpFailures \cup SqlFailures

\* What a call names
NamedIn(tool, in) ==
    IF tool = "api_call"
    THEN WordsOf({in.alias, in.purpose, in.method} \cup DOMAIN in.query \cup DOMAIN in.headers
                    \cup TextsOf(in.jsonpath)
                    \cup UNION {DOMAIN t.columns \cup Paths(t) : t \in TextsOf(in.table)})
    ELSE IF tool = "sql_query"
    THEN WordsOf({in.alias, in.purpose} \cup TextsOf(in.database) \cup TextsOf(in.jsonpath))
    ELSE WordsOf({in.alias, in.purpose, in.mode, in.namespace} \cup TextsOf(in.database))
            \cup TextsOf(in.table.word)

\* What a registration, a call or an answer names and the words of the code
Shown ==
    CodeWords
        \cup (UNION {WordsOf({in.provider, in.alias, in.env}) :
                        in \in HttpRegistrations \cup SqlRegistrations})
        \cup (UNION {NamedIn("api_call", in) : in \in ApiInputs})
        \cup (UNION {NamedIn("sql_query", in) : in \in QueryInputs})
        \cup (UNION {NamedIn("sql_schema", in) : in \in SchemaInputs})
        \cup UNION {WordsOf(output.columns) : output \in QueryOutputs}

\* Nobody writes where it is shown what is also handed over in confidence.
ASSUME ApartAssumption == \A c \in Confidential : ~IsEmpty(c) => c.word \notin Shown

\* No row holds a secret, a target, a query or header value, a body, a
\* parameter or the text of a query.
RecordsAreSafe ==
    asked # <<>> =>
        LET confidential == (UNION {SecretTexts(given[i]) : i \in DOMAIN given})
                                \cup AskedTexts(asked[1].tool, asked[1].in)
        IN  \A t \in Recorded, c \in confidential : ~IsEmpty(c) => t.word # c.word
=============================================================================
