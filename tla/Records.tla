------------------------------- MODULE Records -------------------------------
(***************************************************************************)
(* The rows a call leaves in audit_logs, api_call_history and              *)
(* sql_query_history, and the CHECKs these tables put to them: recording.rs*)
(* of service/src/api_call, sql_query and sql_schema, service/src/audit,   *)
(* the INSERTs of db/src and the migrations.                               *)
(*                                                                         *)
(* A result is [outcome, kind, quotes, output]: kind is "none" without a   *)
(* reason, quotes the texts of the caller that its message repeats, output *)
(* a sequence of at most one answer of the target.  The detail of an audit *)
(* row is a function from keys to sets of texts or to numbers.             *)
(***************************************************************************)
EXTENDS CallInput

CONSTANT MaxInt   \* i32::MAX

\* i32::try_from(..).unwrap_or(i32::MAX)
Saturated(n) == IF n > MaxInt THEN MaxInt ELSE n

\* safe_message: without CR and LF, and cut.
SafeMessage(t) == [t EXCEPT !.odd = @ \ {"crlf", "long"}]

Snapshot(credential) ==
    [alias |-> credential.alias, category |-> credential.category,
     provider |-> credential.provider, env |-> credential.env]

\* history_channel_str
HistoryChannel(channel) == IF channel = "api" THEN "api" ELSE "mcp"

\* history_credential_fields; without a credential the alias that was asked for.
HistoryCredential(channel, snapshot, alias) ==
    [channel |-> HistoryChannel(channel)]
        ++ IF snapshot # <<>> THEN snapshot[1]
           ELSE [alias |-> alias, category |-> "", provider |-> NoText, env |-> NoText]

\* What a row says of an answer that there may not be
OfOutput(result, field) ==
    [i \in DOMAIN result.output |-> Saturated(result.output[i][field])]

Truncated(result) == result.output # <<>> /\ result.output[1].truncated

\* insert_credential_detail
CredentialDetail(snapshot) ==
    IF snapshot = <<>> THEN <<>>
    ELSE [credential_provider |-> {snapshot[1].provider}, credential_env |-> {snapshot[1].env}]

\* insert_reason_detail
ReasonDetail(result) ==
    IF result.kind = "none" THEN <<>>
    ELSE IF result.outcome = "denied"
    THEN [denial_reason |-> {Plain(result.kind)}]
    ELSE [error_kind |-> {Plain(result.kind)}]

\* AuditOutcome::severity
Severity(outcome) == IF outcome = "ok" THEN "info" ELSE "warning"

\* tool_event, append_tool_event and AuditEvent::into_params
AuditRow(tool, channel, result, alias, purpose, detail) ==
    [action |-> <<channel, tool>>, channel |-> channel, outcome |-> result.outcome,
     severity |-> Severity(result.outcome), key |-> alias, purpose |-> purpose,
     detail |-> detail]

\* pre_input_denial_event
DenialRow(tool, channel, alias, result) ==
    AuditRow(tool, channel, result, alias, <<>>, ReasonDetail(result))

Paths(table) == {table.base} \cup {table.columns[n] : n \in DOMAIN table.columns}

NonEmpty(key, texts) == IF texts = {} THEN <<>> ELSE [k \in {key} |-> texts]

TextsOf(sequence) == {sequence[i] : i \in DOMAIN sequence}

-----------------------------------------------------------------------------
(* api_call *)

\* Mutant: a table is stored as the object it is.
ProjectionAsObject(in) ==
    IF in.table # <<>> THEN [json |-> "object", texts |-> Paths(in.table[1])]
    ELSE [json |-> "array", texts |-> TextsOf(in.jsonpath)]

\* projection_keys
ProjectionKeys(in) ==
    [json |-> "array",
     texts |-> IF in.table # <<>> THEN Paths(in.table[1]) ELSE TextsOf(in.jsonpath)]

\* Mutant: the whole query is a detail.
ApiDetailWithQuery(in, snapshot, result) ==
    NonEmpty("query_keys", DOMAIN in.query \cup {in.query[k] : k \in DOMAIN in.query})
        ++ [method |-> {in.method}, request_path |-> {in.path}, purpose |-> {in.purpose}]
        ++ CredentialDetail(snapshot) ++ ReasonDetail(result)

\* audit_detail of an api_call; "projection" is its "table".
ApiDetail(in, snapshot, result) ==
    [method |-> {in.method}, request_path |-> {in.path}, purpose |-> {in.purpose}]
        ++ NonEmpty("query_keys", DOMAIN in.query)
        ++ NonEmpty("request_header_keys", DOMAIN in.headers)
        ++ NonEmpty("jsonpath", TextsOf(in.jsonpath))
        ++ (IF in.table = <<>> THEN <<>>
            ELSE [projection |-> DOMAIN in.table[1].columns \cup Paths(in.table[1])])
        ++ CredentialDetail(snapshot)
        ++ ReasonDetail(result)

\* CallRecorder::record_audit
ApiAudit(channel, in, snapshot, result) ==
    AuditRow("api.call", channel, result,
             IF snapshot = <<>> THEN in.alias ELSE snapshot[1].alias, <<in.purpose>>,
             ApiDetail(in, snapshot, result))

\* CallRecorder::record
ApiHistory(channel, in, snapshot, result) ==
    HistoryCredential(channel, snapshot, in.alias)
        ++ [method |-> in.method.word, path |-> in.path, queryKeys |-> DOMAIN in.query,
            headerKeys |-> DOMAIN in.headers, projection |-> ProjectionKeys(in),
            maxBytes |-> Saturated(in.maxBytes), purpose |-> <<in.purpose>>,
            outcome |-> result.outcome, status |-> OfOutput(result, "status"),
            original |-> OfOutput(result, "original"), returned |-> OfOutput(result, "returned"),
            truncated |-> Truncated(result), kind |-> result.kind,
            message |-> {SafeMessage(t) : t \in result.quotes}]

\* pre_input_denial_history_params of an api_call
ApiDenialHistory(channel, alias, result) ==
    HistoryCredential(channel, <<>>, alias)
        ++ [method |-> "", path |-> Text(<<>>, {}), queryKeys |-> {}, headerKeys |-> {},
            projection |-> [json |-> "array", texts |-> {}], maxBytes |-> 0, purpose |-> <<>>,
            outcome |-> "denied", status |-> <<>>, original |-> <<>>, returned |-> <<>>,
            truncated |-> FALSE, kind |-> result.kind,
            message |-> {SafeMessage(t) : t \in result.quotes}]

-----------------------------------------------------------------------------
(* sql_query and sql_schema *)

DatabaseDetail(in) == NonEmpty("database", TextsOf(in.database))

\* audit_detail of an sql_query
QueryDetail(in, snapshot, result) ==
    [query_sha256 |-> Sha256(in.query), purpose |-> {in.purpose},
     params_count |-> Len(in.params), max_rows |-> in.maxRows,
     max_bytes |-> in.maxBytes, timeout_ms |-> in.timeout]
        ++ DatabaseDetail(in)
        ++ CredentialDetail(snapshot)
        ++ ReasonDetail(result)
        ++ (IF result.output = <<>> THEN <<>>
            ELSE [result_columns |-> result.output[1].columns])

\* QueryRecorder::record_audit
QueryAudit(channel, in, snapshot, result) ==
    AuditRow("sql.query", channel, result,
             IF snapshot = <<>> THEN in.alias ELSE snapshot[1].alias, <<in.purpose>>,
             QueryDetail(in, snapshot, result))

\* QueryRecorder::record
QueryHistory(channel, in, snapshot, result) ==
    HistoryCredential(channel, snapshot, in.alias)
        ++ [sha256 |-> <<Sha256(in.query)>>, paramsCount |-> Saturated(Len(in.params)),
            maxRows |-> in.maxRows, maxBytes |-> Saturated(in.maxBytes),
            timeout |-> Saturated(in.timeout), purpose |-> <<in.purpose>>,
            outcome |-> result.outcome, rowCount |-> OfOutput(result, "rows"),
            returned |-> OfOutput(result, "returned"), truncated |-> Truncated(result),
            columns |-> UNION {result.output[i].columns : i \in DOMAIN result.output},
            kind |-> result.kind, message |-> {SafeMessage(t) : t \in result.quotes}]

\* pre_input_denial_history_params of an sql_query
QueryDenialHistory(channel, alias, result) ==
    HistoryCredential(channel, <<>>, alias)
        ++ [sha256 |-> <<>>, paramsCount |-> 0, maxRows |-> 0, maxBytes |-> 0, timeout |-> 0,
            purpose |-> <<>>, outcome |-> "denied", rowCount |-> <<>>, returned |-> <<>>,
            truncated |-> FALSE, columns |-> {}, kind |-> result.kind,
            message |-> {SafeMessage(t) : t \in result.quotes}]

\* audit_detail of an sql_schema, which has no history.
SchemaDetail(in, snapshot, result) ==
    [mode |-> {in.mode}, namespace |-> {in.namespace}, table |-> {in.table}, purpose |-> {in.purpose},
     limit |-> in.limit, max_bytes |-> in.maxBytes, timeout_ms |-> in.timeout]
        ++ DatabaseDetail(in)
        ++ CredentialDetail(snapshot)
        ++ ReasonDetail(result)

\* SchemaRecorder::record
SchemaAudit(channel, in, snapshot, result) ==
    AuditRow("sql.schema", channel, result,
             IF snapshot = <<>> THEN in.alias ELSE snapshot[1].alias, <<in.purpose>>,
             SchemaDetail(in, snapshot, result))

-----------------------------------------------------------------------------
(* The tables *)

Numbers == {"params_count", "max_rows", "max_bytes", "timeout_ms", "limit"}

\* Texts whose words are sequences
PathTexts(detail) == UNION {detail[k] : k \in DOMAIN detail \cap {"request_path", "table"}}

\* The other texts of a detail, of which a digest is not one
DetailTexts(detail) ==
    UNION {detail[k] : k \in
        DOMAIN detail \ (Numbers \cup {"query_sha256", "request_path", "table"})}

AuditTexts(row) == {row.key} \cup TextsOf(row.purpose) \cup DetailTexts(row.detail)

ApiHistoryTexts(row) ==
    {row.alias, row.provider, row.env} \cup row.queryKeys \cup row.headerKeys
        \cup row.projection.texts \cup TextsOf(row.purpose) \cup row.message

QueryHistoryTexts(row) ==
    {row.alias, row.provider, row.env} \cup TextsOf(row.purpose) \cup row.message \cup row.columns

NoNul(texts) == \A t \in texts : "nul" \notin t.odd

PurposeFits(row) ==
    \A t \in TextsOf(row.purpose) : t.odd \cap {"short", "long", "crlf"} = {}

Outcomes == {"ok", "denied", "error"}

Natural(option) == \A i \in DOMAIN option : option[i] >= 0

\* The CHECKs of audit_logs
AuditFits(row) ==
    /\ row.channel \in {"api", "mcp", "browser"}
    /\ row.outcome \in Outcomes /\ row.severity \in {"info", "warning"}
    /\ PurposeFits(row) /\ NoNul(AuditTexts(row)) /\ NoNul(PathTexts(row.detail))

\* The CHECKs of api_call_history
ApiHistoryFits(row) ==
    /\ row.channel \in {"api", "mcp"}
    /\ row.method \in Methods \cup {""}
    /\ row.projection.json = "array"
    /\ PurposeFits(row)
    /\ row.outcome \in Outcomes
    /\ \A i \in DOMAIN row.status : row.status[i] \in 100 .. 599
    /\ Natural(row.original) /\ Natural(row.returned) /\ row.maxBytes >= 0
    /\ NoNul(ApiHistoryTexts(row)) /\ "nul" \notin row.path.odd

\* The CHECKs of sql_query_history
QueryHistoryFits(row) ==
    /\ row.channel \in {"api", "mcp"}
    /\ row.paramsCount >= 0 /\ row.maxRows >= 0 /\ row.maxBytes >= 0 /\ row.timeout >= 0
    /\ PurposeFits(row)
    /\ row.outcome \in Outcomes
    /\ Natural(row.rowCount) /\ Natural(row.returned)
    /\ NoNul(QueryHistoryTexts(row))
=============================================================================
