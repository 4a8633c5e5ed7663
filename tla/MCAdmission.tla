----------------------------- MODULE MCAdmission -----------------------------
(* Inputs for TLC: of each kind one that is accepted, and those that differ  *)
(* from it in a field, among them every oddity the checks ask for.           *)
EXTENDS Admission, TLC

MCWords ==
    {"", "a", "b", "accept", "api", "apis", "authorization", "bearer", "col", "content-type",
     "db.example", "dev", "doc", "github", "host", "hv", "hw", "id", "infra", "json", "moon", "mysql",
     "notes", "now", "other", "page", "pem", "pods", "postgres", "prod", "public",
     "public.users", "pv", "qv", "qw", "reader", "rows", "sales", "sealed", "select", "site",
     "size", "sort", "stage", "table", "tables", "target.example", "team", "text", "token",
     "users", "v1", "v2", "why", "x", "x-a", "x-b", "x-c", "x-key", "x-trace", "$.a", "$.b",
     ".", "%2e%2e", "x\\%2e%2e",
     "GET", "HEAD", "POST", "PUT"}

MCReadings == ("." :> <<".">>) @@ ("%2e%2e" :> <<"..">>) @@ ("x\\%2e%2e" :> <<"x", "..">>)

Vary(base, field, values) == {[base EXCEPT ![field] = v] : v \in values}

Odd(word, oddities) == {Text(word, {o}) : o \in oddities}

Header(name, value) == [name |-> name, value |-> value]

MCHttpPolicy ==
    [NoPolicy EXCEPT
        !.methods = {Plain("GET"), Text("POST", {"case"})},
        !.prefixes = {Text(<<"api">>, {}), Text(<<"pods", "">>, {})},
        !.deniedKeys = {Text("token", {"case"})},
        !.headers = {Plain("x-trace"), Plain("accept")}]

HttpPolicies ==
    {NoPolicy, MCHttpPolicy}
    \cup Vary(MCHttpPolicy, "methods", {{Text("PUT", {"pad"})}, {Plain("HEAD")}})
    \cup Vary(MCHttpPolicy, "prefixes",
            {{}, {Text(<<"">>, {})}, {Text(<<"api", "">>, {})}, {Text(<<"api">>, {"nul"})},
             {Text(<<"a", "", "b">>, {})}})
    \cup Vary(MCHttpPolicy, "deniedKeys",
            {{}, {Text("token", {"pad"})}, {Text("token", {"crlf"})}, {NoText}, {Text("token", {"nul"})}, {Plain("page")}})
    \cup Vary(MCHttpPolicy, "headers",
            {{Text("x-trace", {"case", "pad"}), Plain("accept")}, {Plain("host")},
             {Plain("authorization")}, {Text("x-key", {"case"})}, {Text("x-trace", {"foreign"})}})
    \cup Vary(MCHttpPolicy, "maxRows", {1})

MCHttp ==
    [provider |-> Plain("github"), alias |-> Plain("prod"), origin |-> Plain("target.example"),
     base |-> Text(<<"v1">>, {}),
     secret |-> <<Header(Plain("authorization"), Plain("bearer")),
                  Header(Text("x-key", {"pad"}), Plain("sealed"))>>,
     description |-> Plain("notes"), env |-> NoText, tags |-> {Plain("infra")},
     policy |-> MCHttpPolicy, private |-> FALSE, ca |-> NoText]

MCHttpRegistrations ==
    {MCHttp}
    \cup Vary(MCHttp, "provider", {NoText, Text("github", {"pad"})} \cup Odd("github", {"crlf"}))
    \cup Vary(MCHttp, "alias", {Text("prod", {"pad"})} \cup Odd("prod", {"case", "nul"}))
    \cup Vary(MCHttp, "origin",
            {Text("target.example", {"slash", "pad"})}
            \cup Odd("target.example", {"unparsable", "user", "query", "nul"}))
    \cup Vary(MCHttp, "base",
            {Text(<<>>, {}), Text(<<"">>, {}), Text(<<"v1", "">>, {"pad"}),
             Text(<<"v1", "%2e%2e", "v2">>, {}),
             Text(<<"a", "", "b">>, {})} \cup Odd(<<"v1">>, {"relative", "dots", "nul"}))
    \cup Vary(MCHttp, "secret",
            {<<>>,
             <<Header(Plain("host"), Plain("sealed"))>>,
             <<Header(Plain("x-key"), NoText)>>,
             <<Header(Plain("x-key"), Text("sealed", {"nul"}))>>,
             <<Header(Plain("x-key"), Text("sealed", {"crlf"}))>>,
             <<Header(Plain("accept"), Plain("sealed"))>>,
             <<Header(Plain("x-key"), Plain("sealed")), Header(Text("x-key", {"case"}), Plain("bearer"))>>,
             [i \in 1 .. 3 |-> Header(Plain(<<"x-a", "x-b", "x-c">>[i]), Plain("sealed"))]})
    \cup Vary([MCHttp EXCEPT !.policy = NoPolicy], "secret",
            {<<Header(Plain("accept"), Plain("sealed"))>>})
    \cup Vary(MCHttp, "description", Odd("notes", {"nul", "pad"}))
    \cup Vary(MCHttp, "env", {Plain("prod"), Text("prod", {"pad"}), Plain("moon")})
    \cup Vary(MCHttp, "tags",
            {{}, {Text("infra", {"case"}), Plain("infra")}, {Text("", {"pad"})},
             {Plain("infra"), Plain("team"), Plain("site")}, {Text("infra", {"foreign"})}})
    \cup Vary(MCHttp, "policy", HttpPolicies)
    \cup Vary(MCHttp, "ca", {Text("pem", {"pad"}), Text("pem", {"foreign"})})

MCSqlPolicy ==
    [NoPolicy EXCEPT !.maxRows = 50, !.maxBytes = 2048, !.timeout = 1000]

MCSql ==
    [provider |-> NoText, alias |-> Text("prod", {"pad"}), url |-> Plain("db.example"),
     sslmode |-> "require",
     secret |-> [username |-> Plain("reader"), password |-> Plain("sealed")],
     description |-> NoText, env |-> Plain("stage"), tags |-> {}, policy |-> MCSqlPolicy,
     private |-> FALSE, insecure |-> FALSE]

MCSqlRegistrations ==
    {MCSql}
    \cup Vary(MCSql, "provider", {Plain("mysql")})
    \cup Vary(MCSql, "url", {NoText} \cup Odd("db.example", {"scheme", "user", "hostless", "pad", "nul"}))
    \cup Vary(MCSql, "sslmode", SslModes)
    \cup Vary([MCSql EXCEPT !.private = TRUE, !.insecure = TRUE], "sslmode", SslModes)
    \cup Vary(MCSql, "secret",
            {[username |-> NoText, password |-> Plain("sealed")],
             [username |-> Plain("reader"), password |-> Text("sealed", {"nul"})]})
    \cup Vary(MCSql, "policy",
            {NoPolicy, [NoPolicy EXCEPT !.analyze = TRUE],
             [MCSqlPolicy EXCEPT !.explain = TRUE, !.analyze = TRUE, !.metadata = TRUE],
             [NoPolicy EXCEPT !.methods = {Plain("GET")}],
             [MCSqlPolicy EXCEPT !.deniedFunctions = {Text("now", {"case", "pad"})}],
             [NoPolicy EXCEPT !.deniedFunctions = {NoText}],
             [NoPolicy EXCEPT !.maxRows = 1000]})

Map(name, value) == (Plain(name) :> value)

MCApi ==
    [alias |-> Plain("prod"), purpose |-> Plain("why"), method |-> NoText,
     path |-> Text(<<"api", "x">>, {}), query |-> Map("page", Plain("qv")),
     headers |-> <<>>, body |-> <<>>, contentType |-> NoText,
     jsonpath |-> <<>>, table |-> <<>>, maxBytes |-> <<>>]

Table(base, columns) == [base |-> base, columns |-> columns]

MCApiInputs ==
    {MCApi}
    \cup Vary(MCApi, "alias", {NoText, Plain("other"), Text("prod", {"pad"}), Text("prod", {"nul"}),
                               Text("prod", {"long", "crlf"})})
    \cup Vary(MCApi, "purpose", {NoText} \cup Odd("why", {"pad", "short", "crlf", "nul"}))
    \cup Vary(MCApi, "method", {Text("POST", {"case", "pad"}), Plain("PUT"), Plain("HEAD")})
    \cup Vary(MCApi, "path",
            {Text(<<>>, {}), Text(<<"">>, {}), Text(<<"api">>, {"pad"}), Text(<<"apis">>, {}),
             Text(<<"pods">>, {}), Text(<<"a", "", "b">>, {}), Text(<<"api", "%2e%2e", "x">>, {}),
             Text(<<"api", "x\\%2e%2e", "%2e%2e", "x">>, {}), Text(<<"api", ".">>, {})}
            \cup Odd(<<"api", "x">>, {"relative", "dots", "query", "nul"}))
    \cup Vary(MCApi, "query",
            {<<>>, Map("token", Plain("qv")), (Text("token", {"case", "pad"}) :> Plain("qv")),
             (Text("page", {"pad"}) :> Plain("qv")) @@ Map("page", Plain("qw")),
             Map("page", Text("qv", {"nul"})), (Text("page", {"nul"}) :> Plain("qv")),
             Map("page", Plain("qv")) @@ Map("size", Plain("qv")) @@ Map("sort", Plain("qv"))})
    \cup Vary(MCApi, "headers",
            {Map("x-trace", Plain("hv")), Map("accept", Plain("hv")), Map("accept", Plain("json")),
             (Text("x-trace", {"case"}) :> Plain("hv")) @@ Map("x-trace", Plain("hw")),
             Map("authorization", Plain("hv")), Map("x-key", Plain("hv")),
             (Text("x-key", {"case"}) :> Plain("hv")), Map("x-trace", Text("hv", {"nul"})),
             Map("x-trace", Text("hv", {"crlf"})), Map("host", Plain("hv"))})
    \cup Vary([MCApi EXCEPT !.method = Text("POST", {"case"})], "body", {<<Plain("doc")>>})
    \cup Vary(MCApi, "body", {<<Plain("doc")>>})
    \cup Vary([MCApi EXCEPT !.method = Plain("POST"), !.body = <<Plain("doc")>>], "contentType",
            {Plain("json"), Plain("text"), Text("json", {"nul", "pad"})})
    \cup Vary(MCApi, "jsonpath",
            {<<Text("$.a", {"pad"}), Text("$.b", {"sum"})>>}
            \cup {<<t>> : t \in Odd("$.a", {"relative", "descent", "foreign", "long"})}
            \cup {[i \in 1 .. 3 |-> Plain("$.a")]})
    \cup Vary(MCApi, "table",
            {<<Table(Plain("$.a"), Map("col", Text("$.b", {"pad"})))>>,
             <<Table(Plain("$.a"), <<>>)>>,
             <<Table(Plain("$.a"), Map("col", Text("$.b", {"sum"})))>>,
             <<Table(Text("$.a", {"foreign"}), Map("col", Plain("$.b")))>>,
             <<Table(Plain("$.a"), (Text("col", {"nul"}) :> Plain("$.b")))>>,
             <<Table(Plain("$.a"), Map("col", Plain("$.b")) @@ (Text("col", {"pad"}) :> Plain("$.a")))>>})
    \cup Vary(MCApi, "maxBytes", {<<255>>, <<MB>>, <<MB + 1>>})

MCQuery ==
    [alias |-> Plain("prod"), purpose |-> Plain("why"), database |-> <<>>,
     query |-> Plain("select"), params |-> <<Plain("pv")>>, jsonpath |-> <<>>,
     maxRows |-> <<50>>, maxBytes |-> <<2048>>, timeout |-> <<1000>>]

MCQueryInputs ==
    {MCQuery, [MCQuery EXCEPT !.maxRows = <<>>, !.maxBytes = <<>>, !.timeout = <<>>]}
    \cup Vary(MCQuery, "alias", {NoText, Plain("other"), Text("prod", {"nul"})})
    \cup Vary(MCQuery, "purpose", Odd("why", {"short", "nul"}))
    \cup Vary(MCQuery, "database", {<<NoText>>, <<Text("sales", {"pad"})>>, <<Text("sales", {"foreign"})>>})
    \cup Vary(MCQuery, "query", {NoText} \cup Odd("select", {"pad", "semicolon", "nul", "long"}))
    \cup Vary(MCQuery, "params", {<<>>, <<Plain("pv"), Plain("pv"), Plain("pv")>>})
    \cup Vary(MCQuery, "jsonpath", {<<Plain("$.a")>>, <<Text("$.a", {"foreign"})>>})
    \cup Vary(MCQuery, "maxRows", {<<0>>, <<51>>, <<1001>>})
    \cup Vary(MCQuery, "maxBytes", {<<1023>>, <<2049>>})
    \cup Vary(MCQuery, "timeout", {<<0>>, <<1001>>, <<30001>>})

MCSchema ==
    [alias |-> Plain("prod"), purpose |-> Plain("why"), database |-> <<>>, mode |-> NoText,
     namespace |-> NoText, table |-> Text(<<>>, {}), limit |-> <<50>>, cursor |-> NoText,
     maxBytes |-> <<2048>>, timeout |-> <<1000>>]

MCSchemaTable == [MCSchema EXCEPT !.mode = Plain("table"), !.table = Text(<<"users">>, {})]

MCSchemaInputs ==
    {MCSchema, MCSchemaTable, [MCSchema EXCEPT !.limit = <<>>]}
    \cup Vary(MCSchema, "alias", {NoText, Plain("other"), Text("prod", {"nul"})})
    \cup Vary(MCSchema, "purpose", Odd("why", {"long", "nul"}))
    \cup Vary(MCSchema, "mode", {Text("tables", {"case", "pad"}), Plain("rows")})
    \cup Vary(MCSchema, "limit", {<<0>>, <<51>>, <<101>>})
    \cup Vary(MCSchema, "namespace", Odd("sales", {"pad", "nul"}))
    \cup Vary(MCSchema, "cursor", Odd("public.users", {"pad", "nul"}))
    \cup Vary(MCSchemaTable, "limit", {<<51>>})
    \cup Vary(MCSchemaTable, "namespace", {Plain("sales"), Text("sales", {"nul"})})
    \cup Vary(MCSchemaTable, "table",
            {Text(<<>>, {}), Text(<<"sales", "users">>, {"pad"}), Text(<<"users">>, {"nul"})})
    \cup Vary(MCSchemaTable, "timeout", {<<1001>>})

MCApiOutputs ==
    {[status |-> 200, original |-> 10, returned |-> 10, truncated |-> FALSE, columns |-> {}],
     [status |-> 599, original |-> MaxInt + 1, returned |-> 0, truncated |-> TRUE, columns |-> {}],
     [status |-> 600, original |-> 0, returned |-> 0, truncated |-> FALSE, columns |-> {}]}

MCQueryOutputs ==
    {[rows |-> 2, returned |-> 10, truncated |-> FALSE, columns |-> {Plain("id")}],
     [rows |-> 0, returned |-> 0, truncated |-> TRUE, columns |-> {}]}
=============================================================================
