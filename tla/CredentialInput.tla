--------------------------- MODULE CredentialInput ---------------------------
(***************************************************************************)
(* What a registration makes of what it is given                           *)
(* (service/src/credential/input.rs, model/src/credential): one record for *)
(* both tools, normalized, checked, its secret sealed, the row inserted,   *)
(* and the credential that a call later reads back from that row.          *)
(*                                                                         *)
(* An http target is an origin and a base path, an sql target a database   *)
(* URL.  Of a URL the text keeps what the checks ask for as oddities:      *)
(* "unparsable", "scheme", "hostless", "user", "path", "query" and, for    *)
(* sslmode, one of the words of SslModes.                                  *)
(***************************************************************************)
EXTENDS Texts

CONSTANTS
    Words,              \* what texts say
    MaxTags,            \* MAX_TAGS
    MaxSecretHeaders    \* MAX_SECRET_HEADERS

Methods == {"GET", "POST", "PUT", "PATCH", "DELETE"}

Envs == {"prod", "stage", "dev", "local"}

SslModes == {"none", "require", "verify-full", "prefer", "other", "twice"}

\* Each name stands for those the code treats alike: host for the headers of
\* the transport, authorization for itself and cookie.
TransportHeaders == {"host", "content-type"}

CallerHeaders == {"authorization"}

\* The words the code itself puts in
ASSUME WordsAssumption == {"", "postgres", "dev", "GET", "json", "tables", "public"} \subseteq Words

Oddities ==
    {"pad", "case", "title", "crlf", "nul", "short", "long", "foreign", "relative", "dots",
     "query", "descent", "sum", "unparsable", "scheme", "hostless", "user", "path", "slash",
     "semicolon"}

TextSet == [word : Words, odd : SUBSET Oddities]

\* Texts of which no alphabet is asked, and those of which no length is either
NameSet == [word : Words, odd : SUBSET {"pad", "case", "crlf", "nul", "short", "long"}]

FreeSet == [word : Words, odd : SUBSET {"pad", "case", "crlf", "nul"}]

\* Texts that may be left empty, of which then nothing is left but white space
OptionalSet == {t \in TextSet : IsEmpty(t) => t.odd \subseteq {"pad"}}

PathSet == [word : Seq(Words), odd : SUBSET Oddities]

NoPolicy ==
    [methods |-> {}, prefixes |-> {}, deniedKeys |-> {}, headers |-> {},
     metadata |-> FALSE, explain |-> FALSE, analyze |-> FALSE, deniedFunctions |-> {},
     maxRows |-> 0, maxBytes |-> 0, timeout |-> 0]

PolicySet ==
    [methods : SUBSET TextSet, prefixes : SUBSET PathSet, deniedKeys : SUBSET FreeSet,
     headers : SUBSET TextSet, metadata : BOOLEAN, explain : BOOLEAN, analyze : BOOLEAN,
     deniedFunctions : SUBSET TextSet, maxRows : Nat, maxBytes : Nat, timeout : Nat]

\* RegisterHttpCredentialInput
HttpRegistration ==
    [provider : TextSet, alias : TextSet, origin : TextSet, base : PathSet,
     secret : Seq([name : TextSet, value : TextSet]), description : TextSet, env : TextSet,
     tags : SUBSET TextSet, policy : PolicySet, private : BOOLEAN, ca : OptionalSet]

\* RegisterSqlCredentialInput
SqlRegistration ==
    [provider : TextSet, alias : TextSet, url : TextSet, sslmode : SslModes,
     secret : [username : TextSet, password : TextSet], description : TextSet, env : TextSet,
     tags : SUBSET TextSet, policy : PolicySet, private : BOOLEAN, insecure : BOOLEAN]

HttpFields == {"methods", "prefixes", "deniedKeys", "headers"}

SqlFields == DOMAIN NoPolicy \ HttpFields

-----------------------------------------------------------------------------
(* Normalization *)

\* RegisterHttpCredentialInput::into_domain
FromHttp(in) ==
    [category |-> "http", provider |-> in.provider, alias |-> in.alias,
     origin |-> in.origin, base |-> in.base, url |-> NoText, sslmode |-> "none",
     secret |-> in.secret, description |-> in.description, env |-> in.env,
     tags |-> in.tags, policy |-> in.policy, private |-> in.private,
     insecure |-> FALSE, ca |-> in.ca]

\* RegisterSqlCredentialInput::into_domain
FromSql(in) ==
    [category |-> "sql", provider |-> in.provider, alias |-> in.alias,
     origin |-> NoText, base |-> Text(<<>>, {}), url |-> in.url, sslmode |-> in.sslmode,
     secret |-> in.secret, description |-> in.description, env |-> in.env,
     tags |-> in.tags, policy |-> in.policy, private |-> in.private,
     insecure |-> in.insecure, ca |-> NoText]

Default(t, word) == IF IsEmpty(t) THEN Plain(word) ELSE t

\* normalize_origin
NormalOrigin(t) == [t EXCEPT !.odd = @ \ {"pad", "slash"}]

\* normalize_base_path
NormalBasePath(p) ==
    IF p.word \in {<<>>, Root} THEN Text(Root, {})
    ELSE [Trim(p) EXCEPT !.word = WithoutTail(@)]

\* normalize_tags: folded, without empty ones and duplicates.
NormalTags(tags) == {Fold(Trim(t)) : t \in {u \in tags : ~IsEmpty(u)}}

\* canonical_header_name: Words-Like-This.
CanonicalHeader(t) == [Fold(Trim(t)) EXCEPT !.odd = @ \cup {"title"}]

OrDefault(set, word) == IF set = {} THEN {word} ELSE set

\* normalize_http_policy and normalize_sql_policy
NormalPolicy(policy, category) ==
    IF category = "http"
    THEN [policy EXCEPT
            !.methods = {Fold(Trim(m)) : m \in OrDefault(@, Plain("GET"))},
            !.prefixes = OrDefault(@, Text(Root, {})),
            !.headers = {CanonicalHeader(h) : h \in @}]
    ELSE [policy EXCEPT !.deniedFunctions = {Fold(Trim(f)) : f \in @}]

\* Only the names of sealed headers are normalized, never a value.
NormalSecret(secret, category) ==
    IF category = "sql" THEN secret
    ELSE [i \in DOMAIN secret |-> [secret[i] EXCEPT !.name = CanonicalHeader(@)]]

\* normalize_register_input
NormalRegister(in) ==
    [in EXCEPT
        !.provider = IF in.category = "sql" THEN Default(Trim(@), "postgres") ELSE Trim(@),
        !.alias = Trim(@),
        !.origin = NormalOrigin(@),
        !.base = IF in.category = "http" THEN NormalBasePath(@) ELSE @,
        !.url = Trim(@),
        !.description = Trim(@),
        !.env = Default(Trim(@), "dev"),
        !.tags = NormalTags(@),
        !.policy = NormalPolicy(@, in.category),
        !.secret = NormalSecret(@, in.category),
        !.ca = Trim(@)]

-----------------------------------------------------------------------------
(* Validation *)

\* validate_pattern, with any of its patterns
MatchesPattern(t) == ~IsEmpty(t) /\ t.odd = {}

\* validate_common
ValidCommon(in) ==
    /\ MatchesPattern(in.provider)
    /\ MatchesPattern(in.alias)
    /\ in.env.word \in Envs /\ in.env.odd = {}
    /\ Cardinality(in.tags) <= MaxTags
    /\ \A t \in in.tags : MatchesPattern(t)

\* validate_http_origin; a leading or trailing slash may stay.
ValidOrigin(origin) ==
    ~IsEmpty(origin)
    /\ origin.odd \cap {"unparsable", "hostless", "user", "scheme", "path", "query"} = {}

\* validate_postgres_database_url, which is asked again before every call.
ValidDatabaseUrl(url, sslmode, private, insecure) ==
    /\ ~IsEmpty(url)
    /\ url.odd \cap {"unparsable", "hostless", "user", "scheme", "query"} = {}
    /\ \/ sslmode = "require"
       \/ sslmode \in {"none", "prefer"} /\ private /\ insecure

\* header_blocked and secret_header_blocked
HeaderBlocked(name) == name.word \in TransportHeaders \cup CallerHeaders

SecretHeaderBlocked(name) == name.word \in TransportHeaders

\* validate_http_secret; values may hold any character but CR and LF.
ValidHttpSecret(headers) ==
    /\ Len(headers) <= MaxSecretHeaders
    /\ \A i \in DOMAIN headers :
          /\ ValidToken(headers[i].name) /\ ~SecretHeaderBlocked(headers[i].name)
          /\ ~IsEmpty(headers[i].value) /\ ValidValue(headers[i].value)
          /\ \A j \in 1 .. i - 1 : Fold(headers[i].name) # Fold(headers[j].name)

\* validate_sql_secret
ValidSqlSecret(secret) ==
    \A t \in {secret.username, secret.password} :
        ~IsEmpty(t) /\ t.odd \cap {"nul", "crlf"} = {}

\* validate_policy_for_category
ValidPolicy(policy, category) ==
    IF category = "http"
    THEN /\ \A f \in SqlFields : policy[f] = NoPolicy[f]
         /\ \A m \in policy.methods : m.word \in Methods /\ m.odd = {}
         /\ \A p \in policy.prefixes : ValidStoredPath(p)
         /\ \A k \in policy.deniedKeys : ~IsEmpty(k) \/ "pad" \in k.odd
         /\ \A h \in policy.headers : ValidToken(h) /\ ~HeaderBlocked(h)
    ELSE /\ \A f \in HttpFields : policy[f] = {}
         /\ policy.analyze => policy.explain
         /\ \A f \in policy.deniedFunctions : ~IsEmpty(f) /\ f.odd \cap {"nul", "crlf"} = {}

\* validate_allowed_headers_do_not_overlap_secret, of which this is the negation.
Overlaps(policy, secret) ==
    \E i \in DOMAIN secret : ContainsFold(policy.headers, secret[i].name)

\* validate_register_input
ValidRegister(in) ==
    /\ ValidCommon(in)
    /\ ValidPolicy(in.policy, in.category)
    /\ IF in.category = "http"
       THEN /\ ValidOrigin(in.origin)
            /\ ValidStoredPath(in.base)
            /\ ValidHttpSecret(in.secret)
            /\ ~Overlaps(in.policy, in.secret)
            /\ ~IsEmpty(in.ca) => "foreign" \notin in.ca.odd
       ELSE /\ in.provider = Plain("postgres")
            /\ ValidDatabaseUrl(in.url, in.sslmode, in.private, in.insecure)
            /\ ValidSqlSecret(in.secret)
=============================================================================
