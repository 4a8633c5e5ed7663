---------------------------- MODULE CredentialRow ----------------------------
(***************************************************************************)
(* The row a checked registration becomes, and what a call reads back from *)
(* it (service/src/credential/secret.rs, service/src/crypto,               *)
(* db/src/credential_repo).  A column that may be NULL is a sequence of    *)
(* at most one value.                                                      *)
(***************************************************************************)
EXTENDS CredentialInput

\* The process's MASTER_KEY is a constant of its life, not of the row's.

\* build_aad; neither part is empty and the lengths keep them apart.
Aad(alias) == <<"credentials", alias>>

\* secret_json: what is sealed.
SecretJson(in) ==
    IF in.category = "http"
    THEN [headers |-> [i \in DOMAIN in.secret |->
                          [name |-> in.secret[i].name, value |-> in.secret[i].value]]]
    ELSE [username |-> in.secret.username, password |-> in.secret.password]

\* Sealer::seal, Cipher::seal_with_aad
Seal(key, alias, json) == [key |-> key, aad |-> Aad(alias), json |-> json]

\* Sealer::open, Cipher::open_with_aad
Opens(key, alias, sealed) == sealed.key = key /\ sealed.aad = Aad(alias)

\* Mutant: limits are left out like flags.
PolicyJsonWithoutLimits(policy) ==
    [f \in {g \in DOMAIN policy : policy[g] # NoPolicy[g] /\ g # "maxRows"} |-> policy[f]]

\* Serialize of CredentialPolicy: what says nothing is left out.
PolicyJson(policy) ==
    [f \in {g \in DOMAIN policy : policy[g] # NoPolicy[g]} |-> policy[f]]

\* Deserialize of CredentialPolicy: what is left out has its default.
DecodedPolicy(json) ==
    [f \in DOMAIN NoPolicy |-> IF f \in DOMAIN json THEN json[f] ELSE NoPolicy[f]]

\* target_columns
TargetColumns(in) ==
    IF in.category = "http"
    THEN [origin |-> <<in.origin>>, base |-> <<in.base>>, url |-> <<>>]
    ELSE [origin |-> <<>>, base |-> <<>>, url |-> <<[text |-> in.url, sslmode |-> in.sslmode]>>]

\* CredentialService::register up to the INSERT, and insert_credential
Row(in, key) ==
    [category |-> in.category, provider |-> in.provider, alias |-> in.alias,
     target |-> TargetColumns(in), secret |-> <<Seal(key, in.alias, SecretJson(in))>>,
     description |-> in.description, env |-> in.env, tags |-> in.tags,
     policy |-> PolicyJson(in.policy), private |-> in.private, insecure |-> in.insecure,
     ca |-> IF IsEmpty(in.ca) THEN <<>> ELSE <<in.ca>>]

\* The texts of a policy document, without its paths
PolicyTexts(json) ==
    UNION {json[f] : f \in DOMAIN json \cap
             {"methods", "deniedKeys", "headers", "deniedFunctions"}}

\* Texts in columns of type TEXT, TEXT[] and JSONB, where Postgres has no NUL.
StoredTexts(row) ==
    {row.provider, row.alias, row.description, row.env}
        \cup row.tags \cup PolicyTexts(row.policy)
        \cup {row.target.origin[i] : i \in DOMAIN row.target.origin}
        \cup {row.target.url[i].text : i \in DOMAIN row.target.url}

StoredPaths(row) ==
    {row.target.base[i] : i \in DOMAIN row.target.base}
        \cup (IF "prefixes" \in DOMAIN row.policy THEN row.policy.prefixes ELSE {})

HoldsNul(row) ==
    \/ \E t \in StoredTexts(row) : "nul" \in t.odd
    \/ \E p \in StoredPaths(row) : "nul" \in p.odd

\* The CHECKs of the table, for a row that is inserted.
RowFits(row) ==
    LET http == row.category = "http"
        present(column) == column # <<>>
    IN  /\ row.category \in {"http", "sql"}
        /\ present(row.target.origin) = http /\ present(row.target.base) = http
        /\ present(row.target.url) = ~http
        /\ http => ~IsEmpty(row.target.origin[1])
                   /\ row.target.base[1].word # <<>>
                   /\ "relative" \notin row.target.base[1].odd
        /\ ~http => ~IsEmpty(row.target.url[1].text)
        /\ present(row.ca) => http
        /\ present(row.secret)

\* into_credential and row_target
Credential(row) ==
    [category |-> row.category, provider |-> row.provider, alias |-> row.alias,
     origin |-> IF row.category = "http" THEN row.target.origin[1] ELSE NoText,
     base |-> IF row.category = "http" THEN row.target.base[1] ELSE Text(<<>>, {}),
     url |-> IF row.category = "sql" THEN row.target.url[1].text ELSE NoText,
     sslmode |-> IF row.category = "sql" THEN row.target.url[1].sslmode ELSE "none",
     description |-> row.description, env |-> row.env, tags |-> row.tags,
     policy |-> DecodedPolicy(row.policy), private |-> row.private,
     insecure |-> row.insecure, ca |-> IF row.ca = <<>> THEN NoText ELSE row.ca[1]]

\* open_http_headers and open_sql, of a ciphertext that opens
OpenSecret(row) ==
    LET json == row.secret[1].json
    IN  IF row.category = "http" THEN json.headers ELSE json

\* Of a registration, what the credential and its secret hold.
Registered(in) == [f \in DOMAIN in \ {"secret"} |-> in[f]]
=============================================================================
