# opsgate in TLA+

opsgate is a server that holds credentials for HTTP APIs and SQL databases and
makes calls to those targets on behalf of its users, who reach it over MCP,
REST and a browser login. This directory models its core logic in TLA+, checks
small instances with TLC and proves theorems about them with TLAPS.

Paths below are relative to `src/backend/crates/` unless they start with `docs/`.

## 1. The system and its parts

| part | code | state it keeps | operations |
|---|---|---|---|
| credential store | `service/src/credential`, `db/src/credential_repo.rs`, `db/migrations/0001_schema.sql` | tables `credentials`, `credential_history` | register, update, delete: each a transaction of several statements |
| validation and sealing | `model/src/credential`, `core/src/validation.rs`, `service/src/crypto` | the master key | normalise, validate, seal, open |
| credential list and summary | `service/src/credential/listing.rs`, `db/src/credential_repo.rs` | none | page by alias cursor, four summary counts |
| OIDC provider cache | `api/src/auth/oidc.rs`, `oauth_exchange.rs` | provider metadata and keys, number of the last lookup, the refresh gate | metadata, JWKS refresh, code exchange |
| browser login, identity | `api/src/auth/oauth*.rs`, `model/src/identity`, `db/src/user_repo.rs` | login cookies, table `users` | login, callback, resolve user |
| bearer JWT verification | `api/src/auth/jwt.rs`, `auth/bearer` | lazily built authority | verify |
| API calls | `service/src/api_call` | `audit_logs`, `api_call_history` | call |
| SQL queries and schema | `service/src/{sql_query,sql_schema}` | `audit_logs`, `sql_query_history` | query, schema |
| target pools | `infra/src/postgres_pool.rs`, `service/src/sql_common` | cache of pools, pooled connections and their sessions | pool_for, transaction, eviction |
| audit recorders | `service/src/audit`, `api/src/audit`, `db/src/*_history_repo.rs` | the three record tables | insert, best effort |
| JSON output | `json-output` | none | validate, project, measure, preview, suggest |
| network guard, clients | `infra/src/{network_guard,http,postgres}.rs` | HTTP clients with their open connections, cached by CA; addresses of pools | resolve and check, connect |
| SQL policy and rows | `service/src/sql_query/{policy,executor}.rs` | none | check a parsed text, make rows columns |
| SQL schema | `service/src/sql_schema` | none | list tables by page, detail of a table |
| start, stop, transport, configuration | `api/src/{main,config,routes}.rs`, `api/src/{mcp,rest}` | none | wiring |

How they meet: MCP and REST requests are authenticated (bearer JWT), their
caller is resolved to a row of `users`, and one service operation runs. The
credential operations change the two credential tables. A tool call reads one
credential, opens its secret, talks to the target (SQL calls through a target
pool), and leaves a record in `audit_logs` and in its own history table; the
transport adds a record of the request. All statements to opsgate's own
database share one sqlx pool. The browser login shares only the OIDC cache and
`users` with the rest.

What is hard here, per part, and what has to hold nevertheless:

* **credential store**: transactions overlap at READ COMMITTED; an update
  plans against a row it read before its transaction; the history version is
  read by one statement and used by the next; COMMIT's answer may be lost. Still
  an alias has one active credential, versions are 1..n, deletion is final, and
  the two tables and the caller are told the same story.
* **OIDC cache**: readers do not wait, lookups are serialised by a mutex held
  over network I/O, a dropped request lets go of it anywhere, keys rotate
  meanwhile. Still nothing newer is overwritten by something older, nobody
  looks up what another has just looked up, and nobody waits forever.
* **target pools**: a call is dropped between two statements of a hand-written
  transaction and its connection is used again; two calls build a pool for one
  key. Still every query is read-only and under its own timeout, and pools
  that lost their place in the cache go away.
* **tool calls**: the credential is a copy used over many awaits; the target
  acts before the record is written; any INSERT may fail. Still what is sent is
  the caller's own and granted, and records say what was done.
* **login and identity**: a login is two requests of a browser that meet in
  cookies, with the provider in between; URLs are opened twice or elsewhere;
  the user is looked up and upserted by two statements; users are deactivated
  meanwhile. Still a code is redeemed where its login began, only those the
  signup policy allows have a row, and the audit tells what was done.
* **list and summary**: pages and counts are statements of no common snapshot.
  Still nothing that was there all the while is skipped or listed twice.
* **validation and policies**: the same word is spelled in a registration, in
  a policy and in a call, with capitals, spaces or slashes of its own; the
  service and the table check it twice in different terms. Still what is
  accepted is stored, and what is sent is what the policy grants.
* **records**: rows of three tables are made of an input, an answer and an
  error in as many ways. Still no row is lost, and none holds a secret.
* **network guard**: a name is resolved at registration, for a client's
  connection and for a pool, and may answer differently each time; clients,
  connections and pools outlive the lookup they were made by. Still a private
  address is reached only by who opted in, and nobody reaches another's host.
* **SQL policy**: a name can stand in any corner of a query and be spelled in
  any way Postgres takes. Still what runs is one statement of what is granted.
* **SQL schema**: pages, and the SELECTs of a detail, see different moments,
  and both are cut to a budget. Still what is not said to be cut is whole.
* **JSON output**: five limits cut a preview, and its text comes back as a
  query. Still a preview leaves out nothing unmarked, and following the
  suggestions ends.

`PROJECT.json` lists every such hazard at its line with the properties that
watch it.

## 2. Modules

| module | models | lines of code it stands for |
|---|---|---|
| `CredentialTables` | the two tables as values, and the queries over them | schema, row structs, `next_history_version`, overlap check |
| `CredentialLedger` | abstract specification: register, update, delete as indivisible changes of both tables | what callers are promised |
| `CredentialStore` | the same operations statement by statement, interleaved | `service.rs`, `update.rs`, `credential_repo.rs` |
| `Texts` | the texts a caller sends: a word and what is odd about its spelling | `core/src/validation.rs`, `model/src/credential/{header,policy}.rs` |
| `CredentialInput` | normalisation and validation of a registration | `credential/input.rs`, `validation.rs`, `policy.rs` |
| `CredentialRow` | sealing, the row with its CHECKs, the credential a call reads back | `secret.rs`, `crypto`, `credential_repo/rows.rs`, schema |
| `CallInput` | the inputs of the three tools and the policy's verdict on them | `input.rs` and `policy.rs` of the three services |
| `Records` | the rows a call leaves, and their CHECKs | `recording.rs` of the three services, `audit`, `db/src/*_history_repo.rs`, migrations |
| `Admission` | these five together: register, call, restart | `target.rs`, `service.rs` of the three services |
| `Egress` | resolvers, HTTP clients, connections and pool addresses | `network_guard.rs`, `http.rs`, `postgres.rs`, `postgres_pool.rs` |
| `SqlPolicy` | the policy on a parsed text, against what Postgres runs | `sql_query/policy.rs` |
| `SqlSchema` | the queries of `sql_schema`, the cutting of its answers, rows made columns | `sql_schema/{input,executor,output}.rs`, `sql_query/{executor,output}.rs` |
| `SqlTools` | a caller of both tools while tables change | `sql_schema/service.rs`, `sql_query/service.rs` |
| `OidcCache` | the cache, its gate, login and callback, the provider's keys | `oidc.rs`, `oauth_exchange.rs` |
| `TargetPool` | pool cache, connections, the per-call transaction | `postgres_pool.rs`, `sql_common/postgres.rs`, both executors |
| `ToolCall` | a call of `api_call`, `sql_query`, `sql_schema` and its records, over `CredentialLedger` | the three services, audit, history |
| `Identity` | login flows and cookies, callbacks, the resolver, `users`, bearer verification | `oauth.rs`, `oauth_flow.rs`, `resolver.rs`, `user_repo.rs`, `jwt.rs`, `api.rs` |
| `CredentialListing` | pages of a list, the SELECTs of a summary, over `CredentialLedger` | `listing.rs`, `service.rs`, `credential_repo.rs` |
| `JsonOutput` | what becomes of a JSON document under a budget, and the dialog about it | `json-output` |
| `CredentialStoreProofs`, `CredentialListingProofs`, `OidcCacheProofs`, `TargetPoolProofs`, `ToolCallProofs`, `IdentityProofs`, `EgressProofs`, `AdmissionProofs` | theorems about the module they are named after; `ToolCallProofs` also about what tools answer, `JsonOutput` and `SqlTools` | |
| `MC*` | inputs and symmetry sets for TLC; constants are in the `.cfg` files | |

`CredentialStore` implements `CredentialLedger` (`Ledger == INSTANCE
CredentialLedger WITH ...`, the property `ImplementsLedger`). `ToolCall` and
`CredentialListing` compose with the store through the same abstract
specification: what `CredentialStore` is proved to implement is what they
assume of the tables they read. `Admission` extends the chain `Texts`,
`CredentialInput`, `CredentialRow`, `CallInput`, `Records`; `SqlTools` extends
`SqlPolicy` and `SqlSchema`.

Definitions marked `Mutant:` are not part of the specifications. Each stands
directly before the definition it is a plausible wrong version of;
`PROJECT.json` names the property that catches it.

### CredentialStore

A request walks through `pc`: `find` (the read an update is planned from),
`begin`, then `insert` or `scan`/`lock`, `version`, `history`, `commit`. Each
value is one call to Postgres; each action is what happens when it is answered.
`UPDATE` is two actions because it has two: `Scan` is its snapshot,
`LockAndWrite` its row lock and the second evaluation of WHERE. `INSERT` waits
on the partial unique index key (`IndexKeyIsFree`) and then decides. What a
transaction has written is kept with the request (`write`, `version`) and
reaches `rows` and `history` in `Commit`, whose answer may be lost. `Fail` is
every other way to end: an error, a pool timeout, a dropped handler, a stop.
Pooled connections are counted because a transaction holds one while it waits
for locks.

The row's data is reduced to what the properties tell apart: the *names* of
sealed headers, `allowed_request_headers` of the policy, and the mutable
columns (`Fields`), which the code treats alike. Provider, target, TLS material
and timestamps are written once and left out. Rows are named by the request
that inserted them, as every INSERT generates its own uuid.

Assumed of Postgres: READ COMMITTED as documented (statement snapshots, row
locks, re-evaluation of WHERE after a wait, unique index waits), and atomic
COMMIT.

### OidcCache

`metadata()` is `ReadCache`, `EnterGate`, `Discover`, `StoreDiscovery`;
`refresh_jwks` is `RefreshKeys`, `FetchKeys`, `StoreKeys`; the callback's
`Exchange`, `UserInfo` stand between. Asking the provider and storing its
answer are separate actions, so that keys rotate and requests are dropped in
between. `gate` is the tokio mutex; dropping a request releases it, which is
what the guard's `Drop` does. The provider (`Rotate`, `Withdraw`) is external:
it publishes an interval of key numbers and signs with the newest. `attempt` is
a natural number where the code wraps a `u64`; wrapping needs 2^64 lookups.
The text of the last failure, kept for error messages, is left out.

### TargetPool

Up to `begin` an action is the code between two awaits or between two calls of
the cache (`Lookup` and `Build` are separate because `get` and `insert` are);
from `begin` on it is the answer to a statement sent before. A connection's
session is two facts, the open transaction and the call whose
`statement_timeout` is in force. What sqlx and Postgres do is external: a
returned connection is pinged, which waits for what is still being answered
(`Return`), and closed on an error (`Close`); BEGIN inside a transaction is a
warning. `Evict` may happen at any time, which over-approximates moka's
ten-minute idle time. The four lookups of `sql_schema` run in one transaction
and count as one statement. `MaxConnections` is a limit per pool, and a
credential has a pool per database and for a while also replaced ones; the
comment at `postgres_pool.rs:11` speaks of a ceiling per credential.

### ToolCall

A call reads its credential once (`Finds`) and works on the copy. `policy`
stands for all a policy grants and `asks` for what the call needs: for HTTP the
headers it brings, for SQL its budgets and EXPLAIN. `Verdict` keeps the checks in
the code's order. A record is stored or its INSERT fails, which the code only
logs (`lost`); an INSERT whose answer is lost counts as failed. A REST handler
can be dropped at any await together with the middleware around it; an MCP call
runs in a task of its own and ends early only when the process does. MCP
arguments that do not parse are refused by the MCP library and never reach
opsgate's code, so `ArriveMalformed` is REST only.

### Identity

A flow is one GET `/login`. Its state, verifier and nonce are made together,
set as cookies together and cleared together, so that a browser's jar (`jar[b]`)
holds one flow or none; `Redirected` stores the new one over it, `Expire` is the
cookies' age. The provider (`Authorise`) is external: it hands out one code per
flow, for whichever subject agreed. The redirect URL with the code may be opened
in any browser, any number of times (`Opens`). `Callback` compares cookie and
state; `Exchange` redeems the code, and what keys it uses is `OidcCache`'s
matter. `Find` and `Upsert` are the resolver's two statements, `StoreFails` is
either going unanswered, and `Drop` may come after an upsert that was done. A
user's first email stays, as `ON CONFLICT` names only `sub`: a second subject
with the same email gets an error page and no row. Nothing in the code changes
`is_active`; `Deactivate` is the operator. Bearer requests share the lazily
built authority (`GetAuthority`, `BuildAuthority`: a `OnceCell` with one
initialiser at a time) and never write `users`. The JWT library's refresh of
its keys is one step (`Refresh`).

### Texts to Admission

A text is a word and a set of oddities (`"case"`, `"pad"`, `"nul"`, `"crlf"`,
...), so that trimming and lowering take oddities away and a check asks for
them; two texts are equal when the service would store the same bytes, and
`f ++ g` is the map with the entries of both, those of `f` where they differ. Each
operator of `CredentialInput` and `CallInput` is one function of the source, in
the source's order of checks. Sealing binds a ciphertext to its master key and
its associated data (`Aad`); the cipher itself is a library's. In `Admission` a
registration and a call are one step each, since it is their inputs that vary:
a call normalises, reads the credential back from its row, opens the secret, asks
the policy, sends, and makes its records, each of which Postgres may refuse.
The URL library reads a path again after the policy has (`SetPath`): `Readings`
says which segments it reads as others, a percent-encoded dot as a dot, a
backslash as a slash, and two dots take the segment before them out, be it of the
base path. The escapes it adds to other characters are left out, and header
values are whole texts. The words are a constant (`Words`), and `HttpRegistration`, `TypedApi`,
`QueryInput` and the like say what the structs of the inputs can hold: any word
with any oddities in any field. `InputsAssumption` asks no more of the inputs
than that they are such structs.

### Egress

`resolved` is what a name has resolved to so far, and grows (`NameChanges`).
`Register` checks all of what the name resolves to then, `Resolve` what it
resolves to when a client connects, `Prepare` and `BuildPool` what a pool will
keep. An HTTP client is a value that says whether it is
guarded, which CA it trusts and which call built it, as two calls that miss the
cache together build one each; `Reuse` takes a connection the client has
kept open to the host. An address written as a host needs no lookup when the
client connects, which is why the call checks it by itself. Which addresses are
private is the set `Blocked`.

### SqlPolicy, SqlSchema, SqlTools

What sqlparser makes of a text is a sequence of statements, and a query's syntax
tree a function from places, which are ways from its top, to what is there: a
query, a `SELECT`, a set operation or another part, with the sites where names
are written. The visitor goes to every place, `validate_query_ast` to the
`Outer` ones, which are not within a `SELECT`. But the policy has hooks for
relations and expressions only (`Hooked`): the strings of `TABLE r`, the name in
`FROM LATERAL f(..)` and functions with a syntax of their own, such as
`substring(s from n)`, are sites it is not shown. `Read` is a name as sqlparser
has it: `U&".."` is three nodes to it, and its escapes stay. `Runs` and `ReadsMetadata` say what Postgres does
with such a text by its own name resolution (search path, folding of unquoted
names), and are what `RunsOnlyGranted` compares the policy's walk with. A
catalog maps tables to columns, key and indexes. A list is one SELECT a page and
`next_cursor` a text that is trimmed, refused where it has a line break
(`RefuseCursor`), and taken apart again; a detail is up to three SELECTs,
between which `DefineTable` and `DropTable` may change tables. The names of a
key or an index come joined by commas and are split and trimmed again (`Names`).
The loops that cut an answer are recursive functions of the number of turns.
Sizes are counted in the constants of the `.cfg`, one length per item and the
names' own; the smallest budget has room for one table, as 1024 bytes have for
Postgres's names of 63 bytes unless JSON escapes most of their characters.

### CredentialListing

A page is one SELECT and so one step; the listing goes on with the cursor of the
page before and may ask for another limit each time. The store moves between
pages by whole ledger operations (`Change`). `throughout` and `ever` are history
variables: what matched at every moment since the listing began, and at some.
Of the filters the tag is kept; the others are conditions of the same WHERE.
Aliases are numbers in the order of their text. A summary is four SELECTs;
counts by provider are made like those by category.

### JsonOutput

A document (`Document`) maps the path of each node to its type, with every node's
parent and without gaps in arrays, so that a path, a JSONPath and
a preview path are all sequences of steps, and `[*]` and the aggregate suffixes
are steps too. Limits, samples and depths are constants. `Answer` is the whole function, from validation to hints; the
actions are its caller: `Ask` starts, `Raise` follows `suggested_max_bytes`,
`Follow` selects a path of the preview. JSONPath beyond names and `[*]` is the
library's. A scalar of a type has one length and each member's name one of its
own (`NameBytes`), in a document as in a path: byte counts keep their structure
(brackets, commas, keys) and not the spelling. `ValidPaths` is what the code
checks of a path: its length, two dots in a row, and whether it parses, which
it does unless a name has a control character in it (`ControlNames`), as
`jsonpath_name_segment` escapes backslashes and quotes and nothing else.

## 3. What TLC checks

| run | instance | question | states |
|---|---|---|---|
| `store_history` | 4 requests, 1 owner, 1 alias, HTTP and SQL, one header in secrets and policies, 3 connections | are the tables consistent, the replies true and deletion final, and can a policy overlap a secret only through a stale plan? | 844 k |
| `store_live` | 3 requests, 1 mutable field with 2 values, 2 connections | is every COMMIT one ledger operation, and every request answered? | 126 k |
| `oidc_cache` | 2 browsers, 3 keys, 3 ticks, TTL 0 | are answers stored in order, is stale data used only with cause, does every login and callback end? | 543 k |
| `pool_calls` | 2 calls, 2 databases, 1 connection per pool | is every query guarded, does an answered call leave nothing, do replaced pools drain? | 23 k |
| `call_records` | 1 call, 2 owners, 1 alias, both categories, 3 store changes | is what is sent authorised, and what is recorded what was done? | 2.0 M |
| `identity` | 2 browsers, 2 logins, 2 requests, 2 subjects, 3 emails of which 2 are allowed | are codes redeemed where they belong, users let in by the policy, and records true? | 251 k |
| `listing` | 4 requests, 3 aliases, 1 tag, pages of 1 or 2, 5 store changes | is a list complete, and does a summary add up? | 202 k |
| `egress` | 2 credentials, 2 calls, 1 name, a private and a public address, 2 CAs, 1 database | where do calls connect, and whom do they trust? | 1.5 M |
| `admission` | 1 credential and 1 call from every spelling of each field, 2 master keys | what is stored, sent and recorded? | 47 k |
| `sql_tools` | 13 catalogs of up to 4 tables, 2 changes, 5 pages; texts of every shape, nested, under 13 policies; results of up to 4 rows | are lists and details true, is what runs granted, are columns the rows? | 273 k |
| `json_output` | all documents of a few shapes, depth 2 previews of 4 paths, dialogs of 3 calls | does raising the budget lead somewhere, and can a preview be relied on? | 211 k |

The run expected to find a violation, `store_overlap`, is in section 5.

Why the bounds are enough to see the interesting cases:

* Four store requests are a registration, an update planned on it, a deletion
  and a second registration of the alias, in every overlap of their
  statements; three are enough for two waiters behind a holder. Connections are
  fewer than requests, so that waiting for one happens. One owner and alias are
  enough because no statement relates two of them; the theorems are for any
  number.
* Two browsers are a request that looks up and one that waits behind it or comes
  after; three keys and ticks let the provider rotate twice and the metadata
  grow stale (with TTL 0 one tick does) under the same pair.
* Two target calls are the one that leaves a connection behind and the one that
  gets it; one connection per pool forces the second to wait for or reuse it.
* One tool call suffices as calls share nothing but the store they read, and
  the store moves on its own through the ledger: three changes are a deletion
  and a registration of the alias after the read.
* Two identity requests are a callback against a callback, against a bearer
  request, and two bearer requests that find no authority; two logins in two
  browsers are enough to mix their codes and cookies up. The third email is one
  the policy does not allow.
* Five changes under three aliases let a listing of single credentials lose and
  regain what is before, under and after its cursor; pages of one and two are
  the smallest for which the row fetched beyond the page matters. The largest
  page is two, so the repository's own limit of one more is met. TLC identifies
  states that differ only in the history table (`ReadersView`), which no
  reader sees and only the bound counts.
* Two egress calls are one that leaves a client, a connection or a pool behind and
  one that finds it; two credentials share a name or a CA or do not. One name
  and two addresses let every lookup answer differently from the last. Databases
  only tell pools apart, so one is enough.
* An input of `admission` differs from an accepted one in one field, or in the two
  that one check compares, and takes every oddity some check asks for; limits
  on numbers of things are two, so that one, two and three are met. Encoded dots
  come alone, after a backslash, in a base path and in a call's, below what the
  policy allows. A restart has the same key or another.
* Budgets of `sql_tools` are chosen so that one table always fits, as it does
  under the code's smallest budget, and two or three do not; names are of two
  lengths, one has a dot and one a comma, and catalogs differ in names that
  begin or end with a blank or a line break or have one inside. Two changes are enough to drop a table
  and create it again. Queries nest once or twice around every place a name can
  be written at. Tables change only during a list or a detail, and queries are
  asked before any change, because nothing relates them.
* The documents are every object, array and scalar of a few shapes, among them
  arrays longer than the sample, arrays in arrays, members below the preview's
  depth, and members whose names are `count`, hold two dots or a control
  character, or are too long for a path.

All counters that could grow are bounded by named constants: `MaxConns`,
`MaxConnections`, `MaxKey`, `MaxNow`, `MaxChanges`, `MaxCalls`, `MaxPages`, and the number of
requests, logins, browsers and calls, each used once. `MaxPages` cuts the one
dialog that need not end, a listing past a namespace with a dot in its name or
a table whose name ends in white space.
Symmetry is used only in runs without liveness properties. Deadlock is checked
everywhere; `Finished` marks the states in which everything has been answered.

`TypeOK` in each module says what its variables range over; it is no property of
a run, and is a theorem of the modules that have proofs, in `TargetPoolProofs` and
`ToolCallProofs` as the conjunct `Typed` of the inductive invariant, which leaves
out what only the bounds of an instance add.

### Properties worth knowing

* `ImplementsLedger`: whatever the interleaving, each COMMIT is one register,
  update or delete decided on the tables as they are then.
* `HistoryTellsActiveRow`, `RepliesAreTruthful`: tables, history and answers
  agree, also when COMMIT's answer is lost.
* `OverlapOnlyFromStalePlan`: the overlap check is sound for the row it read,
  so a bad policy can arise in exactly one way.
* `OneRefreshPerAttempt`, `NoKeyRollback`: comparing the attempt number under the
  gate is enough to know that nothing was stored in between.
* `RejectionHasCause`: no ID token is turned down for its signature without a
  lookup that could have known its key.
* `QueriesAreGuarded`: also on a connection that an earlier call left in the
  middle of a transaction.
* `RequestsAreGranted`: also under a policy that overlaps the secret headers.
* `RecordsAreTruthful`, `AnsweredIsRecorded`: a denied call reached no target,
  an ok call did, and the credential on record is the one whose secret was used.
* `CodeStaysWithBrowser`: a redirect URL is worth nothing in another browser.
* `UsersWereAllowed`, `SignupsAreRecorded`: the policy is asked between two
  statements and for unknown subjects only, and that is enough; rows, records
  and pages agree unless an answer was lost.
* `ListingIsComplete`: paging by the last alias neither repeats nor skips, also
  when the alias under the cursor is deleted, because the cursor is a value and
  not a position.
* `RaisingLeads`, `PreviewIsReliable`: a caller who does what the answers say gets
  a body, the limit, or the policy's no; a preview that is not cut accounts for
  every node, and its paths are accepted and select what they count, those aside
  whose text is refused or means something else (section 5).
* `AcceptedIsStored`, `SentIsGranted`: the service's checks imply the table's, and
  the spelling of a word changes neither what is granted nor what is sent, but
  for paths that the URL library reads otherwise (section 5).
* `RecordsAreKept`, `RecordsAreSafe`: no answer and no input makes Postgres refuse a
  record, the exceptions aside which the property names, and no record
  holds a secret, a body or a parameter.
* `OnlyOptedInReachPrivate`: whatever a name resolved to before, now or since.
* `ReachesOwnHost`, `TrustsOwnAuthority`: sharing clients, connections and pools
  between credentials never shares hosts or CAs.
* `TablesAreListed`, `DetailIsOfTable`: what changes between two SELECTs, and what
  a budget cuts, is told or not there to begin with; the cursor is trimmed and
  split like any text, and it is said exactly which names that does harm to.
* `RunsOnlyGranted`: at every relation, call and value, in whatever depth and
  quotes, the policy reads the name that Postgres reads; the three kinds of site
  and the one spelling for which it does not are the property's exceptions.
* `ColumnsAreRows`: transposing and cutting rows keeps them rows.

### Fairness

* `CredentialStore!FairSpec`: weak fairness on each request's next statement.
  Handlers are polled, Postgres answers, and waits for a lock or a connection are
  queues. Callers need not call.
* `OidcCache!FairSpec`: weak fairness on each request's step. The mutex hands
  itself on, and the HTTP client has a timeout of 10 s (`api/src/main.rs:50`).
* `TargetPool!FairSpec`: weak fairness on each call's step, on the pool's work
  for a returned connection and on the drop of a pool. Waiting for a connection
  ends with a timeout and a query with its `statement_timeout`; that BEGIN,
  COMMIT and the ping are answered or the connection breaks is taken for granted.

No fairness is assumed of providers, evictions, cancellations, arrivals or
failures.

## 4. What is proved

Eight modules have proofs, each for every value of the constants: any number of
requests, users, calls, connections or keys, and any words.

| module | theorem | states |
|---|---|---|
| `CredentialStoreProofs` | `InductiveInvariant` | `Spec => []IInv` |
| | `TypeCorrect` | `Spec => []TypeOK` |
| | `LocksSuffice` | `Spec => []LockDiscipline` |
| | `AliasIsUnique` | `Spec => []OneActivePerAlias` |
| | `VersionsAreLinear` | `Spec => []HistoryIsLinear` |
| | `DeletionIsFinal` | `Spec => RowLifecycle` |
| | `StoreImplementsLedger` | `Spec => ImplementsLedger` |
| | `HistoryTellsActive` | `Spec => []HistoryTellsActiveRow` |
| | `RepliesTruthful` | `Spec => []RepliesAreTruthful` |
| | `OverlapNeedsStalePlan` | `Spec => []OverlapOnlyFromStalePlan` |
| `CredentialListingProofs` | `InductiveInvariant` | `Spec => []IInv` |
| | `ListsAreComplete` | `Spec => []ListingIsComplete` |
| | `SummariesAddUp` | `Spec => []SummaryAddsUp` |
| `OidcCacheProofs` | `InductiveInvariant`, `TypeCorrect` | `Spec => []IInv`, `Spec => []TypeOK` |
| | `AttemptsNameCache` | `Spec => []AttemptNamesCache` |
| | `RefreshesOnce` | `Spec => []OneRefreshPerAttempt` |
| | `RejectionsHaveCause` | `Spec => []RejectionHasCause` |
| | `KeysNeverRollBack` | `Spec => NoKeyRollback` |
| | `StaleNeedsAttempt` | `Spec => StaleOnlyAfterAttempt` |
| `TargetPoolProofs` | `InductiveInvariant` | `Spec => []IInv` |
| | `QueriesGuarded` | `Spec => []QueriesAreGuarded` |
| | `AnswersLeaveNothing` | `Spec => []AnsweredLeavesNothing` |
| | `ConnectionsOwned` | `Spec => []ConnectionsAreOwned` |
| `ToolCallProofs` | `InductiveInvariant` | `Spec => []IInv` |
| | `RequestsGranted` | `Spec => []RequestsAreGranted` |
| | `CredentialsAreOwn` | `Spec => []CallsUseOwnCredentials` |
| | `RecordsTruthful` | `Spec => []RecordsAreTruthful` |
| | `AnswersAreRecorded` | `Spec => []AnsweredIsRecorded` |
| | `DialogInvariant` | `DialogSpec => []DialogInv` |
| | `RaisingIsOfUse` | `DialogSpec => RaisingLeads` |
| | `PreviewReliable` | `DialogSpec => []PreviewIsReliable` |
| | `OnlyGrantedRuns` | `ToolsSpec => []RunsOnlyGranted` |
| | `ColumnsHoldRows` | `ToolsSpec => []ColumnsAreRows` |
| | `ListInvariant` | `ToolsSpec => []ListInv` |
| | `ListIsWhole` | `ToolsSpec => []TablesAreListed` |
| | `DetailInvariant` | `ToolsSpec => []DetailInv` |
| | `DetailIsTrue` | `ToolsSpec => []DetailIsOfTable` |
| `IdentityProofs` | `InductiveInvariant`, `TypeCorrect` | `Spec => []IInv`, `Spec => []TypeOK` |
| | `CodesStay` | `Spec => []CodeStaysWithBrowser` |
| | `UsersAllowed` | `Spec => []UsersWereAllowed` |
| | `InactiveRefused` | `Spec => []InactiveStayOut` |
| | `SignupsRecorded` | `Spec => []SignupsAreRecorded` |
| `EgressProofs` | `TypeCorrect` | `Spec => []TypeOK` |
| | `PrivateNeedsOptIn` | `Spec => []OnlyOptedInReachPrivate` |
| | `HostsAreNotMixed` | `Spec => []ReachesOwnHost` |
| | `AuthoritiesAreNotMixed` | `Spec => []TrustsOwnAuthority` |
| `AdmissionProofs` | `StoredAlways` | `Spec => []IInv` |
| | `RegistrationsAreKept` | `Spec => []AcceptedIsStored` |
| | `RequestsAreGranted` | `Spec => []SentIsGranted` |
| | `CallsAreRecorded` | `Spec => []RecordsAreKept` |
| | `RecordsHoldNoSecret` | `Spec => []RecordsAreSafe` |

**CredentialStore.** `IInv` is `TypeOK /\ Shape /\ LockDiscipline /\ HistoryIsLinear /\
OneActivePerAlias`, and none of its parts is inductive alone. A COMMIT keeps
the versions linear only if the number it inserts is still the next one, which
is `LockDiscipline`: nothing in the code locks the number. That holds only if no
second transaction of the same owner and alias holds its row: two registrations
are kept apart by the index key; two updates by the row lock, provided they
found the same row, which is `OneActivePerAlias`; and a registration and an
update because the one needs the alias to be free and the other needs it taken.
The type of a version (`MAX(version)` exists) needs `HistoryIsLinear`. `Shape`
ties each `pc` to the variables set by then. Only `Commit` changes the tables;
`CommitIsCurrent` collects what is known there and both `RowKeptStep` (deletion
is final) and `LedgerStep` (the refinement, with the identity on `rows` and
`history` as mapping) follow from it. Every other step stutters in the ledger.

Three more invariants are inductive beside it. That the newest event tells the
active row needs only that both tables change in one COMMIT. That replies are
true needs that a request which is not done was told nothing yet (`Unanswered`):
then its COMMIT writes the one event it ever has, and only an error can stand
beside an event whose COMMIT's answer was lost. That an overlap has a stale plan
needs `PlanKept`: as long as the row a plan was computed from is active, its
sealed headers are those the plan was checked against, because of all
operations only a deletion removes them; an update that writes another
row than the one it read has been overtaken by a deletion.

**CredentialListing.** `ListOK` relates what a reader has gathered to the table
of now: what matched throughout still matches, and up to the cursor it is
listed. A change keeps this since `throughout` shrinks and `ever` grows with it;
a page keeps it since it is a prefix of what is past the cursor in order
(`PageIsPrefix`) and leaves out only what is past its own last alias. That a
finite set of aliases can be put in order is shown without induction: the place
of an alias is the number of aliases up to it (`OrderExists`). A sum over
categories is taken apart the same way, the categories being two. `SummaryOK`
bounds each count by the total and what was added or removed since
(`Near`), and a ledger step adds or removes at most one.

**OidcCache.** The gate makes the stretch from taking it to storing an answer
exclusive (`GateOK`), also when its holder is dropped. So the attempt a request
has seen names one content of the cache (`AttemptNamesCache`), and what the
provider published when it was asked lies between what is cached and what is
published now, which is what keeps older keys from being stored over newer.

**TargetPool.** A connection is held by one call at a time (`Alone`, `Held`), so
what a call has set up on it is still there when its query runs (`Guarded`).
What a session carries besides was left by a dropped call, or goes with the
connection (`Left`). BEGIN on a session with an open transaction is a warning
and not a new transaction: the guard of a query has to count the one an earlier
call left, and it is read-only because every one is. `FS_Singleton` of the
library's finite sets counts the holders.

**ToolCall.** Three parts for each call by itself: `Grant` (what was checked
before anything left, and that what left is what was checked), `Recording` (how
far the records have come, and that they tell the outcome), `Owning` (the copy a
call works on came from a row of its caller's). The store moves meanwhile by
ledger operations, which keep whose a row is and never bring one back
(`RowsKept`): that is all a call relies on, and it is what the refinement above
promises.

**Identity.** `ReqOK` says what a request knows at each await and what of it may
still change under it; `FlowOK` that a spent code was redeemed where its login
began; `RowOK` that a row was let in and is accounted for; `AuditOK` that a
record is of a settled request. Rows are never deleted and nobody becomes
active again (`UsersKept`), a login keeps its browser and its account
(`FlowsKept`): that is why what a request has checked is true when it uses it,
and `RequestStep` reduces every step to what it does to one request.

**Egress.** What a call talks to was checked when it was looked up, perhaps long
ago and by another call. The invariant says of every place that keeps an
address or a client (a call, the cache, open connections, pools) what was known
when it was put there; it lasts because a registered credential does not
change and the addresses a name has had only grow.

**Admission.** `Stored` says that the row is what Postgres made of the
normalised registration under the key of its time. It is inductive at once, as
only a registration touches the row; the work is in what follows from it.
`RoundTrip` reads the row back: each field that `Row` leaves out or writes in
another form is restored by `Credential`, each CHECK of the table follows from
a check of the service, and the secret opens under its own key and alias. With
that a call is a matter of its input and of the registration as it was
written. A path is sent as it is joined where the URL library reads neither of its
parts otherwise (`WrittenPathsJoin`), and only of these the property speaks.
`HttpSent` and `SqlSent` lead the checks of the service, made on
normalised and folded texts, back to what registrant and caller wrote. The
`...Fits` lemmas follow every text of a call into every column and key of its
rows and show that some check on the way has refused it a NUL. Two exceptions of
the properties were found by attempts at these proofs: a denied query key with
a CR or LF in it, which no caller's key can equal, and the namespace and table of
a `sql_schema` listing, which are recorded unchecked. The `...Shown` lemmas follow the
words instead: every word in a row is a word of the code or one that a
registration, a call or an answer names (`Shown`). `RecordsAreSafe` follows with
`ApartAssumption`: no word handed over in confidence is also written where it
is shown. Without it the property is false of any code, as a caller may name a
password as the purpose; it does not say which field goes where, and a row that
repeated a confidential field would break the lemmas.

**JsonOutput.** The dialog's own invariant says little (`DialogInv`: the answer on
the table is that of the latest call, and the call is one that is admitted); the
work is in what one answer says. The code recurses over documents, and so the
proofs need inductions. The library's induction theorems cannot be used here,
but its well-foundedness of the naturals can: `Induction` says that a set of
naturals with 0 and each successor is all of them, and every recursive function
of the model is shown to exist, and to have its type, by putting the set of
numbers up to which it does in its place. Raising the budget is of use because of what
is measured: an answer that does not fit says how large it is or how far the
limit goes (`RaisedAnswer`), the size of a document is a number by induction
over its depth, and it does not change between calls. A preview is reliable
because of what is counted and what is told: a node that was not visited has a
longest prefix that was, and there the walk stopped or the array has more items
than are sampled, which the entry of that prefix says (`Unvisited`). A plain path,
one that the checks of a path accept and that has no suffix,
selects what was counted under it because a visited path has at most one array
above its node: a node it selects is the same up to that array, and all steps
after it are names (`SameArrays`).

**SqlTools.** `OnlyGrantedRuns` compares two walks over one syntax tree: every
site for which the policy has a hook is visited, and for each kind of these a name without
escapes that the policy lets through
is not one that Postgres looks up as denied, whichever schema it finds the
function in, as folding loses nothing (`PartsOfName`, `SitesRunGranted`).
`ListInv` says of a list that the cursor names the last table told; what was
there throughout and is not yet listed comes after the place the cursor is read
as. A page keeps this because it
is a prefix of what comes after the cursor (`RestOfTables`; the order of names is
total, so a finite set of tables has one ordering, and the place of a table is
the number of those before it), because a page cut by its budget sets the
cursor to its own last table, and because a page is never cut to none
(`PageTrimmed`, `PageFinalized`). Trimming changes a cursor only at its ends
(`TrimmedCursor`), so it is taken apart as it was joined unless the namespace
has a dot in it or the table's name ends in white space, and then at an earlier
place in the order, where tables are told of again and none is left out
(`SplitOfCursor`); a namespace that begins with white space may move it to a
later place, and for lists with one the invariant claims nothing of what is
left. `DetailInv` says what of the three SELECTs is known and what of it
is still so (`steady`). The loops of the budget are an induction over turns
(`TrimmedTurns`): a turn takes the indexes, the key or the last column
(`TableTurn`), so what is left is cut from its end, fits but for the digits of its
size, or is bare (`DetailTrimmed`, `DetailFinalized`). That a key names columns
that are told needs that names come back from a text with commas
(`NamesComeBack`), by an induction over the text of the joined names for every
number and length of them.

Assumptions on the constants: `CategoriesAssumption` (categories are among
http and sql), `FieldsAssumption` (`"policy"` is not one of the other fields),
`MaxConnsAssumption` and `PoolAssumption` (at least one connection),
`OidcAssumption`, `ToolCallAssumption`, `IdentityAssumption` and
`EgressAssumption` (bounds are naturals, allowed emails are emails, `Null` is no
member of the other sets), `ListingAssumption` (aliases are numbers in the order
of their text, a page holds at least one), `WordsAssumption` (the words the code
itself puts in are words), `InputsAssumption` and `OutputsAssumption` (inputs are
what serde makes of a request, Postgres names no column with a NUL),
`ApartAssumption` (above), `ReadingsAssumption` (a segment is read as one or more),
`JsonOutputAssumption` and `ReadAssumption` (limits, lengths and budgets are
naturals, documents are documents, a call has finitely many paths),
`SqlPolicyAssumption` (no denied function can be called without brackets, as
none of the list can), `SqlSchemaAssumption` (sizes are naturals),
`SqlToolsAssumption` (tables have names, keys and indexes name columns, the
smallest budget has room for one table), and that `Null` is not a compound value either
(`NullAssumption`, `NullIsNoRow`, `NullIsNoKey`), which model values satisfy.
TLC evaluates them in every run.

Only model-checked are the liveness properties `EveryRequestIsAnswered`,
`EveryRequestEnds` and `ReplacedPoolsDrain`, which are beyond the prover. Every
other property of a passing run is a theorem.

The refinement is checked with three requests, in the run that also has mutable
fields, because the ledger's step is the costliest formula to evaluate; four
requests and all larger instances of it are the proof's.

## 5. Where the code and its words part

The run `store_overlap` checks what a document says and finds it violated: an
HTTP policy that overlaps a sealed secret header is refused
(`docs/mcp/worst-cases.md:222`). The check is against the credential read before
the transaction, the UPDATE goes by alias; after a delete and a new
registration the other credential gets the policy. `api_call` refuses such a
header again, so nothing is sent (`RequestsAreGranted`).

Other places where the words say more than the code does, seen while modelling
and plain without a run:

* a policy is replaced as a whole (`docs/mcp/tools/credential-update-http.md:70`):
  a policy equal to the one read is dropped from the plan
  (`service/src/credential/update.rs:81`), and one committed in between stays;
* the connection returns to the pool clean (`service/src/sql_common/postgres.rs:17`):
  a dropped call returns it with its transaction open (line 39), and the next
  query is still read-only and under its own timeout (`QueriesAreGuarded`);
* inspect `preview.paths`, then retry with `jsonpath` (`json-output/src/json.rs:213`):
  a member named `count` or `length` gives a path that is read as an aggregate
  (`json-output/src/projection.rs:130`), and a path of more than 512 bytes (line
  19), one with two dots in a name (27) and one with a control character in a
  name, which is not escaped (`preview.rs:170`), are refused;
  `PreviewIsReliable` excepts them;
* denials on the parsed AST are immune to evasions by white space and quotes
  (`service/src/sql_query/policy.rs:160`): they are at the names that the
  visitor has a hook for. sqlparser keeps the name in `TABLE r` as strings, that
  in `FROM LATERAL f(..)` and functions with a syntax of their own without a
  relation or an expression of that name, and reads `U&".."` otherwise than
  Postgres; `RunsOnlyGranted` excepts these four, and the transaction is
  `READ ONLY` for them as well;
* path traversal is not allowed (`core/src/validation.rs:81`): the check is for
  the two dots as they are, and `Url::set_path` reads `%2e%2e` as two dots
  (`service/src/api_call/target.rs:183`), so that a path may leave the base path and
  the granted prefixes; `SentIsGranted` speaks of paths without such segments;
* error messages on record are value-free (`docs/mcp/worst-cases.md:38`,
  `service/src/sql_query/recording.rs:208`): a message about a JSONPath quotes it
  (`projection.rs:22`, `:146`), a literal in a filter included;
* `sql_schema` reads metadata although `allow_metadata` is false:
  `docs/mcp/tools/sql-schema.md` says so on purpose.

Edges the properties state as exceptions, because the code is like that:

* a NUL passes validation in a description, a denied query key or before the
  origin, in a call's alias, purpose or path, and in the namespace and table of
  a `sql_schema` listing, which only a detail checks; Postgres then refuses the
  row, and of a call both records are lost (`AcceptedIsStored`, `RecordsAreKept`);
* a status above 599 is sent on to the caller and refused by
  `api_call_history`;
* a denied query key with white space around it, or a CR or LF in it, denies
  nothing (`SentIsGranted`);
* a denied function with a schema denies that spelling alone (`RunsOnlyGranted`);
* the cursor of a namespace with a dot is taken apart at the wrong dot, and that
  of a table whose name ends in white space is trimmed to one before it: tables
  are told of again, in the worst case for ever; that of a namespace that
  begins with white space becomes a later one, and tables are left out; one with
  a line break inside is refused (`sql_schema/input.rs:93`, `TablesAreListed`);
* a comma in a column's name splits it in keys and indexes (`DetailIsOfTable`);
* an answer of `sql_schema` is measured before the digits of its own size are in
  it, and one advice too large pops an item more than it had to
  (`sql_schema/output.rs:106`);
* of two columns of one name `sql_query` keeps the last (`ColumnsAreRows`).

## 6. Not modelled

* Transport, configuration, routes and start-up (`api/src/{main,routes,config,error}.rs`,
  `api/src/mcp`, `api/src/rest`) parse, call one operation and format its answer.
  The stop of the process is in `CredentialStore!Fail`, `ToolCall!Stop` and
  `Admission`'s and `Egress`'s restarts.
* The internals of libraries, beyond the facts stated above: JWT verification,
  the AEAD, sqlparser, JSONPath, URLs, moka, sqlx, reqwest
  and Postgres. A lock taken by a function that a query calls is left to the
  READ ONLY transaction.
* Which address ranges are private, what an alphabet or a length limit is in
  characters, and the wording of messages: tables and literals of the source
  that a model would only repeat.
* `display_name`, timestamps, column types, nullability and defaults, the hint
  about `SELECT *`, the audit row of a credential operation.

## 7. Plan

In the order in which the parts were taken: the store and its ledger; the OIDC
cache; pools; tool calls; identity; listing; JSON output; egress; texts, inputs
and records; SQL tools; then the proofs, of the modules of processes first, of
the listing and of what is stored, sent and recorded after them, and of what the
tools answer last.
What is left:

1. **Refinement of the pool**: an abstract specification of "one call, one
   read-only transaction", with `TargetPool` shown to implement it;
   `QueriesAreGuarded` states its safety now.
2. **Larger instances** of `sql_tools`, whose answers are functions of the catalog
   and grow with it, and of `admission` in two fields at once.

The suite is kept to one run per question. A new component takes its place by
sharing an instance with a component it composes with, or in place of a run
whose properties have since been proved.
