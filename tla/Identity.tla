------------------------------ MODULE Identity ------------------------------
(***************************************************************************)
(* Who may use opsgate: the browser login that registers users             *)
(* (api/src/auth/oauth.rs, oauth_flow.rs), the resolver and the users      *)
(* table (model/src/identity/resolver.rs, db/src/user_repo.rs), and the    *)
(* bearer tokens of API and MCP requests, which only find users            *)
(* (api/src/auth/jwt.rs, api.rs, mcp.rs).                                  *)
(*                                                                         *)
(* A flow is one GET /login: its CSRF state, PKCE verifier and nonce are   *)
(* made together, set as cookies together and cleared together, so a       *)
(* browser's jar holds one flow or none.  The provider's code for a flow   *)
(* is good once, and only with that flow's verifier.  What metadata and    *)
(* keys a login uses is OidcCache's matter.  display_name is left out, and *)
(* nothing in the code changes is_active: an operator does.                *)
(***************************************************************************)
EXTENDS Naturals

CONSTANTS
    Browsers,
    Flows,      \* GET /login requests
    Requests,   \* GET /callback and bearer requests
    Subjects,   \* accounts of the provider
    Emails,
    Allowed,    \* the emails BrowserSignupPolicy allows
    Null

ASSUME IdentityAssumption ==
    /\ Allowed \subseteq Emails
    /\ Null \notin Browsers \cup Flows \cup Requests \cup Subjects \cup Emails

VARIABLES
    users,     \* users[s]: the row with sub = s
    jar,       \* jar[b]: the flow in b's cookies
    flow,      \* flow[f]: what became of a login
    req,       \* req[q]: the state of a request
    audit,     \* audit_logs, as far as logins and refused bearers write it
    building,  \* the request that runs the initialiser of the OnceCell
    tasks      \* JWKS refresh tasks spawned; the authority is built by the first

vars == <<users, jar, flow, req, audit, building, tasks>>

\* by: the callback that inserted the row.
UserRow == [email : {Null} \cup Emails, active : BOOLEAN, by : Requests]

ASSUME NullIsNoRow == Null \notin UserRow

Built == tasks > 0

Outcomes == {"ok", "signup_not_allowed", "inactive_user", "not_registered",
             "invalid_token", "missing_token", "internal_error", "bad_request",
             "exchange_failed"}

\* sub: who a login is for, once authorised.  spent_by: who redeemed the code.
FlowState == [pc       : {"idle", "failed", "redirecting", "open"},
              browser  : {Null} \cup Browsers,
              sub      : {Null} \cup Subjects,
              spent_by : {Null} \cup Requests]

\* cookie: the flow in the cookies sent.  barred: the subjects that were
\* inactive when the request arrived.  lost: its record could not be stored,
\* or the answer to its upsert never came.
RequestState ==
    [pc      : {"idle", "exchange", "find", "upsert", "authority", "building", "verify",
                "refresh", "resolve", "record", "respond", "done", "dropped"},
     kind    : {"none", "callback", "bearer"},
     browser : {Null} \cup Browsers,
     cookie  : {Null} \cup Flows,
     code    : {Null} \cup Flows,
     sub     : {Null} \cup Subjects,
     email   : {Null} \cup Emails,
     outcome : {"none"} \cup Outcomes,
     barred  : SUBSET Subjects,
     lost    : BOOLEAN]

Record == [request : Requests, event : {"signup", "auth_denied"},
           sub : {Null} \cup Subjects, outcome : Outcomes]

TypeOK ==
    /\ users \in [Subjects -> {Null} \cup UserRow]
    /\ jar \in [Browsers -> {Null} \cup Flows]
    /\ flow \in [Flows -> FlowState]
    /\ req \in [Requests -> RequestState]
    /\ audit \subseteq Record
    /\ building \in {Null} \cup Requests
    /\ tasks \in Nat

Init ==
    /\ users = [s \in Subjects |-> Null]
    /\ jar = [b \in Browsers |-> Null]
    /\ flow = [f \in Flows |-> [pc |-> "idle", browser |-> Null, sub |-> Null,
                                spent_by |-> Null]]
    /\ req = [q \in Requests |->
          [pc |-> "idle", kind |-> "none", browser |-> Null, cookie |-> Null, code |-> Null,
           sub |-> Null, email |-> Null, outcome |-> "none", barred |-> {}, lost |-> FALSE]]
    /\ audit = {}
    /\ building = Null
    /\ tasks = 0

Inactive == {s \in Subjects : users[s] # Null /\ ~users[s].active}

GoTo(q, where) == req' = [req EXCEPT ![q].pc = where]

Conclude(q, where, outcome) ==
    req' = [req EXCEPT ![q].pc = where, ![q].outcome = outcome]

\* signup_event, and auth_denied_event, which names no subject.
RecordOf(q) ==
    IF req[q].kind = "callback"
    THEN [request |-> q, event |-> "signup", sub |-> req[q].sub, outcome |-> req[q].outcome]
    ELSE [request |-> q, event |-> "auth_denied", sub |-> Null, outcome |-> req[q].outcome]

-----------------------------------------------------------------------------
(* GET /login and the provider *)

\* new_login_flow: the provider's metadata is there, or the page says no.
Login(f) ==
    /\ flow[f].pc = "idle"
    /\ \E b \in Browsers, pc \in {"redirecting", "failed"} :
         flow' = [flow EXCEPT ![f].pc = pc, ![f].browser = b]
    /\ UNCHANGED <<users, jar, req, audit, building, tasks>>

\* The redirect reaches the browser, and the cookies with it.
Redirected(f) ==
    /\ flow[f].pc = "redirecting"
    /\ flow' = [flow EXCEPT ![f].pc = "open"]
    /\ jar' = [jar EXCEPT ![flow[f].browser] = f]
    /\ UNCHANGED <<users, req, audit, building, tasks>>

\* The provider's user agrees, and the provider makes a code.
Authorise(f) ==
    /\ flow[f].pc = "open" /\ flow[f].sub = Null
    /\ \E s \in Subjects : flow' = [flow EXCEPT ![f].sub = s]
    /\ UNCHANGED <<users, jar, req, audit, building, tasks>>

\* The cookies' Max-Age is over.
Expire(b) ==
    /\ jar[b] # Null
    /\ jar' = [jar EXCEPT ![b] = Null]
    /\ UNCHANGED <<users, flow, req, audit, building, tasks>>

-----------------------------------------------------------------------------
(* GET /callback *)

\* Browser b opens a callback with the code and state of flow f, or without
\* them or with an error: f is Null.
Opens(q, b, f, cookie, pc, outcome) ==
    req' = [req EXCEPT ![q] =
        [@ EXCEPT !.kind = "callback", !.browser = b, !.code = f, !.cookie = cookie,
                  !.barred = Inactive, !.pc = pc, !.outcome = outcome]]

\* Mutant: a missing state cookie passes for an equal one.
CallbackWithoutCookie(q) ==
    /\ req[q].pc = "idle"
    /\ \E b \in Browsers, f \in {Null} \cup {g \in Flows : flow[g].sub # Null} :
         IF f # Null /\ jar[b] \in {Null, f} THEN Opens(q, b, f, f, "exchange", "none")
         ELSE Opens(q, b, f, jar[b], "respond", "bad_request")
    /\ UNCHANGED <<users, jar, flow, audit, building, tasks>>

\* A redirect URL may be opened in any browser, and more than once.
Callback(q) ==
    /\ req[q].pc = "idle"
    /\ \E b \in Browsers, f \in {Null} \cup {g \in Flows : flow[g].sub # Null} :
         IF f # Null /\ jar[b] = f THEN Opens(q, b, f, f, "exchange", "none")
         ELSE Opens(q, b, f, jar[b], "respond", "bad_request")
    /\ UNCHANGED <<users, jar, flow, audit, building, tasks>>

\* The provider redeems the code and says who it is for.  An account's email
\* is whatever it is by now, or missing.
Exchange(q) ==
    LET f == req[q].code
    IN  /\ req[q].pc = "exchange"
        /\ flow[f].spent_by = Null /\ req[q].cookie = f
        /\ flow' = [flow EXCEPT ![f].spent_by = q]
        /\ \E email \in {Null} \cup Emails :
             req' = [req EXCEPT ![q].pc = "find", ![q].sub = flow[f].sub, ![q].email = email]
        /\ UNCHANGED <<users, jar, audit, building, tasks>>

\* The code is spent, the provider is away, or the answer does not verify,
\* when the code may be spent now.
ExchangeFails(q) ==
    LET f == req[q].code
    IN  /\ req[q].pc = "exchange"
        /\ Conclude(q, "respond", "exchange_failed")
        /\ \/ UNCHANGED flow
           \/ flow[f].spent_by = Null /\ flow' = [flow EXCEPT ![f].spent_by = q]
        /\ UNCHANGED <<users, jar, audit, building, tasks>>

\* BrowserSignupPolicy::allows
Allows(email) == email \in Allowed

\* Mutant: the record is written before the user row is.
FindRecordingFirst(q) ==
    /\ req[q].pc = "find"
    /\ IF users[req[q].sub] # Null \/ Allows(req[q].email)
       THEN /\ GoTo(q, "upsert")
            /\ audit' = audit \cup {[RecordOf(q) EXCEPT !.outcome = "ok"]}
       ELSE Conclude(q, "record", "signup_not_allowed") /\ UNCHANGED audit
    /\ UNCHANGED <<users, jar, flow, building, tasks>>

\* resolve_browser: find_by_sub, and the signup policy for a new subject.
Find(q) ==
    /\ req[q].pc = "find"
    /\ IF users[req[q].sub] # Null \/ Allows(req[q].email) THEN GoTo(q, "upsert")
       ELSE Conclude(q, "record", "signup_not_allowed")
    /\ UNCHANGED <<users, jar, flow, audit, building, tasks>>

\* The INSERT breaks the unique index on email; ON CONFLICT is for sub alone.
EmailTaken(q) ==
    /\ users[req[q].sub] = Null
    /\ \E s \in Subjects : users[s] # Null /\ users[s].email = req[q].email

\* Mutant: ON CONFLICT (sub) DO UPDATE SET email = EXCLUDED.email
UpsertedWithEmail(q) ==
    IF users[req[q].sub] = Null THEN [email |-> req[q].email, active |-> TRUE, by |-> q]
    ELSE [users[req[q].sub] EXCEPT !.email = req[q].email]

\* Mutant: ON CONFLICT (sub) DO UPDATE SET is_active = TRUE
UpsertedActive(q) ==
    IF users[req[q].sub] = Null THEN [email |-> req[q].email, active |-> TRUE, by |-> q]
    ELSE [users[req[q].sub] EXCEPT !.active = TRUE]

\* The row INSERT ... ON CONFLICT (sub) DO UPDATE leaves and returns.
Upserted(q) ==
    IF users[req[q].sub] = Null THEN [email |-> req[q].email, active |-> TRUE, by |-> q]
    ELSE users[req[q].sub]

\* caller_for_user
CallerForUser(row) == IF row.active THEN "ok" ELSE "inactive_user"

Upsert(q) ==
    /\ req[q].pc = "upsert"
    /\ ~EmailTaken(q)
    /\ users' = [users EXCEPT ![req[q].sub] = Upserted(q)]
    /\ Conclude(q, "record", CallerForUser(Upserted(q)))
    /\ UNCHANGED <<jar, flow, audit, building, tasks>>

\* The answer to a statement is an error or never comes, which is no record
\* but a page; what was sent may have been done.
StoreFails(q) ==
    /\ req[q].pc \in {"find", "upsert"}
    /\ \/ UNCHANGED users
       \/ /\ req[q].pc = "upsert" /\ ~EmailTaken(q)
          /\ users' = [users EXCEPT ![req[q].sub] = Upserted(q)]
    /\ req' = [req EXCEPT ![q].pc = "respond", ![q].outcome = "internal_error",
                          ![q].lost = users' # users]
    /\ UNCHANGED <<jar, flow, audit, building, tasks>>

\* The page reaches the browser, and clears the cookies whatever it says.
Respond(q) ==
    /\ req[q].pc = "respond" /\ req[q].kind = "callback"
    /\ GoTo(q, "done")
    /\ jar' = [jar EXCEPT ![req[q].browser] = Null]
    /\ UNCHANGED <<users, flow, audit, building, tasks>>

-----------------------------------------------------------------------------
(* Bearer requests *)

\* A request brings a token for a subject, or none.
Bearer(q) ==
    /\ req[q].pc = "idle"
    /\ \/ \E s \in Subjects :
            req' = [req EXCEPT ![q] = [@ EXCEPT !.kind = "bearer", !.sub = s,
                                                !.barred = Inactive, !.pc = "authority"]]
       \/ req' = [req EXCEPT ![q] = [@ EXCEPT !.kind = "bearer", !.pc = "done",
                                              !.outcome = "missing_token"]]
    /\ UNCHANGED <<users, jar, flow, audit, building, tasks>>

\* get_or_try_init: the authority is there, or this request is the one to
\* build it.
GetAuthority(q) ==
    /\ req[q].pc = "authority"
    /\ \/ Built /\ GoTo(q, "verify") /\ UNCHANGED building
       \/ ~Built /\ building = Null /\ GoTo(q, "building") /\ building' = q
    /\ UNCHANGED <<users, jar, flow, audit, tasks>>

\* new_from_url fetches the keys, then the refresh task is spawned and the
\* cell is set; after a failure the next request tries again.
BuildAuthority(q) ==
    /\ req[q].pc = "building"
    /\ building' = Null
    /\ \/ GoTo(q, "verify") /\ tasks' = tasks + 1
       \/ Conclude(q, "record", "internal_error") /\ UNCHANGED tasks
    /\ UNCHANGED <<users, jar, flow, audit>>

\* verify_token: the claims hold, or do not, or the key is not known yet.
VerifyToken(q) ==
    /\ req[q].pc = "verify"
    /\ \/ GoTo(q, "resolve")
       \/ GoTo(q, "refresh")
       \/ Conclude(q, "record", "invalid_token")
    /\ UNCHANGED <<users, jar, flow, audit, building, tasks>>

\* refresh, and verify_token once more.
Refresh(q) ==
    /\ req[q].pc = "refresh"
    /\ GoTo(q, "resolve") \/ Conclude(q, "record", "invalid_token")
    /\ UNCHANGED <<users, jar, flow, audit, building, tasks>>

\* resolve_registered: find_by_sub and the active check.
Resolve(q) ==
    LET row == users[req[q].sub]
    IN  /\ req[q].pc = "resolve"
        /\ \/ row # Null /\ row.active /\ Conclude(q, "done", "ok")
           \/ row # Null /\ ~row.active /\ Conclude(q, "record", "inactive_user")
           \/ row = Null /\ Conclude(q, "record", "not_registered")
           \/ Conclude(q, "record", "internal_error")
        /\ UNCHANGED <<users, jar, flow, audit, building, tasks>>

-----------------------------------------------------------------------------
(* Records, dropped requests and the operator *)

\* record_signup, record_auth_denied: a failed INSERT is only logged.
StoreRecord(q) ==
    /\ req[q].pc = "record"
    /\ LET next == IF req[q].kind = "callback" THEN "respond" ELSE "done"
       IN  \/ audit' = audit \cup {RecordOf(q)} /\ GoTo(q, next)
           \/ UNCHANGED audit /\ req' = [req EXCEPT ![q].pc = next, ![q].lost = TRUE]
    /\ UNCHANGED <<users, jar, flow, building, tasks>>

\* The client goes away and the handler is dropped at its await.  An upsert
\* under way may still be done; the cell's initialiser is free again.
Drop(q) ==
    /\ req[q].pc \notin {"idle", "done", "dropped"}
    /\ GoTo(q, "dropped")
    /\ \/ UNCHANGED users
       \/ /\ req[q].pc = "upsert" /\ ~EmailTaken(q)
          /\ users' = [users EXCEPT ![req[q].sub] = Upserted(q)]
    /\ building' = IF building = q THEN Null ELSE building
    /\ UNCHANGED <<jar, flow, audit, tasks>>

Deactivate(s) ==
    /\ users[s] # Null /\ users[s].active
    /\ users' = [users EXCEPT ![s].active = FALSE]
    /\ UNCHANGED <<jar, flow, req, audit, building, tasks>>

Step(q) ==
    \/ Exchange(q) \/ ExchangeFails(q)
    \/ Find(q) \/ Upsert(q) \/ StoreFails(q)
    \/ GetAuthority(q) \/ BuildAuthority(q)
    \/ VerifyToken(q) \/ Refresh(q) \/ Resolve(q)
    \/ StoreRecord(q)

Finished == (\A q \in Requests : req[q].pc \in {"done", "dropped"}) /\ UNCHANGED vars

Next ==
    \/ \E f \in Flows : Login(f) \/ Redirected(f) \/ Authorise(f)
    \/ \E b \in Browsers : Expire(b)
    \/ \E q \in Requests : Callback(q) \/ Bearer(q) \/ Step(q) \/ Respond(q) \/ Drop(q)
    \/ \E s \in Subjects : Deactivate(s)
    \/ Finished

Spec == Init /\ [][Next]_vars

-----------------------------------------------------------------------------
(* Correctness *)

\* A code is redeemed only for the browser whose login it answers, and the
\* login is then for the account that agreed to it: a redirect URL is worth
\* nothing in another browser, or in its own after the page has cleared the
\* cookies or another login has replaced them.
CodeStaysWithBrowser ==
    \A f \in Flows, q \in Requests :
        flow[f].spent_by = q =>
            /\ req[q].browser = flow[f].browser
            /\ req[q].sub \in {Null, flow[f].sub}

\* Every user was let in by the signup policy, under the email the row
\* carries; the policy is asked before the upsert, by another statement, and
\* not at all for a subject that is found.
UsersWereAllowed == \A s \in Subjects : users[s] # Null => users[s].email \in Allowed

\* docs/architecture/auth.md: an inactive user is refused everywhere.  Who was
\* inactive when a request came is not let in by it, and a login does not
\* make anybody active again.
InactiveStayOut ==
    /\ \A q \in Requests : req[q].outcome = "ok" => req[q].sub \notin req[q].barred
    /\ \A q \in Requests : req[q].barred \subseteq Inactive

\* What the audit says of a login is what was done: ok for a subject that has
\* a row, a denial by the policy for a callback that inserted none, and the
\* page agrees with the record.  Who has a row also has the record of the
\* callback that inserted it, unless that was dropped or something it sent to
\* the database went unanswered.
SignupsAreRecorded ==
    /\ \A r \in audit : r.event = "signup" =>
         /\ r.outcome = "ok" => users[r.sub] # Null
         /\ r.outcome = "signup_not_allowed" =>
              \A s \in Subjects : users[s] # Null => users[s].by # r.request
         /\ req[r.request].outcome = r.outcome
    /\ \A s \in Subjects : users[s] # Null =>
         LET q == users[s].by
         IN  req[q].pc \in {"respond", "done"} => req[q].lost \/ RecordOf(q) \in audit

=============================================================================
