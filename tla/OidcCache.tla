------------------------------ MODULE OidcCache ------------------------------
(***************************************************************************)
(* The browser login's cache of provider metadata and signing keys         *)
(* (api/src/auth/oidc.rs) and the callback that verifies an ID token with  *)
(* it (api/src/auth/oauth_exchange.rs).                                    *)
(*                                                                         *)
(* Readers take the cache as it is.  Network I/O happens under a gate, the *)
(* refresh mutex: a request that gets the gate looks again, and goes to    *)
(* the provider only if no attempt ended since it looked first.  A request *)
(* whose caller goes away is dropped at its next await, which lets go of   *)
(* the gate.                                                               *)
(*                                                                         *)
(* The provider publishes the signing keys lo..hi, numbered as they were   *)
(* made, and signs with hi.  Time is counted in discovery TTLs of Ttl      *)
(* ticks.  The text of the last failure, kept for error messages, is left  *)
(* out.                                                                    *)
(***************************************************************************)
EXTENDS Naturals

CONSTANTS
    Browsers,   \* GET /login and GET /callback requests
    Null,
    Ttl,        \* METADATA_CACHE_TTL, in ticks
    MaxKey,     \* bound: keys the provider ever makes
    MaxNow      \* bound: ticks

ASSUME OidcAssumption ==
    /\ Ttl \in Nat /\ MaxKey \in Nat /\ MaxNow \in Nat
    /\ Null \notin Browsers

VARIABLES
    published,  \* the keys the provider publishes
    now,
    cached,     \* MetadataCache.cached
    attempt,    \* MetadataCache.attempt
    gate,       \* the request that holds the refresh mutex
    pc,
    kind,       \* which page a request is for
    observed,   \* metadata(): the cache as first read
    snap,       \* the OidcSnapshot a request works with
    answer,     \* the keys the provider answered, Null for a failure
    token,      \* the key the ID token is signed with
    refreshed,  \* how the request's own JWKS fetch ended
    reply

vars == <<published, now, cached, attempt, gate, pc, kind, observed, snap,
          answer, token, refreshed, reply>>

provider == <<published, now>>

Keys == {k \in [lo : 0 .. MaxKey, hi : 0 .. MaxKey] : k.lo <= k.hi}

CachedMetadata == [keys : Keys, fetched_at : 0 .. MaxNow]

\* What a request has seen of the cache
Observed == [cached : {Null} \cup CachedMetadata, attempt : Nat]

ASSUME NullAssumption == Null \notin CachedMetadata \cup Observed
ASSUME NullIsNoKey == Null \notin 0 .. MaxKey

PCs == {"idle", "read", "gate", "discover", "discovered", "exchange",
        "refresh", "fetch", "fetched", "userinfo", "done"}

TypeOK ==
    /\ published \in Keys
    /\ now \in 0 .. MaxNow
    /\ cached \in {Null} \cup CachedMetadata
    /\ attempt \in Nat
    /\ gate \in {Null} \cup Browsers
    /\ pc \in [Browsers -> PCs]
    /\ kind \in [Browsers -> {"login", "callback"}]
    /\ observed \in [Browsers -> {Null} \cup Observed]
    /\ snap \in [Browsers -> {Null} \cup [cached : CachedMetadata, attempt : Nat]]
    /\ answer \in [Browsers -> {Null} \cup Keys]
    /\ token \in [Browsers -> {Null} \cup 0 .. MaxKey]
    /\ refreshed \in [Browsers -> {"no", "ok", "failed"}]
    /\ reply \in [Browsers -> {"none", "ok", "error", "bad_signature", "cancelled"}]

Init ==
    /\ published = [lo |-> 0, hi |-> 0]
    /\ now = 0
    /\ cached = Null
    /\ attempt = 0
    /\ gate = Null
    /\ pc = [b \in Browsers |-> "idle"]
    /\ kind = [b \in Browsers |-> "login"]
    /\ observed = [b \in Browsers |-> Null]
    /\ snap = [b \in Browsers |-> Null]
    /\ answer = [b \in Browsers |-> Null]
    /\ token = [b \in Browsers |-> Null]
    /\ refreshed = [b \in Browsers |-> "no"]
    /\ reply = [b \in Browsers |-> "none"]

-----------------------------------------------------------------------------

GoTo(b, where) ==
    /\ pc' = [pc EXCEPT ![b] = where]
    /\ UNCHANGED reply

Answer(b, code) ==
    /\ pc' = [pc EXCEPT ![b] = "done"]
    /\ reply' = [reply EXCEPT ![b] = code]

\* Mutant: cached metadata never ages.
FreshEver(c) == c # Null

Fresh(c) == c # Null /\ now - c.fetched_at <= Ttl

Verifies(key, keys) == key \in keys.lo .. keys.hi

\* snapshot(cache), and what the request does with it: /login builds its
\* redirect, /callback goes on to exchange the code.
TakeSnapshot(b, c, a) ==
    IF c = Null THEN Answer(b, "error") /\ UNCHANGED snap
    ELSE /\ snap' = [snap EXCEPT ![b] = [cached |-> c, attempt |-> a]]
         /\ IF kind[b] = "login" THEN Answer(b, "ok") ELSE GoTo(b, "exchange")

\* id_token.claims with a refreshed verifier.
Reverify(b, keys) ==
    IF Verifies(token[b], keys) THEN GoTo(b, "userinfo") ELSE Answer(b, "bad_signature")

-----------------------------------------------------------------------------
(* The provider *)

Rotate ==
    /\ published.hi < MaxKey
    /\ published' = [published EXCEPT !.hi = @ + 1]
    /\ UNCHANGED <<now, cached, attempt, gate, pc, kind, observed, snap, answer,
                   token, refreshed, reply>>

Withdraw ==
    /\ published.lo < published.hi
    /\ published' = [published EXCEPT !.lo = @ + 1]
    /\ UNCHANGED <<now, cached, attempt, gate, pc, kind, observed, snap, answer,
                   token, refreshed, reply>>

Tick ==
    /\ now < MaxNow
    /\ now' = now + 1
    /\ UNCHANGED <<published, cached, attempt, gate, pc, kind, observed, snap, answer,
                   token, refreshed, reply>>

-----------------------------------------------------------------------------
(* metadata() *)

Arrive(b) ==
    /\ pc[b] = "idle"
    /\ \E k \in {"login", "callback"} : kind' = [kind EXCEPT ![b] = k]
    /\ GoTo(b, "read")
    /\ UNCHANGED <<provider, cached, attempt, gate, observed, snap, answer, token, refreshed>>

ReadCache(b) ==
    /\ pc[b] = "read"
    /\ observed' = [observed EXCEPT ![b] = [cached |-> cached, attempt |-> attempt]]
    /\ IF Fresh(cached) THEN TakeSnapshot(b, cached, attempt)
       ELSE GoTo(b, "gate") /\ UNCHANGED snap
    /\ UNCHANGED <<provider, cached, attempt, gate, kind, answer, token, refreshed>>

\* The gate is taken and the cache read again.
EnterGate(b) ==
    /\ pc[b] = "gate"
    /\ gate = Null
    /\ IF attempt # observed[b].attempt \/ Fresh(cached)
       THEN TakeSnapshot(b, cached, attempt) /\ UNCHANGED gate
       ELSE /\ gate' = b
            /\ GoTo(b, "discover")
            /\ UNCHANGED snap
    /\ UNCHANGED <<provider, cached, attempt, kind, observed, answer, token, refreshed>>

Ask(b, from, to) ==
    /\ pc[b] = from
    /\ \E a \in {Null, published} : answer' = [answer EXCEPT ![b] = a]
    /\ GoTo(b, to)
    /\ UNCHANGED <<provider, cached, attempt, gate, kind, observed, snap, token, refreshed>>

\* discover(): the provider answers, or the request times out.
Discover(b) == Ask(b, "discover", "discovered")

\* A failed discovery leaves the cache as it was.
StoreDiscovery(b) ==
    LET c == IF answer[b] = Null THEN cached
             ELSE [keys |-> answer[b], fetched_at |-> now]
    IN  /\ pc[b] = "discovered"
        /\ gate' = Null
        /\ attempt' = attempt + 1
        /\ cached' = c
        /\ TakeSnapshot(b, c, attempt + 1)
        /\ UNCHANGED <<provider, kind, observed, answer, token, refreshed>>

-----------------------------------------------------------------------------
(* exchange_code_for_userinfo *)

\* Mutant: no refresh when the signature does not verify.
ExchangeOnce(b) ==
    /\ pc[b] = "exchange"
    /\ token' = [token EXCEPT ![b] = published.hi]
    /\ IF Verifies(published.hi, snap[b].cached.keys) THEN GoTo(b, "userinfo")
       ELSE Answer(b, "bad_signature")
    /\ UNCHANGED <<provider, cached, attempt, gate, kind, observed, snap, answer, refreshed>>

\* The provider signs the ID token with its newest key; it is verified with
\* the keys of the snapshot.
Exchange(b) ==
    /\ pc[b] = "exchange"
    /\ token' = [token EXCEPT ![b] = published.hi]
    /\ IF Verifies(published.hi, snap[b].cached.keys) THEN GoTo(b, "userinfo")
       ELSE GoTo(b, "refresh")
    /\ UNCHANGED <<provider, cached, attempt, gate, kind, observed, snap, answer, refreshed>>

\* The exchange fails, or a claim other than the signature is wrong.
ExchangeFails(b) ==
    /\ pc[b] = "exchange"
    /\ Answer(b, "error")
    /\ UNCHANGED <<provider, cached, attempt, gate, kind, observed, snap, answer,
                   token, refreshed>>

\* Mutant: every callback fetches, whatever ended since its snapshot.
RefreshKeysAlways(b) ==
    /\ pc[b] = "refresh"
    /\ gate = Null
    /\ gate' = b
    /\ GoTo(b, "fetch")
    /\ UNCHANGED <<provider, cached, attempt, kind, observed, snap, answer, token, refreshed>>

\* Mutant: the attempt is compared before the gate is taken, and not again.
RefreshKeysFree(b) ==
    /\ pc[b] = "refresh"
    /\ IF attempt # snap[b].attempt
       THEN /\ IF cached = Null THEN Answer(b, "error") ELSE Reverify(b, cached.keys)
            /\ UNCHANGED gate
       ELSE gate' = b /\ GoTo(b, "fetch")
    /\ UNCHANGED <<provider, cached, attempt, kind, observed, snap, answer, token, refreshed>>

\* refresh_jwks up to its I/O.
RefreshKeys(b) ==
    /\ pc[b] = "refresh"
    /\ gate = Null
    /\ IF attempt # snap[b].attempt
       THEN /\ IF cached = Null THEN Answer(b, "error") ELSE Reverify(b, cached.keys)
            /\ UNCHANGED gate
       ELSE gate' = b /\ GoTo(b, "fetch")
    /\ UNCHANGED <<provider, cached, attempt, kind, observed, snap, answer, token, refreshed>>

FetchKeys(b) == Ask(b, "fetch", "fetched")

\* refresh_jwks after its I/O: the keys are new, the age of the metadata is
\* not.
StoreKeys(b) ==
    /\ pc[b] = "fetched"
    /\ gate' = Null
    /\ attempt' = attempt + 1
    /\ \/ /\ answer[b] # Null
          /\ cached' = [keys |-> answer[b], fetched_at |-> snap[b].cached.fetched_at]
          /\ refreshed' = [refreshed EXCEPT ![b] = "ok"]
          /\ Reverify(b, answer[b])
       \/ /\ answer[b] = Null
          /\ refreshed' = [refreshed EXCEPT ![b] = "failed"]
          /\ Answer(b, "error")
          /\ UNCHANGED cached
    /\ UNCHANGED <<provider, kind, observed, snap, answer, token>>

\* at_hash, then the UserInfo request and its subject.
UserInfo(b) ==
    /\ pc[b] = "userinfo"
    /\ \E code \in {"ok", "error"} : Answer(b, code)
    /\ UNCHANGED <<provider, cached, attempt, gate, kind, observed, snap, answer,
                   token, refreshed>>

-----------------------------------------------------------------------------

\* Mutant: the gate is a flag that only an answer clears.
CancelHoldingGate(b) ==
    /\ pc[b] \notin {"idle", "done"}
    /\ Answer(b, "cancelled")
    /\ UNCHANGED <<provider, cached, attempt, gate, kind, observed, snap, answer,
                   token, refreshed>>

\* The browser goes away and the handler is dropped at an await; a guard it
\* holds is dropped with it.
Cancel(b) ==
    /\ pc[b] \notin {"idle", "done"}
    /\ Answer(b, "cancelled")
    /\ gate' = IF gate = b THEN Null ELSE gate
    /\ UNCHANGED <<provider, cached, attempt, kind, observed, snap, answer,
                   token, refreshed>>

Step(b) ==
    \/ ReadCache(b)
    \/ EnterGate(b)
    \/ Discover(b)
    \/ StoreDiscovery(b)
    \/ Exchange(b) \/ ExchangeFails(b)
    \/ RefreshKeys(b)
    \/ FetchKeys(b)
    \/ StoreKeys(b)
    \/ UserInfo(b)

Finished == (\A b \in Browsers : pc[b] = "done") /\ UNCHANGED vars

Next ==
    \/ Rotate \/ Withdraw \/ Tick
    \/ \E b \in Browsers : Arrive(b) \/ Step(b) \/ Cancel(b)
    \/ Finished

Spec == Init /\ [][Next]_vars

\* Handlers are polled, the gate is handed on, and every HTTP request of the
\* client ends within its 10 s timeout (api/src/main.rs).
FairSpec == Spec /\ \A b \in Browsers : WF_vars(Step(b))

-----------------------------------------------------------------------------
(* Correctness *)

\* A request that sees the attempt it has observed sees the metadata it has
\* observed: the check under the gate is enough to know that nothing was
\* stored in between, and StoreKeys, which writes back its own snapshot with
\* new keys, overwrites nothing it has not seen.
AttemptNamesCache ==
    \A b \in Browsers :
        /\ (observed[b] # Null /\ observed[b].attempt = attempt) => observed[b].cached = cached
        /\ (snap[b] # Null /\ snap[b].attempt = attempt) => snap[b].cached = cached

\* refresh_jwks: keys are refreshed at most once for callbacks that observed
\* the same attempt, be the refresh a success or a failure.
OneRefreshPerAttempt ==
    \A b, c \in Browsers :
        (/\ refreshed[b] # "no" /\ refreshed[c] # "no"
         /\ snap[b].attempt = snap[c].attempt) => b = c

\* Answers are stored in the order the provider gave them: cached keys are
\* never replaced by older ones, and never lost to a failure.
NoKeyRollback ==
    [][cached # Null =>
         /\ cached' # Null
         /\ cached'.keys.lo >= cached.keys.lo
         /\ cached'.keys.hi >= cached.keys.hi]_vars

\* Metadata past its TTL is handed out only to a request that saw a lookup
\* end, its own or another's, since it first looked.
StaleOnlyAfterAttempt ==
    [][\A b \in Browsers : snap'[b] # snap[b] =>
         \/ now - snap'[b].cached.fetched_at <= Ttl
         \/ snap'[b].attempt # observed'[b].attempt]_vars

\* No ID token is rejected for its signature before a lookup has ended that
\* the callback's snapshot did not have; and one rejected with keys its
\* callback fetched itself was signed with a key withdrawn since.
RejectionHasCause ==
    \A b \in Browsers : reply[b] = "bad_signature" =>
        /\ attempt > snap[b].attempt
        /\ refreshed[b] = "ok" => token[b] < published.lo

\* Every request is answered, whoever is dropped while holding the gate.
EveryRequestEnds == \A b \in Browsers : pc[b] # "idle" ~> pc[b] = "done"
=============================================================================
