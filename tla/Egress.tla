------------------------------- MODULE Egress -------------------------------
(***************************************************************************)
(* Where calls connect to: the address check of a registration             *)
(* (service/src/credential/target.rs), the HTTP clients and their guarded  *)
(* resolver (infra/src/http.rs), the guarded address of a Postgres target  *)
(* (infra/src/postgres.rs) and the pools that keep it (postgres_pool.rs).  *)
(*                                                                         *)
(* What a name resolves to may change between any two steps.  A host is a  *)
(* name, or an address written as one; Bracketed are the IPv6 literals,    *)
(* which the registration hands to the resolver with their brackets.       *)
(*                                                                         *)
(* A client is a value that names the call it was built by, for two calls  *)
(* that miss the cache together build one each.  The connections that it   *)
(* keeps open serve its later requests to the same host.  Of a pool only   *)
(* the address is kept, to which all its connections lead; the rest of it  *)
(* is TargetPool's.                                                        *)
(***************************************************************************)
EXTENDS Naturals, FiniteSets

CONSTANTS
    Credentials,
    Names,        \* host names
    Addresses,
    Blocked,      \* target_ip_is_blocked
    Bracketed,    \* IPv6 addresses
    Authorities,  \* CA bundles of credentials
    Calls,
    Databases,
    Offers,       \* what registrations ask for
    Null

Hosts == Names \cup Addresses

Client == [guarded : BOOLEAN, ca : {Null} \cup Authorities, by : {Null} \cup Calls]

Connection == [client : Client, host : Hosts, addr : Addresses]

ASSUME EgressAssumption ==
    /\ Blocked \subseteq Addresses /\ Bracketed \subseteq Addresses
    /\ Names \cap Addresses = {}
    /\ Null \notin Hosts
    /\ \A o \in Offers \cup Client : o # Null
    /\ Offers \subseteq
         [kind : {"http", "sql"}, host : Hosts, private : BOOLEAN, ca : {Null} \cup Authorities]

VARIABLES
    dns,         \* what each name resolves to
    resolved,    \* every address a name has resolved to
    credential,  \* registered credentials
    call,        \* the state of each call
    tls,         \* TargetHttpClients.cached_tls
    idle,        \* connections that HTTP clients keep open
    pools        \* TargetPgPools.cached

vars == <<dns, resolved, credential, call, tls, idle, pools>>

Idle == [pc |-> "idle", cred |-> Null, db |-> Null, client |-> Null,
         addrs |-> {}, addr |-> Null]

CallState ==
    [pc     : {"idle", "http", "build", "send", "connect", "sent",
               "sql", "pool", "new", "query"},
     cred   : {Null} \cup Credentials,
     db     : {Null} \cup Databases,
     client : {Null} \cup Client,
     addrs  : SUBSET Addresses,
     addr   : {Null} \cup Addresses]

TypeOK ==
    /\ dns \in [Names -> SUBSET Addresses]
    /\ resolved \in [Names -> SUBSET Addresses]
    /\ credential \in [Credentials -> {Null} \cup Offers]
    /\ call \in [Calls -> CallState]
    /\ tls \in [Credentials \X BOOLEAN -> {Null} \cup Client]
    /\ idle \subseteq Connection
    /\ pools \in [Credentials \X Databases -> {Null} \cup Addresses]

\* private_allowed and guarded_no_ca, which all credentials without a CA share.
SharedClient(private) == [guarded |-> ~private, ca |-> Null, by |-> Null]

Init ==
    /\ dns \in [Names -> SUBSET Addresses]
    /\ resolved = dns
    /\ credential = [c \in Credentials |-> Null]
    /\ call = [k \in Calls |-> Idle]
    /\ tls = [key \in Credentials \X BOOLEAN |-> Null]
    /\ idle = {}
    /\ pools = [key \in Credentials \X Databases |-> Null]

-----------------------------------------------------------------------------
(* Names and addresses *)

NameChanges(n) ==
    /\ \E addrs \in SUBSET Addresses :
          /\ dns' = [dns EXCEPT ![n] = addrs]
          /\ resolved' = [resolved EXCEPT ![n] = @ \cup addrs]
    /\ UNCHANGED <<credential, call, tls, idle, pools>>

\* Every address a host has had.
Known(host) == IF host \in Names THEN resolved[host] ELSE {host}

Lookup(host) == IF host \in Names THEN dns[host] ELSE {host}

\* Mutant: one good address is enough.
AnyAllowed(addrs, private) == addrs # {} /\ (private \/ ~(addrs \subseteq Blocked))

\* Every address is looked at, not only the one that will be used.
AllAllowed(addrs, private) == addrs # {} /\ (private \/ addrs \cap Blocked = {})

\* EndpointResolver::resolve; nothing resolves a bracketed address.
RegisterLookup(host) == IF host \in Bracketed THEN {} ELSE Lookup(host)

\* validate_register_target_ips, and the row is inserted.
Register(c) ==
    /\ credential[c] = Null
    /\ \E o \in Offers :
          /\ o.private \/ AllAllowed(RegisterLookup(o.host), FALSE)
          /\ credential' = [credential EXCEPT ![c] = o]
    /\ UNCHANGED <<dns, resolved, call, tls, idle, pools>>

-----------------------------------------------------------------------------
(* Calls *)

Of(k) == credential[call[k].cred]

End(k) == call' = [call EXCEPT ![k] = Idle]

\* A call has found its credential.
Arrive(k) ==
    /\ call[k].pc = "idle"
    /\ \E c \in Credentials, d \in Databases :
          /\ credential[c] # Null
          /\ call' = [call EXCEPT ![k].pc = credential[c].kind, ![k].cred = c, ![k].db = d]
    /\ UNCHANGED <<dns, resolved, credential, tls, idle, pools>>

\* ensure_url_allowed: names pass, the resolver will see to them.
UrlAllowed(o) == o.private \/ o.host \in Names \/ o.host \notin Blocked

Key(k) == <<call[k].cred, Of(k).private>>

\* Mutant: one client with a CA for all credentials.
ChooseAnyCached(k) ==
    /\ call[k].pc = "http"
    /\ UrlAllowed(Of(k))
    /\ \/ /\ Of(k).ca = Null
          /\ call' = [call EXCEPT ![k].pc = "send", ![k].client = SharedClient(Of(k).private)]
       \/ /\ Of(k).ca # Null
          /\ \E key \in DOMAIN tls :
                call' = IF tls[key] = Null THEN [call EXCEPT ![k].pc = "build"]
                        ELSE [call EXCEPT ![k].pc = "send", ![k].client = tls[key]]
    /\ UNCHANGED <<dns, resolved, credential, tls, idle, pools>>

\* request_for and client_for, up to the answer of the cache.
ChooseClient(k) ==
    /\ call[k].pc = "http"
    /\ UrlAllowed(Of(k))
    /\ \/ /\ Of(k).ca = Null
          /\ call' = [call EXCEPT ![k].pc = "send", ![k].client = SharedClient(Of(k).private)]
       \/ /\ Of(k).ca # Null
          /\ tls[Key(k)] # Null
          /\ call' = [call EXCEPT ![k].pc = "send", ![k].client = tls[Key(k)]]
       \/ /\ Of(k).ca # Null
          /\ tls[Key(k)] = Null
          /\ call' = [call EXCEPT ![k].pc = "build"]
    /\ UNCHANGED <<dns, resolved, credential, tls, idle, pools>>

\* build_client: guarded unless the credential has opted in, no redirects, no
\* proxy.
NewClient(k) == [guarded |-> ~Of(k).private, ca |-> Of(k).ca, by |-> k]

\* The rest of cached_tls_client; another call may have built one since.
BuildClient(k) ==
    /\ call[k].pc = "build"
    /\ tls' = [tls EXCEPT ![Key(k)] = NewClient(k)]
    /\ call' = [call EXCEPT ![k].pc = "send", ![k].client = NewClient(k)]
    /\ UNCHANGED <<dns, resolved, credential, idle, pools>>

\* The client has an open connection to the host.
Reuse(k) ==
    /\ call[k].pc = "send"
    /\ \E x \in idle :
          /\ x.client = call[k].client /\ x.host = Of(k).host
          /\ call' = [call EXCEPT ![k].pc = "sent", ![k].addr = x.addr]
          /\ idle' = idle \ {x}
    /\ UNCHANGED <<dns, resolved, credential, tls, pools>>

\* It has none: GuardedResolver or the system's resolver is asked for a name.
Resolve(k) ==
    LET addrs == Lookup(Of(k).host)
    IN  /\ call[k].pc = "send"
        /\ addrs # {}
        /\ Of(k).host \in Names => AllAllowed(addrs, ~call[k].client.guarded)
        /\ call' = [call EXCEPT ![k].pc = "connect", ![k].addrs = addrs]
        /\ UNCHANGED <<dns, resolved, credential, tls, idle, pools>>

\* The client tries the addresses until one answers.
Connect(k) ==
    /\ call[k].pc = "connect"
    /\ \E a \in call[k].addrs : call' = [call EXCEPT ![k].pc = "sent", ![k].addr = a]
    /\ UNCHANGED <<dns, resolved, credential, tls, idle, pools>>

\* Mutant: a redirect is followed, and an address in it is not looked up.
AnswerWithRedirect(k) ==
    /\ call[k].pc = "sent"
    /\ \E a \in Addresses : call' = [call EXCEPT ![k].addr = a]
    /\ UNCHANGED <<dns, resolved, credential, tls, idle, pools>>

\* The target answers, a redirect too is the answer.  The connection stays
\* open, or is closed.
Answer(k) ==
    /\ call[k].pc = "sent"
    /\ idle' \in {idle, idle \cup
                   {[client |-> call[k].client, host |-> Of(k).host, addr |-> call[k].addr]}}
    /\ End(k)
    /\ UNCHANGED <<dns, resolved, credential, tls, pools>>

\* prepare_postgres_target and select_postgres_addr: all addresses are guarded,
\* the first is taken.
Prepare(k) ==
    LET addrs == Lookup(Of(k).host)
    IN  /\ call[k].pc = "sql"
        /\ AllAllowed(addrs, Of(k).private)
        /\ \E first \in addrs : call' = [call EXCEPT ![k].pc = "pool", ![k].addr = first]
        /\ UNCHANGED <<dns, resolved, credential, tls, idle, pools>>

\* pool_for: a cached pool keeps the address it was built with.
FindPool(k) ==
    LET addr == pools[<<call[k].cred, call[k].db>>]
    IN  /\ call[k].pc = "pool"
        /\ \/ addr # Null /\ call' = [call EXCEPT ![k].pc = "query", ![k].addr = addr]
           \/ addr = Null /\ call' = [call EXCEPT ![k].pc = "new"]
        /\ UNCHANGED <<dns, resolved, credential, tls, idle, pools>>

BuildPool(k) ==
    /\ call[k].pc = "new"
    /\ pools' = [pools EXCEPT ![<<call[k].cred, call[k].db>>] = call[k].addr]
    /\ call' = [call EXCEPT ![k].pc = "query"]
    /\ UNCHANGED <<dns, resolved, credential, tls, idle>>

\* The statement is answered, or a step before fails: a URL or an address is
\* refused (also with target_private_network_blocked), nothing listens there,
\* the call takes too long, or its client goes away.
Leave(k) ==
    /\ call[k].pc # "idle"
    /\ End(k)
    /\ UNCHANGED <<dns, resolved, credential, tls, idle, pools>>

-----------------------------------------------------------------------------
(* Caches *)

\* time_to_idle has passed for a client or a pool, or a connection is closed.
EvictClient(key) ==
    /\ tls[key] # Null
    /\ tls' = [tls EXCEPT ![key] = Null]
    /\ UNCHANGED <<dns, resolved, credential, call, idle, pools>>

EvictPool(key) ==
    /\ pools[key] # Null
    /\ pools' = [pools EXCEPT ![key] = Null]
    /\ UNCHANGED <<dns, resolved, credential, call, tls, idle>>

CloseIdle ==
    /\ \E x \in idle : idle' = idle \ {x}
    /\ UNCHANGED <<dns, resolved, credential, call, tls, pools>>

\* The process starts again: rows are all that is left.
Restart ==
    /\ call' = [k \in Calls |-> Idle]
    /\ tls' = [key \in Credentials \X BOOLEAN |-> Null]
    /\ idle' = {}
    /\ pools' = [key \in Credentials \X Databases |-> Null]
    /\ UNCHANGED <<dns, resolved, credential>>

-----------------------------------------------------------------------------

HttpStep(k) ==
    \/ ChooseClient(k) \/ BuildClient(k)
    \/ Reuse(k) \/ Resolve(k) \/ Connect(k) \/ Answer(k)

SqlStep(k) == Prepare(k) \/ FindPool(k) \/ BuildPool(k)

Next ==
    \/ \E n \in Names : NameChanges(n)
    \/ \E c \in Credentials : Register(c)
    \/ \E k \in Calls : Arrive(k) \/ HttpStep(k) \/ SqlStep(k) \/ Leave(k)
    \/ \E key \in Credentials \X BOOLEAN : EvictClient(key)
    \/ \E key \in Credentials \X Databases : EvictPool(key)
    \/ CloseIdle
    \/ Restart

Spec == Init /\ [][Next]_vars

-----------------------------------------------------------------------------
(* Correctness *)

\* A call talks to the address it holds.
Talking(k) == call[k].pc \in {"sent", "query"}

\* docs/mcp/api-call-boundary.md: a private, loopback or link-local address is reached only for a
\* credential that has opted in, whatever its name resolved to before, now or
\* since: at registration, when a client or a pool was built, or when an
\* open connection was.
OnlyOptedInReachPrivate ==
    \A k \in Calls : Talking(k) /\ call[k].addr \in Blocked => Of(k).private

\* Clients are shared and cached, connections and pools are reused: a call
\* still reaches the host its own credential names, at an address this name
\* has had, and never one that another credential's name leads to alone.
ReachesOwnHost ==
    \A k \in Calls : Talking(k) => call[k].addr \in Known(Of(k).host)

\* An HTTP call trusts the CA of its own credential and that of no other.
TrustsOwnAuthority ==
    \A k \in Calls : call[k].pc = "sent" => call[k].client.ca = Of(k).ca
=============================================================================
