---------------------------- MODULE EgressProofs ----------------------------
(***************************************************************************)
(* Proofs about Egress, for any credentials, names, addresses and calls.   *)
(*                                                                         *)
(* What a call talks to was guarded when it was looked up, which may have  *)
(* been long ago and by another call: the inductive invariant says of      *)
(* every place that keeps an address or a client (a call, the cache of     *)
(* clients, open connections, the pools) what was known when it was put    *)
(* there.  It lasts because a registered credential does not change and    *)
(* the addresses a name has had only grow.                                 *)
(***************************************************************************)
EXTENDS Egress, TLAPS

\* An address that a call of credential o may talk to.
Fit(a, o) == a \in Known(o.host) /\ (o.private \/ a \notin Blocked)

\* A client that serves credential o.
Serves(client, o) == client.guarded = ~o.private /\ client.ca = o.ca

CallOK(k) ==
    call[k].pc # "idle" =>
        /\ call[k].cred \in Credentials /\ call[k].db \in Databases
        /\ Of(k) # Null
        /\ call[k].pc \in {"build", "send", "connect", "sent"} => UrlAllowed(Of(k))
        /\ call[k].pc \in {"send", "connect", "sent"} =>
              call[k].client \in Client /\ Serves(call[k].client, Of(k))
        /\ call[k].pc = "connect" => \A a \in call[k].addrs : Fit(a, Of(k))
        /\ call[k].pc \in {"sent", "pool", "new", "query"} =>
              call[k].addr \in Addresses /\ Fit(call[k].addr, Of(k))

NamesOK == \A n \in Names : dns[n] \subseteq resolved[n]

ClientsOK ==
    \A c \in Credentials, private \in BOOLEAN : tls[<<c, private>>] # Null =>
        /\ credential[c] # Null /\ private = credential[c].private
        /\ Serves(tls[<<c, private>>], credential[c])

IdleOK ==
    \A x \in idle : x.addr \in Known(x.host) /\ (x.client.guarded => x.addr \notin Blocked)

PoolsOK ==
    \A c \in Credentials, d \in Databases : pools[<<c, d>>] # Null =>
        credential[c] # Null /\ Fit(pools[<<c, d>>], credential[c])

IInv ==
    /\ TypeOK /\ NamesOK
    /\ \A k \in Calls : CallOK(k)
    /\ ClientsOK /\ IdleOK /\ PoolsOK

-----------------------------------------------------------------------------
(* Types *)

LEMMA InitIInv == Init => IInv
  BY EgressAssumption DEF Init, IInv, TypeOK, CallState, Idle, NamesOK, CallOK, ClientsOK, IdleOK, PoolsOK

\* A shared client serves the credentials without a CA.
LEMMA SharedServes ==
  ASSUME NEW o \in Offers, o.ca = Null
  PROVE  SharedClient(o.private) \in Client /\ Serves(SharedClient(o.private), o)
  BY EgressAssumption DEF SharedClient, Client, Serves

LEMMA NewClientServes ==
  ASSUME NEW k \in Calls, Of(k) \in Offers
  PROVE  NewClient(k) \in Client /\ Serves(NewClient(k), Of(k))
  BY EgressAssumption DEF NewClient, Client, Serves

\* The host of an offer resolves to addresses it has had.
LEMMA LookupKnown ==
  ASSUME TypeOK, NamesOK, NEW o \in Offers
  PROVE  /\ Lookup(o.host) \subseteq Known(o.host)
         /\ Lookup(o.host) \subseteq Addresses
  BY EgressAssumption DEF TypeOK, NamesOK, Lookup, Known, Hosts

\* The credential of a call that has found one.
LEMMA OfOffer ==
  ASSUME TypeOK, NEW k \in Calls, CallOK(k), call[k].pc # "idle"
  PROVE  /\ call[k].cred \in Credentials /\ call[k].db \in Databases
         /\ Of(k) \in Offers /\ Of(k).private \in BOOLEAN
         /\ Key(k) \in Credentials \X BOOLEAN
  BY EgressAssumption DEF TypeOK, CallOK, Of, Key

\* A step of a call gives it state r and leaves the names and rows alone.
LEMMA OneCallMoves ==
  ASSUME TypeOK, \A j \in Calls : CallOK(j), NEW k \in Calls, NEW r \in CallState,
         UNCHANGED <<resolved, credential>>,
         call' = [call EXCEPT ![k] = r],
         CallOK(k)'
  PROVE  /\ call' \in [Calls -> CallState]
         /\ \A j \in Calls : CallOK(j)'
<1>1. call' \in [Calls -> CallState] /\ \A j \in Calls \ {k} : call'[j] = call[j]
  BY DEF TypeOK
<1>2. \A j \in Calls \ {k} : CallOK(j)'
  BY <1>1 DEF CallOK, Of, Fit, Known, UrlAllowed
<1> QED BY <1>1, <1>2

-----------------------------------------------------------------------------
(* Steps of calls *)

LEMMA ArriveIInv ==
  ASSUME IInv, NEW k \in Calls, Arrive(k)  PROVE IInv'
<1> USE DEF IInv
<1>1. PICK c \in Credentials, d \in Databases :
        /\ credential[c] # Null
        /\ call' = [call EXCEPT ![k].pc = credential[c].kind, ![k].cred = c, ![k].db = d]
  BY DEF Arrive
<1>2. credential[c] \in Offers /\ credential[c].kind \in {"http", "sql"}
  BY <1>1, EgressAssumption DEF TypeOK
<1> DEFINE r == [call[k] EXCEPT !.pc = credential[c].kind, !.cred = c, !.db = d]
<1>3. r \in CallState /\ call' = [call EXCEPT ![k] = r] /\ call'[k] = r
  BY <1>1, <1>2 DEF TypeOK, CallState
<1>4. CallOK(k)'
  BY <1>1, <1>2, <1>3 DEF Arrive, CallOK, Of, TypeOK, CallState
<1>5. call' \in [Calls -> CallState] /\ \A j \in Calls : CallOK(j)'
  BY <1>3, <1>4, OneCallMoves DEF Arrive
<1> QED
  BY <1>5 DEF Arrive, TypeOK, NamesOK, ClientsOK, IdleOK, PoolsOK, Known, Fit

\* A call gets its client.
LEMMA GetsClient ==
  ASSUME IInv, NEW k \in Calls, call[k].pc \in {"http", "build"}, UrlAllowed(Of(k)),
         NEW client \in Client, Serves(client, Of(k)),
         UNCHANGED <<resolved, credential>>,
         call' = [call EXCEPT ![k].pc = "send", ![k].client = client]
  PROVE  /\ call' \in [Calls -> CallState]
         /\ \A j \in Calls : CallOK(j)'
<1> USE DEF IInv
<1> DEFINE r == [call[k] EXCEPT !.pc = "send", !.client = client]
<1>1. call[k] \in CallState /\ call[k].pc # "idle"
  BY DEF TypeOK
<1>2. r \in CallState /\ call' = [call EXCEPT ![k] = r] /\ call'[k] = r
  BY <1>1 DEF TypeOK, CallState
<1>3. /\ call'[k].pc = "send" /\ call'[k].client = client
      /\ call'[k].cred = call[k].cred /\ call'[k].db = call[k].db
  BY <1>1, <1>2 DEF CallState
<1>4. CallOK(k)'
  BY <1>1, <1>3 DEF CallOK, Of, UrlAllowed, Serves
<1> QED
  BY <1>2, <1>4, OneCallMoves

LEMMA ChooseClientIInv ==
  ASSUME IInv, NEW k \in Calls, ChooseClient(k)  PROVE IInv'
<1> USE DEF IInv
<1>1. /\ Of(k) \in Offers /\ call[k].cred \in Credentials /\ Of(k).private \in BOOLEAN
      /\ Key(k) \in Credentials \X BOOLEAN
  BY OfOffer DEF ChooseClient
<1>2. call' \in [Calls -> CallState] /\ \A j \in Calls : CallOK(j)'
  <2>1. CASE /\ Of(k).ca = Null
             /\ call' = [call EXCEPT ![k].pc = "send",
                                     ![k].client = SharedClient(Of(k).private)]
    BY <1>1, <2>1, SharedServes, GetsClient DEF ChooseClient
  <2>2. CASE /\ Of(k).ca # Null /\ tls[Key(k)] # Null
             /\ call' = [call EXCEPT ![k].pc = "send", ![k].client = tls[Key(k)]]
    <3>1. tls[Key(k)] \in Client /\ Serves(tls[Key(k)], Of(k))
      BY <1>1, <2>2 DEF TypeOK, ClientsOK, Key, Of
    <3> QED
      BY <2>2, <3>1, GetsClient DEF ChooseClient
  <2>3. CASE call' = [call EXCEPT ![k].pc = "build"]
    <3> DEFINE r == [call[k] EXCEPT !.pc = "build"]
    <3>1. call[k] \in CallState /\ call[k].pc = "http"
      BY DEF TypeOK, ChooseClient
    <3>2. r \in CallState /\ call' = [call EXCEPT ![k] = r] /\ call'[k] = r
      BY <2>3, <3>1 DEF TypeOK, CallState
    <3>3. /\ call'[k].pc = "build" /\ call'[k].cred = call[k].cred
          /\ call'[k].db = call[k].db
      BY <3>1, <3>2 DEF CallState
    <3>4. CallOK(k)'
      BY <3>1, <3>3 DEF CallOK, Of, UrlAllowed, ChooseClient
    <3> QED
      BY <3>2, <3>4, OneCallMoves DEF ChooseClient
  <2> QED BY <2>1, <2>2, <2>3 DEF ChooseClient
<1> QED
  BY <1>2 DEF ChooseClient, TypeOK, NamesOK, ClientsOK, IdleOK, PoolsOK, Known, Fit

LEMMA BuildClientIInv ==
  ASSUME IInv, NEW k \in Calls, BuildClient(k)  PROVE IInv'
<1> USE DEF IInv
<1>1. /\ Of(k) \in Offers /\ call[k].cred \in Credentials /\ Of(k).private \in BOOLEAN
      /\ Key(k) \in Credentials \X BOOLEAN
  BY OfOffer DEF BuildClient
<1>2. NewClient(k) \in Client /\ Serves(NewClient(k), Of(k))
  BY <1>1, NewClientServes
<1>3. UrlAllowed(Of(k))
  BY DEF BuildClient, CallOK
<1>4. call' \in [Calls -> CallState] /\ \A j \in Calls : CallOK(j)'
  BY <1>2, <1>3, GetsClient DEF BuildClient
<1>5. TypeOK'
  BY <1>1, <1>2, <1>4 DEF BuildClient, TypeOK
<1>6. ClientsOK'
  <2> SUFFICES ASSUME NEW c \in Credentials, NEW private \in BOOLEAN,
                      tls'[<<c, private>>] # Null
               PROVE  /\ credential[c] # Null /\ private = credential[c].private
                      /\ Serves(tls'[<<c, private>>], credential[c])
    BY DEF BuildClient, ClientsOK, Serves
  <2>1. CASE <<c, private>> = Key(k)
    BY <1>1, <1>2, <2>1, EgressAssumption DEF BuildClient, TypeOK, Key, Of
  <2>2. CASE <<c, private>> # Key(k)
    BY <2>2 DEF BuildClient, TypeOK, ClientsOK
  <2> QED BY <2>1, <2>2
<1> QED
  BY <1>4, <1>5, <1>6 DEF BuildClient, NamesOK, IdleOK, PoolsOK, Known, Fit

\* A call gets an address to talk to, or to build a pool for.
LEMMA GetsAddress ==
  ASSUME IInv, NEW k \in Calls, NEW pc \in {"sent", "pool", "query"},
         call[k].pc # "idle", pc = "sent" => call[k].pc \in {"send", "connect"},
         NEW a \in Addresses, Fit(a, Of(k)),
         UNCHANGED <<resolved, credential>>,
         call' = [call EXCEPT ![k].pc = pc, ![k].addr = a]
  PROVE  /\ call' \in [Calls -> CallState]
         /\ \A j \in Calls : CallOK(j)'
<1> USE DEF IInv
<1> DEFINE r == [call[k] EXCEPT !.pc = pc, !.addr = a]
<1>1. call[k] \in CallState
  BY DEF TypeOK
<1>2. r \in CallState /\ call' = [call EXCEPT ![k] = r] /\ call'[k] = r
  BY <1>1 DEF TypeOK, CallState
<1>3. /\ call'[k].pc = pc /\ call'[k].addr = a /\ call'[k].client = call[k].client
      /\ call'[k].cred = call[k].cred /\ call'[k].db = call[k].db
  BY <1>1, <1>2 DEF CallState
<1>4. CallOK(k)'
  BY <1>3 DEF CallOK, Of, UrlAllowed, Serves, Fit, Known
<1> QED
  BY <1>2, <1>4, OneCallMoves

LEMMA ReuseIInv ==
  ASSUME IInv, NEW k \in Calls, Reuse(k)  PROVE IInv'
<1> USE DEF IInv
<1>1. PICK x \in idle : /\ x.client = call[k].client /\ x.host = Of(k).host
                        /\ call' = [call EXCEPT ![k].pc = "sent", ![k].addr = x.addr]
                        /\ idle' = idle \ {x}
  BY DEF Reuse
<1>2. x.addr \in Addresses /\ Fit(x.addr, Of(k))
  <2>1. Of(k).private \in BOOLEAN
    BY OfOffer DEF Reuse
  <2> QED
    BY <1>1, <2>1 DEF Reuse, TypeOK, Connection, IdleOK, CallOK, Serves, Fit
<1>3. call' \in [Calls -> CallState] /\ \A j \in Calls : CallOK(j)'
  BY <1>1, <1>2, GetsAddress DEF Reuse
<1> QED
  BY <1>1, <1>3 DEF Reuse, TypeOK, NamesOK, ClientsOK, IdleOK, PoolsOK, Known, Fit

LEMMA ResolveIInv ==
  ASSUME IInv, NEW k \in Calls, Resolve(k)  PROVE IInv'
<1> USE DEF IInv
<1> DEFINE r == [call[k] EXCEPT !.pc = "connect", !.addrs = Lookup(Of(k).host)]
<1>1. /\ Of(k) \in Offers /\ Of(k).private \in BOOLEAN
      /\ Lookup(Of(k).host) \subseteq Known(Of(k).host)
      /\ Lookup(Of(k).host) \subseteq Addresses
  BY OfOffer, LookupKnown DEF Resolve
<1>2. \A a \in Lookup(Of(k).host) : Fit(a, Of(k))
  <2>1. CASE Of(k).host \in Names
    BY <1>1, <2>1 DEF Resolve, AllAllowed, CallOK, Serves, Fit
  <2>2. CASE Of(k).host \notin Names
    BY <1>1, <2>2 DEF Resolve, CallOK, UrlAllowed, Lookup, Fit
  <2> QED BY <2>1, <2>2
<1>3. call[k] \in CallState /\ call[k].pc = "send"
  BY DEF TypeOK, Resolve
<1>4. r \in CallState /\ call' = [call EXCEPT ![k] = r] /\ call'[k] = r
  BY <1>1, <1>3 DEF TypeOK, CallState, Resolve
<1>5. /\ call'[k].pc = "connect" /\ call'[k].addrs = Lookup(Of(k).host)
      /\ call'[k].client = call[k].client
      /\ call'[k].cred = call[k].cred /\ call'[k].db = call[k].db
  BY <1>3, <1>4 DEF CallState
<1>6. CallOK(k)'
  <2>1. Of(k)' = Of(k) /\ \A a \in call'[k].addrs : Fit(a, Of(k))'
    BY <1>2, <1>5 DEF Resolve, Of, Fit, Known
  <2>2. /\ call[k].cred \in Credentials /\ call[k].db \in Databases /\ Of(k) # Null
        /\ UrlAllowed(Of(k)) /\ call[k].client \in Client
        /\ Serves(call[k].client, Of(k))
    BY <1>3 DEF CallOK
  <2>3. UrlAllowed(Of(k))' /\ Serves(call[k].client, Of(k))'
    BY <1>5, <2>1, <2>2 DEF UrlAllowed, Serves
  <2> QED
    BY <1>5, <2>1, <2>2, <2>3 DEF CallOK
<1>7. call' \in [Calls -> CallState] /\ \A j \in Calls : CallOK(j)'
  BY <1>4, <1>6, OneCallMoves DEF Resolve
<1> QED
  BY <1>7 DEF Resolve, TypeOK, NamesOK, ClientsOK, IdleOK, PoolsOK, Known, Fit

LEMMA ConnectIInv ==
  ASSUME IInv, NEW k \in Calls, Connect(k)  PROVE IInv'
<1> USE DEF IInv
<1>1. PICK a \in call[k].addrs : call' = [call EXCEPT ![k].pc = "sent", ![k].addr = a]
  BY DEF Connect
<1>2. a \in Addresses /\ Fit(a, Of(k))
  BY <1>1 DEF Connect, TypeOK, CallState, CallOK
<1>3. call' \in [Calls -> CallState] /\ \A j \in Calls : CallOK(j)'
  BY <1>1, <1>2, GetsAddress DEF Connect
<1> QED
  BY <1>3 DEF Connect, TypeOK, NamesOK, ClientsOK, IdleOK, PoolsOK, Known, Fit

LEMMA PrepareIInv ==
  ASSUME IInv, NEW k \in Calls, Prepare(k)  PROVE IInv'
<1> USE DEF IInv
<1>1. PICK a \in Lookup(Of(k).host) : call' = [call EXCEPT ![k].pc = "pool", ![k].addr = a]
  BY DEF Prepare
<1>2. a \in Addresses /\ Fit(a, Of(k))
  <2>1. /\ Of(k).private \in BOOLEAN /\ Lookup(Of(k).host) \subseteq Known(Of(k).host)
        /\ Lookup(Of(k).host) \subseteq Addresses
    BY OfOffer, LookupKnown DEF Prepare
  <2> QED BY <1>1, <2>1 DEF Prepare, AllAllowed, Fit
<1>3. call' \in [Calls -> CallState] /\ \A j \in Calls : CallOK(j)'
  BY <1>1, <1>2, GetsAddress DEF Prepare
<1> QED
  BY <1>3 DEF Prepare, TypeOK, NamesOK, ClientsOK, IdleOK, PoolsOK, Known, Fit

\* A call goes back to idle.
LEMMA EndMoves ==
  ASSUME IInv, NEW k \in Calls, UNCHANGED <<resolved, credential>>, End(k)
  PROVE  /\ call' \in [Calls -> CallState]
         /\ \A j \in Calls : CallOK(j)'
<1> USE DEF IInv
<1>1. Idle \in CallState
  BY DEF Idle, CallState
<1>2. call'[k] = Idle
  BY <1>1 DEF TypeOK, End
<1>3. CallOK(k)'
  BY <1>2 DEF CallOK, Idle
<1> QED
  BY <1>1, <1>3, OneCallMoves DEF End

LEMMA AnswerIInv ==
  ASSUME IInv, NEW k \in Calls, Answer(k)  PROVE IInv'
<1> USE DEF IInv
<1> DEFINE x == [client |-> call[k].client, host |-> Of(k).host, addr |-> call[k].addr]
<1>1. Of(k) \in Offers /\ Of(k).private \in BOOLEAN /\ Of(k).host \in Hosts
  BY OfOffer, EgressAssumption DEF Answer
<1>2. /\ call[k].client \in Client /\ call[k].addr \in Addresses
      /\ Serves(call[k].client, Of(k)) /\ Fit(call[k].addr, Of(k))
  BY DEF Answer, CallOK
<1>3. x \in Connection /\ x.addr \in Known(x.host)
      /\ (x.client.guarded => x.addr \notin Blocked)
  BY <1>1, <1>2 DEF Connection, Serves, Fit
<1>4. call' \in [Calls -> CallState] /\ \A j \in Calls : CallOK(j)'
  BY EndMoves DEF Answer
<1>5. idle' \subseteq Connection /\ IdleOK'
  BY <1>3 DEF Answer, TypeOK, IdleOK, Known
<1> QED
  BY <1>4, <1>5 DEF Answer, TypeOK, NamesOK, ClientsOK, PoolsOK, Known, Fit

LEMMA FindPoolIInv ==
  ASSUME IInv, NEW k \in Calls, FindPool(k)  PROVE IInv'
<1> USE DEF IInv
<1> DEFINE a == pools[<<call[k].cred, call[k].db>>]
<1>1. call[k].cred \in Credentials /\ call[k].db \in Databases
  BY OfOffer DEF FindPool
<1>2. call' \in [Calls -> CallState] /\ \A j \in Calls : CallOK(j)'
  <2>1. CASE a # Null /\ call' = [call EXCEPT ![k].pc = "query", ![k].addr = a]
    <3>1. a \in Addresses /\ Fit(a, Of(k))
      BY <1>1, <2>1 DEF TypeOK, PoolsOK, Of
    <3> QED
      BY <2>1, <3>1, GetsAddress DEF FindPool
  <2>2. CASE call' = [call EXCEPT ![k].pc = "new"]
    <3> DEFINE r == [call[k] EXCEPT !.pc = "new"]
    <3>1. call[k] \in CallState /\ call[k].pc = "pool"
      BY DEF TypeOK, FindPool
    <3>2. r \in CallState /\ call' = [call EXCEPT ![k] = r] /\ call'[k] = r
      BY <2>2, <3>1 DEF TypeOK, CallState
    <3>3. /\ call'[k].pc = "new" /\ call'[k].addr = call[k].addr
          /\ call'[k].cred = call[k].cred /\ call'[k].db = call[k].db
      BY <3>1, <3>2 DEF CallState
    <3>4. CallOK(k)'
      BY <3>1, <3>3 DEF CallOK, Of, Fit, Known, FindPool
    <3> QED
      BY <3>2, <3>4, OneCallMoves DEF FindPool
  <2> QED BY <2>1, <2>2 DEF FindPool
<1> QED
  BY <1>2 DEF FindPool, TypeOK, NamesOK, ClientsOK, IdleOK, PoolsOK, Known, Fit

LEMMA BuildPoolIInv ==
  ASSUME IInv, NEW k \in Calls, BuildPool(k)  PROVE IInv'
<1> USE DEF IInv
<1> DEFINE key == <<call[k].cred, call[k].db>>
<1>1. call[k].cred \in Credentials /\ call[k].db \in Databases /\ Of(k) # Null
  BY DEF BuildPool, CallOK
<1>2. call[k].addr \in Addresses /\ Fit(call[k].addr, Of(k))
  BY DEF BuildPool, CallOK
<1>3. call' \in [Calls -> CallState] /\ \A j \in Calls : CallOK(j)'
  <2>1. call' = [call EXCEPT ![k].pc = "query", ![k].addr = call[k].addr]
    BY DEF BuildPool, TypeOK, CallState
  <2> QED
    BY <1>2, <2>1, GetsAddress DEF BuildPool
<1>4. PoolsOK'
  <2> SUFFICES ASSUME NEW c \in Credentials, NEW d \in Databases, pools'[<<c, d>>] # Null
               PROVE  credential[c] # Null /\ Fit(pools'[<<c, d>>], credential[c])
    BY DEF BuildPool, PoolsOK, Fit, Known
  <2>1. CASE <<c, d>> = key
    BY <1>1, <1>2, <2>1 DEF BuildPool, TypeOK, Of
  <2>2. CASE <<c, d>> # key
    BY <2>2 DEF BuildPool, TypeOK, PoolsOK
  <2> QED BY <2>1, <2>2
<1>5. TypeOK'
  BY <1>1, <1>2, <1>3 DEF BuildPool, TypeOK
<1> QED
  BY <1>3, <1>4, <1>5 DEF BuildPool, NamesOK, ClientsOK, IdleOK, Known, Fit

LEMMA LeaveIInv ==
  ASSUME IInv, NEW k \in Calls, Leave(k)  PROVE IInv'
  BY EndMoves DEF Leave, IInv, TypeOK, NamesOK, ClientsOK, IdleOK, PoolsOK, Known, Fit

-----------------------------------------------------------------------------
(* Other steps *)

LEMMA NameChangesIInv ==
  ASSUME IInv, NEW n \in Names, NameChanges(n)  PROVE IInv'
<1> USE DEF IInv
<1>1. TypeOK' /\ NamesOK'
  BY DEF NameChanges, TypeOK, NamesOK
<1>2. \A host \in Hosts : Known(host) \subseteq Known(host)'
  BY DEF NameChanges, TypeOK, Known
<1>3. \A o \in Offers, a \in Addresses : Fit(a, o) => Fit(a, o)'
  BY <1>2, EgressAssumption DEF Fit
<1>4. \A k \in Calls : CallOK(k)'
  <2> SUFFICES ASSUME NEW k \in Calls, call[k].pc # "idle"  PROVE CallOK(k)'
    BY DEF NameChanges, CallOK
  <2>1. Of(k) \in Offers /\ call[k].addrs \subseteq Addresses
    BY OfOffer DEF TypeOK, CallState
  <2> QED
    BY <1>3, <2>1 DEF NameChanges, CallOK, Of, UrlAllowed, Serves
<1>5. IdleOK'
  BY <1>2 DEF NameChanges, IdleOK, TypeOK, Connection
<1>6. PoolsOK'
  BY <1>3, EgressAssumption DEF NameChanges, PoolsOK, TypeOK
<1> QED
  BY <1>1, <1>4, <1>5, <1>6 DEF NameChanges, ClientsOK, Serves

LEMMA RegisterIInv ==
  ASSUME IInv, NEW c \in Credentials, Register(c)  PROVE IInv'
<1> USE DEF IInv
<1>1. TypeOK'
  BY DEF Register, TypeOK
<1>2. \A b \in Credentials : credential[b] # Null => credential'[b] = credential[b]
  BY DEF Register, TypeOK
<1>3. \A k \in Calls : CallOK(k)'
  BY <1>2 DEF Register, CallOK, Of, UrlAllowed, Serves, Fit, Known
<1>4. ClientsOK'
  BY <1>2 DEF Register, ClientsOK, Serves
<1>5. PoolsOK'
  BY <1>2 DEF Register, PoolsOK, Fit, Known
<1> QED
  BY <1>1, <1>3, <1>4, <1>5 DEF Register, NamesOK, IdleOK, Known

LEMMA CachesIInv ==
  ASSUME IInv,
         \/ \E key \in Credentials \X BOOLEAN : EvictClient(key)
         \/ \E key \in Credentials \X Databases : EvictPool(key)
         \/ CloseIdle
  PROVE  IInv'
<1> USE DEF IInv
<1>1. /\ UNCHANGED <<dns, resolved, credential, call>>
      /\ TypeOK' /\ idle' \subseteq idle
      /\ \A c \in Credentials, private \in BOOLEAN :
            tls'[<<c, private>>] # Null => tls'[<<c, private>>] = tls[<<c, private>>]
      /\ \A c \in Credentials, d \in Databases :
            pools'[<<c, d>>] # Null => pools'[<<c, d>>] = pools[<<c, d>>]
  BY DEF EvictClient, EvictPool, CloseIdle, TypeOK
<1>2. \A k \in Calls : CallOK(k)'
  BY <1>1 DEF CallOK, Of, UrlAllowed, Serves, Fit, Known
<1>3. ClientsOK'
  BY <1>1 DEF ClientsOK, Serves
<1>4. IdleOK'
  BY <1>1 DEF IdleOK, Known
<1>5. PoolsOK'
  BY <1>1 DEF PoolsOK, Fit, Known
<1> QED
  BY <1>1, <1>2, <1>3, <1>4, <1>5 DEF NamesOK

LEMMA RestartIInv ==
  ASSUME IInv, Restart  PROVE IInv'
<1> USE DEF IInv
<1>1. Idle \in CallState
  BY DEF Idle, CallState
<1>2. TypeOK'
  BY <1>1 DEF Restart, TypeOK
<1> QED
  BY <1>2 DEF Restart, NamesOK, CallOK, Idle, ClientsOK, IdleOK, PoolsOK

-----------------------------------------------------------------------------
(* The invariant and what follows from it *)

LEMMA NextIInv ==
  ASSUME IInv, [Next]_vars  PROVE IInv'
<1>1. CASE \E n \in Names : NameChanges(n)
  BY <1>1, NameChangesIInv
<1>2. CASE \E c \in Credentials : Register(c)
  BY <1>2, RegisterIInv
<1>3. CASE \E k \in Calls : Arrive(k) \/ HttpStep(k) \/ SqlStep(k) \/ Leave(k)
  BY <1>3, ArriveIInv, ChooseClientIInv, BuildClientIInv, ReuseIInv, ResolveIInv,
     ConnectIInv, AnswerIInv, PrepareIInv, FindPoolIInv, BuildPoolIInv, LeaveIInv
  DEF HttpStep, SqlStep
<1>4. CASE \/ \E key \in Credentials \X BOOLEAN : EvictClient(key)
           \/ \E key \in Credentials \X Databases : EvictPool(key)
           \/ CloseIdle
  BY <1>4, CachesIInv
<1>5. CASE Restart
  BY <1>5, RestartIInv
<1>6. CASE UNCHANGED vars
  BY <1>6 DEF vars, IInv, TypeOK, NamesOK, CallOK, ClientsOK, IdleOK, PoolsOK,
              Of, UrlAllowed, Serves, Fit, Known
<1> QED
  BY <1>1, <1>2, <1>3, <1>4, <1>5, <1>6 DEF Next

LEMMA InvariantHolds == Spec => []IInv
<1>1. IInv /\ [Next]_vars => IInv'
  BY NextIInv
<1> QED BY InitIInv, <1>1, PTL DEF Spec

\* The state of every call, cache and connection is of its type.
THEOREM TypeCorrect == Spec => []TypeOK
<1>1. IInv => TypeOK
  BY DEF IInv
<1> QED BY <1>1, InvariantHolds, PTL

\* However names change and whatever is cached or kept open: only a credential
\* that has opted in leads a call to a private address (GuardedResolver,
\* ensure_url_allowed, select_postgres_addr).
THEOREM PrivateNeedsOptIn == Spec => []OnlyOptedInReachPrivate
<1>1. IInv => OnlyOptedInReachPrivate
  BY DEF IInv, OnlyOptedInReachPrivate, Talking, CallOK, Fit
<1> QED BY <1>1, InvariantHolds, PTL

\* A call reaches only addresses that its own credential's host has had,
\* although clients are shared and connections and pools are reused.
THEOREM HostsAreNotMixed == Spec => []ReachesOwnHost
<1>1. IInv => ReachesOwnHost
  BY DEF IInv, ReachesOwnHost, Talking, CallOK, Fit
<1> QED BY <1>1, InvariantHolds, PTL

\* The CA that an HTTP call trusts is its credential's (cached_tls_client).
THEOREM AuthoritiesAreNotMixed == Spec => []TrustsOwnAuthority
<1>1. IInv => TrustsOwnAuthority
  BY DEF IInv, TrustsOwnAuthority, CallOK, Serves
<1> QED BY <1>1, InvariantHolds, PTL
=============================================================================
