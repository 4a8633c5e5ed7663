-------------------------- MODULE TargetPoolProofs --------------------------
(***************************************************************************)
(* Proofs about TargetPool, for any number of calls, databases and         *)
(* connections of a pool.                                                  *)
(*                                                                         *)
(* A connection is held by one call at a time (Alone, Held), so what the   *)
(* call has set up on it stays until its query (Guarded).  What a session  *)
(* carries besides is of calls that were dropped, or is about to go with   *)
(* the connection (Left): BEGIN on such a session does not start afresh,   *)
(* and that is why the guard of a query has to count the transaction that  *)
(* an earlier call left open, which is read-only too.                      *)
(***************************************************************************)
EXTENDS TargetPool, FiniteSetTheorems, TLAPS

CallType == [pc    : {"idle", "done"} \cup Waiting \cup Statements,
             db    : {Null} \cup Databases,
             pool  : {Null} \cup Nat,
             conn  : {Null} \cup Slots,
             reply : {"none", "ok", "error", "cancelled"}]

Typed ==
    /\ call \in [Calls -> CallType]
    /\ cached \in [Databases -> {Null} \cup Nat]
    /\ pools \in Seq(Databases)
    /\ conns \in [Slots -> Conn]

CachedOK ==
    \A d \in Databases : cached[d] # Null =>
        cached[d] \in 1 .. Len(pools) /\ pools[cached[d]] = d

Placed(c) ==
    /\ call[c].pc \in {"lookup", "build", "prepare"} => call[c].db \in Databases
    /\ call[c].pc \in {"acquire"} \cup Statements =>
         /\ call[c].pool \in 1 .. Len(pools)
         /\ pools[call[c].pool] = call[c].db

Holding(c) ==
    call[c].pc \in Statements =>
        /\ call[c].conn \in Slots /\ call[c].conn[1] = call[c].pool
        /\ conns[call[c].conn].at = "held"

Guarded(c) ==
    /\ call[c].pc \in {"limit", "query", "commit"} => conns[call[c].conn].txn # Null
    /\ call[c].pc \in {"query", "commit"} => conns[call[c].conn].limit = c

Replied(c) == call[c].pc # "done" => call[c].reply = "none"

CallOK(c) == Placed(c) /\ Holding(c) /\ Guarded(c) /\ Replied(c)

Alone ==
    \A c, d \in Calls :
        (call[c].pc \in Statements /\ call[d].pc \in Statements /\ c # d)
        => call[c].conn # call[d].conn

Held(k) ==
    conns[k].at = "held" =>
        \E c \in Calls : call[c].pc \in Statements /\ call[c].conn = k

\* Whose transaction or limit a session carries, and why.
Left(k) ==
    /\ \A c \in Calls : c \in {conns[k].txn, conns[k].limit} =>
         \/ call[c].pc \in Statements /\ call[c].conn = k
         \/ call[c].reply = "cancelled"
         \/ conns[k].at = "returning" /\ conns[k].sent = "lost"
    /\ conns[k].at = "returning" =>
         /\ conns[k].sent \in {"nothing", "lost"} \cup Statements
         /\ conns[k].sent \in Statements =>
              conns[k].user \in Calls /\ call[conns[k].user].reply = "cancelled"

IInv ==
    /\ Typed /\ CachedOK /\ Alone
    /\ \A c \in Calls : CallOK(c)
    /\ \A k \in Slots : Held(k) /\ Left(k)

Others(c) == \A d \in Calls \ {c} : call'[d] = call[d]

-----------------------------------------------------------------------------

LEMMA InitIInv == Init => IInv
<1> SUFFICES ASSUME Init PROVE IInv
  OBVIOUS
<1>1. Typed
  BY DEF Init, Typed, CallType, Conn, Closed
<1>2. CachedOK /\ Alone
  BY DEF Init, CachedOK, Alone, Statements
<1>3. ASSUME NEW c \in Calls PROVE CallOK(c)
  BY DEF Init, CallOK, Placed, Holding, Guarded, Replied, Statements
<1>4. ASSUME NEW k \in Slots PROVE Held(k) /\ Left(k)
  BY PoolAssumption DEF Init, Held, Left, Closed
<1> QED BY <1>1, <1>2, <1>3, <1>4 DEF IInv

\* What a session does with a statement.
LEMMA AfterType ==
  ASSUME NEW s \in Conn, NEW c \in Calls, NEW statement \in Statements \cup {"nothing"}
  PROVE  /\ After(statement, s, c) \in Conn
         /\ After(statement, s, c).at = s.at
         /\ After(statement, s, c).txn \in {Null, s.txn, c}
         /\ After(statement, s, c).limit \in {Null, s.limit, c}
         /\ statement \notin {"begin", "limit"} =>
              After(statement, s, c).txn \in {Null, s.txn} /\ After(statement, s, c).limit \in {Null, s.limit}
         /\ statement = "begin" => After(statement, s, c).txn # Null
         /\ statement = "limit" =>
              After(statement, s, c).txn = s.txn /\ After(statement, s, c).limit = c
         /\ statement \in {"query", "nothing"} => After(statement, s, c) = s
         /\ statement \in {"commit", "rollback"} =>
              After(statement, s, c).txn = Null /\ After(statement, s, c).limit = Null
<1> USE PoolAssumption
<1>1. CASE statement = "begin"
  BY <1>1 DEF After, Conn
<1>2. CASE statement = "limit"
  BY <1>2 DEF After, Conn
<1>3. CASE statement \in {"commit", "rollback"}
  BY <1>3 DEF After, Conn
<1>4. CASE statement \in {"query", "nothing"}
  BY <1>4 DEF After, Conn
<1> QED BY <1>1, <1>2, <1>3, <1>4 DEF Statements

\* A step of c away from any connection.
LEMMA Aside ==
  ASSUME IInv, NEW c \in Calls, Typed', Others(c), UNCHANGED conns, CachedOK',
         call[c].pc \notin Statements \cup {"done"}, call'[c].pc \notin Statements,
         call'[c].pc # "done" => call'[c].reply = call[c].reply,
         \A p \in 1 .. Len(pools) : p \in 1 .. Len(pools') /\ pools'[p] = pools[p],
         Placed(c)'
  PROVE  IInv'
<1> USE DEF IInv, CallOK
<1>1. CallOK(c)'
  BY DEF Holding, Guarded, Replied, Statements
<1>2. ASSUME NEW d \in Calls \ {c} PROVE CallOK(d)'
  <2>1. call'[d] = call[d]
    BY DEF Others
  <2> QED BY <2>1 DEF Placed, Holding, Guarded, Replied
<1>3. Alone'
  BY DEF Alone, Others
<1>4. ASSUME NEW k \in Slots PROVE Held(k)' /\ Left(k)'
  <2>1. Held(k)'
    BY DEF Held, Others
  <2>2. call[c].reply = "none"
    BY DEF Replied
  <2>3. Left(k)'
    BY <2>2 DEF Left, Others
  <2> QED BY <2>1, <2>3
<1> QED BY <1>1, <1>2, <1>3, <1>4

\* A step of c on the connection it holds, which it keeps or gives back.
LEMMA OnConnection ==
  ASSUME IInv, NEW c \in Calls, call[c].pc \in Statements, NEW k \in Slots, call[c].conn = k,
         call' \in [Calls -> CallType], Others(c), UNCHANGED <<cached, pools>>,
         NEW s \in Conn, conns' = [conns EXCEPT ![k] = s],
         \/ /\ call'[c].pc \in Statements /\ s.at = "held" /\ call'[c].conn = k
            /\ call'[c].reply = call[c].reply /\ call'[c].pool = call[c].pool
            /\ call'[c].db = call[c].db
         \/ call'[c].pc = "done" /\ s.at = "returning",
         Guarded(c)', Left(k)'
  PROVE  IInv'
<1> USE DEF IInv, CallOK
<1>1. Typed' /\ CachedOK'
  BY DEF Typed, CachedOK
<1>2. conns'[k] = s /\ \A j \in Slots \ {k} : conns'[j] = conns[j]
  BY DEF Typed
<1>3. ASSUME NEW d \in Calls \ {c} PROVE CallOK(d)'
  <2>1. call'[d] = call[d]
    BY DEF Others
  <2>2. call[d].pc \in Statements => call[d].conn \in Slots /\ call[d].conn # k
    BY DEF Alone, Holding
  <2> QED BY <1>2, <2>1, <2>2 DEF Placed, Holding, Guarded, Replied, Statements
<1>4. CallOK(c)'
  <2>1. Placed(c)' /\ Holding(c)' /\ Replied(c)'
    BY <1>2 DEF Placed, Holding, Replied, Statements
  <2> QED BY <2>1
<1>5. Alone'
  BY DEF Alone, Others, Statements
<1>6. ASSUME NEW j \in Slots PROVE Held(j)' /\ Left(j)'
  <2>1. CASE j = k
    BY <1>2, <2>1 DEF Held
  <2>2. CASE j # k
    <3>1. Held(j)'
      BY <1>2, <2>2 DEF Held, Others
    <3>2. call[c].reply = "none"
      BY DEF Replied, Statements
    <3>3. Left(j)'
      BY <1>2, <2>2, <3>2 DEF Left, Others
    <3> QED BY <3>1, <3>3
  <2> QED BY <2>1, <2>2
<1> QED BY <1>1, <1>3, <1>4, <1>5, <1>6

-----------------------------------------------------------------------------
(* Up to a connection *)

\* A call before its connection ends.
LEMMA EndsEarly ==
  ASSUME IInv, NEW c \in Calls, call[c].pc \notin Statements \cup {"done"},
         NEW code \in {"error", "cancelled"}, Answer(c, code), UNCHANGED <<cached, pools, conns>>
  PROVE  IInv'
<1> USE DEF IInv
<1>1. /\ call' \in [Calls -> CallType] /\ Others(c) /\ call'[c].pc = "done"
  BY DEF Typed, CallType, Answer, Others
<1>2. Typed' /\ CachedOK' /\ Placed(c)'
  BY <1>1 DEF Typed, CachedOK, Placed, Statements
<1> QED BY <1>1, <1>2, Aside DEF Statements

LEMMA EarlyIInv ==
  ASSUME IInv, NEW c \in Calls, Arrive(c) \/ Prepare(c) \/ PrepareFails(c) \/ AcquireFails(c)
  PROVE  IInv'
<1> USE DEF IInv
<1>1. CASE PrepareFails(c) \/ AcquireFails(c)
  BY <1>1, EndsEarly DEF PrepareFails, AcquireFails, Statements
<1>2. CASE Arrive(c) \/ Prepare(c)
  <2>1. /\ call' \in [Calls -> CallType] /\ Others(c) /\ call'[c].pc \in {"prepare", "lookup"}
        /\ call'[c].reply = call[c].reply /\ call'[c].db \in Databases
        /\ call[c].pc \in {"idle", "prepare"} /\ UNCHANGED <<cached, pools, conns>>
    <3>1. CASE Arrive(c)
      <4>1. PICK d \in Databases : call' = [call EXCEPT ![c].pc = "prepare", ![c].db = d]
        BY <3>1 DEF Arrive
      <4>2. call \in [Calls -> CallType] /\ call[c] \in CallType
        BY DEF Typed
      <4>3. /\ [call[c] EXCEPT !.pc = "prepare", !.db = d] \in CallType
            /\ call' = [call EXCEPT ![c] = [call[c] EXCEPT !.pc = "prepare", !.db = d]]
        BY <4>1, <4>2 DEF CallType, Waiting
      <4> QED BY <3>1, <4>2, <4>3 DEF CallType, Arrive, Others
    <3>2. CASE Prepare(c)
      BY <3>2 DEF Typed, CallType, Prepare, Others, Waiting, CallOK, Placed
    <3> QED BY <1>2, <3>1, <3>2
  <2>2. Typed' /\ CachedOK' /\ Placed(c)'
    BY <2>1 DEF Typed, CachedOK, Placed, Statements
  <2> QED BY <2>1, <2>2, Aside DEF Statements
<1> QED BY <1>1, <1>2

LEMMA LookupIInv ==
  ASSUME IInv, NEW c \in Calls, Lookup(c)  PROVE IInv'
<1> USE DEF IInv
<1> DEFINE p == cached[call[c].db]
<1>1. /\ call[c].pc = "lookup" /\ call[c].db \in Databases /\ UNCHANGED <<cached, pools, conns>>
      /\ call' = IF p = Null THEN [call EXCEPT ![c].pc = "build"]
                 ELSE [call EXCEPT ![c].pc = "acquire", ![c].pool = p]
  BY DEF Lookup, CallOK, Placed
<1>2. p # Null => p \in Nat /\ p \in 1 .. Len(pools) /\ pools[p] = call[c].db
  BY <1>1 DEF Typed, CachedOK
<1> HIDE DEF p
<1>3. /\ call' \in [Calls -> CallType] /\ Others(c) /\ call'[c].reply = call[c].reply
      /\ \/ call'[c].pc = "build" /\ call'[c].db \in Databases
         \/ /\ call'[c].pc = "acquire" /\ call'[c].pool = p /\ p # Null
            /\ call'[c].db = call[c].db
  BY <1>1, <1>2 DEF Typed, CallType, Others, Waiting
<1>4. Typed' /\ CachedOK' /\ Placed(c)'
  BY <1>1, <1>2, <1>3 DEF Typed, CachedOK, Placed, Statements
<1> QED BY <1>1, <1>3, <1>4, Aside DEF Statements

LEMMA BuildIInv ==
  ASSUME IInv, NEW c \in Calls, Build(c)  PROVE IInv'
<1> USE DEF IInv
<1> DEFINE p == Len(pools) + 1
           d == call[c].db
<1>1. /\ call[c].pc = "build" /\ d \in Databases /\ UNCHANGED conns
      /\ pools' = Append(pools, d) /\ cached' = [cached EXCEPT ![d] = p]
      /\ call' = [call EXCEPT ![c].pc = "acquire", ![c].pool = p]
  BY DEF Build, CallOK, Placed
<1>2. /\ pools' \in Seq(Databases) /\ Len(pools') = p /\ pools'[p] = d
      /\ p \in Nat /\ p \in 1 .. Len(pools')
      /\ \A q \in 1 .. Len(pools) : q \in 1 .. Len(pools') /\ pools'[q] = pools[q]
  BY <1>1 DEF Typed
<1> HIDE DEF p
<1>3. /\ call' \in [Calls -> CallType] /\ Others(c) /\ call'[c].reply = call[c].reply
      /\ call'[c].pc = "acquire" /\ call'[c].pool = p /\ call'[c].db = d
  <2>1. call \in [Calls -> CallType] /\ call[c] \in CallType
    BY DEF Typed
  <2>2. /\ [call[c] EXCEPT !.pc = "acquire", !.pool = p] \in CallType
        /\ call' = [call EXCEPT ![c] = [call[c] EXCEPT !.pc = "acquire", !.pool = p]]
    BY <1>1, <1>2, <2>1 DEF CallType, Waiting
  <2> QED BY <2>1, <2>2 DEF CallType, Others
<1>4. Typed' /\ CachedOK' /\ Placed(c)'
  BY <1>1, <1>2, <1>3 DEF Typed, CachedOK, Placed, Statements
<1> QED BY <1>1, <1>2, <1>3, <1>4, Aside DEF Statements

\* A connection that is idle or closed is nobody's, and what its session
\* carries is of dropped calls.
LEMMA AcquireIInv ==
  ASSUME IInv, NEW c \in Calls, Acquire(c)  PROVE IInv'
<1> USE DEF IInv
<1>1. PICK k \in Slots :
        /\ k[1] = call[c].pool /\ conns[k].at \in {"idle", "closed"}
        /\ conns' = [conns EXCEPT ![k].at = "held"]
        /\ call' = [call EXCEPT ![c].pc = "begin", ![c].conn = k]
  BY DEF Acquire
<1>2. call[c].pc = "acquire" /\ UNCHANGED <<cached, pools>>
  BY DEF Acquire
<1>3. /\ conns' \in [Slots -> Conn] /\ conns'[k] = [conns[k] EXCEPT !.at = "held"]
      /\ \A j \in Slots \ {k} : conns'[j] = conns[j]
  <2>1. conns \in [Slots -> Conn] /\ conns' = [conns EXCEPT ![k] = [conns[k] EXCEPT !.at = "held"]]
    BY <1>1 DEF Typed
  <2>2. [conns[k] EXCEPT !.at = "held"] \in Conn
    BY <2>1 DEF Conn
  <2> QED BY <2>1, <2>2
<1>4. /\ call' \in [Calls -> CallType] /\ Others(c) /\ call'[c].pc = "begin"
      /\ call'[c].conn = k /\ call'[c].pool = call[c].pool /\ call'[c].db = call[c].db
      /\ call'[c].reply = call[c].reply /\ call[c].reply = "none"
  BY <1>1, <1>2 DEF Typed, CallType, Others, Statements, CallOK, Replied
<1>5. /\ conns'[k].at = "held" /\ conns'[k].txn = conns[k].txn
      /\ conns'[k].limit = conns[k].limit
  BY <1>3 DEF Typed, Conn
<1>6. \A d \in Calls : call[d].pc \in Statements => call[d].conn \in Slots \ {k}
  BY <1>1 DEF CallOK, Holding
<1>7. Typed' /\ CachedOK'
  BY <1>2, <1>3, <1>4 DEF Typed, CachedOK
<1>8. Alone'
  BY <1>2, <1>4, <1>6 DEF Alone, Others, Statements
<1>9. ASSUME NEW d \in Calls \ {c} PROVE CallOK(d)'
  <2>1. call'[d] = call[d]
    BY <1>4 DEF Others
  <2> QED BY <1>2, <1>3, <1>6, <2>1 DEF CallOK, Placed, Holding, Guarded, Replied, Statements
<1>10. CallOK(c)'
  BY <1>1, <1>2, <1>4, <1>5 DEF CallOK, Placed, Holding, Guarded, Replied, Statements
<1>11. ASSUME NEW j \in Slots PROVE Held(j)' /\ Left(j)'
  <2>1. CASE j = k
    <3>1. Held(j)'
      BY <1>4, <2>1 DEF Held, Statements
    <3>2. \A d \in Calls : d \in {conns[k].txn, conns[k].limit} => call[d].reply = "cancelled"
      BY <1>1, <1>6 DEF Left
    <3>3. Left(j)'
      BY <1>4, <1>5, <2>1, <3>2 DEF Left, Others
    <3> QED BY <3>1, <3>3
  <2>2. CASE j # k
    <3>1. conns'[j] = conns[j]
      BY <1>3, <2>2
    <3>2. Held(j)'
      BY <1>2, <1>4, <3>1 DEF Held, Others, Statements
    <3>3. Left(j)'
      BY <1>2, <1>4, <3>1 DEF Left, Others, Statements
    <3> QED BY <3>2, <3>3
  <2> QED BY <2>1, <2>2
<1> QED BY <1>7, <1>8, <1>9, <1>10, <1>11

-----------------------------------------------------------------------------
(* The transaction *)

\* What is known of a call's connection k while it waits for a statement.
LEMMA OwnConnection ==
  ASSUME IInv, NEW c \in Calls, call[c].pc \in Statements
  PROVE  /\ call[c].conn \in Slots /\ conns[call[c].conn] \in Conn
         /\ conns[call[c].conn].at = "held" /\ call[c].reply = "none"
         /\ \A d \in Calls : d \in {conns[call[c].conn].txn, conns[call[c].conn].limit} =>
              d = c \/ call[d].reply = "cancelled"
<1>1. call[c].conn \in Slots /\ conns[call[c].conn].at = "held" /\ call[c].reply = "none"
  BY DEF IInv, CallOK, Holding, Replied, Statements
<1>2. conns[call[c].conn] \in Conn
  BY <1>1 DEF IInv, Typed
<1> QED BY <1>1, <1>2 DEF IInv, Left, Alone

\* A statement is answered, or given up for ROLLBACK, and the next is sent.
LEMMA ProceedIInv ==
  ASSUME IInv, NEW c \in Calls, Begin(c) \/ Limit(c) \/ Query(c) \/ StatementFails(c)
  PROVE  IInv'
<1>0. PICK k \in Slots, statement \in {"begin", "limit", "query"} :
        call[c].conn = k /\ call[c].pc = statement
  BY OwnConnection DEF Begin, Limit, Query, StatementFails, Proceed, Statements
<1>1. /\ statement \in {"begin", "limit", "query"} /\ UNCHANGED <<cached, pools>>
      /\ \E next \in {"limit", "query", "commit", "rollback"} :
           /\ call' = [call EXCEPT ![c].pc = next]
           /\ next = "limit" <=> statement = "begin"
           /\ next = "query" => statement = "limit"
           /\ next = "commit" => statement = "query"
           /\ next # "rollback" => conns' = [conns EXCEPT ![k] = After(statement, @, c)]
           /\ next = "rollback" => UNCHANGED conns
  BY <1>0 DEF Begin, Limit, Query, StatementFails, Proceed, Answered
<1>2. PICK next \in {"limit", "query", "commit", "rollback"} :
           /\ call' = [call EXCEPT ![c].pc = next]
           /\ next = "limit" <=> statement = "begin"
           /\ next = "query" => statement = "limit"
           /\ next = "commit" => statement = "query"
           /\ next # "rollback" => conns' = [conns EXCEPT ![k] = After(statement, @, c)]
           /\ next = "rollback" => UNCHANGED conns
  BY <1>1
<1>3. /\ k \in Slots /\ conns[k] \in Conn /\ conns[k].at = "held" /\ call[c].reply = "none"
      /\ \A d \in Calls : d \in {conns[k].txn, conns[k].limit} =>
           d = c \/ call[d].reply = "cancelled"
  BY <1>0, <1>1, OwnConnection DEF Statements
<1>4. /\ call' \in [Calls -> CallType] /\ Others(c) /\ call'[c].pc = next
      /\ call'[c].conn = k /\ call'[c].reply = call[c].reply
      /\ call'[c].pool = call[c].pool /\ call'[c].db = call[c].db
  <2>1. call \in [Calls -> CallType] /\ call[c] \in CallType
    BY DEF IInv, Typed
  <2> QED BY <1>0, <1>2, <2>1 DEF CallType, Others, Statements
<1>5. PICK s \in Conn :
        /\ conns' = [conns EXCEPT ![k] = s] /\ s.at = "held"
        /\ s.txn \in {Null, conns[k].txn, c} /\ s.limit \in {Null, conns[k].limit, c}
        /\ next = "limit" => s.txn # Null
        /\ next = "query" => s.txn = conns[k].txn /\ s.limit = c
        /\ next = "commit" => s = conns[k]
  <2>1. CASE next = "rollback"
    <3>1. conns' = [conns EXCEPT ![k] = conns[k]]
      BY <1>2, <1>3, <2>1 DEF IInv, Typed
    <3> QED BY <1>3, <2>1, <3>1
  <2>2. CASE next # "rollback"
    <3> DEFINE s == After(statement, conns[k], c)
    <3>1. /\ s \in Conn /\ s.at = conns[k].at
          /\ s.txn \in {Null, conns[k].txn, c} /\ s.limit \in {Null, conns[k].limit, c}
          /\ statement = "begin" => s.txn # Null
          /\ statement = "limit" => s.txn = conns[k].txn /\ s.limit = c
          /\ statement = "query" => s = conns[k]
      <4>1. statement \in Statements \cup {"nothing"} /\ conns[k] \in Conn
        BY <1>3 DEF Statements
      <4> QED BY <4>1, AfterType
    <3>2. conns' = [conns EXCEPT ![k] = s]
      BY <1>2, <2>2
    <3> HIDE DEF s
    <3> QED BY <1>2, <1>3, <2>2, <3>1, <3>2
  <2> QED BY <2>1, <2>2
<1>6. conns'[k] = s
  BY <1>3, <1>5 DEF IInv, Typed
<1>7. Guarded(c)'
  BY <1>0, <1>2, <1>4, <1>5, <1>6 DEF IInv, CallOK, Guarded
<1>8. Left(k)'
  BY <1>0, <1>3, <1>4, <1>5, <1>6, PoolAssumption DEF Left, Others, Statements
<1> QED
  BY <1>0, <1>1, <1>3, <1>4, <1>5, <1>7, <1>8, OnConnection DEF Statements

\* A call that ends gives its connection back: with nothing of its own on it,
\* or with a statement under way for which it is cancelled, or broken.
LEMMA GiveBackIInv ==
  ASSUME IInv, NEW c \in Calls, call[c].pc \in Statements, UNCHANGED <<cached, pools>>,
         NEW s \in Conn, NEW sent \in {"nothing", "lost"} \cup Statements,
         GiveBack(c, s, sent), NEW code \in {"ok", "error", "cancelled"}, Answer(c, code),
         s.txn \in {Null, conns[call[c].conn].txn}, s.limit \in {Null, conns[call[c].conn].limit},
         \/ code = "cancelled"
         \/ sent = "lost"
         \/ sent = "nothing" /\ s.txn = Null /\ s.limit = Null
  PROVE  IInv'
<1>0. PICK k \in Slots : call[c].conn = k
  BY OwnConnection
<1> DEFINE t == [s EXCEPT !.at = "returning", !.user = c, !.sent = sent]
<1>1. /\ k \in Slots /\ conns[k] \in Conn /\ conns[k].at = "held" /\ call[c].reply = "none"
      /\ \A d \in Calls : d \in {conns[k].txn, conns[k].limit} =>
           d = c \/ call[d].reply = "cancelled"
  BY <1>0, OwnConnection
<1>2. /\ t \in Conn /\ t.at = "returning" /\ t.user = c /\ t.sent = sent
      /\ t.txn = s.txn /\ t.limit = s.limit
  BY DEF Conn
<1>3. conns' = [conns EXCEPT ![k] = t]
  BY <1>0 DEF GiveBack
<1> HIDE DEF t
<1>4. conns'[k] = t
  BY <1>1, <1>3 DEF IInv, Typed
<1>5. /\ call' \in [Calls -> CallType] /\ Others(c) /\ call'[c].pc = "done"
      /\ call'[c].reply = code
  <2>1. call \in [Calls -> CallType] /\ call[c] \in CallType
    BY DEF IInv, Typed
  <2>2. /\ [call[c] EXCEPT !.pc = "done", !.reply = code] \in CallType
        /\ call' = [call EXCEPT ![c] = [call[c] EXCEPT !.pc = "done", !.reply = code]]
    BY <2>1 DEF CallType, Answer
  <2> QED BY <2>1, <2>2 DEF CallType, Others
<1>6. Guarded(c)'
  BY <1>5 DEF Guarded
<1>7. Left(k)'
  BY <1>0, <1>1, <1>2, <1>4, <1>5, PoolAssumption DEF Left, Others, Statements
<1> QED
  BY <1>0, <1>1, <1>2, <1>3, <1>5, <1>6, <1>7, OnConnection

LEMMA EndsIInv ==
  ASSUME IInv, NEW c \in Calls, Finish(c) \/ Lose(c) \/ Cancel(c)  PROVE IInv'
<1> DEFINE k == call[c].conn
<1>1. CASE Finish(c)
  <2> DEFINE s == After(call[c].pc, conns[k], c)
  <2>1. /\ call[c].pc \in {"commit", "rollback"} /\ UNCHANGED <<cached, pools>>
        /\ GiveBack(c, s, "nothing")
        /\ Answer(c, IF call[c].pc = "commit" THEN "ok" ELSE "error")
    BY <1>1 DEF Finish
  <2>2. conns[k] \in Conn
    BY <2>1, OwnConnection DEF Statements
  <2>3. s \in Conn /\ s.txn = Null /\ s.limit = Null
    <3>1. call[c].pc \in Statements \cup {"nothing"}
      BY <2>1 DEF Statements
    <3> QED BY <2>1, <2>2, <3>1, AfterType
  <2> QED BY <2>1, <2>3, GiveBackIInv DEF Statements
<1>2. CASE Lose(c)
  <2>1. conns[k] \in Conn
    BY <1>2, OwnConnection DEF Lose, Statements
  <2> QED BY <1>2, <2>1, GiveBackIInv DEF Lose, Statements
<1>3. CASE Cancel(c) /\ call[c].pc \in Statements
  <2>1. conns[k] \in Conn
    BY <1>3, OwnConnection
  <2> QED BY <1>3, <2>1, GiveBackIInv DEF Cancel
<1>4. CASE Cancel(c) /\ call[c].pc \notin Statements
  BY <1>4, EndsEarly DEF Cancel
<1> QED BY <1>1, <1>2, <1>3, <1>4

-----------------------------------------------------------------------------
(* The pool's tasks and the cache *)

\* A step that touches no call, no held connection and no cached pool.
LEMMA PoolStep ==
  ASSUME IInv, UNCHANGED <<call, pools>>, CachedOK', cached' \in [Databases -> {Null} \cup Nat],
         conns' \in [Slots -> Conn],
         \A k \in Slots : \/ conns'[k] = conns[k]
                          \/ conns[k].at # "held" /\ conns'[k].at # "held" /\ Left(k)'
  PROVE  IInv'
<1> USE DEF IInv
<1>1. Typed' /\ Alone'
  BY DEF Typed, Alone
<1>2. ASSUME NEW c \in Calls PROVE CallOK(c)'
  BY DEF CallOK, Placed, Holding, Guarded, Replied, Statements
<1>3. ASSUME NEW k \in Slots PROVE Held(k)' /\ Left(k)'
  <2>1. CASE conns'[k] = conns[k]
    BY <2>1 DEF Held, Left
  <2>2. CASE conns'[k].at # "held" /\ Left(k)'
    BY <2>2 DEF Held
  <2> QED BY <2>1, <2>2
<1> QED BY <1>1, <1>2, <1>3

LEMMA SettleIInv ==
  ASSUME IInv, NEW k \in Slots, Settle(k)  PROVE IInv'
<1> USE DEF IInv
<1>1. conns \in [Slots -> Conn] /\ conns[k] \in Conn /\ UNCHANGED <<call, cached, pools>>
  BY DEF Typed, Settle, Return, Close
<1>2. CASE Return(k)
  <2> DEFINE r == After(conns[k].sent, conns[k], conns[k].user)
             s == [r EXCEPT !.at = "idle", !.user = Null, !.sent = Null]
  <2>1. /\ conns[k].at = "returning" /\ conns[k].sent \in {"nothing"} \cup Statements
        /\ conns[k].sent \in Statements =>
             conns[k].user \in Calls /\ call[conns[k].user].reply = "cancelled"
    BY <1>2 DEF Return, Left
  <2>2. /\ r \in Conn
        /\ r.txn \in {Null, conns[k].txn, conns[k].user}
        /\ r.limit \in {Null, conns[k].limit, conns[k].user}
        /\ conns[k].sent = "nothing" => r = conns[k]
    <3>1. CASE conns[k].sent \in Statements
      BY <1>1, <2>1, <3>1, AfterType DEF Statements
    <3>2. CASE conns[k].sent = "nothing"
      <4>1. r = conns[k]
        BY <3>2 DEF After
      <4> QED BY <1>1, <4>1
    <3> QED BY <2>1, <3>1, <3>2
  <2> HIDE DEF r
  <2>3. s \in Conn /\ s.at = "idle" /\ s.txn = r.txn /\ s.limit = r.limit
    BY <2>2 DEF Conn
  <2>4. conns' = [conns EXCEPT ![k] = s]
    BY <1>2 DEF Return, r
  <2> HIDE DEF s
  <2>5. conns'[k] = s /\ conns' \in [Slots -> Conn] /\ \A j \in Slots \ {k} : conns'[j] = conns[j]
    BY <1>1, <2>3, <2>4
  <2>6. \A d \in Calls : d \in {conns[k].txn, conns[k].limit} => call[d].reply = "cancelled"
    BY <1>2, <2>1 DEF Left, CallOK, Holding, Return
  <2>7. Left(k)'
    BY <1>1, <2>1, <2>2, <2>3, <2>5, <2>6, PoolAssumption DEF Left, Statements
  <2> QED BY <1>1, <2>1, <2>3, <2>5, <2>7, PoolStep DEF Typed, CachedOK
<1>3. CASE Close(k)
  <2>1. /\ conns' = [conns EXCEPT ![k] = Closed] /\ conns[k].at # "held"
        /\ Closed \in Conn /\ Closed.at = "closed" /\ Closed.txn = Null /\ Closed.limit = Null
    BY <1>3 DEF Close, Closed, Conn
  <2>2. conns' \in [Slots -> Conn] /\ conns'[k] = Closed /\ \A j \in Slots \ {k} : conns'[j] = conns[j]
    BY <1>1, <2>1
  <2>3. Left(k)'
    BY <2>1, <2>2, PoolAssumption DEF Left
  <2> QED BY <1>1, <2>1, <2>2, <2>3, PoolStep DEF Typed, CachedOK
<1> QED BY <1>2, <1>3 DEF Settle

LEMMA EvictIInv ==
  ASSUME IInv, NEW d \in Databases, Evict(d)  PROVE IInv'
<1>1. cached' = [cached EXCEPT ![d] = Null] /\ UNCHANGED <<call, pools, conns>>
  BY DEF Evict
<1>2. CachedOK' /\ cached' \in [Databases -> {Null} \cup Nat]
  BY <1>1 DEF IInv, Typed, CachedOK
<1> QED BY <1>1, <1>2, PoolStep DEF IInv, Typed

LEMMA DropPoolIInv ==
  ASSUME IInv, NEW p \in 1 .. MaxPools, DropPool(p)  PROVE IInv'
<1>1. /\ conns' = [k \in Slots |-> IF k[1] = p THEN Closed ELSE conns[k]]
      /\ UNCHANGED <<call, cached, pools>> /\ Unreferenced(p)
  BY DEF DropPool
<1>2. Closed \in Conn /\ Closed.at = "closed" /\ Closed.txn = Null /\ Closed.limit = Null
  BY DEF Closed, Conn
<1>3. ASSUME NEW k \in Slots, k[1] = p
      PROVE  conns[k].at # "held" /\ conns'[k].at # "held" /\ Left(k)'
  <2>1. k = <<p, k[2]>> /\ k[2] \in 1 .. MaxConnections
    BY <1>3 DEF Slots
  <2>2. conns[k].at # "held"
    BY <1>1, <2>1 DEF Unreferenced
  <2>3. conns'[k] = Closed
    BY <1>1, <1>3
  <2> QED BY <1>2, <2>2, <2>3, PoolAssumption DEF Left
<1>4. conns' \in [Slots -> Conn]
  BY <1>1, <1>2 DEF IInv, Typed
<1>5. \A k \in Slots : k[1] # p => conns'[k] = conns[k]
  BY <1>1
<1> QED BY <1>1, <1>3, <1>4, <1>5, PoolStep DEF IInv, Typed, CachedOK

-----------------------------------------------------------------------------

LEMMA NextIInv == IInv /\ [Next]_vars => IInv'
<1> SUFFICES ASSUME IInv, [Next]_vars PROVE IInv'
  OBVIOUS
<1>1. ASSUME NEW c \in Calls, Arrive(c) \/ Step(c) \/ Cancel(c) PROVE IInv'
  BY <1>1, EarlyIInv, LookupIInv, BuildIInv, AcquireIInv, ProceedIInv, EndsIInv DEF Step
<1>2. CASE UNCHANGED vars
  <2>1. UNCHANGED <<call, cached, pools, conns>>
    BY <1>2 DEF vars
  <2> QED BY <2>1, PoolStep DEF IInv, Typed, CachedOK
<1> QED BY <1>1, <1>2, SettleIInv, EvictIInv, DropPoolIInv DEF Next, Finished

\* Whose a connection is, and what its session carries, in every reachable
\* state.
THEOREM InductiveInvariant == Spec => []IInv
<1> QED BY InitIInv, NextIInv, PTL DEF Spec

\* run_readonly (sql_common/postgres.rs) sends a query only inside a
\* transaction, each of which is READ ONLY, and under the limit it has set
\* itself, whatever earlier calls left on the connection.
THEOREM QueriesGuarded == Spec => []QueriesAreGuarded
<1>1. IInv => QueriesAreGuarded
  BY DEF IInv, CallOK, Guarded, QueriesAreGuarded
<1> QED BY <1>1, InductiveInvariant, PTL

\* A transaction or limit that is left on a usable connection is that of a
\* dropped call: an answered one has ended its own.
THEOREM AnswersLeaveNothing == Spec => []AnsweredLeavesNothing
<1>1. IInv => AnsweredLeavesNothing
  BY DEF IInv, CallOK, Left, Replied, Statements, AnsweredLeavesNothing
<1> QED BY <1>1, InductiveInvariant, PTL

\* PgPool hands a connection to one call at a time, and pool_for hands a call
\* a pool of the database it names.
THEOREM ConnectionsOwned == Spec => []ConnectionsAreOwned
<1>1. IInv => ConnectionsAreOwned
  <2> SUFFICES ASSUME IInv, NEW k \in Slots
               PROVE  LET users == {c \in Calls : call[c].pc \in Statements /\ call[c].conn = k}
                      IN  /\ Cardinality(users) = IF conns[k].at = "held" THEN 1 ELSE 0
                          /\ \A c \in users : pools[k[1]] = call[c].db
    BY DEF ConnectionsAreOwned
  <2> DEFINE users == {c \in Calls : call[c].pc \in Statements /\ call[c].conn = k}
  <2>1. \A c \in users : pools[k[1]] = call[c].db
    BY DEF IInv, CallOK, Placed, Holding
  <2>2. CASE conns[k].at = "held"
    <3>1. PICK c \in Calls : call[c].pc \in Statements /\ call[c].conn = k
      BY <2>2 DEF IInv, Held
    <3>2. users = {c}
      BY <3>1 DEF IInv, Alone
    <3>3. Cardinality(users) = 1
      BY <3>2, FS_Singleton
    <3> QED BY <2>1, <2>2, <3>3
  <2>3. CASE conns[k].at # "held"
    <3>1. users = {}
      BY <2>3 DEF IInv, CallOK, Holding
    <3>2. Cardinality(users) = 0
      BY <3>1, FS_EmptySet
    <3> QED BY <2>1, <2>3, <3>2
  <2> QED BY <2>2, <2>3
<1> QED BY <1>1, InductiveInvariant, PTL

=============================================================================
