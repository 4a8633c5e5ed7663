----------------------------- MODULE TargetPool -----------------------------
(***************************************************************************)
(* Connections to the Postgres targets of one SQL credential: the cache of *)
(* pools (infra/src/postgres_pool.rs), a call's read-only transaction on a *)
(* pooled connection (service/src/sql_common/postgres.rs), and the calls   *)
(* of sql_query and sql_schema that run one statement in it.               *)
(*                                                                         *)
(* Each action up to "begin" is a piece of code between two awaits or      *)
(* between two calls of the cache; each action from "begin" on is the      *)
(* answer to a statement sent before.  A call whose REST client goes away  *)
(* is dropped at its await.  The pool is sqlx's: a connection given back   *)
(* is first pinged by a task of the pool, which waits for what is still    *)
(* being answered on it and closes it on an error.                         *)
(*                                                                         *)
(* The server's side of a connection is the transaction that is open on    *)
(* it, named by the call that opened it, and the call whose                *)
(* statement_timeout is in force.  Every BEGIN is READ ONLY.               *)
(***************************************************************************)
EXTENDS Naturals, Sequences, FiniteSets

CONSTANTS
    Calls,           \* calls of sql_query and sql_schema
    Databases,       \* databases a call may name
    Null,
    MaxConnections   \* POOL_MAX_CONNECTIONS

ASSUME PoolAssumption ==
    /\ MaxConnections \in Nat \ {0} /\ IsFiniteSet(Calls)
    /\ Null \notin Calls \cup Databases

VARIABLES
    call,    \* the state of each call
    cached,  \* TargetPgPools.cached, for the credential's databases
    pools,   \* every PgPool built so far, by the database it connects to
    conns    \* the connections of each pool

vars == <<call, cached, pools, conns>>

\* A call builds at most one pool.
MaxPools == Cardinality(Calls)

Slots == (1 .. MaxPools) \X (1 .. MaxConnections)

Statements == {"begin", "limit", "query", "commit", "rollback"}

Waiting == {"prepare", "lookup", "build", "acquire"}

\* at: closed, held by a call, returning to its pool, or idle in it.
\* user, sent: the call that gave it back, and what it had sent and not seen
\* answered; "lost" when the connection broke.
Closed == [at |-> "closed", txn |-> Null, limit |-> Null, user |-> Null, sent |-> Null]

Idle == [Closed EXCEPT !.at = "idle"]

Conn == [at    : {"closed", "held", "returning", "idle"},
         txn   : {Null} \cup Calls,
         limit : {Null} \cup Calls,
         user  : {Null} \cup Calls,
         sent  : {Null, "nothing", "lost"} \cup Statements]

TypeOK ==
    /\ call \in [Calls ->
         [pc    : {"idle", "done"} \cup Waiting \cup Statements,
          db    : {Null} \cup Databases,
          pool  : {Null} \cup 1 .. MaxPools,
          conn  : {Null} \cup Slots,
          reply : {"none", "ok", "error", "cancelled"}]]
    /\ cached \in [Databases -> {Null} \cup 1 .. MaxPools]
    /\ pools \in Seq(Databases)
    /\ Len(pools) <= MaxPools
    /\ conns \in [Slots -> Conn]

Init ==
    /\ call = [c \in Calls |-> [pc |-> "idle", db |-> Null, pool |-> Null,
                                conn |-> Null, reply |-> "none"]]
    /\ cached = [d \in Databases |-> Null]
    /\ pools = <<>>
    /\ conns = [k \in Slots |-> Closed]

-----------------------------------------------------------------------------

Answer(c, code) ==
    call' = [call EXCEPT ![c].pc = "done", ![c].reply = code]

\* The session of a connection after a statement of call c.  BEGIN in an open
\* transaction is a warning and leaves it open; set_config(.., true) lasts
\* until the transaction ends.
After(statement, s, c) ==
    CASE statement = "begin"  -> [s EXCEPT !.txn = IF @ = Null THEN c ELSE @]
      [] statement = "limit"  -> [s EXCEPT !.limit = c]
      [] statement \in {"commit", "rollback"} -> [s EXCEPT !.txn = Null, !.limit = Null]
      [] OTHER -> s

\* The statement c waits for is answered.
Answered(c) ==
    LET k == call[c].conn IN conns' = [conns EXCEPT ![k] = After(call[c].pc, @, c)]

\* PoolConnection is dropped.
GiveBack(c, s, sent) ==
    conns' = [conns EXCEPT ![call[c].conn] =
                [s EXCEPT !.at = "returning", !.user = c, !.sent = sent]]

-----------------------------------------------------------------------------
(* Up to a connection *)

Arrive(c) ==
    /\ call[c].pc = "idle"
    /\ \E d \in Databases : call' = [call EXCEPT ![c].pc = "prepare", ![c].db = d]
    /\ UNCHANGED <<cached, pools, conns>>

\* prepare_postgres_target: the address is guarded, the secret opened.
Prepare(c) ==
    /\ call[c].pc = "prepare"
    /\ call' = [call EXCEPT ![c].pc = "lookup"]
    /\ UNCHANGED <<cached, pools, conns>>

PrepareFails(c) ==
    /\ call[c].pc = "prepare"
    /\ Answer(c, "error")
    /\ UNCHANGED <<cached, pools, conns>>

\* Mutant: pools are cached by credential alone.
LookupByCredential(c) ==
    LET known == {cached[d] : d \in Databases} \ {Null}
    IN  /\ call[c].pc = "lookup"
        /\ IF known = {} THEN call' = [call EXCEPT ![c].pc = "build"]
           ELSE \E p \in known : call' = [call EXCEPT ![c].pc = "acquire", ![c].pool = p]
        /\ UNCHANGED <<cached, pools, conns>>

\* pool_for up to the cache's answer.
Lookup(c) ==
    LET p == cached[call[c].db]
    IN  /\ call[c].pc = "lookup"
        /\ call' = IF p = Null THEN [call EXCEPT ![c].pc = "build"]
                   ELSE [call EXCEPT ![c].pc = "acquire", ![c].pool = p]
        /\ UNCHANGED <<cached, pools, conns>>

\* pool_for from there: a lazy pool is built and put in the cache, over one
\* that another call has put there since.
Build(c) ==
    LET p == Len(pools) + 1
    IN  /\ call[c].pc = "build"
        /\ pools' = Append(pools, call[c].db)
        /\ cached' = [cached EXCEPT ![call[c].db] = p]
        /\ call' = [call EXCEPT ![c].pc = "acquire", ![c].pool = p]
        /\ UNCHANGED conns

\* pool.acquire: an idle connection, or a new one while there is room.
Acquire(c) ==
    LET mine == {k \in Slots : k[1] = call[c].pool}
        idle == {k \in mine : conns[k].at = "idle"}
    IN  /\ call[c].pc = "acquire"
        /\ \E k \in IF idle # {} THEN idle ELSE {j \in mine : conns[j].at = "closed"} :
              /\ conns' = [conns EXCEPT ![k].at = "held"]
              /\ call' = [call EXCEPT ![c].pc = "begin", ![c].conn = k]
        /\ UNCHANGED <<cached, pools>>

\* No connection within POSTGRES_CONNECT_TIMEOUT, or the target refuses.
AcquireFails(c) ==
    /\ call[c].pc = "acquire"
    /\ Answer(c, "error")
    /\ UNCHANGED <<cached, pools, conns>>

-----------------------------------------------------------------------------
(* The transaction *)

\* A statement succeeds and the next one is sent.
Proceed(c, statement, next) ==
    /\ call[c].pc = statement
    /\ Answered(c)
    /\ call' = [call EXCEPT ![c].pc = next]
    /\ UNCHANGED <<cached, pools>>

Begin(c) == Proceed(c, "begin", "limit")

Limit(c) == Proceed(c, "limit", "query")

Query(c) == Proceed(c, "query", "commit")

\* Mutant: a failed set_config is only logged.
StatementFailsOn(c) ==
    /\ call[c].pc \in {"limit", "query"}
    /\ call' = [call EXCEPT ![c].pc = IF @ = "limit" THEN "query" ELSE "rollback"]
    /\ UNCHANGED <<cached, pools, conns>>

\* set_config or the query fails and ROLLBACK is sent.
StatementFails(c) ==
    /\ call[c].pc \in {"limit", "query"}
    /\ call' = [call EXCEPT ![c].pc = "rollback"]
    /\ UNCHANGED <<cached, pools, conns>>

\* Mutant: an error returns early, without a ROLLBACK.
FinishWithoutRollback(c) ==
    /\ call[c].pc \in {"commit", "rollback"}
    /\ GiveBack(c, IF call[c].pc = "commit" THEN After("commit", conns[call[c].conn], c)
                   ELSE conns[call[c].conn], "nothing")
    /\ Answer(c, IF call[c].pc = "commit" THEN "ok" ELSE "error")
    /\ UNCHANGED <<cached, pools>>

\* COMMIT or ROLLBACK is answered and the call with it.
Finish(c) ==
    LET k == call[c].conn
    IN  /\ call[c].pc \in {"commit", "rollback"}
        /\ GiveBack(c, After(call[c].pc, conns[k], c), "nothing")
        /\ Answer(c, IF call[c].pc = "commit" THEN "ok" ELSE "error")
        /\ UNCHANGED <<cached, pools>>

\* The connection breaks: BEGIN, COMMIT and ROLLBACK give up at once.
Lose(c) ==
    /\ call[c].pc \in {"begin", "commit", "rollback"}
    /\ GiveBack(c, conns[call[c].conn], "lost")
    /\ Answer(c, "error")
    /\ UNCHANGED <<cached, pools>>

\* Mutant: the connection of a dropped call is not given back.
CancelKeepingConnection(c) ==
    /\ call[c].pc \in {"prepare", "acquire"} \cup Statements
    /\ Answer(c, "cancelled")
    /\ UNCHANGED <<cached, pools, conns>>

\* The handler is dropped at an await.
Cancel(c) ==
    /\ call[c].pc \in {"prepare", "acquire"} \cup Statements
    /\ IF call[c].pc \in Statements
       THEN GiveBack(c, conns[call[c].conn], call[c].pc)
       ELSE UNCHANGED conns
    /\ Answer(c, "cancelled")
    /\ UNCHANGED <<cached, pools>>

-----------------------------------------------------------------------------
(* The pool's tasks and the cache *)

\* The ping of a returned connection is answered: what was sent before it has
\* been done.
Return(k) ==
    /\ conns[k].at = "returning"
    /\ conns[k].sent # "lost"
    /\ conns' = [conns EXCEPT ![k] =
         [After(@.sent, @, @.user) EXCEPT !.at = "idle", !.user = Null, !.sent = Null]]
    /\ UNCHANGED <<call, cached, pools>>

\* The ping fails, or what was sent before it has; or an idle connection is
\* too old.
Close(k) ==
    /\ conns[k].at \in {"returning", "idle"}
    /\ conns' = [conns EXCEPT ![k] = Closed]
    /\ UNCHANGED <<call, cached, pools>>

\* time_to_idle has passed since the pool was last asked for.
Evict(d) ==
    /\ cached[d] # Null
    /\ cached' = [cached EXCEPT ![d] = Null]
    /\ UNCHANGED <<call, pools, conns>>

Unreferenced(p) ==
    /\ \A d \in Databases : cached[d] # p
    /\ \A c \in Calls : call[c].pool = p => call[c].pc = "done"
    /\ \A i \in 1 .. MaxConnections : conns[<<p, i>>].at \in {"idle", "closed"}

\* The last handle of a pool is dropped, and its idle connections with it.
DropPool(p) ==
    /\ p <= Len(pools)
    /\ Unreferenced(p)
    /\ \E i \in 1 .. MaxConnections : conns[<<p, i>>].at = "idle"
    /\ conns' = [k \in Slots |-> IF k[1] = p THEN Closed ELSE conns[k]]
    /\ UNCHANGED <<call, cached, pools>>

-----------------------------------------------------------------------------

Step(c) ==
    \/ Prepare(c) \/ PrepareFails(c)
    \/ Lookup(c) \/ Build(c)
    \/ Acquire(c) \/ AcquireFails(c)
    \/ Begin(c) \/ Limit(c) \/ Query(c)
    \/ StatementFails(c) \/ Finish(c) \/ Lose(c)

Settle(k) == Return(k) \/ Close(k)

Finished == (\A c \in Calls : call[c].pc = "done") /\ UNCHANGED vars

Next ==
    \/ \E c \in Calls : Arrive(c) \/ Step(c) \/ Cancel(c)
    \/ \E k \in Slots : Settle(k)
    \/ \E d \in Databases : Evict(d)
    \/ \E p \in 1 .. MaxPools : DropPool(p)
    \/ Finished

Spec == Init /\ [][Next]_vars

\* Handlers and the pool's tasks are polled, and drops run.  Waiting for a
\* connection ends with a timeout.  A statement ends with an answer, the
\* statement_timeout or the connection; the model takes the last for granted.
FairSpec ==
    /\ Spec
    /\ \A c \in Calls : WF_vars(Step(c))
    /\ \A k \in Slots : WF_vars(conns[k].at = "returning" /\ Settle(k))
    /\ \A p \in 1 .. MaxPools : WF_vars(DropPool(p))

-----------------------------------------------------------------------------
(* Correctness *)

\* docs/mcp/sql-query-boundary.md: every query runs in a read-only transaction
\* and under a timeout, its own; also on a connection that an earlier call
\* left in the middle of something.
QueriesAreGuarded ==
    \A c \in Calls : call[c].pc = "query" =>
        /\ conns[call[c].conn].txn # Null
        /\ conns[call[c].conn].limit = c

\* What a call left behind on a usable connection, it left because it was
\* dropped: an answer, of success or failure, comes after the transaction.
AnsweredLeavesNothing ==
    \A c \in Calls, k \in Slots :
        (/\ call[c].reply \in {"ok", "error"}
         /\ conns[k].at \in {"held", "idle"})
        => c \notin {conns[k].txn, conns[k].limit}

\* A connection is held exactly while the call that acquired it is answering
\* statements on it, and it leads to the database the call names.
ConnectionsAreOwned ==
    \A k \in Slots :
        LET users == {c \in Calls : call[c].pc \in Statements /\ call[c].conn = k}
        IN  /\ Cardinality(users) = IF conns[k].at = "held" THEN 1 ELSE 0
            /\ \A c \in users : pools[k[1]] = call[c].db

\* Calls that miss the cache together build a pool each; all but the one that
\* stays in the cache are gone once their calls are, with their connections.
ReplacedPoolsDrain ==
    \A p \in 1 .. MaxPools :
        (p <= Len(pools) /\ \A d \in Databases : cached[d] # p)
        ~> \A i \in 1 .. MaxConnections : conns[<<p, i>>].at = "closed"
=============================================================================
