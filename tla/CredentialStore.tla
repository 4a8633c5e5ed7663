--------------------------- MODULE CredentialStore ---------------------------
(***************************************************************************)
(* The credential service and repository: register, update and delete as   *)
(* the statements they send to Postgres, interleaved with every other      *)
(* request's (service/src/credential/service.rs, update.rs,                *)
(* db/src/credential_repo.rs).                                             *)
(*                                                                         *)
(* Postgres runs at READ COMMITTED.  A statement sees what is committed    *)
(* when it starts.  UPDATE picks its row from that snapshot, waits for the *)
(* transaction that holds the row, and then evaluates WHERE again on the   *)
(* row's latest version.  INSERT waits for any transaction in progress on  *)
(* the same unique index key before it decides.  Uncommitted writes live   *)
(* in the transaction (write, version) and reach the tables at COMMIT, all *)
(* at once; dropping the transaction discards them.                        *)
(*                                                                         *)
(* The calls of one request, by pc:                                        *)
(*   idle -> find (update only) -> begin -> insert | scan -> lock          *)
(*        -> version -> history -> commit -> done                          *)
(***************************************************************************)
EXTENDS CredentialTables

CONSTANT MaxConns  \* db_max_connections of the pool

ASSUME MaxConnsAssumption == MaxConns \in Nat \ {0}

VARIABLES
    rows,      \* credentials, committed
    history,   \* credential_history, committed
    pc,        \* pc[r]: the next call of request r
    input,     \* input[r]: the normalised arguments of r
    plan,      \* plan[r]: the UpdatePlan, with the id it was computed from
    target,    \* target[r]: the row the open statement or transaction works on
    write,     \* write[r]: that row as the transaction leaves it
    version,   \* version[r]: the history version the transaction will insert
    reply      \* reply[r]: what the caller was told

vars == <<rows, history, pc, input, plan, target, write, version, reply>>

reqVars == <<input, plan, target, write, version>>

PCs == {"idle", "find", "begin", "insert", "scan", "lock", "version",
        "history", "commit", "done"}

Replies == {"none", "ok", "not_found", "conflict", "invalid", "error"}

RegisterInput == [op : {"register"}, owner : Users, alias : Aliases,
                  category : Categories, secret : SUBSET Headers,
                  policy : SUBSET Headers, meta : [Fields -> Values]]

\* Null in policy or in a field: the caller left it out.
UpdateInput == [op : {"update"}, owner : Users, alias : Aliases,
                category : Categories, policy : {Null} \cup SUBSET Headers,
                meta : [Fields -> {Null} \cup Values]]

DeleteInput == [op : {"delete"}, owner : Users, alias : Aliases]

Inputs == RegisterInput \cup UpdateInput \cup DeleteInput

Plan == [from : Requests, policy : {Null} \cup SUBSET Headers,
         meta : [Fields -> {Null} \cup Values],
         changed : SUBSET (Fields \cup {"policy"})]

TypeOK ==
    /\ Tables(rows, history)
    /\ pc \in [Requests -> PCs]
    /\ input \in [Requests -> {Null} \cup Inputs]
    /\ plan \in [Requests -> {Null} \cup Plan]
    /\ target \in [Requests -> {Null} \cup Requests]
    /\ write \in [Requests -> {Null} \cup Row]
    /\ version \in [Requests -> Nat]
    /\ reply \in [Requests -> Replies]

Init ==
    /\ rows = [id \in Requests |-> Null]
    /\ history = {}
    /\ pc = [r \in Requests |-> "idle"]
    /\ input = [r \in Requests |-> Null]
    /\ plan = [r \in Requests |-> Null]
    /\ target = [r \in Requests |-> Null]
    /\ write = [r \in Requests |-> Null]
    /\ version = [r \in Requests |-> 0]
    /\ reply = [r \in Requests |-> "none"]

-----------------------------------------------------------------------------
(* Connections and locks *)

\* A transaction keeps its pooled connection from BEGIN to the end.
Connected(r) == pc[r] \in {"insert", "scan", "lock", "version", "history", "commit"}

ConnAvailable == Cardinality({r \in Requests : Connected(r)}) < MaxConns

\* The transaction has written its row and not ended.
Holds(r) == pc[r] \in {"version", "history", "commit"}

SameAlias(r, s) == input[r].owner = input[s].owner /\ input[r].alias = input[s].alias

ActiveOf(r) == ActiveIds(rows, input[r].owner, input[r].alias)

RowIsFree(r) == \A s \in Requests \ {r} : Holds(s) => target[s] # target[r]

IndexKeyIsFree(r) == \A s \in Requests \ {r} : Holds(s) => ~SameAlias(r, s)

\* The request ends; an open transaction that has not committed is rolled
\* back when its handle is dropped.
Answer(r, code) ==
    /\ pc' = [pc EXCEPT ![r] = "done"]
    /\ reply' = [reply EXCEPT ![r] = code]

GoTo(r, where) ==
    /\ pc' = [pc EXCEPT ![r] = where]
    /\ UNCHANGED reply

-----------------------------------------------------------------------------
(* Before the transaction *)

\* validate_register_input accepts; updates and deletes have no secret yet
\* to be checked against.
ValidRegister(i) ==
    IF i.category = "http" THEN NoOverlap(i.policy, i.secret)
    ELSE i.policy = {} /\ i.secret = {}

Accept(r, i, where) ==
    /\ pc[r] = "idle"
    /\ input' = [input EXCEPT ![r] = i]
    /\ GoTo(r, where)
    /\ UNCHANGED <<rows, history, plan, target, write, version>>

\* normalize and validate, check the target's addresses, seal the secret.
IssueRegister(r) ==
    \E u \in Users, a \in Aliases, c \in Categories, meta \in [Fields -> Values] :
    \E secret \in SUBSET Headers : \E policy \in SUBSET Headers :
        LET i == [op |-> "register", owner |-> u, alias |-> a, category |-> c,
                  secret |-> secret, policy |-> policy, meta |-> meta]
        IN  ValidRegister(i) /\ Accept(r, i, "begin")

IssueUpdate(r) ==
    \E u \in Users, a \in Aliases, c \in Categories, policy \in {Null} \cup SUBSET Headers,
       meta \in [Fields -> {Null} \cup Values] :
        Accept(r, [op |-> "update", owner |-> u, alias |-> a, category |-> c,
                   policy |-> policy, meta |-> meta], "find")

IssueDelete(r) ==
    \E u \in Users, a \in Aliases :
        Accept(r, [op |-> "delete", owner |-> u, alias |-> a], "begin")

\* An argument is malformed or a target address is blocked.
Refuse(r) ==
    /\ pc[r] = "idle"
    /\ Answer(r, "invalid")
    /\ UNCHANGED <<rows, history, reqVars>>

ChangedFields(row, i) ==
    {f \in Fields : i.meta[f] \notin {Null, row.meta[f]}}
        \cup (IF i.policy \in {Null, row.policy} THEN {} ELSE {"policy"})

\* Mutant: the overlap with the secret headers is not checked.
ValidUpdatePolicyNoOverlap(row, i) ==
    i.policy # Null => (i.category = "http" \/ i.policy = {})

\* validate_policy_for_category, and for HTTP the overlap with the secret
\* headers of the credential that was read.
ValidUpdatePolicy(row, i) ==
    i.policy # Null =>
        IF i.category = "http" THEN NoOverlap(i.policy, row.secret) ELSE i.policy = {}

PlanUpdate(id, i) ==
    LET changed == ChangedFields(rows[id], i)
    IN  [from |-> id,
         policy |-> IF "policy" \in changed THEN i.policy ELSE Null,
         meta |-> [f \in Fields |-> IF f \in changed THEN i.meta[f] ELSE Null],
         changed |-> changed]

\* find_credential_secret_by_alias, then plan_update on what it returned.
FindFails(r) ==
    /\ pc[r] = "find"
    /\ ActiveOf(r) = {}
    /\ Answer(r, "not_found")
    /\ UNCHANGED <<rows, history, reqVars>>

FindRejects(r) ==
    /\ pc[r] = "find"
    /\ \E id \in ActiveOf(r) :
         \/ rows[id].category # input[r].category
         \/ ~ValidUpdatePolicy(rows[id], input[r])
         \/ ChangedFields(rows[id], input[r]) = {}
    /\ Answer(r, "invalid")
    /\ UNCHANGED <<rows, history, reqVars>>

FindPlans(r) ==
    /\ pc[r] = "find"
    /\ \E id \in ActiveOf(r) :
         /\ rows[id].category = input[r].category
         /\ ValidUpdatePolicy(rows[id], input[r])
         /\ ChangedFields(rows[id], input[r]) # {}
         /\ plan' = [plan EXCEPT ![r] = PlanUpdate(id, input[r])]
    /\ GoTo(r, "begin")
    /\ UNCHANGED <<rows, history, input, target, write, version>>

Find(r) == ConnAvailable /\ (FindFails(r) \/ FindRejects(r) \/ FindPlans(r))

-----------------------------------------------------------------------------
(* The transaction *)

Begin(r) ==
    /\ pc[r] = "begin"
    /\ ConnAvailable
    /\ GoTo(r, IF input[r].op = "register" THEN "insert" ELSE "scan")
    /\ UNCHANGED <<rows, history, reqVars>>

NewRow(i) == [owner |-> i.owner, alias |-> i.alias, category |-> i.category,
              secret |-> i.secret, policy |-> i.policy, meta |-> i.meta,
              deleted |-> FALSE]

\* Mutant: SELECT, then INSERT, in place of the unique index.
InsertUnindexed(r) ==
    /\ pc[r] = "insert"
    /\ ActiveOf(r) = {}
    /\ target' = [target EXCEPT ![r] = r]
    /\ write' = [write EXCEPT ![r] = NewRow(input[r])]
    /\ GoTo(r, "version")
    /\ UNCHANGED <<rows, history, input, plan, version>>

\* INSERT INTO credentials: the partial unique index decides.
InsertCredential(r) ==
    /\ pc[r] = "insert"
    /\ IndexKeyIsFree(r)
    /\ \/ /\ ActiveOf(r) = {}
          /\ target' = [target EXCEPT ![r] = r]
          /\ write' = [write EXCEPT ![r] = NewRow(input[r])]
          /\ GoTo(r, "version")
       \/ /\ ActiveOf(r) # {}
          /\ Answer(r, "conflict")
          /\ UNCHANGED <<target, write>>
    /\ UNCHANGED <<rows, history, input, plan, version>>

\* The rows the UPDATE's WHERE clause selects; an update also asks for the
\* category, a delete does not.
Selected(r) ==
    {id \in ActiveOf(r) :
        input[r].op = "update" => rows[id].category = input[r].category}

\* The UPDATE statement starts: its snapshot gives it at most one row.
Scan(r) ==
    /\ pc[r] = "scan"
    /\ \/ \E id \in Selected(r) :
            /\ target' = [target EXCEPT ![r] = id]
            /\ GoTo(r, "lock")
       \/ /\ Selected(r) = {}
          /\ Answer(r, "not_found")
          /\ UNCHANGED target
    /\ UNCHANGED <<rows, history, input, plan, write, version>>

\* SET column = COALESCE($n, column)
UpdatedRow(row, p) ==
    [row EXCEPT !.policy = IF p.policy = Null THEN row.policy ELSE p.policy,
                !.meta = [f \in Fields |-> IF p.meta[f] = Null THEN row.meta[f]
                                           ELSE p.meta[f]]]

\* The UPDATE gets the row lock and evaluates WHERE again.
LockAndWrite(r) ==
    LET row == rows[target[r]]
    IN  /\ pc[r] = "lock"
        /\ RowIsFree(r)
        /\ \/ /\ target[r] \in Selected(r)
              /\ write' = [write EXCEPT ![r] =
                    IF input[r].op = "update" THEN UpdatedRow(row, plan[r])
                    ELSE DeletedRow(row)]
              /\ GoTo(r, "version")
           \/ /\ target[r] \notin Selected(r)
              /\ Answer(r, "not_found")
              /\ UNCHANGED write
        /\ UNCHANGED <<rows, history, input, plan, target, version>>

\* Mutant: the version is read over another connection of the pool.
ReadVersionFromPool(r) ==
    /\ pc[r] = "version"
    /\ ConnAvailable
    /\ version' = [version EXCEPT ![r] =
            NextHistoryVersion(history, input[r].owner, input[r].alias)]
    /\ GoTo(r, "history")
    /\ UNCHANGED <<rows, history, input, plan, target, write>>

\* next_history_version, a statement of its own.
ReadVersion(r) ==
    /\ pc[r] = "version"
    /\ version' = [version EXCEPT ![r] =
            NextHistoryVersion(history, input[r].owner, input[r].alias)]
    /\ GoTo(r, "history")
    /\ UNCHANGED <<rows, history, input, plan, target, write>>

\* INSERT INTO credential_history under its unique (owner, alias, version)
\* index; a collision is reported as any 23505 is.
InsertHistory(r) ==
    /\ pc[r] = "history"
    /\ \A s \in Requests \ {r} :
         ~(pc[s] = "commit" /\ SameAlias(r, s) /\ version[s] = version[r])
    /\ IF version[r] \in Versions(history, input[r].owner, input[r].alias)
       THEN Answer(r, "conflict")
       ELSE GoTo(r, "commit")
    /\ UNCHANGED <<rows, history, reqVars>>

\* Mutant: the event names the credential read before the UPDATE.
HistoryEventOfPlan(r) ==
    [owner |-> input[r].owner, alias |-> input[r].alias, version |-> version[r],
     credential_id |-> IF input[r].op = "update" THEN plan[r].from ELSE target[r],
     action |-> input[r].op, request |-> r,
     changed |-> IF input[r].op = "update" THEN plan[r].changed ELSE {}]

HistoryEvent(r) ==
    [owner |-> input[r].owner, alias |-> input[r].alias, version |-> version[r],
     credential_id |-> target[r], action |-> input[r].op, request |-> r,
     changed |-> IF input[r].op = "update" THEN plan[r].changed ELSE {}]

\* Mutant: a lost answer to COMMIT is reported as a missing row.
CommitLostAsNotFound(r) ==
    /\ pc[r] = "commit"
    /\ rows' = [rows EXCEPT ![target[r]] = write[r]]
    /\ history' = history \cup {HistoryEvent(r)}
    /\ \E code \in {"ok", "not_found"} : Answer(r, code)
    /\ UNCHANGED reqVars

\* Mutant: the event is stored on its own and its failure only logged, as the
\* records of tool calls are.
CommitEventBestEffort(r) ==
    /\ pc[r] = "commit"
    /\ rows' = [rows EXCEPT ![target[r]] = write[r]]
    /\ history' \in {history, history \cup {HistoryEvent(r)}}
    /\ \E code \in {"ok", "error"} : Answer(r, code)
    /\ UNCHANGED reqVars

\* COMMIT publishes the row and the event together.  Its answer may be lost
\* on the way back, which the caller sees as an internal error.
Commit(r) ==
    /\ pc[r] = "commit"
    /\ rows' = [rows EXCEPT ![target[r]] = write[r]]
    /\ history' = history \cup {HistoryEvent(r)}
    /\ \E code \in {"ok", "error"} : Answer(r, code)
    /\ UNCHANGED reqVars

\* A statement fails, no connection is handed out in time, the caller goes
\* away and its handler is dropped, or the process stops: whatever is not
\* committed is gone.
Fail(r) ==
    /\ pc[r] \notin {"idle", "done"}
    /\ Answer(r, "error")
    /\ UNCHANGED <<rows, history, reqVars>>

-----------------------------------------------------------------------------

Issue(r) == IssueRegister(r) \/ IssueUpdate(r) \/ IssueDelete(r)

Step(r) ==
    \/ Find(r)
    \/ Begin(r)
    \/ InsertCredential(r)
    \/ Scan(r)
    \/ LockAndWrite(r)
    \/ ReadVersion(r)
    \/ InsertHistory(r)
    \/ Commit(r)

\* Every request of the instance has been answered.
Finished == (\A r \in Requests : pc[r] = "done") /\ UNCHANGED vars

Next ==
    \/ \E r \in Requests : Issue(r) \/ Refuse(r) \/ Step(r) \/ Fail(r)
    \/ Finished

Spec == Init /\ [][Next]_vars

\* Handlers are polled and Postgres answers; callers need not call.
FairSpec == Spec /\ \A r \in Requests : WF_vars(Step(r))

-----------------------------------------------------------------------------
(* Correctness *)

Ledger == INSTANCE CredentialLedger WITH rows <- rows, history <- history

\* Serialisability: whatever the interleaving of statements, each COMMIT is
\* one register, update or delete of CredentialLedger, decided on the
\* tables it changes and not on an earlier snapshot of them.
ImplementsLedger == Ledger!Spec

\* Two transactions never hold rows of one owner and alias, be it a row
\* each has yet to insert or rows they found.
RowHeldAlone ==
    \A r, s \in Requests : (Holds(r) /\ Holds(s) /\ SameAlias(r, s)) => r = s

\* What r is about to write is computed from the tables as they are now.
WriteIsCurrent(r) ==
    /\ IF input[r].op = "register"
       THEN /\ target[r] = r /\ ActiveOf(r) = {}
            /\ ValidRegister(input[r]) /\ write[r] = NewRow(input[r])
       ELSE /\ target[r] \in ActiveOf(r)
            /\ write[r] = IF input[r].op = "update"
                          THEN UpdatedRow(rows[target[r]], plan[r])
                          ELSE DeletedRow(rows[target[r]])
    /\ pc[r] \in {"history", "commit"} =>
         version[r] = NextHistoryVersion(history, input[r].owner, input[r].alias)

\* From its write to its COMMIT a transaction has its owner and alias to
\* itself, its row is current and the version it has read is still the next
\* one.  No code takes a lock for the version: the row lock and the unique
\* index key do it.
LockDiscipline ==
    /\ RowHeldAlone
    /\ \A r \in Requests : Holds(r) => WriteIsCurrent(r)
    /\ \A id \in Requests : rows[id] # Null => pc[id] = "done"

\* At most one row of an owner and alias is not deleted, although two
\* registrations, or a deletion and a registration, overlap.
OneActivePerAlias ==
    \A u \in Users, a \in Aliases : \A i, j \in ActiveIds(rows, u, a) : i = j

\* The versions of one owner and alias are 1..n, each used once, although
\* the version is read by a statement of its own before the INSERT and the
\* numbering goes on across deletion and re-registration.
HistoryIsLinear ==
    \A u \in Users, a \in Aliases :
        /\ LET vs == Versions(history, u, a) IN vs = {} \/ \E n \in vs : vs = 1 .. n
        /\ \A g, h \in history :
             (g.owner = u /\ g.alias = a /\ h.owner = u /\ h.alias = a
                /\ g.version = h.version) => g = h

\* The newest event of an owner and alias says which credential is active:
\* none after a delete, else the one the event names.  The two tables never
\* disagree on what happened last.
HistoryTellsActiveRow ==
    \A u \in Users, a \in Aliases :
        LET events == {h \in history : h.owner = u /\ h.alias = a}
        IN  /\ events = {} => ActiveIds(rows, u, a) = {}
            /\ \A h \in events :
                 (\A g \in events : g.version <= h.version) =>
                     ActiveIds(rows, u, a) =
                         IF h.action = "delete" THEN {} ELSE {h.credential_id}

\* A caller told ok has exactly one event of its own in the history; a
\* caller told not_found, conflict or invalid has none; and conflict, the
\* text of every unique violation, is only ever told to a registration.
RepliesAreTruthful ==
    \A r \in Requests :
        LET mine == {h \in history : h.request = r}
        IN  /\ reply[r] = "ok" =>
                 \E h \in mine : mine = {h} /\ h.action = input[r].op
            /\ reply[r] \in {"none", "not_found", "conflict", "invalid"} => mine = {}
            /\ reply[r] = "conflict" => input[r].op = "register"

\* A committed row keeps its owner, alias and category for good, and its
\* secret until it is deleted; deletion destroys the secret in the same
\* step and is final, whatever update was under way.
RowKept(id) ==
    rows[id] # Null =>
        /\ rows'[id] # Null
        /\ rows'[id].owner = rows[id].owner
        /\ rows'[id].alias = rows[id].alias
        /\ rows'[id].category = rows[id].category
        /\ IF rows[id].deleted THEN rows'[id] = rows[id]
           ELSE rows'[id].secret = IF rows'[id].deleted THEN Null ELSE rows[id].secret

RowLifecycle == [][\A id \in Requests : RowKept(id)]_vars

Overlaps(tbl, id) ==
    /\ Active(tbl, id)
    /\ tbl[id].category = "http"
    /\ ~NoOverlap(tbl[id].policy, tbl[id].secret)

\* The only way a policy can come to name a secret header of its credential
\* is an update planned against one credential and applied to another that
\* took over its alias: the overlap check is right for the row it read.
OverlapOnlyFromStalePlan ==
    [][\A id \in Requests : (~Overlaps(rows, id) /\ Overlaps(rows', id)) =>
         \E r \in Requests : /\ pc[r] = "commit" /\ pc'[r] = "done"
                            /\ target[r] = id
                            /\ input[r].op = "update" /\ plan[r].from # id]_vars

\* docs/mcp/worst-cases.md on credential updates: an HTTP policy that
\* overlaps a sealed secret header is refused.  So no active credential has
\* one.
PolicyNeverOverlapsSecret == \A id \in Requests : ~Overlaps(rows, id)

\* Every request that was accepted is answered: no cycle of waits on row
\* locks, unique index keys and pool connections.
EveryRequestIsAnswered ==
    \A r \in Requests : pc[r] # "idle" ~> pc[r] = "done"
=============================================================================
