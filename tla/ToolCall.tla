------------------------------ MODULE ToolCall ------------------------------
(***************************************************************************)
(* A call of api_call, sql_query or sql_schema from its arrival to its     *)
(* answer and the records it leaves (service/src/api_call, sql_query and   *)
(* sql_schema: service.rs, policy.rs, target.rs, recording.rs), while the  *)
(* credentials it looks up are registered, updated and deleted.  The       *)
(* credential store appears as what it promises, CredentialLedger.         *)
(*                                                                         *)
(* An action is the code between two awaits.  A call reads its credential  *)
(* once and works on that copy to the end.  policy stands for all that a   *)
(* policy grants, asks for what a call needs of it: for an HTTP call the   *)
(* headers it brings, for an SQL call its budgets and EXPLAIN.             *)
(*                                                                         *)
(* pc:  idle -> find -> (prepare ->) send -> answer                        *)
(*           -> audit -> history -> request -> done                        *)
(***************************************************************************)
EXTENDS CredentialTables

CONSTANTS
    Calls,
    MaxChanges   \* bound on the events of the credential history

ASSUME ToolCallAssumption == MaxChanges \in Nat

VARIABLES
    rows, history,  \* the credential store's tables
    call,           \* the state of each call
    sent,           \* what has left for a target
    audit,          \* audit_logs, as far as calls write it
    toolHistory     \* api_call_history and sql_query_history

vars == <<rows, history, call, sent, audit, toolHistory>>

store == <<rows, history>>

Ledger == INSTANCE CredentialLedger WITH rows <- rows, history <- history

Tools == {"api_call", "sql_query", "sql_schema"}

CategoryOf(tool) == IF tool = "api_call" THEN "http" ELSE "sql"

Denials == {"bad_input", "credential_not_found", "wrong_category", "policy_denied"}

Errors == {"secret_destroyed", "secret_open_failed", "target_prepare_failed",
           "target_request_failed", "target_failed", "malformed", "store_failed"}

\* audit::runtime::outcome
OutcomeOf(kind) ==
    IF kind = "none" THEN "ok" ELSE IF kind \in Denials THEN "denied" ELSE "error"

\* id, row: the credential as it was read.  lost: the records whose INSERT
\* failed.  gone: the credentials already deleted when the call arrived.
CallState ==
    [pc      : {"idle", "find", "prepare", "send", "answer", "audit", "history",
                "request", "done", "dropped", "stopped"},
     tool    : {Null} \cup Tools,
     channel : {"none", "mcp", "rest"},
     user    : {Null} \cup Users,
     alias   : {Null} \cup Aliases,
     asks    : SUBSET Headers,
     id      : {Null} \cup Requests,
     row     : {Null} \cup Row,
     kind    : {"none"} \cup Denials \cup Errors,
     lost    : SUBSET {"audit", "history", "request"},
     gone    : SUBSET Requests]

\* caller: what the target gets as the caller asked; secret: what it gets
\* from the sealed secret.
Sending == [call : Calls, id : Requests, caller : SUBSET Headers, secret : SUBSET Headers]

Record == [call : Calls, event : {"tool", "request"},
           outcome : {"ok", "denied", "error"}, credential_id : {Null} \cup Requests]

TypeOK ==
    /\ Tables(rows, history)
    /\ call \in [Calls -> CallState]
    /\ sent \subseteq Sending
    /\ audit \subseteq Record
    /\ toolHistory \subseteq Record

Init ==
    /\ Ledger!Init
    /\ call = [c \in Calls |->
          [pc |-> "idle", tool |-> Null, channel |-> "none", user |-> Null, alias |-> Null,
           asks |-> {}, id |-> Null, row |-> Null, kind |-> "none", lost |-> {}, gone |-> {}]]
    /\ sent = {} /\ audit = {} /\ toolHistory = {}

-----------------------------------------------------------------------------
(* Arrival, lookup and policy *)

GoTo(c, pc, kind) == call' = [call EXCEPT ![c].pc = pc, ![c].kind = kind]

\* The outcome is settled and is recorded next.
Conclude(c, kind) == GoTo(c, "audit", kind)

Arrivals(c, channel, pc, kind) ==
    \E tool \in Tools, u \in Users, a \in Aliases, asks \in SUBSET Headers :
        /\ tool = "sql_schema" => channel = "mcp"
        /\ call' = [call EXCEPT ![c] =
              [@ EXCEPT !.pc = pc, !.kind = kind, !.tool = tool, !.channel = channel,
                        !.user = u, !.alias = a, !.asks = asks,
                        !.gone = {id \in Requests : rows[id] # Null /\ rows[id].deleted}]]

\* The caller is known and normalize_input accepts or refuses what was sent.
Arrive(c) ==
    /\ call[c].pc = "idle"
    /\ \E channel \in {"mcp", "rest"} :
          \/ Arrivals(c, channel, "find", "none")
          \/ Arrivals(c, channel, "audit", "bad_input")
    /\ UNCHANGED <<store, sent, audit, toolHistory>>

\* A REST body that is no input at all never reaches the service.
ArriveMalformed(c) ==
    /\ call[c].pc = "idle"
    /\ Arrivals(c, "rest", "request", "malformed")
    /\ UNCHANGED <<store, sent, audit, toolHistory>>

\* Mutant: WHERE alias = $1, for whoever owns it.
FoundAnyOwner(c) == UNION {ActiveIds(rows, u, call[c].alias) : u \in Users}

\* find_credential_secret_by_alias
Found(c) == ActiveIds(rows, call[c].user, call[c].alias)

\* The query fails, or its row cannot be decoded: the error is returned as it
\* is, and nothing is recorded.
FindFails(c) ==
    /\ call[c].pc = "find"
    /\ GoTo(c, "request", "store_failed")
    /\ UNCHANGED <<store, sent, audit, toolHistory>>

\* Mutant: an unknown alias returns without a record.
FindsNothingUnrecorded(c) ==
    /\ call[c].pc = "find"
    /\ Found(c) = {}
    /\ GoTo(c, "request", "credential_not_found")
    /\ UNCHANGED <<store, sent, audit, toolHistory>>

FindsNothing(c) ==
    /\ call[c].pc = "find"
    /\ Found(c) = {}
    /\ Conclude(c, "credential_not_found")
    /\ UNCHANGED <<store, sent, audit, toolHistory>>

\* Mutant: caller_overrides_secret_header is not asked.
VerdictNoOverride(i, row, opens) ==
    IF row.category # CategoryOf(i.tool) THEN "wrong_category"
    ELSE IF ~(i.asks \subseteq row.policy) THEN "policy_denied"
    ELSE IF row.secret = Null THEN "secret_destroyed"
    ELSE IF ~opens THEN "secret_open_failed"
    ELSE "none"

\* The checks on the credential that was read, in their order.  The names of
\* the secret headers are known only once the secret is open.
Verdict(i, row, opens) ==
    IF row.category # CategoryOf(i.tool) THEN "wrong_category"
    ELSE IF ~(i.asks \subseteq row.policy) THEN "policy_denied"
    ELSE IF row.secret = Null THEN "secret_destroyed"
    ELSE IF ~opens THEN "secret_open_failed"
    ELSE IF i.tool = "api_call" /\ i.asks \cap row.secret # {} THEN "policy_denied"
    ELSE "none"

\* opens: the ciphertext was sealed for this alias under the present key.
Finds(c) ==
    /\ call[c].pc = "find"
    /\ \E id \in Found(c), opens \in BOOLEAN :
         LET kind == Verdict(call[c], rows[id], opens)
         IN  call' = [call EXCEPT ![c].id = id, ![c].row = rows[id], ![c].kind = kind,
                                  ![c].pc = IF kind # "none" THEN "audit"
                                            ELSE IF call[c].tool = "api_call" THEN "send"
                                            ELSE "prepare"]
    /\ UNCHANGED <<store, sent, audit, toolHistory>>

-----------------------------------------------------------------------------
(* The target *)

\* prepare_postgres_target
Prepare(c) ==
    /\ call[c].pc = "prepare"
    /\ \E ok \in BOOLEAN : IF ok THEN GoTo(c, "send", "none")
                           ELSE Conclude(c, "target_prepare_failed")
    /\ UNCHANGED <<store, sent, audit, toolHistory>>

\* What send_target puts together: caller headers, and the secret's over them.
\* An SQL call's secret is the login of its connection.
Sends(c) ==
    [call |-> c, id |-> call[c].id, secret |-> call[c].row.secret,
     caller |-> IF call[c].tool = "api_call" THEN call[c].asks \ call[c].row.secret
                ELSE call[c].asks]

Send(c) ==
    /\ call[c].pc = "send"
    /\ sent' = sent \cup {Sends(c)}
    /\ GoTo(c, "answer", "none")
    /\ UNCHANGED <<store, audit, toolHistory>>

\* The URL is blocked, the target cannot be reached, no connection is free.
SendFails(c) ==
    /\ call[c].pc = "send"
    /\ Conclude(c, "target_request_failed")
    /\ UNCHANGED <<store, sent, audit, toolHistory>>

TargetAnswers(c) ==
    /\ call[c].pc = "answer"
    /\ Conclude(c, "none")
    /\ UNCHANGED <<store, sent, audit, toolHistory>>

\* Timeout, broken connection, SQL error, an answer that is no JSON, or that
\* cannot be shaped.
TargetFails(c) ==
    /\ call[c].pc = "answer"
    /\ Conclude(c, "target_failed")
    /\ UNCHANGED <<store, sent, audit, toolHistory>>

-----------------------------------------------------------------------------
(* The records *)

\* Mutant: the record names the credential the alias has by now.
RecordedIdNow(c) ==
    IF Found(c) = {} THEN Null ELSE CHOOSE id \in Found(c) : TRUE

\* CredentialSnapshot
RecordedId(c) == call[c].id

ToolRecord(c) ==
    [call |-> c, event |-> "tool", outcome |-> OutcomeOf(call[c].kind),
     credential_id |-> RecordedId(c)]

\* record_tool of MCP, record_api_request of REST.  Which error it was is
\* left out.
RequestRecord(c) ==
    [call |-> c, event |-> "request", credential_id |-> Null,
     outcome |-> IF call[c].kind = "none" THEN "ok" ELSE "error"]

Loses(c, record, pc) ==
    call' = [call EXCEPT ![c].pc = pc, ![c].lost = @ \cup {record}]

\* A record is stored, or its INSERT fails, which is only logged.  Only
\* api_call and sql_query have a history.
RecordAudit(c) ==
    LET next == IF call[c].tool = "sql_schema" THEN "request" ELSE "history"
    IN  /\ call[c].pc = "audit"
        /\ \/ audit' = audit \cup {ToolRecord(c)} /\ GoTo(c, next, call[c].kind)
           \/ UNCHANGED audit /\ Loses(c, "audit", next)
        /\ UNCHANGED <<store, sent, toolHistory>>

RecordHistory(c) ==
    /\ call[c].pc = "history"
    /\ \/ toolHistory' = toolHistory \cup {ToolRecord(c)} /\ GoTo(c, "request", call[c].kind)
       \/ UNCHANGED toolHistory /\ Loses(c, "history", "request")
    /\ UNCHANGED <<store, sent, audit>>

RecordRequest(c) ==
    /\ call[c].pc = "request"
    /\ \/ audit' = audit \cup {RequestRecord(c)} /\ GoTo(c, "done", call[c].kind)
       \/ UNCHANGED audit /\ Loses(c, "request", "done")
    /\ UNCHANGED <<store, sent, toolHistory>>

-----------------------------------------------------------------------------

InProgress(c) == call[c].pc \notin {"idle", "done", "dropped", "stopped"}

\* The REST client goes away and the handler is dropped at its await, with
\* the middleware around it.  An MCP call runs in a task of its own.
Drop(c) ==
    /\ InProgress(c)
    /\ call[c].channel = "rest"
    /\ GoTo(c, "dropped", call[c].kind)
    /\ UNCHANGED <<store, sent, audit, toolHistory>>

\* The process ends.
Stop ==
    /\ \E c \in Calls : InProgress(c)
    /\ call' = [c \in Calls |->
          IF InProgress(c) THEN [call[c] EXCEPT !.pc = "stopped"] ELSE call[c]]
    /\ UNCHANGED <<store, sent, audit, toolHistory>>

\* A register, update or delete takes effect.
StoreChanges ==
    /\ Cardinality(history) < MaxChanges
    /\ Ledger!Next
    /\ UNCHANGED <<call, sent, audit, toolHistory>>

Step(c) ==
    \/ FindFails(c) \/ FindsNothing(c) \/ Finds(c)
    \/ Prepare(c) \/ Send(c) \/ SendFails(c)
    \/ TargetAnswers(c) \/ TargetFails(c)
    \/ RecordAudit(c) \/ RecordHistory(c) \/ RecordRequest(c)

Finished == (\A c \in Calls : ~InProgress(c)) /\ UNCHANGED vars

Next ==
    \/ \E c \in Calls : Arrive(c) \/ ArriveMalformed(c) \/ Step(c) \/ Drop(c)
    \/ Stop
    \/ StoreChanges
    \/ Finished

Spec == Init /\ [][Next]_vars

-----------------------------------------------------------------------------
(* Correctness *)

RecordsOf(c, S) == {r \in S : r.call = c /\ r.event = "tool"}

Reached(c) == \E s \in sent : s.call = c

\* Only the caller's own credential of that alias and of the tool's category
\* is used, and none that was deleted before the call arrived: a deletion
\* leaves only calls that were under way.
CallsUseOwnCredentials ==
    \A s \in sent :
        LET i == call[s.call]
        IN  /\ rows[s.id].owner = i.user /\ rows[s.id].alias = i.alias
            /\ rows[s.id].category = CategoryOf(i.tool)
            /\ s.id \notin i.gone
            /\ rows[s.id].secret \in {s.secret, Null}

\* What reaches a target is what the caller asked for, the policy granted and
\* the secret does not override; even under a policy that overlaps the secret
\* headers, which an update can leave behind (CredentialStore).
RequestsAreGranted ==
    \A s \in sent :
        /\ s.caller = call[s.call].asks
        /\ s.caller \subseteq call[s.call].row.policy

\* docs/mcp/worst-cases.md, audit/history: a call has at most one record in
\* each table, they agree with each other, with the answer and with what was
\* done: a denied call reached no target, an ok call did, and the credential
\* on record is the one whose secret was sent, whatever the alias names now.
RecordsAreTruthful ==
    \A c \in Calls :
        LET mine == RecordsOf(c, audit) \cup RecordsOf(c, toolHistory)
        IN  \A r \in mine :
              /\ mine = {r}
              /\ r.outcome = "denied" => ~Reached(c)
              /\ r.outcome = "ok" => Reached(c)
              /\ r.credential_id = Null => ~Reached(c)
              /\ \A s \in sent : s.call = c => r.credential_id = s.id
              /\ call[c].pc = "done" => r.outcome = OutcomeOf(call[c].kind)

\* An answered call is on record wherever its tool keeps one, bar the records
\* whose INSERT failed.  Two answers come without: the body was no input, or
\* the lookup failed; neither has reached a target.
AnsweredIsRecorded ==
    \A c \in Calls :
        call[c].pc = "done" =>
            IF call[c].kind \in {"malformed", "store_failed"} THEN ~Reached(c)
            ELSE /\ RecordsOf(c, audit) = {} => "audit" \in call[c].lost
                 /\ RecordsOf(c, toolHistory) = {} =>
                       "history" \in call[c].lost \/ call[c].tool = "sql_schema"
=============================================================================
