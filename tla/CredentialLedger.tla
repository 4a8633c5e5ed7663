-------------------------- MODULE CredentialLedger --------------------------
(***************************************************************************)
(* What the credential store promises its callers: every register, update  *)
(* and delete is one indivisible change of both tables.  It is decided     *)
(* against the tables as they are at that moment, leaves at most one       *)
(* active credential per owner and alias, and appends exactly one history  *)
(* event carrying the next version of that owner and alias.                *)
(*                                                                         *)
(* CredentialStore, where every operation is several statements of a       *)
(* transaction interleaved with others, is shown to implement this.        *)
(***************************************************************************)
EXTENDS CredentialTables

VARIABLES rows, history

vars == <<rows, history>>

Init ==
    /\ rows = [id \in Requests |-> Null]
    /\ history = {}

\* One event, numbered by the history it is appended to.
Append1(u, a, id, action, request, changed) ==
    history' = history \cup
        {[owner |-> u, alias |-> a, version |-> NextHistoryVersion(history, u, a),
          credential_id |-> id, action |-> action, request |-> request,
          changed |-> changed]}

Register(u, a, id) ==
    /\ rows[id] = Null
    /\ ActiveIds(rows, u, a) = {}
    /\ Append1(u, a, id, "register", id, {})
    /\ \E row \in Row :
         /\ row.owner = u /\ row.alias = a
         /\ ~row.deleted /\ row.secret # Null
         /\ row.category = "http" => NoOverlap(row.policy, row.secret)
         /\ rows' = [rows EXCEPT ![id] = row]

Update(u, a, id, request, changed) ==
    /\ id \in ActiveIds(rows, u, a)
    /\ changed # {}
    /\ Append1(u, a, id, "update", request, changed)
    /\ \E policy \in SUBSET Headers, meta \in [Fields -> Values] :
         rows' = [rows EXCEPT ![id] = [@ EXCEPT !.policy = policy, !.meta = meta]]

Delete(u, a, id, request) ==
    /\ id \in ActiveIds(rows, u, a)
    /\ Append1(u, a, id, "delete", request, {})
    /\ rows' = [rows EXCEPT ![id] = DeletedRow(@)]

Next ==
    \E u \in Users, a \in Aliases, id \in Requests :
        \/ Register(u, a, id)
        \/ \E request \in Requests, changed \in SUBSET (Fields \cup {"policy"}) :
             Update(u, a, id, request, changed)
        \/ \E request \in Requests : Delete(u, a, id, request)

Spec == Init /\ [][Next]_vars
=============================================================================
