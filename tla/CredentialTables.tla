-------------------------- MODULE CredentialTables --------------------------
(***************************************************************************)
(* The two tables every credential operation works on, credentials and     *)
(* credential_history (db/migrations/0001_schema.sql), as values, and the    *)
(* queries the repository runs over them (db/src/credential_repo.rs).      *)
(*                                                                         *)
(* A row is named by the request that inserted it: gen_random_uuid() gives *)
(* every INSERT an id of its own.  Data the properties do not tell apart   *)
(* is left out: provider, target, TLS material and timestamps are written  *)
(* once, by the INSERT, and actor columns always hold the owner.           *)
(*                                                                         *)
(*   secret  the names of the sealed secret headers (none for a SQL        *)
(*           credential), or Null once secret_ciphertext is NULL           *)
(*   policy  policy.allowed_request_headers                                *)
(*   meta    the other mutable columns (description, env, tags), which the *)
(*           code treats alike: Fields is the subset an instance keeps     *)
(***************************************************************************)
EXTENDS Naturals, FiniteSets

CONSTANTS
    Requests,    \* tool calls that register, update or delete, one use each
    Users,       \* owner_user_id
    Aliases,
    Categories,  \* {"http", "sql"}, or one of them
    Headers,     \* canonical header names
    Fields,      \* mutable columns other than policy
    Values,      \* normalised values of those columns
    Null         \* SQL NULL, Rust None

ASSUME CategoriesAssumption == Categories \subseteq {"http", "sql"}

ASSUME FieldsAssumption == "policy" \notin Fields

ASSUME NullAssumption ==
    /\ Null \notin Values
    /\ Null \notin Requests
    /\ \A S \in SUBSET Headers : S # Null

Row == [owner    : Users,
        alias    : Aliases,
        category : Categories,
        secret   : {Null} \cup SUBSET Headers,
        policy   : SUBSET Headers,
        meta     : [Fields -> Values],
        deleted  : BOOLEAN]

ASSUME NullIsNoRow == \A row \in Row : row # Null

Event == [owner         : Users,
          alias         : Aliases,
          version       : Nat \ {0},
          credential_id : Requests,
          action        : {"register", "update", "delete"},
          request       : Requests,
          changed       : SUBSET (Fields \cup {"policy"})]

Tables(rows, history) ==
    /\ rows \in [Requests -> {Null} \cup Row]
    /\ history \in SUBSET Event

\* deleted_at IS NULL
Active(rows, id) == rows[id] # Null /\ ~rows[id].deleted

\* WHERE owner_user_id = $1 AND alias = $2 AND deleted_at IS NULL
ActiveIds(rows, u, a) ==
    {id \in Requests : Active(rows, id) /\ rows[id].owner = u /\ rows[id].alias = a}

Versions(history, u, a) ==
    {h.version : h \in {e \in history : e.owner = u /\ e.alias = a}}

\* Mutant: SELECT COALESCE(MAX(version), 1) + 1
NextHistoryVersionFromTwo(history, u, a) ==
    LET vs == Versions(history, u, a)
    IN  IF vs = {} THEN 2
        ELSE (CHOOSE m \in vs : \A n \in vs : n <= m) + 1

\* SELECT COALESCE(MAX(version), 0) + 1
NextHistoryVersion(history, u, a) ==
    LET vs == Versions(history, u, a)
    IN  IF vs = {} THEN 1
        ELSE (CHOOSE m \in vs : \A n \in vs : n <= m) + 1

\* What validate_allowed_headers_do_not_overlap_secret accepts.
NoOverlap(policy, secret) == policy \cap secret = {}

\* Mutant: deleted_at is set and secret_ciphertext is left.
DeletedRowWithSecret(row) == [row EXCEPT !.deleted = TRUE]

\* The row a soft delete leaves behind.
DeletedRow(row) == [row EXCEPT !.secret = Null, !.deleted = TRUE]
=============================================================================
