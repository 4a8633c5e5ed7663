------------------------- MODULE CredentialListing -------------------------
(***************************************************************************)
(* credential_list read page by page, and credential_summary, while        *)
(* credentials are registered, updated and deleted                         *)
(* (service/src/credential/listing.rs, service.rs, credential_repo.rs).    *)
(* The credential store appears as what it promises, CredentialLedger.     *)
(*                                                                         *)
(* A page is one SELECT and so one snapshot; a listing is as many as its   *)
(* caller asks for, each with the cursor of the one before.  A summary is  *)
(* four SELECTs of no common snapshot.  Tags are the field filtered by:    *)
(* the other filters are conditions of the same WHERE.  Counts by provider *)
(* are made like those by category.                                        *)
(***************************************************************************)
EXTENDS CredentialTables, Sequences, FiniteSetsExt, Functions

CONSTANTS
    Readers,           \* callers of credential_list or credential_summary
    Tags,
    MaxListLimit,      \* MAX_LIST_LIMIT
    DefaultListLimit,  \* DEFAULT_LIST_LIMIT
    MaxChanges         \* bound on the events of the credential history

ASSUME ListingAssumption ==
    /\ Aliases \subseteq Nat \ {0}   \* in the order of the text they stand for
    /\ Fields = {"tags"} /\ Values \subseteq SUBSET Tags
    /\ Null \notin Tags \cup Users
    /\ \A n \in Aliases : Null # n
    /\ MaxListLimit \in Nat \ {0} /\ DefaultListLimit \in 1..MaxListLimit
    /\ MaxChanges \in Nat

VARIABLES
    rows, history,  \* the credential store's tables
    list,           \* list[r]: what r has read of a list
    summary         \* summary[r]: what r has read of a summary

vars == <<rows, history, list, summary>>

Ledger == INSTANCE CredentialLedger WITH rows <- rows, history <- history

\* throughout, ever: the aliases that matched at every moment since the
\* listing began, and at some moment.
ListState ==
    [pc         : {"idle", "asking", "done", "refused"},
     owner      : {Null} \cup Users,
     tag        : {Null} \cup Tags,
     cursor     : {Null} \cup Aliases,
     listed     : Seq(Aliases),
     throughout : SUBSET Aliases,
     ever       : SUBSET Aliases]

\* added, removed: credentials registered and deleted since the first count.
SummaryState ==
    [pc          : {"idle", "by_category", "tags", "done"},
     owner       : {Null} \cup Users,
     total       : Nat,
     by_category : [Categories -> Nat],
     tags        : [Tags -> Nat],
     added       : Nat,
     removed     : Nat]

TypeOK ==
    /\ Tables(rows, history)
    /\ list \in [Readers -> ListState]
    /\ summary \in [Readers -> SummaryState]

Init ==
    /\ Ledger!Init
    /\ list = [r \in Readers |->
          [pc |-> "idle", owner |-> Null, tag |-> Null, cursor |-> Null, listed |-> <<>>,
           throughout |-> {}, ever |-> {}]]
    /\ summary = [r \in Readers |->
          [pc |-> "idle", owner |-> Null, total |-> 0, added |-> 0, removed |-> 0,
           by_category |-> [c \in Categories |-> 0], tags |-> [t \in Tags |-> 0]]]

\* A reader reads one thing.
Idle(r) == list[r].pc = "idle" /\ summary[r].pc = "idle"

ActiveOf(tables, u) == {id \in Requests : Active(tables, id) /\ tables[id].owner = u}

Tagged(tables, ids, tag) == {id \in ids : tag = Null \/ tag \in tables[id].meta["tags"]}

\* The WHERE clause of list_credentials, but for the cursor.
Matching(tables, u, tag) ==
    {tables[id].alias : id \in Tagged(tables, ActiveOf(tables, u), tag)}

-----------------------------------------------------------------------------
(* credential_list *)

\* The first page is asked for.  Its filters stay those of the listing.
Begin(r) ==
    /\ Idle(r)
    /\ \E u \in Users, tag \in {Null} \cup Tags :
         list' = [list EXCEPT ![r] =
             [@ EXCEPT !.pc = "asking", !.owner = u, !.tag = tag,
                       !.throughout = Matching(rows, u, tag), !.ever = Matching(rows, u, tag)]]
    /\ UNCHANGED <<rows, history, summary>>

\* validate_list_input, of limit.  None is the default limit.
ValidLimit(limit) == limit = Null \/ limit \in 1..MaxListLimit

PageLimit(limit) == IF limit = Null THEN DefaultListLimit ELSE limit

\* Mutant: the limit of the repository is MAX_LIST_LIMIT.
RepoLimitAtMax(limit) ==
    IF limit <= 0 THEN DefaultListLimit ELSE Min({limit, MaxListLimit})

\* The LIMIT of the SELECT, which has room for one row more than a page.
RepoLimit(limit) ==
    IF limit <= 0 THEN DefaultListLimit ELSE Min({limit, MaxListLimit + 1})

\* ORDER BY alias ASC
InOrder(aliases) ==
    CHOOSE s \in [1 .. Cardinality(aliases) -> aliases] :
        \A i, j \in DOMAIN s : i < j => s[i] < s[j]

\* LIMIT
Fetched(aliases, limit) ==
    LET sorted == InOrder(aliases)
    IN  SubSeq(sorted, 1, Min({Len(sorted), limit}))

\* alias > $7
Past(aliases, cursor) == {a \in aliases : cursor = Null \/ a > cursor}

\* Null unless has_more.
NextCursor(fetched, limit) ==
    IF Len(fetched) > limit THEN fetched[limit] ELSE Null

\* list_page.  A caller may ask for another limit on every page.
Page(r) ==
    /\ list[r].pc = "asking"
    /\ \E asked \in {Null} \cup 0..MaxListLimit + 1 :
         LET limit   == PageLimit(asked)
             past    == Past(Matching(rows, list[r].owner, list[r].tag), list[r].cursor)
             fetched == Fetched(past, RepoLimit(limit + 1))
             next    == NextCursor(fetched, limit)
             page    == SubSeq(fetched, 1, Min({Len(fetched), limit}))
         IN  list' =
               IF ~ValidLimit(asked) THEN [list EXCEPT ![r].pc = "refused"]
               ELSE [list EXCEPT ![r] =
                       [@ EXCEPT !.listed = list[r].listed \o page, !.cursor = next,
                                 !.pc = IF next = Null THEN "done" ELSE "asking"]]
    /\ UNCHANGED <<rows, history, summary>>

-----------------------------------------------------------------------------
(* credential_summary *)

Total(r) ==
    /\ Idle(r)
    /\ \E u \in Users :
         summary' = [summary EXCEPT ![r] =
             [@ EXCEPT !.pc = "by_category", !.owner = u,
                       !.total = Cardinality(ActiveOf(rows, u))]]
    /\ UNCHANGED <<rows, history, list>>

\* Mutant: deleted_at IS NULL is missing.
CountByCategoryOfAll(u) ==
    [c \in Categories |->
        Cardinality({id \in Requests : rows[id] # Null /\ rows[id].owner = u
                                       /\ rows[id].category = c})]

CountByCategory(u) ==
    [c \in Categories |-> Cardinality({id \in ActiveOf(rows, u) : rows[id].category = c})]

ByCategory(r) ==
    /\ summary[r].pc = "by_category"
    /\ summary' = [summary EXCEPT ![r] =
          [@ EXCEPT !.pc = "tags", !.by_category = CountByCategory(summary[r].owner)]]
    /\ UNCHANGED <<rows, history, list>>

\* CROSS JOIN unnest(tags) ... GROUP BY tag
CountTags(u) == [t \in Tags |-> Cardinality(Tagged(rows, ActiveOf(rows, u), t))]

ByTag(r) ==
    /\ summary[r].pc = "tags"
    /\ summary' = [summary EXCEPT ![r] = [@ EXCEPT !.pc = "done", !.tags = CountTags(summary[r].owner)]]
    /\ UNCHANGED <<rows, history, list>>

-----------------------------------------------------------------------------

Change ==
    /\ Cardinality(history) < MaxChanges
    /\ Ledger!Next
    /\ list' = [r \in Readers |->
          LET now == IF list[r].owner = Null THEN {}
                     ELSE Matching(rows', list[r].owner, list[r].tag)
          IN  IF list[r].pc = "asking"
              THEN [list[r] EXCEPT !.throughout = @ \cap now, !.ever = @ \cup now]
              ELSE list[r]]
    /\ summary' = [r \in Readers |->
          LET before == ActiveOf(rows, summary[r].owner)
              after  == ActiveOf(rows', summary[r].owner)
          IN  IF summary[r].pc \in {"by_category", "tags"}
              THEN [summary[r] EXCEPT !.added = @ + Cardinality(after \ before),
                                      !.removed = @ + Cardinality(before \ after)]
              ELSE summary[r]]

Finished ==
    /\ \A r \in Readers : list[r].pc \in {"done", "refused"} \/ summary[r].pc = "done"
    /\ UNCHANGED vars

Next ==
    \/ \E r \in Readers : Begin(r) \/ Page(r) \/ Total(r) \/ ByCategory(r) \/ ByTag(r)
    \/ Change
    \/ Finished

Spec == Init /\ [][Next]_vars

-----------------------------------------------------------------------------
(* Correctness *)

\* Read to its end, a list has every credential that matched all the while
\* once and none that never did, whatever came and went between its pages and
\* whatever limits they had; before the end, nothing up to the cursor is
\* missing.
ListingIsComplete ==
    \A r \in Readers :
        LET listed == list[r].listed
            due    == IF list[r].pc = "done" THEN list[r].throughout
                      ELSE {a \in list[r].throughout :
                              list[r].cursor # Null /\ a <= list[r].cursor}
        IN  /\ \A i, j \in DOMAIN listed : i < j => listed[i] < listed[j]
            /\ list[r].pc # "refused" => due \subseteq Range(listed)
            /\ Range(listed) \subseteq list[r].ever

\* The counts of a summary differ by no more than was registered and deleted
\* between its SELECTs; with nothing in between they add up.
SummaryAddsUp ==
    \A r \in Readers : summary[r].pc = "done" =>
        LET sum == SumFunction(summary[r].by_category)
        IN  /\ sum <= summary[r].total + summary[r].added
            /\ summary[r].total <= sum + summary[r].removed
            /\ \A t \in Tags : summary[r].tags[t] <= summary[r].total + summary[r].added
=============================================================================
