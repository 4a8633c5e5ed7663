------------------------ MODULE CredentialStoreProofs ------------------------
(***************************************************************************)
(* Proofs about CredentialStore for every set of requests, users, aliases, *)
(* headers, fields and values, and every pool size.                        *)
(*                                                                         *)
(* The inductive invariant IInv joins four parts.  Shape says which of a   *)
(* request's variables are set at each of its calls.  LockDiscipline, from *)
(* CredentialStore, says what a transaction that holds its row may rely    *)
(* on.  HistoryIsLinear makes MAX(version) a number, and OneActivePerAlias *)
(* makes the row a transaction holds the only one of its owner and alias.  *)
(* They need each other: the type of a version needs linearity, linearity  *)
(* needs the version a COMMIT inserts to be still the next one, and that   *)
(* needs the discipline.                                                   *)
(*                                                                         *)
(* The rest follows from IInv: that the tables agree on what happened last *)
(* and that answers are truthful are inductive beside it, and that a plan  *)
(* stays right about the row it was computed from (PlanKept) leaves the    *)
(* alias's next row as the only one its policy can be wrong for.           *)
(***************************************************************************)
EXTENDS CredentialStore, TLAPS

ShapeOf(r) ==
    /\ pc[r] \notin {"idle", "done"} => input[r] \in Inputs
    /\ pc[r] = "find" => input[r].op = "update"
    /\ pc[r] = "insert" => input[r].op = "register"
    /\ pc[r] \in {"scan", "lock"} => input[r].op # "register"
    /\ (pc[r] \notin {"idle", "done", "find"} /\ input[r].op = "update") =>
         /\ plan[r] \in Plan
         /\ plan[r].changed # {}
    /\ (pc[r] \in {"begin", "insert"} /\ input[r].op = "register") =>
         ValidRegister(input[r])
    /\ pc[r] = "lock" \/ Holds(r) => target[r] \in Requests
    /\ Holds(r) => write[r] \in Row
    /\ pc[r] \in {"history", "commit"} => version[r] \in Nat \ {0}

Shape == \A r \in Requests : ShapeOf(r)

IInv == TypeOK /\ Shape /\ LockDiscipline /\ HistoryIsLinear /\ OneActivePerAlias

-----------------------------------------------------------------------------
(* The queries *)

\* COALESCE(MAX(version), 0) + 1 over versions 1..n is n + 1.
LEMMA NextVersionIsNext ==
    ASSUME NEW H, NEW u, NEW a,
           Versions(H, u, a) \subseteq Nat,
           Versions(H, u, a) = {} \/ \E n \in Versions(H, u, a) : Versions(H, u, a) = 1 .. n
    PROVE  \E n \in Nat : /\ Versions(H, u, a) = 1 .. n
                          /\ NextHistoryVersion(H, u, a) = n + 1
<1>1. CASE Versions(H, u, a) = {}
  <2>1. Versions(H, u, a) = 1 .. 0
    BY <1>1
  <2>2. NextHistoryVersion(H, u, a) = 0 + 1
    BY <1>1 DEF NextHistoryVersion
  <2>3. QED
    BY <2>1, <2>2
<1>2. CASE Versions(H, u, a) # {}
  <2>1. PICK n \in Versions(H, u, a) : Versions(H, u, a) = 1 .. n
    BY <1>2
  <2> DEFINE m == CHOOSE k \in Versions(H, u, a) : \A j \in Versions(H, u, a) : j <= k
  <2>2. n \in Nat /\ \A j \in Versions(H, u, a) : j <= n
    BY <2>1
  <2>3. m \in Versions(H, u, a) /\ \A j \in Versions(H, u, a) : j <= m
    BY <2>1, <2>2
  <2>4. m = n
    BY <2>1, <2>2, <2>3
  <2>5. NextHistoryVersion(H, u, a) = m + 1
    BY <1>2 DEF NextHistoryVersion
  <2>6. QED
    BY <2>1, <2>2, <2>4, <2>5
<1>3. QED
  BY <1>1, <1>2

\* An input of each kind has the fields of its kind.
LEMMA InputKinds ==
    ASSUME NEW i \in Inputs
    PROVE  /\ i.op \in {"register", "update", "delete"}
           /\ i.owner \in Users /\ i.alias \in Aliases
           /\ i.op = "register" => i \in RegisterInput
           /\ i.op = "update" => i \in UpdateInput
BY DEF Inputs, RegisterInput, UpdateInput, DeleteInput

LEMMA NewRowType ==
    ASSUME NEW i \in RegisterInput
    PROVE  NewRow(i) \in Row
BY DEF NewRow, RegisterInput, Row

LEMMA UpdatedRowType ==
    ASSUME NEW row \in Row, NEW p \in Plan
    PROVE  UpdatedRow(row, p) \in Row
BY DEF UpdatedRow, Row, Plan

\* SET names policy and the Fields columns only.
LEMMA UpdatedRowKeeps ==
    ASSUME NEW row \in Row, NEW p
    PROVE  /\ UpdatedRow(row, p).owner = row.owner
           /\ UpdatedRow(row, p).alias = row.alias
           /\ UpdatedRow(row, p).category = row.category
           /\ UpdatedRow(row, p).secret = row.secret
           /\ UpdatedRow(row, p).deleted = row.deleted
BY DEF UpdatedRow, Row

LEMMA DeletedRowType ==
    ASSUME NEW row \in Row
    PROVE  DeletedRow(row) \in Row
BY DEF DeletedRow, Row

\* What ActiveIds returns is an active row of the tables' type.
LEMMA ActiveIdsType ==
    ASSUME NEW T \in [Requests -> {Null} \cup Row], NEW u, NEW a,
           NEW id \in ActiveIds(T, u, a)
    PROVE  /\ id \in Requests /\ T[id] \in Row /\ T[id] # Null
           /\ ~T[id].deleted /\ T[id].owner = u /\ T[id].alias = a
BY DEF ActiveIds, Active

-----------------------------------------------------------------------------
(* Type correctness and shape, one step per action *)

\* Under IInv the next history version is a positive number.
LEMMA NextVersionType ==
    ASSUME TypeOK, HistoryIsLinear, NEW u \in Users, NEW a \in Aliases
    PROVE  NextHistoryVersion(history, u, a) \in Nat \ {0}
<1>1. Versions(history, u, a) \subseteq Nat
  BY DEF TypeOK, Tables, Event, Versions
<1>2. Versions(history, u, a) = {}
        \/ \E n \in Versions(history, u, a) : Versions(history, u, a) = 1 .. n
  BY DEF HistoryIsLinear
<1>3. QED
  BY <1>1, <1>2, NextVersionIsNext

\* The plan of an update that found its credential.
LEMMA PlanType ==
    ASSUME TypeOK, NEW r \in Requests, input[r] \in UpdateInput, NEW id \in ActiveOf(r)
    PROVE  PlanUpdate(id, input[r]) \in Plan
<1>1. id \in Requests
  BY DEF ActiveOf, ActiveIds
<1>2. ChangedFields(rows[id], input[r]) \subseteq Fields \cup {"policy"}
  BY DEF ChangedFields
<1>3. QED
  BY <1>1, <1>2 DEF PlanUpdate, Plan, UpdateInput

LEMMA InitIInv == Init => IInv
<1> SUFFICES ASSUME Init
             PROVE  IInv
  OBVIOUS
<1>1. TypeOK
  BY DEF Init, TypeOK, Tables, PCs, Replies
<1>2. Shape
  BY DEF Init, Shape, ShapeOf, Holds
<1>3. LockDiscipline
  BY DEF Init, LockDiscipline, RowHeldAlone, Holds
<1>4. HistoryIsLinear
  BY DEF Init, HistoryIsLinear, Versions
<1>5. OneActivePerAlias
  BY DEF Init, OneActivePerAlias, ActiveIds, Active
<1>6. QED
  BY <1>1, <1>2, <1>3, <1>4, <1>5 DEF IInv

LEMMA TypeOKStep ==
    ASSUME IInv, [Next]_vars
    PROVE  TypeOK'
<1> USE DEF IInv, TypeOK, Tables, PCs, Replies, Answer, GoTo, reqVars
<1>1. ASSUME NEW r \in Requests, IssueRegister(r)
      PROVE  TypeOK'
  BY <1>1 DEF IssueRegister, Accept, Inputs, RegisterInput
<1>2. ASSUME NEW r \in Requests, IssueUpdate(r)
      PROVE  TypeOK'
  BY <1>2 DEF IssueUpdate, Accept, Inputs, UpdateInput
<1>3. ASSUME NEW r \in Requests, IssueDelete(r)
      PROVE  TypeOK'
  BY <1>3 DEF IssueDelete, Accept, Inputs, DeleteInput
<1>4. ASSUME NEW r \in Requests, Refuse(r)
      PROVE  TypeOK'
  BY <1>4 DEF Refuse
<1>5. ASSUME NEW r \in Requests, Find(r)
      PROVE  TypeOK'
  <2>1. CASE FindFails(r) \/ FindRejects(r)
    BY <2>1 DEF FindFails, FindRejects
  <2>2. CASE FindPlans(r)
    <3>1. input[r] \in UpdateInput
      BY <2>2, InputKinds DEF FindPlans, Shape, ShapeOf
    <3>2. PICK id \in ActiveOf(r) : plan' = [plan EXCEPT ![r] = PlanUpdate(id, input[r])]
      BY <2>2 DEF FindPlans
    <3>3. PlanUpdate(id, input[r]) \in Plan
      BY <3>1, PlanType
    <3>4. QED
      BY <2>2, <3>2, <3>3 DEF FindPlans
  <2>3. QED
    BY <1>5, <2>1, <2>2 DEF Find
<1>6. ASSUME NEW r \in Requests, Begin(r)
      PROVE  TypeOK'
  BY <1>6 DEF Begin
<1>7. ASSUME NEW r \in Requests, InsertCredential(r)
      PROVE  TypeOK'
  <2>1. NewRow(input[r]) \in Row
    BY <1>7, InputKinds, NewRowType DEF InsertCredential, Shape, ShapeOf
  <2>2. QED
    BY <1>7, <2>1 DEF InsertCredential
<1>8. ASSUME NEW r \in Requests, Scan(r)
      PROVE  TypeOK'
  BY <1>8 DEF Scan, Selected, ActiveOf, ActiveIds
<1>9. ASSUME NEW r \in Requests, LockAndWrite(r)
      PROVE  TypeOK'
  <2>1. CASE target[r] \in Selected(r)
    <3>1. rows[target[r]] \in Row
      BY <2>1, ActiveIdsType DEF Selected, ActiveOf
    <3>2. DeletedRow(rows[target[r]]) \in Row
      BY <3>1, DeletedRowType
    <3>3. input[r].op = "update" => UpdatedRow(rows[target[r]], plan[r]) \in Row
      BY <1>9, <3>1, UpdatedRowType DEF LockAndWrite, Shape, ShapeOf
    <3>4. QED
      BY <1>9, <2>1, <3>2, <3>3 DEF LockAndWrite
  <2>2. CASE target[r] \notin Selected(r)
    BY <1>9, <2>2 DEF LockAndWrite
  <2>3. QED
    BY <2>1, <2>2
<1>10. ASSUME NEW r \in Requests, ReadVersion(r)
       PROVE  TypeOK'
  <2>1. input[r].owner \in Users /\ input[r].alias \in Aliases
    BY <1>10, InputKinds DEF ReadVersion, Shape, ShapeOf
  <2>2. NextHistoryVersion(history, input[r].owner, input[r].alias) \in Nat
    BY <2>1, NextVersionType
  <2>3. QED
    BY <1>10, <2>2 DEF ReadVersion
<1>11. ASSUME NEW r \in Requests, InsertHistory(r)
       PROVE  TypeOK'
  BY <1>11 DEF InsertHistory
<1>12. ASSUME NEW r \in Requests, Commit(r)
       PROVE  TypeOK'
  <2>1. target[r] \in Requests /\ write[r] \in Row
    BY <1>12 DEF Commit, Shape, ShapeOf, Holds
  <2>2. HistoryEvent(r) \in Event
    <3>1. input[r] \in Inputs /\ version[r] \in Nat \ {0}
      BY <1>12 DEF Commit, Shape, ShapeOf
    <3>2. input[r].op = "update" => plan[r].changed \subseteq Fields \cup {"policy"}
      BY <1>12 DEF Commit, Shape, ShapeOf, Plan
    <3>3. QED
      BY <2>1, <3>1, <3>2, InputKinds DEF HistoryEvent, Event
  <2>3. QED
    BY <1>12, <2>1, <2>2 DEF Commit
<1>13. ASSUME NEW r \in Requests, Fail(r)
       PROVE  TypeOK'
  BY <1>13 DEF Fail
<1>14. CASE UNCHANGED vars
  BY <1>14 DEF vars
<1>15. QED
  BY <1>1, <1>2, <1>3, <1>4, <1>5, <1>6, <1>7, <1>8, <1>9, <1>10, <1>11, <1>12,
     <1>13, <1>14 DEF Next, Issue, Step, Finished

\* Every action but r's own leaves the variables of r alone.
LEMMA ShapeStep ==
    ASSUME IInv, [Next]_vars
    PROVE  Shape'
<1> SUFFICES ASSUME NEW s \in Requests
             PROVE  ShapeOf(s)'
  BY DEF Shape
<1>0. ShapeOf(s)
  BY DEF IInv, Shape
<1> USE <1>0 DEF IInv, TypeOK, PCs, Replies, Answer, GoTo, reqVars, Holds, ShapeOf
<1>1. ASSUME NEW r \in Requests, IssueRegister(r)
      PROVE  ShapeOf(s)'
  <2>1. PICK i \in RegisterInput : ValidRegister(i) /\ Accept(r, i, "begin")
    BY <1>1 DEF IssueRegister, RegisterInput
  <2>2. i \in Inputs /\ i.op = "register"
    BY DEF Inputs, RegisterInput
  <2>3. QED
    BY <2>1, <2>2 DEF Accept
<1>2. ASSUME NEW r \in Requests, IssueUpdate(r)
      PROVE  ShapeOf(s)'
  BY <1>2 DEF IssueUpdate, Accept, Inputs, UpdateInput
<1>3. ASSUME NEW r \in Requests, IssueDelete(r)
      PROVE  ShapeOf(s)'
  BY <1>3 DEF IssueDelete, Accept, Inputs, DeleteInput
<1>4. ASSUME NEW r \in Requests, Refuse(r)
      PROVE  ShapeOf(s)'
  BY <1>4 DEF Refuse
<1>5. ASSUME NEW r \in Requests, Find(r)
      PROVE  ShapeOf(s)'
  <2>1. CASE FindFails(r) \/ FindRejects(r)
    BY <2>1 DEF FindFails, FindRejects
  <2>2. CASE FindPlans(r)
    <3>1. input[r] \in UpdateInput /\ pc[r] = "find"
      BY <2>2, InputKinds DEF FindPlans, Shape, ShapeOf
    <3>2. PICK id \in ActiveOf(r) :
            /\ ChangedFields(rows[id], input[r]) # {}
            /\ plan' = [plan EXCEPT ![r] = PlanUpdate(id, input[r])]
      BY <2>2 DEF FindPlans
    <3>3. /\ PlanUpdate(id, input[r]) \in Plan
          /\ PlanUpdate(id, input[r]).changed # {}
      BY <3>1, <3>2, PlanType DEF PlanUpdate
    <3>4. QED
      BY <2>2, <3>1, <3>2, <3>3 DEF FindPlans, UpdateInput
  <2>3. QED
    BY <1>5, <2>1, <2>2 DEF Find
<1>6. ASSUME NEW r \in Requests, Begin(r)
      PROVE  ShapeOf(s)'
  BY <1>6 DEF Begin
<1>7. ASSUME NEW r \in Requests, InsertCredential(r)
      PROVE  ShapeOf(s)'
  <2>1. NewRow(input[r]) \in Row
    BY <1>7, InputKinds, NewRowType DEF InsertCredential, Shape, ShapeOf
  <2>2. QED
    BY <1>7, <2>1 DEF InsertCredential
<1>8. ASSUME NEW r \in Requests, Scan(r)
      PROVE  ShapeOf(s)'
  BY <1>8 DEF Scan, Selected, ActiveOf, ActiveIds
<1>9. ASSUME NEW r \in Requests, LockAndWrite(r)
      PROVE  ShapeOf(s)'
  <2>1. TypeOK'
    BY TypeOKStep, <1>9 DEF Next, Step
  <2>2. CASE target[r] \in Selected(r)
    <3>1. rows[target[r]] \in Row
      BY <2>2, ActiveIdsType DEF Selected, ActiveOf, Tables
    <3>2. DeletedRow(rows[target[r]]) \in Row
      BY <3>1, DeletedRowType
    <3>3. input[r].op = "update" => UpdatedRow(rows[target[r]], plan[r]) \in Row
      BY <1>9, <3>1, UpdatedRowType DEF LockAndWrite, Shape, ShapeOf
    <3>4. QED
      BY <1>9, <2>2, <3>2, <3>3 DEF LockAndWrite
  <2>3. CASE target[r] \notin Selected(r)
    BY <1>9, <2>3 DEF LockAndWrite
  <2>4. QED
    BY <2>2, <2>3
<1>10. ASSUME NEW r \in Requests, ReadVersion(r)
       PROVE  ShapeOf(s)'
  <2>1. input[r].owner \in Users /\ input[r].alias \in Aliases
    BY <1>10, InputKinds DEF ReadVersion, Shape, ShapeOf
  <2>2. NextHistoryVersion(history, input[r].owner, input[r].alias) \in Nat \ {0}
    BY <2>1, NextVersionType
  <2>3. QED
    BY <1>10, <2>2 DEF ReadVersion
<1>11. ASSUME NEW r \in Requests, InsertHistory(r)
       PROVE  ShapeOf(s)'
  BY <1>11 DEF InsertHistory
<1>12. ASSUME NEW r \in Requests, Commit(r)
       PROVE  ShapeOf(s)'
  BY <1>12 DEF Commit
<1>13. ASSUME NEW r \in Requests, Fail(r)
       PROVE  ShapeOf(s)'
  BY <1>13 DEF Fail
<1>14. CASE UNCHANGED vars
  BY <1>14 DEF vars
<1>15. QED
  BY <1>1, <1>2, <1>3, <1>4, <1>5, <1>6, <1>7, <1>8, <1>9, <1>10, <1>11, <1>12,
     <1>13, <1>14 DEF Next, Issue, Step, Finished

-----------------------------------------------------------------------------
(* The lock discipline *)

\* Only COMMIT touches the tables, and only r's own calls touch r's variables.
LEMMA StepFrame ==
    ASSUME IInv, [Next]_vars
    PROVE  \/ \E r \in Requests : Commit(r)
           \/ rows' = rows /\ history' = history
<1>1. ASSUME NEW r \in Requests, Issue(r) \/ Refuse(r) \/ Fail(r)
      PROVE  rows' = rows /\ history' = history
  BY <1>1 DEF Issue, IssueRegister, IssueUpdate, IssueDelete, Accept, Refuse, Fail
<1>2. ASSUME NEW r \in Requests, Find(r) \/ Begin(r) \/ InsertCredential(r) \/ Scan(r)
      PROVE  rows' = rows /\ history' = history
  BY <1>2 DEF Find, FindFails, FindRejects, FindPlans, Begin, InsertCredential, Scan
<1>3. ASSUME NEW r \in Requests, LockAndWrite(r) \/ ReadVersion(r) \/ InsertHistory(r)
      PROVE  rows' = rows /\ history' = history
  BY <1>3 DEF LockAndWrite, ReadVersion, InsertHistory
<1>4. CASE UNCHANGED vars
  BY <1>4 DEF vars
<1>5. QED
  BY <1>1, <1>2, <1>3, <1>4 DEF Next, Step, Finished

\* A request that holds its row after a step either held it before, with
\* nothing of its own changed but its version, or has just written it.
LEMMA HolderFrame ==
    ASSUME IInv, [Next]_vars, NEW s \in Requests, Holds(s)'
    PROVE  \/ /\ Holds(s) /\ input'[s] = input[s] /\ plan'[s] = plan[s]
              /\ target'[s] = target[s] /\ write'[s] = write[s]
              /\ \/ pc'[s] = pc[s] /\ version'[s] = version[s]
                 \/ ReadVersion(s)
                 \/ InsertHistory(s)
           \/ InsertCredential(s) /\ pc[s] = "insert" /\ pc'[s] = "version"
           \/ LockAndWrite(s) /\ pc[s] = "lock" /\ pc'[s] = "version"
<1> USE DEF IInv, TypeOK, PCs, Answer, GoTo, reqVars, Holds
<1>1. ASSUME NEW r \in Requests, IssueRegister(r) \/ IssueUpdate(r) \/ IssueDelete(r)
      PROVE  Holds(s) /\ UNCHANGED <<pc[s], input[s], plan[s], target[s], write[s], version[s]>>
  <2>1. \E i, where : where \in {"begin", "find"} /\ Accept(r, i, where)
    BY ONLY <1>1 DEF IssueRegister, IssueUpdate, IssueDelete
  <2>2. PICK i, where : where \in {"begin", "find"} /\ Accept(r, i, where)
    BY <2>1
  <2>3. QED
    BY <2>2 DEF Accept
<1>2. ASSUME NEW r \in Requests, Refuse(r) \/ Fail(r) \/ Commit(r)
      PROVE  Holds(s) /\ UNCHANGED <<pc[s], input[s], plan[s], target[s], write[s], version[s]>>
  BY <1>2 DEF Refuse, Fail, Commit
<1>3. ASSUME NEW r \in Requests, Find(r) \/ Begin(r) \/ Scan(r)
      PROVE  Holds(s) /\ UNCHANGED <<pc[s], input[s], plan[s], target[s], write[s], version[s]>>
  BY <1>3 DEF Find, FindFails, FindRejects, FindPlans, Begin, Scan
<1>4. ASSUME NEW r \in Requests, InsertCredential(r) \/ LockAndWrite(r), r # s
      PROVE  Holds(s) /\ UNCHANGED <<pc[s], input[s], plan[s], target[s], write[s], version[s]>>
  BY <1>4 DEF InsertCredential, LockAndWrite
<1>5. ASSUME InsertCredential(s) \/ LockAndWrite(s)
      PROVE  /\ pc'[s] = "version"
             /\ \/ InsertCredential(s) /\ pc[s] = "insert"
                \/ LockAndWrite(s) /\ pc[s] = "lock"
  BY <1>5 DEF InsertCredential, LockAndWrite
<1>6. ASSUME NEW r \in Requests, ReadVersion(r) \/ InsertHistory(r)
      PROVE  /\ Holds(s) /\ UNCHANGED <<input[s], plan[s], target[s], write[s]>>
             /\ r # s => UNCHANGED <<pc[s], version[s]>>
  BY <1>6 DEF ReadVersion, InsertHistory
<1>7. CASE UNCHANGED vars
  BY <1>7 DEF vars
<1>8. CASE \E r \in Requests : InsertCredential(r) \/ LockAndWrite(r)
  <2>1. PICK r \in Requests : InsertCredential(r) \/ LockAndWrite(r)
    BY <1>8
  <2>2. CASE r = s
    BY <1>5, <2>1, <2>2
  <2>3. CASE r # s
    BY <1>4, <2>1, <2>3
  <2>4. QED
    BY <2>2, <2>3
<1>9. CASE \E r \in Requests : ReadVersion(r) \/ InsertHistory(r)
  BY <1>6, <1>9
<1>10. QED
  BY <1>1, <1>2, <1>3, <1>7, <1>8, <1>9 DEF Next, Issue, Step, Finished

\* The row a COMMIT publishes belongs to the request's owner and alias, and
\* so does the row it replaces.
LEMMA CommitRow ==
    ASSUME IInv, NEW r \in Requests, Commit(r)
    PROVE  /\ Holds(r) /\ target[r] \in Requests /\ write[r] \in Row
           /\ write[r].owner = input[r].owner /\ write[r].alias = input[r].alias
           /\ rows[target[r]] # Null => /\ rows[target[r]].owner = input[r].owner
                                       /\ rows[target[r]].alias = input[r].alias
           /\ input[r].op = "register" => rows[target[r]] = Null
           /\ input[r].owner \in Users /\ input[r].alias \in Aliases
<1>1. pc[r] = "commit" /\ Holds(r)
  BY DEF Commit, Holds
<1>2. target[r] \in Requests /\ write[r] \in Row /\ input[r] \in Inputs
  BY <1>1 DEF IInv, Shape, ShapeOf
<1>3. WriteIsCurrent(r)
  BY <1>1 DEF IInv, LockDiscipline
<1>4. CASE input[r].op = "register"
  <2>1. rows[target[r]] = Null
    BY <1>1, <1>3, <1>4 DEF WriteIsCurrent, IInv, LockDiscipline
  <2>2. QED
    BY <1>1, <1>2, <1>3, <1>4, <2>1, InputKinds DEF WriteIsCurrent, NewRow
<1>5. CASE input[r].op # "register"
  <2>1. target[r] \in ActiveOf(r)
    BY <1>3, <1>5 DEF WriteIsCurrent
  <2>2. /\ rows[target[r]] \in Row
        /\ rows[target[r]].owner = input[r].owner
        /\ rows[target[r]].alias = input[r].alias
    BY <2>1, ActiveIdsType DEF ActiveOf, IInv, TypeOK, Tables
  <2>3. CASE input[r].op = "update"
    <3>1. write[r] = UpdatedRow(rows[target[r]], plan[r])
      BY <1>3, <1>5, <2>3 DEF WriteIsCurrent
    <3>2. QED
      BY <1>1, <1>2, <1>5, <2>2, <3>1, InputKinds DEF UpdatedRow, Row
  <2>4. CASE input[r].op # "update"
    <3>1. write[r] = DeletedRow(rows[target[r]])
      BY <1>3, <1>5, <2>4 DEF WriteIsCurrent
    <3>2. QED
      BY <1>1, <1>2, <1>5, <2>2, <3>1, InputKinds DEF DeletedRow, Row
  <2>5. QED
    BY <2>3, <2>4
<1>6. QED
  BY <1>4, <1>5

\* A COMMIT leaves every other owner and alias as it was.
LEMMA OtherAliases ==
    ASSUME IInv, NEW r \in Requests, Commit(r), NEW u, NEW a,
           ~(u = input[r].owner /\ a = input[r].alias)
    PROVE  /\ ActiveIds(rows', u, a) = ActiveIds(rows, u, a)
           /\ \A id \in ActiveIds(rows, u, a) : rows'[id] = rows[id]
           /\ Versions(history', u, a) = Versions(history, u, a)
           /\ NextHistoryVersion(history', u, a) = NextHistoryVersion(history, u, a)
<1>1. /\ target[r] \in Requests /\ write[r] \in Row /\ write[r] # Null
      /\ write[r].owner = input[r].owner /\ write[r].alias = input[r].alias
      /\ rows[target[r]] # Null => /\ rows[target[r]].owner = input[r].owner
                                  /\ rows[target[r]].alias = input[r].alias
  BY CommitRow, NullIsNoRow
<1>2. rows' = [rows EXCEPT ![target[r]] = write[r]] /\ rows \in [Requests -> {Null} \cup Row]
  BY DEF Commit, IInv, TypeOK, Tables
<1>3. ActiveIds(rows', u, a) = ActiveIds(rows, u, a)
  BY <1>1, <1>2 DEF ActiveIds, Active
<1>4. \A id \in ActiveIds(rows, u, a) : rows'[id] = rows[id]
  BY <1>1, <1>2 DEF ActiveIds, Active
<1>5. HistoryEvent(r).owner = input[r].owner /\ HistoryEvent(r).alias = input[r].alias
  BY DEF HistoryEvent
<1>6. Versions(history', u, a) = Versions(history, u, a)
  BY <1>5 DEF Commit, Versions
<1>7. NextHistoryVersion(history', u, a) = NextHistoryVersion(history, u, a)
  BY <1>6 DEF NextHistoryVersion
<1>8. QED
  BY <1>3, <1>4, <1>6, <1>7

\* A second transaction cannot reach its write while one holds the alias: the
\* INSERT waits on the index key, and the UPDATE on the row, which by
\* OneActivePerAlias is the same row.
LEMMA RowHeldAloneStep ==
    ASSUME IInv, [Next]_vars
    PROVE  RowHeldAlone'
<1> SUFFICES ASSUME NEW r \in Requests, NEW s \in Requests, r # s,
                    Holds(r)', Holds(s)', SameAlias(r, s)'
             PROVE  FALSE
  BY DEF RowHeldAlone
<1>1. ASSUME NEW x \in Requests, NEW y \in Requests, x # y,
             Holds(y), SameAlias(x, y),
             InsertCredential(x), pc'[x] = "version"
      PROVE  FALSE
  BY <1>1 DEF InsertCredential, IndexKeyIsFree, Answer, IInv, TypeOK
<1>2. ASSUME NEW x \in Requests, NEW y \in Requests, x # y,
             Holds(y), SameAlias(x, y),
             LockAndWrite(x), pc'[x] = "version"
      PROVE  FALSE
  <2>1. RowIsFree(x) /\ target[x] \in ActiveOf(x)
    BY <1>2 DEF LockAndWrite, Answer, Selected, IInv, TypeOK
  <2>2. WriteIsCurrent(y)
    BY <1>2 DEF IInv, LockDiscipline
  <2>3. ActiveOf(x) = ActiveOf(y)
    BY <1>2 DEF ActiveOf, SameAlias
  <2>4. input[y].op # "register" /\ target[y] \in ActiveOf(y)
    BY <2>1, <2>2, <2>3 DEF WriteIsCurrent
  <2>5. pc[x] = "lock" /\ input[x].owner \in Users /\ input[x].alias \in Aliases
    BY <1>2, InputKinds DEF LockAndWrite, IInv, Shape, ShapeOf
  <2>6. target[x] = target[y]
    BY <2>1, <2>3, <2>4, <2>5 DEF ActiveOf, IInv, OneActivePerAlias
  <2>7. QED
    BY <1>2, <2>1, <2>6 DEF RowIsFree
<1>3. ASSUME NEW x \in Requests, NEW y \in Requests, x # y,
             InsertCredential(x) \/ LockAndWrite(x),
             Holds(y)'
      PROVE  Holds(y)
  BY <1>3 DEF InsertCredential, LockAndWrite, Answer, GoTo, Holds, IInv, TypeOK
<1>4. input'[r] = input[r] /\ input'[s] = input[s]
  BY HolderFrame DEF InsertCredential, LockAndWrite
<1>5. SameAlias(r, s) /\ SameAlias(s, r)
  BY <1>4 DEF SameAlias
<1>6. CASE Holds(r) /\ Holds(s)
  BY <1>5, <1>6 DEF IInv, LockDiscipline, RowHeldAlone
<1>7. CASE ~Holds(r)
  BY <1>1, <1>2, <1>3, <1>5, <1>7, HolderFrame
<1>8. CASE ~Holds(s)
  BY <1>1, <1>2, <1>3, <1>5, <1>8, HolderFrame
<1>9. QED
  BY <1>6, <1>7, <1>8

\* A request that has ended stays ended.
LEMMA DoneStays ==
    ASSUME IInv, [Next]_vars, NEW s \in Requests, pc[s] = "done"
    PROVE  pc'[s] = "done"
<1> USE DEF IInv, TypeOK, Answer, GoTo
<1>1. ASSUME NEW r \in Requests, IssueRegister(r) \/ IssueUpdate(r) \/ IssueDelete(r)
      PROVE  pc'[s] = "done"
  <2>1. \E i, where : Accept(r, i, where)
    BY ONLY <1>1 DEF IssueRegister, IssueUpdate, IssueDelete
  <2>2. QED
    BY <2>1 DEF Accept
<1>2. ASSUME NEW r \in Requests, Refuse(r) \/ Fail(r) \/ Commit(r) \/ Find(r) \/ Begin(r)
      PROVE  pc'[s] = "done"
  BY <1>2 DEF Refuse, Fail, Commit, Find, FindFails, FindRejects, FindPlans, Begin
<1>3. ASSUME NEW r \in Requests,
             InsertCredential(r) \/ Scan(r) \/ LockAndWrite(r) \/ ReadVersion(r)
               \/ InsertHistory(r)
      PROVE  pc'[s] = "done"
  BY <1>3 DEF InsertCredential, Scan, LockAndWrite, ReadVersion, InsertHistory
<1>4. CASE UNCHANGED vars
  BY <1>4 DEF vars
<1>5. QED
  BY <1>1, <1>2, <1>3, <1>4 DEF Next, Issue, Step, Finished

\* What a transaction has computed from the tables stays true until it
\* commits: the only COMMITs in between are on other aliases.
LEMMA WriteIsCurrentStep ==
    ASSUME IInv, [Next]_vars, NEW s \in Requests, Holds(s)'
    PROVE  WriteIsCurrent(s)'
<1>1. ASSUME NEW r \in Requests, Commit(r)
      PROVE  WriteIsCurrent(s)'
  <2>1. /\ r # s /\ pc'[s] = pc[s] /\ Holds(s)
        /\ input'[s] = input[s] /\ plan'[s] = plan[s] /\ target'[s] = target[s]
        /\ write'[s] = write[s] /\ version'[s] = version[s]
    BY <1>1 DEF Commit, Answer, reqVars, Holds, IInv, TypeOK
  <2>2. ~SameAlias(r, s)
    BY <1>1, <2>1, CommitRow DEF IInv, LockDiscipline, RowHeldAlone
  <2>3. /\ ActiveIds(rows', input[s].owner, input[s].alias) = ActiveOf(s)
        /\ \A id \in ActiveOf(s) : rows'[id] = rows[id]
        /\ NextHistoryVersion(history', input[s].owner, input[s].alias)
             = NextHistoryVersion(history, input[s].owner, input[s].alias)
    BY <1>1, <2>2, OtherAliases DEF SameAlias, ActiveOf
  <2>4. WriteIsCurrent(s)
    BY <2>1 DEF IInv, LockDiscipline
  <2>5. QED
    BY <2>1, <2>3, <2>4 DEF WriteIsCurrent, ActiveOf
<1>2. CASE rows' = rows /\ history' = history
  <2>1. CASE /\ Holds(s) /\ input'[s] = input[s] /\ plan'[s] = plan[s]
             /\ target'[s] = target[s] /\ write'[s] = write[s]
    <3>1. WriteIsCurrent(s)
      BY <2>1 DEF IInv, LockDiscipline
    <3>2. CASE pc'[s] = pc[s] /\ version'[s] = version[s]
      BY <1>2, <2>1, <3>1, <3>2 DEF WriteIsCurrent, ActiveOf
    <3>3. CASE ReadVersion(s)
      <4>1. version'[s] = NextHistoryVersion(history, input[s].owner, input[s].alias)
        BY <3>3 DEF ReadVersion, IInv, TypeOK
      <4>2. QED
        BY <1>2, <2>1, <3>1, <4>1 DEF WriteIsCurrent, ActiveOf
    <3>4. CASE InsertHistory(s)
      <4>1. pc[s] = "history" /\ version'[s] = version[s]
        BY <3>4 DEF InsertHistory, reqVars
      <4>2. QED
        BY <1>2, <2>1, <3>1, <4>1 DEF WriteIsCurrent, ActiveOf
    <3>5. CASE InsertCredential(s) /\ pc[s] = "insert"
      BY <2>1, <3>5 DEF Holds
    <3>6. CASE LockAndWrite(s) /\ pc[s] = "lock"
      BY <2>1, <3>6 DEF Holds
    <3>7. QED
      BY <3>2, <3>3, <3>4, <3>5, <3>6, HolderFrame
  <2>2. CASE InsertCredential(s) /\ pc[s] = "insert" /\ pc'[s] = "version"
    <3>1. ActiveOf(s) = {} /\ target'[s] = s /\ write'[s] = NewRow(input[s])
          /\ input' = input
      BY <2>2 DEF InsertCredential, Answer, IInv, TypeOK
    <3>2. input[s].op = "register" /\ ValidRegister(input[s])
      BY <2>2 DEF IInv, Shape, ShapeOf
    <3>3. QED
      BY <1>2, <2>2, <3>1, <3>2 DEF WriteIsCurrent, ActiveOf
  <2>3. CASE LockAndWrite(s) /\ pc[s] = "lock" /\ pc'[s] = "version"
    <3>1. /\ target[s] \in ActiveOf(s) /\ input' = input /\ plan' = plan
          /\ target' = target
          /\ write'[s] = IF input[s].op = "update"
                         THEN UpdatedRow(rows[target[s]], plan[s])
                         ELSE DeletedRow(rows[target[s]])
      BY <2>3 DEF LockAndWrite, Answer, Selected, IInv, TypeOK
    <3>2. input[s].op # "register"
      BY <2>3 DEF IInv, Shape, ShapeOf
    <3>3. QED
      BY <1>2, <2>3, <3>1, <3>2 DEF WriteIsCurrent, ActiveOf
  <2>4. QED
    BY <2>1, <2>2, <2>3, HolderFrame
<1>3. QED
  BY <1>1, <1>2, StepFrame

LEMMA LockDisciplineStep ==
    ASSUME IInv, [Next]_vars
    PROVE  LockDiscipline'
<1>1. RowHeldAlone'
  BY RowHeldAloneStep
<1>2. \A s \in Requests : Holds(s)' => WriteIsCurrent(s)'
  BY WriteIsCurrentStep
<1>3. ASSUME NEW id \in Requests, rows'[id] # Null
      PROVE  pc'[id] = "done"
  <2>1. CASE rows[id] # Null
    BY <2>1, DoneStays DEF IInv, LockDiscipline
  <2>2. CASE rows[id] = Null
    <3>1. PICK r \in Requests : Commit(r)
      BY <1>3, <2>2, StepFrame
    <3>2. target[r] = id
      BY <1>3, <2>2, <3>1, CommitRow DEF Commit, IInv, TypeOK, Tables
    <3>3. WriteIsCurrent(r)
      BY <3>1, CommitRow DEF IInv, LockDiscipline
    <3>4. input[r].op = "register"
      BY <2>2, <3>2, <3>3, ActiveIdsType DEF WriteIsCurrent, ActiveOf, IInv, TypeOK, Tables
    <3>5. QED
      BY <3>1, <3>2, <3>3, <3>4 DEF WriteIsCurrent, Commit, Answer, IInv, TypeOK
  <2>3. QED
    BY <2>1, <2>2
<1>4. QED
  BY <1>1, <1>2, <1>3 DEF LockDiscipline

-----------------------------------------------------------------------------
(* The tables *)

\* The versions of the owner and alias a COMMIT is about grow by the next one.
LEMMA CommitVersions ==
    ASSUME IInv, NEW r \in Requests, Commit(r)
    PROVE  \E n \in Nat :
             /\ Versions(history, input[r].owner, input[r].alias) = 1 .. n
             /\ version[r] = n + 1
             /\ Versions(history', input[r].owner, input[r].alias) = 1 .. (n + 1)
<1> DEFINE u == input[r].owner
           a == input[r].alias
<1>1. u \in Users /\ a \in Aliases /\ pc[r] = "commit"
  BY CommitRow DEF Commit
<1>2. Versions(history, u, a) \subseteq Nat
  BY DEF IInv, TypeOK, Tables, Event, Versions
<1>3. Versions(history, u, a) = {}
        \/ \E n \in Versions(history, u, a) : Versions(history, u, a) = 1 .. n
  BY <1>1 DEF IInv, HistoryIsLinear
<1>4. PICK n \in Nat : /\ Versions(history, u, a) = 1 .. n
                       /\ NextHistoryVersion(history, u, a) = n + 1
  BY <1>2, <1>3, NextVersionIsNext
<1>5. version[r] = n + 1
  BY <1>1, <1>4, CommitRow DEF IInv, LockDiscipline, WriteIsCurrent
<1>6. Versions(history', u, a) = Versions(history, u, a) \cup {version[r]}
  <2>1. /\ HistoryEvent(r).owner = u /\ HistoryEvent(r).alias = a
        /\ HistoryEvent(r).version = version[r]
        /\ history' = history \cup {HistoryEvent(r)}
    BY DEF HistoryEvent, Commit
  <2>2. QED
    BY <2>1 DEF Versions
<1>7. 1 .. (n + 1) = (1 .. n) \cup {n + 1}
  OBVIOUS
<1>8. QED
  BY <1>4, <1>5, <1>6, <1>7

LEMMA HistoryIsLinearStep ==
    ASSUME IInv, [Next]_vars
    PROVE  HistoryIsLinear'
<1>1. ASSUME NEW r \in Requests, Commit(r), NEW u \in Users, NEW a \in Aliases
      PROVE  Versions(history', u, a) = {}
               \/ \E n \in Versions(history', u, a) : Versions(history', u, a) = 1 .. n
  <2>1. CASE u = input[r].owner /\ a = input[r].alias
    <3>1. PICK n \in Nat : Versions(history', u, a) = 1 .. (n + 1)
      BY <1>1, <2>1, CommitVersions
    <3>2. n + 1 \in Versions(history', u, a)
      BY <3>1
    <3>3. QED
      BY <3>1, <3>2
  <2>2. CASE ~(u = input[r].owner /\ a = input[r].alias)
    <3>1. Versions(history', u, a) = Versions(history, u, a)
      BY <1>1, <2>2, OtherAliases
    <3>2. QED
      BY <3>1 DEF IInv, HistoryIsLinear
  <2>3. QED
    BY <2>1, <2>2
<1>2. ASSUME NEW r \in Requests, Commit(r), NEW u \in Users, NEW a \in Aliases,
             NEW g \in history', NEW h \in history',
             g.owner = u, g.alias = a, h.owner = u, h.alias = a,
             g.version = h.version
      PROVE  g = h
  <2>1. \A e \in history :
          (e.owner = input[r].owner /\ e.alias = input[r].alias) => e.version # version[r]
    <3>1. PICK n \in Nat : /\ Versions(history, input[r].owner, input[r].alias) = 1 .. n
                           /\ version[r] = n + 1
      BY <1>2, CommitVersions
    <3>2. version[r] \notin Versions(history, input[r].owner, input[r].alias)
      BY <3>1
    <3>3. QED
      BY <3>2 DEF Versions
  <2>2. /\ HistoryEvent(r).owner = input[r].owner /\ HistoryEvent(r).alias = input[r].alias
        /\ HistoryEvent(r).version = version[r]
    BY DEF HistoryEvent
  <2>3. history' = history \cup {HistoryEvent(r)}
    BY <1>2 DEF Commit
  <2>4. CASE g \in history /\ h \in history
    BY <1>2, <2>4 DEF IInv, HistoryIsLinear
  <2>5. CASE g \notin history \/ h \notin history
    BY <1>2, <2>1, <2>2, <2>3, <2>5
  <2>6. QED
    BY <2>4, <2>5
<1>3. CASE history' = history
  BY <1>3 DEF IInv, HistoryIsLinear, Versions
<1>4. CASE \E r \in Requests : Commit(r)
  <2>1. PICK r \in Requests : Commit(r)
    BY <1>4
  <2>2. QED
    BY <1>1, <1>2, <2>1 DEF HistoryIsLinear
<1>5. QED
  BY <1>3, <1>4, StepFrame

\* A registration commits where nothing is active; an update or a deletion
\* replaces the row that is.
LEMMA OneActivePerAliasStep ==
    ASSUME IInv, [Next]_vars
    PROVE  OneActivePerAlias'
<1>1. ASSUME NEW r \in Requests, Commit(r), NEW u \in Users, NEW a \in Aliases,
             NEW i \in ActiveIds(rows', u, a), NEW j \in ActiveIds(rows', u, a)
      PROVE  i = j
  <2>1. CASE u = input[r].owner /\ a = input[r].alias
    <3>1. /\ WriteIsCurrent(r) /\ target[r] \in Requests
          /\ rows' = [rows EXCEPT ![target[r]] = write[r]]
          /\ rows \in [Requests -> {Null} \cup Row]
      BY <1>1, CommitRow DEF Commit, IInv, LockDiscipline, TypeOK, Tables
    <3>2. \A id \in ActiveIds(rows', u, a) : id = target[r] \/ id \in ActiveOf(r)
      BY <2>1, <3>1 DEF ActiveIds, ActiveOf, Active
    <3>3. CASE input[r].op = "register"
      BY <3>1, <3>2, <3>3 DEF WriteIsCurrent
    <3>4. CASE input[r].op # "register"
      <4>1. target[r] \in ActiveOf(r)
        BY <3>1, <3>4 DEF WriteIsCurrent
      <4>2. QED
        BY <2>1, <3>2, <4>1 DEF IInv, OneActivePerAlias, ActiveOf
    <3>5. QED
      BY <3>3, <3>4
  <2>2. CASE ~(u = input[r].owner /\ a = input[r].alias)
    BY <1>1, <2>2, OtherAliases DEF IInv, OneActivePerAlias
  <2>3. QED
    BY <2>1, <2>2
<1>2. CASE rows' = rows
  BY <1>2 DEF IInv, OneActivePerAlias, ActiveIds, Active
<1>3. QED
  BY <1>1, <1>2, StepFrame DEF OneActivePerAlias

-----------------------------------------------------------------------------
(* The theorems *)

\* IInv is an inductive invariant: every state the interleaved statements
\* can reach is one it describes.
THEOREM InductiveInvariant == Spec => []IInv
<1>1. ASSUME IInv, [Next]_vars
      PROVE  IInv'
  BY <1>1, TypeOKStep, ShapeStep, LockDisciplineStep, HistoryIsLinearStep,
     OneActivePerAliasStep DEF IInv
<1>2. QED
  BY <1>1, InitIInv, PTL DEF Spec

\* The state keeps its types (the versions among them: MAX(version) + 1 is
\* defined only while the history is linear).
THEOREM TypeCorrect == Spec => []TypeOK
BY InductiveInvariant, PTL DEF IInv

\* soft_delete_credential, update_credential_mutable_fields and
\* insert_credential never hold rows of one owner and alias at once, and what
\* they write and number is current up to COMMIT.
THEOREM LocksSuffice == Spec => []LockDiscipline
BY InductiveInvariant, PTL DEF IInv

\* The partial unique index promise, for any number of overlapping requests.
THEOREM AliasIsUnique == Spec => []OneActivePerAlias
BY InductiveInvariant, PTL DEF IInv

\* The versions of an owner and alias are 1..n without gap or repetition,
\* although next_history_version takes no lock.
THEOREM VersionsAreLinear == Spec => []HistoryIsLinear
BY InductiveInvariant, PTL DEF IInv

-----------------------------------------------------------------------------
(* What a COMMIT does to its row, and that it is a step of the ledger *)

\* A COMMIT inserts the registered row, or rewrites or shreds the one active
\* row of its owner and alias.
LEMMA CommitIsCurrent ==
    ASSUME IInv, NEW r \in Requests, Commit(r)
    PROVE  /\ WriteIsCurrent(r)
           /\ rows \in [Requests -> {Null} \cup Row]
           /\ target[r] \in Requests
           /\ rows' = [rows EXCEPT ![target[r]] = write[r]]
           /\ input[r].op = "register" =>
                /\ rows[r] = Null /\ input[r] \in RegisterInput
           /\ input[r].op # "register" =>
                /\ rows[target[r]] \in Row /\ rows[target[r]] # Null
                /\ ~rows[target[r]].deleted
           /\ input[r].op = "update" => plan[r] \in Plan /\ plan[r].changed # {}
           /\ input[r].op \in {"register", "update", "delete"}
           /\ version[r] = NextHistoryVersion(history, input[r].owner, input[r].alias)
<1>1. pc[r] = "commit" /\ Holds(r)
  BY DEF Commit, Holds
<1>2. WriteIsCurrent(r)
  BY <1>1 DEF IInv, LockDiscipline
<1>3. rows \in [Requests -> {Null} \cup Row] /\ rows' = [rows EXCEPT ![target[r]] = write[r]]
  BY DEF Commit, IInv, TypeOK, Tables
<1>4. target[r] \in Requests /\ input[r] \in Inputs
  BY <1>1 DEF IInv, Shape, ShapeOf
<1>5. input[r].op = "register" => rows[r] = Null /\ input[r] \in RegisterInput
  BY <1>2, <1>4, CommitRow, InputKinds DEF WriteIsCurrent
<1>6. input[r].op # "register" =>
        /\ rows[target[r]] \in Row /\ rows[target[r]] # Null /\ ~rows[target[r]].deleted
  BY <1>2, <1>3, ActiveIdsType DEF WriteIsCurrent, ActiveOf
<1>7. input[r].op = "update" => plan[r] \in Plan /\ plan[r].changed # {}
  BY <1>1 DEF IInv, Shape, ShapeOf
<1>8. version[r] = NextHistoryVersion(history, input[r].owner, input[r].alias)
  BY <1>1, <1>2 DEF WriteIsCurrent
<1>9. QED
  BY <1>2, <1>3, <1>4, <1>5, <1>6, <1>7, <1>8, InputKinds

LEMMA RowKeptStep ==
    ASSUME IInv, [Next]_vars, NEW id \in Requests
    PROVE  RowKept(id)
<1> SUFFICES ASSUME rows[id] # Null
             PROVE  RowKept(id)
  BY DEF RowKept
<1>0. rows[id] \in Row
  BY DEF IInv, TypeOK, Tables
<1>1. ASSUME NEW r \in Requests, Commit(r), target[r] = id
      PROVE  RowKept(id)
  <2>1. /\ input[r].op \in {"update", "delete"} /\ ~rows[id].deleted
        /\ WriteIsCurrent(r) /\ rows'[id] = write[r]
    BY <1>1, CommitIsCurrent DEF WriteIsCurrent
  <2>2. CASE input[r].op = "update"
    <3>1. rows'[id] = UpdatedRow(rows[id], plan[r])
      BY <1>1, <2>1, <2>2 DEF WriteIsCurrent
    <3>2. /\ rows'[id].owner = rows[id].owner /\ rows'[id].alias = rows[id].alias
          /\ rows'[id].category = rows[id].category
          /\ rows'[id].secret = rows[id].secret /\ rows'[id].deleted = rows[id].deleted
          /\ rows'[id] \in Row
      <4>1. plan[r] \in Plan
        BY <1>1, <2>2, CommitIsCurrent
      <4>2. QED
        BY ONLY <1>0, <3>1, <4>1, UpdatedRowType, UpdatedRowKeeps
    <3>3. QED
      BY <2>1, <3>2, NullIsNoRow DEF RowKept
  <2>3. CASE input[r].op = "delete"
    <3>1. rows'[id] = DeletedRow(rows[id])
      BY <1>1, <2>1, <2>3 DEF WriteIsCurrent
    <3>2. /\ rows'[id].owner = rows[id].owner /\ rows'[id].alias = rows[id].alias
          /\ rows'[id].category = rows[id].category
          /\ rows'[id].secret = Null /\ rows'[id].deleted
          /\ rows'[id] \in Row
      BY <1>0, <3>1, DeletedRowType DEF DeletedRow, Row
    <3>3. QED
      BY <2>1, <3>2, NullIsNoRow DEF RowKept
  <2>4. QED
    BY <2>1, <2>2, <2>3
<1>2. ASSUME NEW r \in Requests, Commit(r), target[r] # id
      PROVE  rows'[id] = rows[id]
  BY <1>2, CommitIsCurrent
<1>3. ASSUME rows'[id] = rows[id]
      PROVE  RowKept(id)
  <2>1. CASE rows[id].deleted
    BY <1>0, <1>3, <2>1, NullIsNoRow DEF RowKept
  <2>2. CASE ~rows[id].deleted
    BY <1>0, <1>3, <2>2, NullIsNoRow DEF RowKept
  <2>3. QED
    BY <2>1, <2>2
<1>4. QED
  BY <1>1, <1>2, <1>3, StepFrame

\* The ledger asks the same questions of the tables.
LEMMA LedgerQueries ==
    /\ Ledger!Row = Row
    /\ \A T, u, a : Ledger!ActiveIds(T, u, a) = ActiveIds(T, u, a)
    /\ \A H, u, a : Ledger!NextHistoryVersion(H, u, a) = NextHistoryVersion(H, u, a)
    /\ \A p, s : Ledger!NoOverlap(p, s) <=> NoOverlap(p, s)
    /\ \A row : Ledger!DeletedRow(row) = DeletedRow(row)
<1>1. Ledger!Row = Row
  BY DEF Ledger!Row, Row
<1>2. \A T, u, a : Ledger!ActiveIds(T, u, a) = ActiveIds(T, u, a)
  BY DEF Ledger!ActiveIds, ActiveIds, Ledger!Active, Active
<1>4. ASSUME NEW H, NEW u, NEW a
      PROVE  Ledger!NextHistoryVersion(H, u, a) = NextHistoryVersion(H, u, a)
  BY DEF Ledger!NextHistoryVersion, NextHistoryVersion, Ledger!Versions, Versions
<1>5. \A p, s : Ledger!NoOverlap(p, s) <=> NoOverlap(p, s)
  BY DEF Ledger!NoOverlap, NoOverlap
<1>6. \A row : Ledger!DeletedRow(row) = DeletedRow(row)
  BY DEF Ledger!DeletedRow, DeletedRow
<1>7. QED
  BY <1>1, <1>2, <1>4, <1>5, <1>6

\* A COMMIT is one step of the ledger; everything before it is none.
LEMMA LedgerStep ==
    ASSUME IInv, [Next]_vars
    PROVE  [Ledger!Next]_(Ledger!vars)
<1>1. ASSUME NEW r \in Requests, Commit(r)
      PROVE  Ledger!Next
  <2> DEFINE u == input[r].owner
             a == input[r].alias
  <2>1. u \in Users /\ a \in Aliases /\ target[r] \in Requests
    BY <1>1, CommitRow
  <2>2. /\ history' = history \cup {HistoryEvent(r)}
        /\ version[r] = NextHistoryVersion(history, u, a)
    BY <1>1, CommitIsCurrent DEF Commit
  <2>3. CASE input[r].op = "register"
    <3>1. /\ target[r] = r /\ rows[r] = Null /\ ActiveIds(rows, u, a) = {}
          /\ ValidRegister(input[r]) /\ rows' = [rows EXCEPT ![r] = NewRow(input[r])]
          /\ input[r] \in RegisterInput
      BY <1>1, <2>3, CommitIsCurrent DEF WriteIsCurrent, ActiveOf
    <3>2. Ledger!Append1(u, a, r, "register", r, {})
      BY <2>2, <2>3, <3>1, LedgerQueries DEF Ledger!Append1, HistoryEvent
    <3>3. NewRow(input[r]) \in Row /\ input[r].secret # Null
      BY <3>1, NewRowType, NullAssumption DEF RegisterInput
    <3>4. /\ NewRow(input[r]).owner = u /\ NewRow(input[r]).alias = a
          /\ ~NewRow(input[r]).deleted /\ NewRow(input[r]).secret # Null
          /\ NewRow(input[r]).category = "http" =>
               NoOverlap(NewRow(input[r]).policy, NewRow(input[r]).secret)
      BY <3>1, <3>3 DEF NewRow, ValidRegister
    <3>5. Ledger!Register(u, a, r)
      BY <3>1, <3>2, <3>3, <3>4, LedgerQueries DEF Ledger!Register
    <3>6. QED
      BY <2>1, <3>5 DEF Ledger!Next
  <2>4. CASE input[r].op = "update"
    <3> DEFINE row == rows[target[r]]
               new == UpdatedRow(row, plan[r])
    <3>1. /\ target[r] \in ActiveIds(rows, u, a) /\ row \in Row
          /\ plan[r] \in Plan /\ plan[r].changed # {}
          /\ rows' = [rows EXCEPT ![target[r]] = new]
      BY <1>1, <2>4, CommitIsCurrent DEF WriteIsCurrent, ActiveOf
    <3>2. Ledger!Append1(u, a, target[r], "update", r, plan[r].changed)
      BY <2>2, <2>4, LedgerQueries DEF Ledger!Append1, HistoryEvent
    <3>3. new \in Row /\ new = [row EXCEPT !.policy = new.policy, !.meta = new.meta]
      BY <3>1, UpdatedRowType DEF UpdatedRow, Row
    <3>4. new.policy \in SUBSET Headers /\ new.meta \in [Fields -> Values]
      BY <3>3 DEF Row
    <3>5. rows' = [rows EXCEPT ![target[r]] = [@ EXCEPT !.policy = new.policy, !.meta = new.meta]]
      BY <3>1, <3>3
    <3>6. Ledger!Update(u, a, target[r], r, plan[r].changed)
      BY <3>1, <3>2, <3>4, <3>5, LedgerQueries DEF Ledger!Update
    <3>7. plan[r].changed \in SUBSET (Fields \cup {"policy"})
      BY <3>1 DEF Plan
    <3>8. QED
      BY <2>1, <3>6, <3>7 DEF Ledger!Next
  <2>5. CASE input[r].op = "delete"
    <3>1. /\ target[r] \in ActiveIds(rows, u, a)
          /\ rows' = [rows EXCEPT ![target[r]] = DeletedRow(rows[target[r]])]
      BY <1>1, <2>5, CommitIsCurrent DEF WriteIsCurrent, ActiveOf
    <3>2. Ledger!Append1(u, a, target[r], "delete", r, {})
      BY <2>2, <2>5, LedgerQueries DEF Ledger!Append1, HistoryEvent
    <3>3. Ledger!Delete(u, a, target[r], r)
      BY <3>1, <3>2, LedgerQueries DEF Ledger!Delete
    <3>4. QED
      BY <2>1, <3>3 DEF Ledger!Next
  <2>6. QED
    BY <1>1, <2>3, <2>4, <2>5, CommitIsCurrent
<1>2. CASE rows' = rows /\ history' = history
  BY <1>2 DEF Ledger!vars
<1>3. QED
  BY <1>1, <1>2, StepFrame

\* Deletion is final and shreds the secret, and no overlapping update brings
\* a row back, moves it to another alias or gives it another secret.
THEOREM DeletionIsFinal == Spec => RowLifecycle
<1>1. ASSUME IInv, [Next]_vars
      PROVE  \A id \in Requests : RowKept(id)
  BY <1>1, RowKeptStep
<1>2. QED
  BY <1>1, InductiveInvariant, PTL DEF Spec, RowLifecycle

\* Serialisability of register, update and delete: the interleaved statements
\* implement the ledger, in which each is one indivisible change.
THEOREM StoreImplementsLedger == Spec => ImplementsLedger
<1>1. Init => Ledger!Init
  BY DEF Init, Ledger!Init
<1>2. ASSUME IInv, [Next]_vars
      PROVE  [Ledger!Next]_(Ledger!vars)
  BY <1>2, LedgerStep
<1>3. QED
  BY <1>1, <1>2, InductiveInvariant, PTL DEF Spec, ImplementsLedger, Ledger!Spec

-----------------------------------------------------------------------------
(* The two tables agree on what happened last *)

\* After its COMMIT the row of the event is the only active one of its owner
\* and alias, or there is none after a deletion.
LEMMA CommitActive ==
    ASSUME IInv, NEW r \in Requests, Commit(r)
    PROVE  ActiveIds(rows', input[r].owner, input[r].alias)
             = IF input[r].op = "delete" THEN {} ELSE {target[r]}
<1> DEFINE u == input[r].owner
           a == input[r].alias
<1>1. /\ WriteIsCurrent(r) /\ target[r] \in Requests
      /\ rows' = [rows EXCEPT ![target[r]] = write[r]]
      /\ rows \in [Requests -> {Null} \cup Row]
      /\ input[r].op \in {"register", "update", "delete"}
      /\ u \in Users /\ a \in Aliases
  BY CommitIsCurrent, CommitRow
<1>2. /\ write[r] \in Row /\ write[r] # Null
      /\ write[r].owner = u /\ write[r].alias = a
  BY CommitRow, NullIsNoRow
<1>3. \A id \in ActiveIds(rows, u, a) : id = target[r]
  <2>1. CASE input[r].op = "register"
    BY <1>1, <2>1 DEF WriteIsCurrent, ActiveOf
  <2>2. CASE input[r].op # "register"
    BY <1>1, <2>2 DEF WriteIsCurrent, ActiveOf, IInv, OneActivePerAlias
  <2>3. QED
    BY <2>1, <2>2
<1>4. ActiveIds(rows', u, a) = IF write[r].deleted THEN {} ELSE {target[r]}
  <2>1. \A id \in Requests : id # target[r] => rows'[id] = rows[id]
    BY <1>1
  <2>2. \A id \in ActiveIds(rows', u, a) : id = target[r]
    BY <1>3, <2>1 DEF ActiveIds, Active
  <2>3. target[r] \in ActiveIds(rows', u, a) <=> ~write[r].deleted
    BY <1>1, <1>2 DEF ActiveIds, Active
  <2>4. QED
    BY <2>2, <2>3
<1>5. write[r].deleted <=> input[r].op = "delete"
  <2>1. CASE input[r].op = "register"
    BY <1>1, <2>1 DEF WriteIsCurrent, NewRow
  <2>2. CASE input[r].op # "register"
    <3>1. rows[target[r]] \in Row /\ ~rows[target[r]].deleted
      BY <1>1, <2>2, CommitIsCurrent DEF Row
    <3>2. CASE input[r].op = "update"
      <4>1. plan[r] \in Plan /\ write[r] = UpdatedRow(rows[target[r]], plan[r])
        BY <1>1, <3>2, CommitIsCurrent DEF WriteIsCurrent
      <4>2. ~write[r].deleted
        BY <3>1, <4>1, UpdatedRowKeeps
      <4>3. QED
        BY <3>2, <4>2
    <3>3. CASE input[r].op = "delete"
      BY <1>1, <3>1, <3>3 DEF WriteIsCurrent, DeletedRow, Row
    <3>4. QED
      BY <1>1, <2>2, <3>2, <3>3
  <2>3. QED
    BY <2>1, <2>2
<1>6. QED
  BY <1>4, <1>5

\* Only the event of the COMMIT is newest for its owner and alias, and it
\* names the row CommitActive speaks of.
LEMMA HistoryTellsActiveRowStep ==
    ASSUME IInv, HistoryTellsActiveRow, [Next]_vars
    PROVE  HistoryTellsActiveRow'
<1> DEFINE Events(H, u, a) == {h \in H : h.owner = u /\ h.alias = a}
           Tells(T, H, u, a) ==
             /\ Events(H, u, a) = {} => ActiveIds(T, u, a) = {}
             /\ \A h \in Events(H, u, a) :
                  (\A g \in Events(H, u, a) : g.version <= h.version) =>
                      ActiveIds(T, u, a) =
                          IF h.action = "delete" THEN {} ELSE {h.credential_id}
<1>1. \A u \in Users, a \in Aliases : Tells(rows, history, u, a)
  BY DEF HistoryTellsActiveRow
<1>2. ASSUME NEW r \in Requests, Commit(r), NEW u \in Users, NEW a \in Aliases
      PROVE  Tells(rows', history', u, a)
  <2>1. history' = history \cup {HistoryEvent(r)}
    BY <1>2 DEF Commit
  <2>2. CASE u = input[r].owner /\ a = input[r].alias
    <3>1. PICK n \in Nat : /\ version[r] = n + 1
                           /\ Versions(history', u, a) = 1 .. (n + 1)
                           /\ Versions(history, u, a) = 1 .. n
      BY <1>2, <2>2, CommitVersions
    <3>2. /\ HistoryEvent(r).owner = u /\ HistoryEvent(r).alias = a
          /\ HistoryEvent(r).version = n + 1
          /\ HistoryEvent(r).action = input[r].op
          /\ HistoryEvent(r).credential_id = target[r]
      BY <2>2, <3>1 DEF HistoryEvent
    <3>3. HistoryEvent(r) \in Events(history', u, a)
      BY <2>1, <3>2
    <3>4. \A h \in Events(history, u, a) : h.version \in 1 .. n
      BY <3>1 DEF Versions
    <3>5. ASSUME NEW h \in Events(history', u, a),
                 \A g \in Events(history', u, a) : g.version <= h.version
          PROVE  h = HistoryEvent(r)
      <4>1. n + 1 <= h.version
        BY <3>2, <3>3, <3>5
      <4>2. h \notin Events(history, u, a)
        BY <3>4, <4>1
      <4>3. QED
        BY <2>1, <3>5, <4>2
    <3>6. ActiveIds(rows', u, a) = IF input[r].op = "delete" THEN {} ELSE {target[r]}
      BY <1>2, <2>2, CommitActive
    <3>7. QED
      BY <3>2, <3>3, <3>5, <3>6
  <2>3. CASE ~(u = input[r].owner /\ a = input[r].alias)
    <3>1. ActiveIds(rows', u, a) = ActiveIds(rows, u, a)
      BY <1>2, <2>3, OtherAliases
    <3>2. HistoryEvent(r).owner = input[r].owner /\ HistoryEvent(r).alias = input[r].alias
      BY DEF HistoryEvent
    <3>3. Events(history', u, a) = Events(history, u, a)
      BY <2>1, <2>3, <3>2
    <3>4. QED
      BY <1>1, <3>1, <3>3
  <2>4. QED
    BY <2>2, <2>3
<1>3. \A u \in Users, a \in Aliases : Tells(rows', history', u, a)
  <2>1. CASE rows' = rows /\ history' = history
    BY <1>1, <2>1
  <2>2. QED
    BY <1>2, <2>1, StepFrame
<1>4. QED
  BY <1>3 DEF HistoryTellsActiveRow

\* The newest event of an owner and alias tells which credential is active,
\* for any number of requests that overlap or fail.
THEOREM HistoryTellsActive == Spec => []HistoryTellsActiveRow
<1>1. Init => HistoryTellsActiveRow
  BY DEF Init, HistoryTellsActiveRow, ActiveIds, Active
<1>2. ASSUME IInv, HistoryTellsActiveRow, [Next]_vars
      PROVE  HistoryTellsActiveRow'
  BY <1>2, HistoryTellsActiveRowStep
<1>3. QED
  BY <1>1, <1>2, InductiveInvariant, PTL DEF Spec

-----------------------------------------------------------------------------
(* What callers are told *)

Unanswered == \A r \in Requests : pc[r] # "done" => reply[r] = "none"

\* The version a transaction holds is in no event yet, so its INSERT INTO
\* credential_history never collides.
LEMMA HeldVersionIsFree ==
    ASSUME IInv, NEW r \in Requests, pc[r] = "history"
    PROVE  version[r] \notin Versions(history, input[r].owner, input[r].alias)
<1> DEFINE u == input[r].owner
           a == input[r].alias
<1>1. Holds(r) /\ u \in Users /\ a \in Aliases
  BY InputKinds DEF Holds, IInv, Shape, ShapeOf
<1>2. Versions(history, u, a) \subseteq Nat
  BY DEF IInv, TypeOK, Tables, Event, Versions
<1>3. Versions(history, u, a) = {}
        \/ \E n \in Versions(history, u, a) : Versions(history, u, a) = 1 .. n
  BY <1>1 DEF IInv, HistoryIsLinear
<1>4. PICK n \in Nat : /\ Versions(history, u, a) = 1 .. n
                       /\ NextHistoryVersion(history, u, a) = n + 1
  BY <1>2, <1>3, NextVersionIsNext
<1>5. version[r] = n + 1
  BY <1>1, <1>4 DEF IInv, LockDiscipline, WriteIsCurrent
<1>6. QED
  BY <1>4, <1>5

\* A step that is not the COMMIT of s leaves its answer alone or refuses it,
\* with a conflict only for a registration.
LEMMA AnswerFrame ==
    ASSUME IInv, Unanswered, [Next]_vars, NEW s \in Requests, ~Commit(s)
    PROVE  \/ /\ reply'[s] = reply[s]
              /\ (pc'[s] = "done" <=> pc[s] = "done")
              /\ input'[s] = input[s] \/ reply[s] = "none"
           \/ /\ pc[s] # "done" /\ pc'[s] = "done"
              /\ reply'[s] \in {"not_found", "conflict", "invalid", "error"}
              /\ reply'[s] = "conflict" => input'[s].op = "register"
<1> USE DEF IInv, TypeOK, PCs, Replies, Answer, GoTo, reqVars
<1>1. ASSUME NEW r \in Requests, IssueRegister(r) \/ IssueUpdate(r) \/ IssueDelete(r)
      PROVE  /\ reply'[s] = reply[s] /\ (pc'[s] = "done" <=> pc[s] = "done")
             /\ input'[s] = input[s] \/ reply[s] = "none"
  <2>1. \E i, where : where \in {"begin", "find"} /\ Accept(r, i, where)
    BY ONLY <1>1 DEF IssueRegister, IssueUpdate, IssueDelete
  <2>2. PICK i, where : where \in {"begin", "find"} /\ Accept(r, i, where)
    BY <2>1
  <2>3. reply[r] = "none"
    BY <2>2 DEF Accept, Unanswered
  <2>4. QED
    BY <2>2, <2>3 DEF Accept
<1>2. ASSUME NEW r \in Requests, Refuse(r) \/ Fail(r) \/ FindFails(r) \/ FindRejects(r)
      PROVE  /\ r # s => reply'[s] = reply[s] /\ pc'[s] = pc[s]
             /\ r = s => /\ pc[s] # "done" /\ pc'[s] = "done"
                         /\ reply'[s] \in {"not_found", "invalid", "error"}
             /\ input' = input
  BY <1>2 DEF Refuse, Fail, FindFails, FindRejects
<1>3. ASSUME NEW r \in Requests, FindPlans(r) \/ Begin(r) \/ ReadVersion(r)
      PROVE  reply' = reply /\ (pc'[s] = "done" <=> pc[s] = "done") /\ input' = input
  BY <1>3 DEF FindPlans, Begin, ReadVersion
<1>4. ASSUME NEW r \in Requests, InsertCredential(r)
      PROVE  \/ reply' = reply /\ (pc'[s] = "done" <=> pc[s] = "done") /\ input' = input
             \/ /\ r # s => reply'[s] = reply[s] /\ pc'[s] = pc[s]
                /\ r = s => /\ pc[s] # "done" /\ pc'[s] = "done"
                            /\ reply'[s] = "conflict" /\ input[s].op = "register"
                /\ input' = input
  <2>1. input[r].op = "register" /\ pc[r] = "insert"
    BY <1>4 DEF InsertCredential, Shape, ShapeOf
  <2>2. QED
    BY <1>4, <2>1 DEF InsertCredential
<1>5. ASSUME NEW r \in Requests, Scan(r) \/ LockAndWrite(r)
      PROVE  \/ reply' = reply /\ (pc'[s] = "done" <=> pc[s] = "done") /\ input' = input
             \/ /\ r # s => reply'[s] = reply[s] /\ pc'[s] = pc[s]
                /\ r = s => /\ pc[s] # "done" /\ pc'[s] = "done"
                            /\ reply'[s] = "not_found"
                /\ input' = input
  BY <1>5 DEF Scan, LockAndWrite
<1>6. ASSUME NEW r \in Requests, InsertHistory(r)
      PROVE  reply' = reply /\ (pc'[s] = "done" <=> pc[s] = "done") /\ input' = input
  <2>1. version[r] \notin Versions(history, input[r].owner, input[r].alias)
    BY <1>6, HeldVersionIsFree DEF InsertHistory
  <2>2. QED
    BY <1>6, <2>1 DEF InsertHistory
<1>7. ASSUME NEW r \in Requests, r # s, Commit(r)
      PROVE  reply'[s] = reply[s] /\ pc'[s] = pc[s] /\ input' = input
  BY <1>7 DEF Commit
<1>8. CASE UNCHANGED vars
  BY <1>8 DEF vars
<1>9. QED
  BY <1>1, <1>2, <1>3, <1>4, <1>5, <1>6, <1>7, <1>8 DEF Next, Issue, Step, Find, Finished

LEMMA RepliesStep ==
    ASSUME IInv, Unanswered, RepliesAreTruthful, [Next]_vars
    PROVE  Unanswered' /\ RepliesAreTruthful'
<1> DEFINE Mine(H, r) == {h \in H : h.request = r}
<1> SUFFICES ASSUME NEW s \in Requests
             PROVE  /\ pc'[s] # "done" => reply'[s] = "none"
                    /\ reply'[s] = "ok" =>
                         \E h \in Mine(history', s) :
                             Mine(history', s) = {h} /\ h.action = input'[s].op
                    /\ reply'[s] \in {"none", "not_found", "conflict", "invalid"} =>
                         Mine(history', s) = {}
                    /\ reply'[s] = "conflict" => input'[s].op = "register"
  BY DEF Unanswered, RepliesAreTruthful
<1>1. /\ pc[s] # "done" => reply[s] = "none"
      /\ reply[s] = "ok" =>
           \E h \in Mine(history, s) : Mine(history, s) = {h} /\ h.action = input[s].op
      /\ reply[s] \in {"none", "not_found", "conflict", "invalid"} => Mine(history, s) = {}
      /\ reply[s] = "conflict" => input[s].op = "register"
  BY DEF Unanswered, RepliesAreTruthful
<1>2. CASE Commit(s)
  <2>1. /\ pc[s] = "commit" /\ pc'[s] = "done" /\ reply'[s] \in {"ok", "error"}
        /\ history' = history \cup {HistoryEvent(s)} /\ input' = input
    BY <1>2 DEF Commit, Answer, reqVars, IInv, TypeOK
  <2>2. Mine(history, s) = {}
    BY <1>1, <2>1
  <2>3. HistoryEvent(s).request = s /\ HistoryEvent(s).action = input[s].op
    BY DEF HistoryEvent
  <2>4. Mine(history', s) = {HistoryEvent(s)}
    BY <2>1, <2>2, <2>3
  <2>5. QED
    BY <2>1, <2>3, <2>4
<1>3. CASE ~Commit(s)
  <2>1. Mine(history', s) = Mine(history, s)
    <3>1. ASSUME NEW r \in Requests, Commit(r)
          PROVE  Mine(history', s) = Mine(history, s)
      <4>1. history' = history \cup {HistoryEvent(r)} /\ HistoryEvent(r).request # s
        BY <1>3, <3>1 DEF Commit, HistoryEvent
      <4>2. QED
        BY <4>1
    <3>2. QED
      BY <3>1, StepFrame
  <2>2. QED
    BY <1>1, <1>3, <2>1, AnswerFrame
<1>4. QED
  BY <1>2, <1>3

\* A caller told ok has its one event, a caller refused has none, and only a
\* registration is told conflict.
THEOREM RepliesTruthful == Spec => []RepliesAreTruthful
<1>1. Init => Unanswered /\ RepliesAreTruthful
  BY DEF Init, Unanswered, RepliesAreTruthful
<1>2. ASSUME IInv, Unanswered, RepliesAreTruthful, [Next]_vars
      PROVE  Unanswered' /\ RepliesAreTruthful'
  BY <1>2, RepliesStep
<1>3. QED
  BY <1>1, <1>2, InductiveInvariant, PTL DEF Spec

-----------------------------------------------------------------------------
(* A policy that names a secret header *)

Planned(r) == pc[r] \notin {"idle", "find", "done"} /\ input[r].op = "update"

\* A plan stays right about the row it was computed from: it is still of the
\* caller's category, and while it is active the policy of the plan names
\* none of its secret headers.
PlanKept ==
    \A r \in Requests : Planned(r) =>
        LET row == rows[plan[r].from]
        IN  /\ row # Null
            /\ row.category = input[r].category
            /\ (~row.deleted /\ row.category = "http" /\ plan[r].policy # Null) =>
                 NoOverlap(plan[r].policy, row.secret)

\* A request that is planned was so before, with the same plan, or has just
\* made it.
LEMMA PlannedFrame ==
    ASSUME IInv, [Next]_vars, NEW s \in Requests, Planned(s)'
    PROVE  \/ Planned(s) /\ plan'[s] = plan[s] /\ input'[s] = input[s]
           \/ FindPlans(s) /\ pc[s] = "find"
<1> USE DEF IInv, TypeOK, PCs, Answer, GoTo, reqVars, Planned
<1>1. ASSUME NEW r \in Requests, Issue(r)
      PROVE  Planned(s) /\ plan'[s] = plan[s] /\ input'[s] = input[s]
  <2>1. ASSUME NEW i, NEW where, Accept(r, i, where), where = "find" \/ i.op # "update"
        PROVE  Planned(s) /\ plan'[s] = plan[s] /\ input'[s] = input[s]
    BY <2>1 DEF Accept
  <2>2. CASE IssueRegister(r)
    <3>1. \E i \in RegisterInput : Accept(r, i, "begin")
      BY ONLY <2>2 DEF IssueRegister, RegisterInput
    <3>2. QED
      BY <2>1, <3>1 DEF RegisterInput
  <2>3. CASE IssueUpdate(r)
    <3>1. \E i : Accept(r, i, "find")
      BY ONLY <2>3 DEF IssueUpdate
    <3>2. QED
      BY <2>1, <3>1
  <2>4. CASE IssueDelete(r)
    <3>1. \E i \in DeleteInput : Accept(r, i, "begin")
      BY ONLY <2>4 DEF IssueDelete, DeleteInput
    <3>2. QED
      BY <2>1, <3>1 DEF DeleteInput
  <2>5. QED
    BY <1>1, <2>2, <2>3, <2>4 DEF Issue
<1>2. ASSUME NEW r \in Requests, Refuse(r) \/ Fail(r) \/ Commit(r)
      PROVE  Planned(s) /\ plan'[s] = plan[s] /\ input'[s] = input[s]
  BY <1>2 DEF Refuse, Fail, Commit
<1>3. ASSUME NEW r \in Requests, Find(r)
      PROVE  \/ Planned(s) /\ plan'[s] = plan[s] /\ input'[s] = input[s]
             \/ FindPlans(s) /\ pc[s] = "find"
  BY <1>3 DEF Find, FindFails, FindRejects, FindPlans
<1>4. ASSUME NEW r \in Requests, Begin(r) \/ InsertCredential(r) \/ Scan(r)
      PROVE  Planned(s) /\ plan'[s] = plan[s] /\ input'[s] = input[s]
  BY <1>4 DEF Begin, InsertCredential, Scan
<1>5. ASSUME NEW r \in Requests, LockAndWrite(r) \/ ReadVersion(r) \/ InsertHistory(r)
      PROVE  Planned(s) /\ plan'[s] = plan[s] /\ input'[s] = input[s]
  BY <1>5 DEF LockAndWrite, ReadVersion, InsertHistory
<1>6. CASE UNCHANGED vars
  BY <1>6 DEF vars
<1>7. QED
  BY <1>1, <1>2, <1>3, <1>4, <1>5, <1>6 DEF Next, Issue, Step, Finished

LEMMA PlanKeptStep ==
    ASSUME IInv, PlanKept, [Next]_vars
    PROVE  PlanKept'
<1> SUFFICES ASSUME NEW s \in Requests, Planned(s)'
             PROVE  LET row == rows'[plan'[s].from]
                    IN  /\ row # Null
                        /\ row.category = input'[s].category
                        /\ (~row.deleted /\ row.category = "http" /\ plan'[s].policy # Null) =>
                             NoOverlap(plan'[s].policy, row.secret)
  BY DEF PlanKept
<1>1. CASE Planned(s) /\ plan'[s] = plan[s] /\ input'[s] = input[s]
  <2> DEFINE from == plan[s].from
  <2>1. plan[s] \in Plan /\ from \in Requests
    BY <1>1 DEF Planned, IInv, Shape, ShapeOf, Plan
  <2>2. /\ rows[from] # Null /\ rows[from].category = input[s].category
        /\ (~rows[from].deleted /\ rows[from].category = "http" /\ plan[s].policy # Null) =>
             NoOverlap(plan[s].policy, rows[from].secret)
    BY <1>1 DEF PlanKept
  <2>3. RowKept(from)
    BY <2>1, RowKeptStep
  <2>4. QED
    BY <1>1, <2>2, <2>3 DEF RowKept
<1>2. CASE FindPlans(s) /\ pc[s] = "find"
  <2>1. input[s] \in UpdateInput
    BY <1>2, InputKinds DEF IInv, Shape, ShapeOf
  <2>2. PICK id \in ActiveOf(s) :
          /\ rows[id].category = input[s].category
          /\ ValidUpdatePolicy(rows[id], input[s])
          /\ plan' = [plan EXCEPT ![s] = PlanUpdate(id, input[s])]
    BY <1>2 DEF FindPlans
  <2>3. /\ id \in Requests /\ rows[id] \in Row /\ rows[id] # Null
        /\ rows' = rows /\ input' = input
    BY <1>2, ActiveIdsType DEF ActiveOf, IInv, TypeOK, Tables, FindPlans
  <2>4. plan'[s] = PlanUpdate(id, input[s])
    BY <2>2 DEF IInv, TypeOK
  <2>5. plan'[s].from = id /\ plan'[s].policy \in {Null, input[s].policy}
    BY <2>4 DEF PlanUpdate
  <2>6. QED
    BY <2>2, <2>3, <2>5 DEF ValidUpdatePolicy
<1>3. QED
  BY <1>1, <1>2, PlannedFrame

\* The step that makes a row overlap is the COMMIT of an update whose plan
\* was computed from another row.
LEMMA OverlapStep ==
    ASSUME IInv, PlanKept, [Next]_vars, NEW id \in Requests,
           ~Overlaps(rows, id), Overlaps(rows', id)
    PROVE  \E r \in Requests : /\ pc[r] = "commit" /\ pc'[r] = "done"
                              /\ target[r] = id
                              /\ input[r].op = "update" /\ plan[r].from # id
<1>1. PICK r \in Requests : Commit(r)
  BY StepFrame DEF Overlaps, Active
<1>2. pc[r] = "commit" /\ pc'[r] = "done"
  BY <1>1 DEF Commit, Answer, IInv, TypeOK
<1>3. /\ WriteIsCurrent(r)
      /\ rows \in [Requests -> {Null} \cup Row] /\ target[r] \in Requests
      /\ rows' = [rows EXCEPT ![target[r]] = write[r]]
  BY <1>1, CommitIsCurrent
<1>4. target[r] = id
  BY <1>3 DEF Overlaps, Active
<1>5. rows'[id] = write[r] /\ ~write[r].deleted /\ write[r].category = "http"
      /\ ~NoOverlap(write[r].policy, write[r].secret)
  BY <1>3, <1>4 DEF Overlaps, Active
<1>6. input[r].op # "register"
  BY <1>3, <1>5 DEF WriteIsCurrent, NewRow, ValidRegister
<1>7. rows[id] \in Row /\ rows[id] # Null /\ ~rows[id].deleted
  BY <1>1, <1>4, <1>6, CommitIsCurrent
<1>8. input[r].op # "delete"
  BY <1>3, <1>4, <1>5, <1>7 DEF WriteIsCurrent, DeletedRow, Row
<1>9. input[r].op = "update"
  BY <1>1, <1>6, <1>8, CommitIsCurrent
<1>10. plan[r] \in Plan /\ write[r] = UpdatedRow(rows[id], plan[r])
  BY <1>1, <1>3, <1>4, <1>9, CommitIsCurrent DEF WriteIsCurrent
<1>11. /\ write[r].category = rows[id].category /\ write[r].secret = rows[id].secret
       /\ write[r].policy = IF plan[r].policy = Null THEN rows[id].policy
                            ELSE plan[r].policy
  BY <1>7, <1>10 DEF UpdatedRow, Row
<1>12. plan[r].policy # Null
  BY <1>5, <1>7, <1>11 DEF Overlaps, Active
<1>13. plan[r].from # id
  BY <1>2, <1>5, <1>7, <1>9, <1>11, <1>12 DEF PlanKept, Planned
<1>14. QED
  BY <1>2, <1>4, <1>9, <1>13

\* The overlap check is right for the row it read: only an update planned
\* against one credential and applied to its successor can break it.
THEOREM OverlapNeedsStalePlan == Spec => OverlapOnlyFromStalePlan
<1>1. Init => PlanKept
  BY DEF Init, PlanKept, Planned
<1>2. ASSUME IInv, PlanKept, [Next]_vars
      PROVE  PlanKept'
  BY <1>2, PlanKeptStep
<1>3. ASSUME IInv, PlanKept, [Next]_vars
      PROVE  \A id \in Requests : (~Overlaps(rows, id) /\ Overlaps(rows', id)) =>
               \E r \in Requests : /\ pc[r] = "commit" /\ pc'[r] = "done"
                                  /\ target[r] = id
                                  /\ input[r].op = "update" /\ plan[r].from # id
  BY <1>3, OverlapStep
<1>4. QED
  BY <1>1, <1>2, <1>3, InductiveInvariant, PTL DEF Spec, OverlapOnlyFromStalePlan

=============================================================================
