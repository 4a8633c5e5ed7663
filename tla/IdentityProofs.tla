--------------------------- MODULE IdentityProofs ---------------------------
(***************************************************************************)
(* Proofs about Identity, for any number of browsers, logins, requests and *)
(* accounts.                                                               *)
(*                                                                         *)
(* ReqOK says what a request knows at each of its awaits and what of it    *)
(* may still change under it, FlowOK that a spent code was redeemed where  *)
(* its login began, RowOK that a row was let in and is accounted for, and  *)
(* AuditOK that a record is of a request whose outcome is settled.  Rows   *)
(* are never deleted and nobody becomes active again (UsersKept); a login  *)
(* keeps its browser and its account (FlowsKept): that is why what a       *)
(* request has checked is true when it uses it.                            *)
(***************************************************************************)
EXTENDS Identity, TLAPS

Bearing == {"authority", "building", "verify", "refresh", "resolve"}

Settled == {"record", "respond", "done", "dropped"}

ReqOK(q) ==
    /\ req[q].pc = "idle" => /\ req[q].kind = "none" /\ req[q].sub = Null
                             /\ req[q].barred = {} /\ ~req[q].lost
    /\ req[q].pc = "exchange" =>
         /\ req[q].kind = "callback" /\ req[q].sub = Null
         /\ req[q].code \in Flows /\ flow[req[q].code].pc = "open"
         /\ flow[req[q].code].browser = req[q].browser
         /\ flow[req[q].code].sub # Null
    /\ req[q].pc \in {"find", "upsert"} => req[q].kind = "callback" /\ req[q].sub \in Subjects
    /\ req[q].pc = "upsert" => users[req[q].sub] # Null \/ req[q].email \in Allowed
    /\ req[q].pc \in Bearing => req[q].kind = "bearer" /\ req[q].sub \in Subjects
    /\ req[q].pc \notin Settled => req[q].outcome = "none"
    /\ req[q].pc = "record" => req[q].outcome # "none"
    /\ req[q].outcome = "ok" =>
         /\ req[q].sub \notin req[q].barred
         /\ req[q].kind = "callback" => req[q].sub \in Subjects /\ users[req[q].sub] # Null
    /\ req[q].barred \subseteq Inactive

FlowOK(f) ==
    flow[f].spent_by # Null =>
        LET q == flow[f].spent_by
        IN  /\ flow[f].pc = "open" /\ flow[f].sub # Null
            /\ req[q].pc \notin {"idle", "exchange"}
            /\ req[q].browser = flow[f].browser /\ req[q].sub \in {Null, flow[f].sub}

JarOK(b) == jar[b] # Null => flow[jar[b]].pc = "open" /\ flow[jar[b]].browser = b

\* Only an open login has been agreed to.
AgreedOK(f) == flow[f].sub # Null => flow[f].pc = "open"

RowOK(s) ==
    users[s] # Null =>
        LET q == users[s].by
        IN  /\ users[s].email \in Allowed
            /\ req[q].pc \in Settled /\ req[q].sub = s
            /\ req[q].outcome # "signup_not_allowed"
            /\ req[q].pc \in {"respond", "done"} => req[q].lost \/ RecordOf(q) \in audit

AuditOK ==
    \A r \in audit : r = RecordOf(r.request)
                     /\ req[r.request].pc \in {"respond", "done", "dropped"}

IInv ==
    /\ TypeOK /\ AuditOK
    /\ \A q \in Requests : ReqOK(q)
    /\ \A f \in Flows : FlowOK(f) /\ AgreedOK(f)
    /\ \A b \in Browsers : JarOK(b)
    /\ \A s \in Subjects : RowOK(s)

UsersKept ==
    \A s \in Subjects : users[s] # Null =>
        /\ users'[s] # Null /\ users'[s].email = users[s].email /\ users'[s].by = users[s].by
        /\ ~users[s].active => ~users'[s].active

FlowsKept ==
    \A f \in Flows :
        /\ flow[f].pc = "open" => flow'[f].pc = "open" /\ flow'[f].browser = flow[f].browser
        /\ flow[f].sub # Null => flow'[f].sub = flow[f].sub
        /\ flow[f].spent_by # Null => flow'[f].spent_by = flow[f].spent_by

-----------------------------------------------------------------------------

LEMMA InitIInv == Init => IInv
<1> SUFFICES ASSUME Init PROVE IInv
  OBVIOUS
<1>1. TypeOK
  BY DEF Init, TypeOK, FlowState, RequestState
<1>2. AuditOK
  BY DEF Init, AuditOK
<1>3. ASSUME NEW q \in Requests PROVE ReqOK(q)
  BY DEF Init, ReqOK, Bearing, Settled
<1>4. ASSUME NEW f \in Flows PROVE FlowOK(f) /\ AgreedOK(f)
  BY DEF Init, FlowOK, AgreedOK
<1>5. \A b \in Browsers : JarOK(b)
  BY DEF Init, JarOK
<1>6. \A s \in Subjects : RowOK(s)
  BY DEF Init, RowOK
<1> QED BY <1>1, <1>2, <1>3, <1>4, <1>5, <1>6 DEF IInv

\* Who is inactive stays so.
LEMMA InactiveGrows ==
  ASSUME IInv, UsersKept  PROVE Inactive \subseteq Inactive'
BY DEF Inactive, UsersKept

\* What holds of a request that does not move.
LEMMA RequestKept ==
  ASSUME IInv, UsersKept, FlowsKept, NEW p \in Requests, req'[p] = req[p]
  PROVE  ReqOK(p)'
<1>1. ReqOK(p) /\ req[p] \in RequestState
  BY DEF IInv, TypeOK
<1>2. req[p].barred \subseteq Inactive'
  BY <1>1, InactiveGrows DEF ReqOK
<1>3. req[p].sub \in Subjects /\ users[req[p].sub] # Null => users'[req[p].sub] # Null
  BY DEF UsersKept
<1>4. req[p].code \in Flows =>
        /\ flow[req[p].code].pc = "open" =>
             /\ flow'[req[p].code].pc = "open"
             /\ flow'[req[p].code].browser = flow[req[p].code].browser
        /\ flow[req[p].code].sub # Null => flow'[req[p].code].sub # Null
  BY DEF FlowsKept
<1> QED BY <1>1, <1>2, <1>3, <1>4 DEF ReqOK

\* A step of request q that keeps to what the others rely on.
LEMMA RequestStep ==
  ASSUME IInv, NEW q \in Requests, TypeOK', ReqOK(q)',
         \A p \in Requests \ {q} : req'[p] = req[p],
         UsersKept, FlowsKept,
         \A b \in Browsers : jar'[b] \in {Null, jar[b]},
         \A f \in Flows : /\ flow'[f].spent_by # flow[f].spent_by => FlowOK(f)'
                          /\ flow'[f].sub = flow[f].sub,
         \A s \in Subjects : users[s] = Null => RowOK(s)',
         audit \subseteq audit',
         \A r \in audit' \ audit : r = RecordOf(q)' /\ r.request = q
                                   /\ req'[q].pc \in {"respond", "done", "dropped"},
         req[q].pc \notin {"idle", "exchange"} =>
             /\ req'[q].pc \notin {"idle", "exchange"} /\ req'[q].kind = req[q].kind
             /\ req'[q].sub = req[q].sub /\ req'[q].browser = req[q].browser,
         req[q].pc \in Settled =>
             /\ req'[q].pc \in Settled /\ req'[q].outcome = req[q].outcome
             /\ req[q].lost => req'[q].lost,
         req[q].pc = "record" /\ req'[q].pc \in {"respond", "done"} =>
             req'[q].lost \/ RecordOf(q)' \in audit',
         req[q].pc \in {"respond", "done", "dropped"} =>
             req'[q].pc \in {"respond", "done", "dropped"},
         req[q].pc = "dropped" => req'[q].pc = "dropped"
  PROVE  IInv'
<1> USE DEF IInv
<1>1. ASSUME NEW p \in Requests PROVE ReqOK(p)'
  BY RequestKept
<1>2. \A p \in Requests : p # q => RecordOf(p)' = RecordOf(p)
  BY DEF RecordOf
<1>3. req[q].pc \in Settled => RecordOf(q)' = RecordOf(q)
  BY DEF RecordOf, Settled
<1>4. AuditOK'
  <2> SUFFICES ASSUME NEW r \in audit, r \in audit'
               PROVE  /\ r = RecordOf(r.request)'
                      /\ req'[r.request].pc \in {"respond", "done", "dropped"}
    BY DEF AuditOK
  <2>1. /\ r.request \in Requests /\ r = RecordOf(r.request)
        /\ req[r.request].pc \in {"respond", "done", "dropped"}
    BY DEF AuditOK, TypeOK, Record
  <2> QED BY <1>2, <1>3, <2>1 DEF Settled
<1>5. ASSUME NEW f \in Flows PROVE FlowOK(f)' /\ AgreedOK(f)'
  <2>1. CASE flow'[f].spent_by = flow[f].spent_by /\ flow[f].spent_by # Null
    <3>1. flow[f].spent_by \in Requests
      BY <2>1 DEF TypeOK, FlowState
    <3> QED BY <2>1, <3>1 DEF FlowOK, FlowsKept, AgreedOK
  <2>2. CASE flow'[f].spent_by = flow[f].spent_by /\ flow[f].spent_by = Null
    BY <2>2 DEF FlowOK, FlowsKept, AgreedOK
  <2>3. CASE flow'[f].spent_by # flow[f].spent_by
    BY <2>3 DEF FlowsKept, AgreedOK
  <2> QED BY <2>1, <2>2, <2>3
<1>6. ASSUME NEW b \in Browsers PROVE JarOK(b)'
  <2>1. jar[b] # Null => jar[b] \in Flows
    BY DEF TypeOK
  <2> QED BY <2>1 DEF JarOK, FlowsKept
<1>7. ASSUME NEW s \in Subjects PROVE RowOK(s)'
  <2>1. CASE users[s] # Null
    <3> DEFINE p == users[s].by
    <3>1. p \in Requests /\ users'[s].by = p /\ users'[s].email = users[s].email
      BY <2>1 DEF TypeOK, UserRow, UsersKept
    <3>2. CASE p # q
      BY <1>2, <2>1, <3>1, <3>2 DEF RowOK
    <3>3. CASE p = q
      BY <1>3, <2>1, <3>1, <3>3 DEF RowOK, Settled
    <3> QED BY <3>2, <3>3
  <2> QED BY <2>1
<1> QED BY <1>1, <1>4, <1>5, <1>6, <1>7

-----------------------------------------------------------------------------
(* How a request moves *)

PCs == {"idle", "exchange", "find", "upsert", "authority", "building", "verify",
        "refresh", "resolve", "record", "respond", "done", "dropped"}

Others(q) == \A p \in Requests \ {q} : req'[p] = req[p]

\* What a request keeps but for its place and its outcome.
Kept(q) ==
    /\ req'[q].kind = req[q].kind /\ req'[q].browser = req[q].browser
    /\ req'[q].code = req[q].code /\ req'[q].sub = req[q].sub
    /\ req'[q].email = req[q].email /\ req'[q].barred = req[q].barred

LEMMA GoToMoves ==
  ASSUME IInv, NEW q \in Requests, NEW pc \in PCs, GoTo(q, pc)
  PROVE  /\ req' \in [Requests -> RequestState] /\ Others(q) /\ Kept(q)
         /\ req'[q].pc = pc /\ req'[q].outcome = req[q].outcome /\ req'[q].lost = req[q].lost
<1>1. req \in [Requests -> RequestState] /\ req[q] \in RequestState
  BY DEF IInv, TypeOK
<1>2. [req[q] EXCEPT !.pc = pc] \in RequestState
  BY <1>1 DEF RequestState, PCs
<1> QED BY <1>1, <1>2 DEF GoTo, Others, Kept, RequestState

LEMMA ConcludeMoves ==
  ASSUME IInv, NEW q \in Requests, NEW pc \in PCs, NEW outcome \in Outcomes,
         NEW lost \in BOOLEAN,
         \/ Conclude(q, pc, outcome) /\ lost = req[q].lost
         \/ req' = [req EXCEPT ![q].pc = pc, ![q].outcome = outcome, ![q].lost = lost]
         \/ req' = [req EXCEPT ![q].pc = pc, ![q].lost = lost] /\ outcome = req[q].outcome
  PROVE  /\ req' \in [Requests -> RequestState] /\ Others(q) /\ Kept(q)
         /\ req'[q].pc = pc /\ req'[q].outcome = outcome /\ req'[q].lost = lost
<1> DEFINE i == [req[q] EXCEPT !.pc = pc, !.outcome = outcome, !.lost = lost]
<1>1. req \in [Requests -> RequestState] /\ req[q] \in RequestState
  BY DEF IInv, TypeOK
<1>2. i \in RequestState
  BY <1>1 DEF RequestState, PCs
<1>3. req' = [req EXCEPT ![q] = i]
  <2>1. CASE Conclude(q, pc, outcome) /\ lost = req[q].lost
    BY <1>1, <2>1 DEF Conclude, RequestState
  <2>2. CASE req' = [req EXCEPT ![q].pc = pc, ![q].outcome = outcome, ![q].lost = lost]
    BY <1>1, <2>2
  <2>3. CASE req' = [req EXCEPT ![q].pc = pc, ![q].lost = lost] /\ outcome = req[q].outcome
    BY <1>1, <2>3 DEF RequestState
  <2> QED BY <2>1, <2>2, <2>3
<1>4. req'[q] = i /\ req' \in [Requests -> RequestState] /\ Others(q)
  BY <1>1, <1>2, <1>3 DEF Others
<1> QED BY <1>1, <1>4 DEF Kept, RequestState

LEMMA ConcludeKeeps ==
  ASSUME IInv, NEW q \in Requests, NEW pc \in PCs, NEW outcome \in Outcomes,
         Conclude(q, pc, outcome)
  PROVE  /\ req' \in [Requests -> RequestState] /\ Others(q) /\ Kept(q)
         /\ req'[q].pc = pc /\ req'[q].outcome = outcome
<1>1. PICK lost \in BOOLEAN : lost = req[q].lost
  BY DEF IInv, TypeOK, RequestState
<1>2. Conclude(q, pc, outcome) /\ lost = req[q].lost
  BY <1>1
<1> QED BY <1>2, ConcludeMoves

\* A step of q that touches nothing but q, and its record if it is one.
LEMMA PlainStep ==
  ASSUME IInv, NEW q \in Requests, req' \in [Requests -> RequestState], Others(q), Kept(q),
         UNCHANGED <<users, flow>>, \A b \in Browsers : jar'[b] \in {Null, jar[b]},
         jar' \in [Browsers -> {Null} \cup Flows],
         building' \in {Null} \cup Requests, tasks' \in Nat,
         \/ audit' = audit
         \/ /\ req[q].pc = "record" /\ audit' = audit \cup {RecordOf(q)}
            /\ req'[q].pc \in {"respond", "done"},
         ReqOK(q)',
         req'[q].pc \notin {"idle", "exchange"},
         req[q].pc \in Settled =>
             /\ req'[q].pc \in Settled \ {"record"} /\ req'[q].outcome = req[q].outcome
             /\ req[q].lost => req'[q].lost,
         req[q].pc = "record" /\ req'[q].pc \in {"respond", "done"} =>
             req'[q].lost \/ audit' = audit \cup {RecordOf(q)},
         req[q].pc = "dropped" => req'[q].pc = "dropped"
  PROVE  IInv'
<1> USE DEF IInv
<1>1. req[q].pc \in Settled => RecordOf(q)' = RecordOf(q)
  BY DEF RecordOf, Kept, Settled
<1>2. req[q].pc = "record" => RecordOf(q) \in Record
  <2>1. req[q] \in RequestState
    BY DEF TypeOK
  <2> QED BY <2>1 DEF RecordOf, Record, RequestState, ReqOK
<1>3. TypeOK'
  <2>1. audit' \subseteq Record
    BY <1>2 DEF TypeOK
  <2> QED BY <2>1 DEF TypeOK
<1>4. UsersKept /\ FlowsKept
  BY DEF UsersKept, FlowsKept
<1>5. \A s \in Subjects : users[s] = Null => RowOK(s)'
  BY DEF RowOK
<1>6. /\ audit \subseteq audit'
      /\ \A r \in audit' \ audit : r = RecordOf(q)' /\ r.request = q
                                   /\ req'[q].pc \in {"respond", "done", "dropped"}
  <2>1. RecordOf(q).request = q
    BY DEF RecordOf
  <2> QED BY <1>1, <2>1 DEF Settled
<1>7. req[q].pc = "record" /\ req'[q].pc \in {"respond", "done"} =>
        req'[q].lost \/ RecordOf(q)' \in audit'
  BY <1>1 DEF Settled
<1>8. /\ \A p \in Requests \ {q} : req'[p] = req[p]
      /\ req'[q].kind = req[q].kind /\ req'[q].sub = req[q].sub
      /\ req'[q].browser = req[q].browser
  BY DEF Others, Kept
<1>9. /\ req[q].pc \in Settled => req'[q].pc \in Settled
      /\ req[q].pc \in {"respond", "done", "dropped"} =>
           req'[q].pc \in {"respond", "done", "dropped"}
  BY DEF Settled
<1>10. \A f \in Flows : flow'[f].spent_by = flow[f].spent_by /\ flow'[f].sub = flow[f].sub
  OBVIOUS
<1> HIDE DEF IInv
<1> QED
  BY <1>3, <1>4, <1>5, <1>6, <1>7, <1>8, <1>9, <1>10, RequestStep

-----------------------------------------------------------------------------
(* Logins and callbacks *)

\* A step of a login, a cookie or the operator.
LEMMA OutsideStep ==
  ASSUME IInv, UNCHANGED <<req, audit, building, tasks>>,
         users' \in [Subjects -> {Null} \cup UserRow], flow' \in [Flows -> FlowState],
         jar' \in [Browsers -> {Null} \cup Flows],
         UsersKept, FlowsKept,
         \A s \in Subjects : users[s] = Null => users'[s] = Null,
         \A f \in Flows : flow'[f].spent_by = flow[f].spent_by /\ AgreedOK(f)',
         \A b \in Browsers : jar'[b] \in {Null, jar[b]} \/ JarOK(b)'
  PROVE  IInv'
<1> USE DEF IInv
<1>1. TypeOK'
  BY DEF TypeOK
<1>2. \A q \in Requests : RecordOf(q)' = RecordOf(q)
  BY DEF RecordOf
<1>3. AuditOK'
  BY <1>2 DEF AuditOK, TypeOK, Record
<1>4. ASSUME NEW q \in Requests PROVE ReqOK(q)'
  BY RequestKept
<1>5. ASSUME NEW f \in Flows PROVE FlowOK(f)'
  BY DEF FlowOK, FlowsKept
<1>6. ASSUME NEW b \in Browsers PROVE JarOK(b)'
  <2>1. jar[b] # Null => jar[b] \in Flows
    BY DEF TypeOK
  <2> QED BY <2>1 DEF JarOK, FlowsKept
<1>7. ASSUME NEW s \in Subjects PROVE RowOK(s)'
  <2>1. users[s] # Null => users[s].by \in Requests
    BY DEF TypeOK, UserRow
  <2> QED BY <1>2, <2>1 DEF RowOK, UsersKept
<1> QED BY <1>1, <1>3, <1>4, <1>5, <1>6, <1>7

LEMMA LoginIInv ==
  ASSUME IInv, NEW f \in Flows, Login(f) \/ Redirected(f) \/ Authorise(f)  PROVE IInv'
<1> USE DEF IInv
<1>1. flow \in [Flows -> FlowState] /\ flow[f] \in FlowState
  BY DEF TypeOK
<1>2. UNCHANGED <<req, audit, building, tasks, users>> /\ UsersKept
  BY DEF Login, Redirected, Authorise, UsersKept
<1>3. CASE Login(f)
  <2>1. PICK b \in Browsers, pc \in {"redirecting", "failed"} :
          flow' = [flow EXCEPT ![f].pc = pc, ![f].browser = b]
    BY <1>3 DEF Login
  <2> DEFINE i == [flow[f] EXCEPT !.pc = pc, !.browser = b]
  <2>2. i \in FlowState /\ flow' = [flow EXCEPT ![f] = i]
    BY <1>1, <2>1 DEF FlowState
  <2>3. /\ flow' \in [Flows -> FlowState] /\ flow'[f].pc = pc /\ flow'[f].sub = flow[f].sub
        /\ flow'[f].spent_by = flow[f].spent_by
        /\ \A g \in Flows \ {f} : flow'[g] = flow[g]
    BY <1>1, <2>2 DEF FlowState
  <2>4. flow[f].pc = "idle" /\ UNCHANGED jar /\ flow[f].sub = Null
    BY <1>3 DEF Login, AgreedOK
  <2>5. FlowsKept /\ \A g \in Flows : AgreedOK(g)'
    BY <2>3, <2>4 DEF FlowsKept, AgreedOK
  <2>6. \A g \in Flows : flow'[g].spent_by = flow[g].spent_by
    BY <2>3
  <2> QED BY <1>2, <2>3, <2>4, <2>5, <2>6, OutsideStep DEF TypeOK
<1>4. CASE Redirected(f)
  <2>1. /\ flow[f].pc = "redirecting" /\ flow[f].browser \in {Null} \cup Browsers
        /\ flow' = [flow EXCEPT ![f].pc = "open"]
        /\ jar' = [jar EXCEPT ![flow[f].browser] = f]
    BY <1>1, <1>4 DEF Redirected, FlowState
  <2>2. /\ flow' \in [Flows -> FlowState] /\ flow'[f].pc = "open" /\ flow'[f].sub = flow[f].sub
        /\ flow'[f].browser = flow[f].browser /\ flow'[f].spent_by = flow[f].spent_by
        /\ \A g \in Flows \ {f} : flow'[g] = flow[g]
    BY <1>1, <2>1 DEF FlowState
  <2>3. FlowsKept /\ \A g \in Flows : AgreedOK(g)'
    BY <2>1, <2>2 DEF FlowsKept, AgreedOK
  <2>4. \A g \in Flows : flow'[g].spent_by = flow[g].spent_by
    BY <2>2
  <2>5. jar' \in [Browsers -> {Null} \cup Flows]
    BY <2>1 DEF TypeOK
  <2>6. \A b \in Browsers : jar'[b] = jar[b] \/ JarOK(b)'
    BY <2>1, <2>2 DEF TypeOK, JarOK
  <2> QED BY <1>2, <2>2, <2>3, <2>4, <2>5, <2>6, OutsideStep DEF TypeOK
<1>5. CASE Authorise(f)
  <2>1. PICK s \in Subjects : flow' = [flow EXCEPT ![f].sub = s]
    BY <1>5 DEF Authorise
  <2>2. flow[f].pc = "open" /\ flow[f].sub = Null /\ UNCHANGED jar
    BY <1>5 DEF Authorise
  <2>3. /\ flow' \in [Flows -> FlowState] /\ flow'[f].pc = "open"
        /\ flow'[f].browser = flow[f].browser /\ flow'[f].spent_by = flow[f].spent_by
        /\ \A g \in Flows \ {f} : flow'[g] = flow[g]
    BY <1>1, <2>1, <2>2 DEF FlowState
  <2>4. FlowsKept /\ \A g \in Flows : AgreedOK(g)'
    BY <2>2, <2>3 DEF FlowsKept, AgreedOK
  <2>5. \A g \in Flows : flow'[g].spent_by = flow[g].spent_by
    BY <2>3
  <2> QED BY <1>2, <2>2, <2>3, <2>4, <2>5, OutsideStep DEF TypeOK
<1> QED BY <1>3, <1>4, <1>5

LEMMA ExpireIInv ==
  ASSUME IInv, NEW b \in Browsers, Expire(b)  PROVE IInv'
<1>1. /\ UNCHANGED <<users, flow, req, audit, building, tasks>>
      /\ jar' \in [Browsers -> {Null} \cup Flows]
      /\ \A c \in Browsers : jar'[c] \in {Null, jar[c]}
  BY DEF Expire, IInv, TypeOK
<1>2. UsersKept /\ FlowsKept /\ \A f \in Flows : AgreedOK(f)'
  BY <1>1 DEF UsersKept, FlowsKept, AgreedOK, IInv
<1> QED BY <1>1, <1>2, OutsideStep DEF IInv, TypeOK

LEMMA DeactivateIInv ==
  ASSUME IInv, NEW s \in Subjects, Deactivate(s)  PROVE IInv'
<1>1. users \in [Subjects -> {Null} \cup UserRow] /\ users[s] \in UserRow
  BY DEF IInv, TypeOK, Deactivate
<1>2. [users[s] EXCEPT !.active = FALSE] \in UserRow
  BY <1>1 DEF UserRow
<1>3. /\ UNCHANGED <<jar, flow, req, audit, building, tasks>>
      /\ users' \in [Subjects -> {Null} \cup UserRow]
      /\ users'[s] = [users[s] EXCEPT !.active = FALSE]
      /\ \A t \in Subjects \ {s} : users'[t] = users[t]
  BY <1>1, <1>2 DEF Deactivate
<1>4. users[s] # Null /\ users'[s] # Null
  BY <1>1, <1>2, <1>3, NullIsNoRow
<1>5. UsersKept /\ FlowsKept
  BY <1>1, <1>3, <1>4 DEF UsersKept, FlowsKept, UserRow
<1>6. \A f \in Flows : AgreedOK(f)'
  BY <1>3 DEF AgreedOK, IInv
<1>7. \A t \in Subjects : users[t] = Null => users'[t] = Null
  BY <1>3, <1>4
<1> QED BY <1>3, <1>5, <1>6, <1>7, OutsideStep DEF IInv, TypeOK

\* A request that arrives: nothing is known of it yet.
LEMMA ArrivesIInv ==
  ASSUME IInv, NEW q \in Requests, Callback(q) \/ Bearer(q)  PROVE IInv'
<1> USE DEF IInv
<1>1. /\ req \in [Requests -> RequestState] /\ req[q] \in RequestState
      /\ req[q].pc = "idle" /\ req[q].sub = Null /\ req[q].outcome = "none"
      /\ req[q].barred = {} /\ Inactive \subseteq Subjects
      /\ UNCHANGED <<users, jar, flow, audit, building, tasks>>
  BY DEF TypeOK, Callback, Bearer, ReqOK, Settled, Inactive
<1>2. PICK i \in RequestState :
        /\ req' = [req EXCEPT ![q] = i]
        /\ \/ /\ i.pc = "exchange" /\ i.outcome = "none" /\ i.kind = "callback"
              /\ i.sub = Null /\ i.code \in Flows /\ i.barred = Inactive
              /\ i.browser \in Browsers /\ jar[i.browser] = i.code
              /\ flow[i.code].sub # Null
           \/ /\ i.pc = "respond" /\ i.outcome = "bad_request" /\ i.barred = Inactive
           \/ /\ i.pc = "authority" /\ i.outcome = "none" /\ i.kind = "bearer"
              /\ i.sub \in Subjects /\ i.barred = Inactive
           \/ i.pc = "done" /\ i.outcome = "missing_token" /\ i.barred = {}
  <2>1. CASE Callback(q)
    <3>1. PICK b \in Browsers, f \in {Null} \cup {g \in Flows : flow[g].sub # Null} :
            \/ f # Null /\ jar[b] = f /\ Opens(q, b, f, f, "exchange", "none")
            \/ Opens(q, b, f, jar[b], "respond", "bad_request")
      BY <2>1 DEF Callback
    <3>2. CASE f # Null /\ jar[b] = f /\ Opens(q, b, f, f, "exchange", "none")
      <4> DEFINE i == [req[q] EXCEPT !.kind = "callback", !.browser = b, !.code = f,
                          !.cookie = f, !.barred = Inactive, !.pc = "exchange",
                          !.outcome = "none"]
      <4>1. req' = [req EXCEPT ![q] = i]
        BY <3>2 DEF Opens
      <4>2. /\ i \in RequestState /\ i.pc = "exchange" /\ i.outcome = "none"
            /\ i.kind = "callback" /\ i.sub = Null /\ i.code = f /\ i.barred = Inactive
            /\ i.browser = b
        BY <1>1, <3>2 DEF RequestState
      <4> HIDE DEF i
      <4> QED BY <3>2, <4>1, <4>2
    <3>3. CASE Opens(q, b, f, jar[b], "respond", "bad_request")
      <4> DEFINE i == [req[q] EXCEPT !.kind = "callback", !.browser = b, !.code = f,
                          !.cookie = jar[b], !.barred = Inactive, !.pc = "respond",
                          !.outcome = "bad_request"]
      <4>1. req' = [req EXCEPT ![q] = i]
        BY <3>3 DEF Opens
      <4>2. jar[b] \in {Null} \cup Flows
        BY DEF TypeOK
      <4>3. /\ i \in RequestState /\ i.pc = "respond" /\ i.outcome = "bad_request"
            /\ i.barred = Inactive
        BY <1>1, <4>2 DEF RequestState, Outcomes
      <4> HIDE DEF i
      <4> QED BY <4>1, <4>3
    <3> QED BY <3>1, <3>2, <3>3
  <2>2. CASE Bearer(q)
    <3>1. CASE \E s \in Subjects :
            req' = [req EXCEPT ![q] = [@ EXCEPT !.kind = "bearer", !.sub = s,
                                                !.barred = Inactive, !.pc = "authority"]]
      <4>1. PICK s \in Subjects :
            req' = [req EXCEPT ![q] = [@ EXCEPT !.kind = "bearer", !.sub = s,
                                                !.barred = Inactive, !.pc = "authority"]]
        BY <3>1
      <4> DEFINE i == [req[q] EXCEPT !.kind = "bearer", !.sub = s,
                                     !.barred = Inactive, !.pc = "authority"]
      <4>2. /\ i \in RequestState /\ i.pc = "authority" /\ i.outcome = "none"
            /\ i.kind = "bearer" /\ i.sub = s /\ i.barred = Inactive
        BY <1>1 DEF RequestState
      <4>3. req' = [req EXCEPT ![q] = i]
        BY <4>1
      <4> HIDE DEF i
      <4> QED BY <4>2, <4>3
    <3>2. CASE req' = [req EXCEPT ![q] = [@ EXCEPT !.kind = "bearer", !.pc = "done",
                                                   !.outcome = "missing_token"]]
      <4> DEFINE i == [req[q] EXCEPT !.kind = "bearer", !.pc = "done",
                                     !.outcome = "missing_token"]
      <4>1. /\ i \in RequestState /\ i.pc = "done" /\ i.outcome = "missing_token"
            /\ i.barred = {}
        BY <1>1 DEF RequestState, Outcomes
      <4>2. req' = [req EXCEPT ![q] = i]
        BY <3>2
      <4> HIDE DEF i
      <4> QED BY <4>1, <4>2
    <3> QED BY <2>2, <3>1, <3>2 DEF Bearer
  <2> QED BY <2>1, <2>2
<1>3. /\ req' \in [Requests -> RequestState] /\ req'[q] = i
      /\ \A p \in Requests \ {q} : req'[p] = req[p]
  BY <1>1, <1>2
<1>4. TypeOK' /\ UsersKept /\ FlowsKept /\ Inactive' = Inactive
  BY <1>1, <1>3 DEF TypeOK, UsersKept, FlowsKept, Inactive
<1>5. ReqOK(q)'
  <2>1. i.pc = "exchange" => flow[i.code].pc = "open" /\ flow[i.code].browser = i.browser
    BY <1>2, IdentityAssumption DEF JarOK
  <2> QED BY <1>1, <1>2, <1>3, <1>4, <2>1 DEF ReqOK, Settled, Bearing
<1>6. \A s \in Subjects : users[s] = Null => RowOK(s)'
  BY <1>1 DEF RowOK
<1>7. \A f \in Flows : flow'[f].spent_by = flow[f].spent_by /\ flow'[f].sub = flow[f].sub
  BY <1>1
<1>8. req[q].pc \notin Settled /\ audit' = audit /\ jar' = jar
  BY <1>1 DEF Settled
<1> HIDE DEF IInv
<1> QED
  BY <1>1, <1>3, <1>4, <1>5, <1>6, <1>7, <1>8, RequestStep DEF Settled

\* A code is redeemed for the flow in the cookies, which is the browser's own.
LEMMA ExchangeIInv ==
  ASSUME IInv, NEW q \in Requests, Exchange(q) \/ ExchangeFails(q)  PROVE IInv'
<1> USE DEF IInv
<1> DEFINE f == req[q].code
<1>1. /\ req \in [Requests -> RequestState] /\ req[q] \in RequestState
      /\ flow \in [Flows -> FlowState]
      /\ req[q].pc = "exchange" /\ req[q].kind = "callback" /\ req[q].sub = Null
      /\ f \in Flows /\ flow[f].pc = "open" /\ flow[f].browser = req[q].browser
      /\ flow[f].sub # Null /\ req[q].outcome = "none" /\ req[q].barred \subseteq Inactive
      /\ UNCHANGED <<users, jar, audit, building, tasks>>
  BY DEF TypeOK, Exchange, ExchangeFails, ReqOK, Settled
<1>2. PICK i \in RequestState :
        /\ req' = [req EXCEPT ![q] = i] /\ i.kind = "callback" /\ i.browser = req[q].browser
        /\ i.barred = req[q].barred
        /\ \/ i.pc = "find" /\ i.sub = flow[f].sub /\ i.outcome = "none"
           \/ i.pc = "respond" /\ i.sub = Null /\ i.outcome = "exchange_failed"
  <2>1. CASE Exchange(q)
    <3>1. PICK email \in {Null} \cup Emails :
             req' = [req EXCEPT ![q].pc = "find", ![q].sub = flow[f].sub, ![q].email = email]
      BY <2>1 DEF Exchange
    <3> DEFINE i == [req[q] EXCEPT !.pc = "find", !.sub = flow[f].sub, !.email = email]
    <3>2. flow[f].sub \in {Null} \cup Subjects
      BY <1>1 DEF FlowState
    <3>3. /\ i \in RequestState /\ i.pc = "find" /\ i.sub = flow[f].sub /\ i.outcome = "none"
          /\ i.kind = "callback" /\ i.browser = req[q].browser /\ i.barred = req[q].barred
      BY <1>1, <3>2 DEF RequestState
    <3>4. req' = [req EXCEPT ![q] = i]
      BY <1>1, <3>1
    <3> HIDE DEF i
    <3> QED BY <3>3, <3>4
  <2>2. CASE ExchangeFails(q)
    <3> DEFINE i == [req[q] EXCEPT !.pc = "respond", !.outcome = "exchange_failed"]
    <3>1. /\ i \in RequestState /\ i.pc = "respond" /\ i.sub = Null
          /\ i.outcome = "exchange_failed" /\ i.kind = "callback"
          /\ i.browser = req[q].browser /\ i.barred = req[q].barred
      BY <1>1 DEF RequestState, Outcomes
    <3>2. req' = [req EXCEPT ![q] = i]
      BY <1>1, <2>2 DEF ExchangeFails, Conclude
    <3> HIDE DEF i
    <3> QED BY <3>1, <3>2
  <2> QED BY <2>1, <2>2
<1>3. \/ flow' = flow
      \/ flow[f].spent_by = Null /\ flow' = [flow EXCEPT ![f].spent_by = q]
  BY DEF Exchange, ExchangeFails
<1>4. PICK g \in Flows : g = f
  BY <1>1
<1>5. /\ flow' \in [Flows -> FlowState]
      /\ \A h \in Flows : /\ flow'[h].pc = flow[h].pc /\ flow'[h].browser = flow[h].browser
                          /\ flow'[h].sub = flow[h].sub
                          /\ \/ flow'[h].spent_by = flow[h].spent_by
                             \/ h = g /\ flow'[h].spent_by = q /\ flow[h].spent_by = Null
  <2>1. CASE flow' = flow
    BY <1>1, <2>1
  <2>2. CASE flow[f].spent_by = Null /\ flow' = [flow EXCEPT ![f].spent_by = q]
    BY <1>1, <1>4, <2>2 DEF FlowState
  <2> QED BY <1>3, <2>1, <2>2
<1>6. /\ req' \in [Requests -> RequestState] /\ req'[q] = i
      /\ \A p \in Requests \ {q} : req'[p] = req[p]
  BY <1>1, <1>2
<1>7. TypeOK' /\ UsersKept /\ FlowsKept /\ Inactive' = Inactive
  BY <1>1, <1>5, <1>6 DEF TypeOK, UsersKept, FlowsKept, Inactive
<1>8. ReqOK(q)'
  <2>1. flow[f].sub \in Subjects
    BY <1>1 DEF FlowState
  <2> QED BY <1>1, <1>2, <1>6, <1>7, <2>1 DEF ReqOK, Settled, Bearing
<1>9. \A h \in Flows : flow'[h].spent_by # flow[h].spent_by => FlowOK(h)'
  BY <1>1, <1>2, <1>4, <1>5, <1>6 DEF FlowOK
<1>10. \A s \in Subjects : users[s] = Null => RowOK(s)'
  BY <1>1 DEF RowOK
<1>11. req[q].pc = "exchange" /\ req[q].pc \notin Settled /\ audit' = audit /\ jar' = jar
  BY <1>1 DEF Settled
<1> HIDE DEF IInv
<1> QED
  BY <1>5, <1>6, <1>7, <1>8, <1>9, <1>10, <1>11, RequestStep DEF Settled

\* What an INSERT ... ON CONFLICT does to the table: one row more, of an
\* account that was let in, or none.
LEMMA Upserting ==
  ASSUME IInv, NEW q \in Requests, req[q].pc = "upsert",
         users' = [users EXCEPT ![req[q].sub] = Upserted(q)]
  PROVE  /\ users' \in [Subjects -> {Null} \cup UserRow] /\ UsersKept
         /\ req[q].sub \in Subjects /\ users'[req[q].sub] = Upserted(q)
         /\ Upserted(q) \in UserRow
         /\ users[req[q].sub] = Null => Upserted(q).active
         /\ \A s \in Subjects : (users[s] = Null /\ users'[s] # Null) =>
              /\ s = req[q].sub /\ users'[s].by = q /\ users'[s].email \in Allowed
         /\ \A s \in Subjects \ {req[q].sub} : users'[s] = users[s]
<1> DEFINE s == req[q].sub
<1>1. /\ s \in Subjects
      /\ users[s] # Null \/ req[q].email \in Allowed
      /\ users \in [Subjects -> {Null} \cup UserRow] /\ req[q] \in RequestState
  BY DEF IInv, ReqOK, TypeOK
<1>2. CASE users[s] = Null
  <2>1. Upserted(q) = [email |-> req[q].email, active |-> TRUE, by |-> q]
    BY <1>2 DEF Upserted
  <2>2. PICK email \in Allowed : email = req[q].email /\ email \in Emails
    BY <1>1, <1>2, IdentityAssumption
  <2>3. PICK row \in UserRow : /\ row = [email |-> email, active |-> TRUE, by |-> q]
                              /\ row.by = q /\ row.active /\ row.email = email
    <3> DEFINE row == [email |-> email, active |-> TRUE, by |-> q]
    <3>1. row \in UserRow /\ row.by = q /\ row.active = TRUE /\ row.email = email
      BY <2>2 DEF UserRow
    <3>2. row = [email |-> email, active |-> TRUE, by |-> q]
      OBVIOUS
    <3> HIDE DEF row
    <3> QED BY <3>1, <3>2
  <2>4. /\ Upserted(q) \in UserRow /\ Upserted(q).by = q /\ Upserted(q).active
        /\ Upserted(q).email \in Allowed
    BY <2>1, <2>2, <2>3
  <2>5. users' \in [Subjects -> {Null} \cup UserRow] /\ users'[s] = Upserted(q)
        /\ \A t \in Subjects \ {s} : users'[t] = users[t]
    BY <1>1, <2>4
  <2>6. UsersKept
    BY <1>2, <2>5 DEF UsersKept
  <2> QED BY <1>1, <1>2, <2>4, <2>5, <2>6
<1>3. CASE users[s] # Null
  <2>1. Upserted(q) = users[s] /\ users' = users
    BY <1>1, <1>3 DEF Upserted
  <2>2. users[s] \in UserRow
    BY <1>1, <1>3
  <2>3. UsersKept
    BY <2>1 DEF UsersKept
  <2> QED BY <1>1, <1>3, <2>1, <2>2, <2>3
<1> QED BY <1>2, <1>3

LEMMA FindIInv ==
  ASSUME IInv, NEW q \in Requests, Find(q)  PROVE IInv'
<1>1. /\ req[q].pc = "find" /\ req[q].kind = "callback" /\ req[q].sub \in Subjects
      /\ req[q].outcome = "none" /\ req[q].barred \subseteq Inactive
      /\ UNCHANGED <<users, jar, flow, audit, building, tasks>>
  BY DEF IInv, ReqOK, Find, Settled
<1>2. Inactive' = Inactive
  BY <1>1 DEF Inactive
<1>3. CASE /\ users[req[q].sub] # Null \/ Allows(req[q].email)
           /\ GoTo(q, "upsert")
  <2>1. /\ req' \in [Requests -> RequestState] /\ Others(q) /\ Kept(q)
        /\ req'[q].pc = "upsert" /\ req'[q].outcome = "none"
    BY <1>1, <1>3, GoToMoves DEF PCs
  <2>2. ReqOK(q)'
    BY <1>1, <1>2, <1>3, <2>1 DEF ReqOK, Kept, Settled, Bearing, Allows
  <2> QED BY <1>1, <2>1, <2>2, PlainStep DEF IInv, TypeOK, Settled
<1>4. CASE Conclude(q, "record", "signup_not_allowed")
  <2>2. /\ req' \in [Requests -> RequestState] /\ Others(q) /\ Kept(q)
        /\ req'[q].pc = "record" /\ req'[q].outcome = "signup_not_allowed"
    BY <1>4, ConcludeKeeps DEF PCs, Outcomes
  <2>3. ReqOK(q)'
    BY <1>1, <1>2, <2>2 DEF ReqOK, Kept, Settled, Bearing
  <2> QED BY <1>1, <2>2, <2>3, PlainStep DEF IInv, TypeOK, Settled
<1> QED BY <1>3, <1>4 DEF Find

\* A step of a callback that upserts and is settled by it: the row is the
\* account's, and tells how the callback ends.
LEMMA UpsertStep ==
  ASSUME IInv, NEW q \in Requests, req[q].pc = "upsert",
         users' = [users EXCEPT ![req[q].sub] = Upserted(q)],
         UNCHANGED <<jar, flow, audit, tasks>>, building' \in {Null} \cup Requests,
         req' \in [Requests -> RequestState], Others(q), Kept(q),
         req'[q].pc \in {"record", "respond", "dropped"},
         req'[q].outcome # "signup_not_allowed",
         req'[q].pc = "record" => req'[q].outcome # "none",
         req'[q].outcome = "ok" => Upserted(q).active,
         (req'[q].pc = "respond" /\ users' # users) => req'[q].lost
  PROVE  IInv'
<1> USE DEF IInv
<1>1. /\ users' \in [Subjects -> {Null} \cup UserRow] /\ UsersKept
      /\ req[q].sub \in Subjects /\ users'[req[q].sub] = Upserted(q)
      /\ Upserted(q) \in UserRow
      /\ \A s \in Subjects : (users[s] = Null /\ users'[s] # Null) =>
           /\ s = req[q].sub /\ users'[s].by = q /\ users'[s].email \in Allowed
  BY Upserting
<1>2. req[q].kind = "callback" /\ req[q].outcome = "none" /\ req[q].barred \subseteq Inactive
  BY DEF ReqOK, Settled
<1>3. TypeOK'
  BY <1>1 DEF TypeOK
<1>4. FlowsKept /\ \A f \in Flows : flow'[f] = flow[f]
  BY DEF FlowsKept
<1>5. users'[req[q].sub] # Null
  BY <1>1, NullIsNoRow
<1>6. req'[q].outcome = "ok" => req[q].sub \notin req[q].barred
  <2> SUFFICES ASSUME Upserted(q).active PROVE req[q].sub \notin Inactive
    BY <1>2
  <2>1. CASE users[req[q].sub] = Null
    BY <2>1 DEF Inactive
  <2>2. CASE users[req[q].sub] # Null
    BY <2>2 DEF Inactive, Upserted
  <2> QED BY <2>1, <2>2
<1>7. ReqOK(q)'
  <2>1. req[q].barred \subseteq Inactive'
    BY <1>1, <1>2, InactiveGrows
  <2>2. req'[q].barred = req[q].barred /\ req'[q].sub = req[q].sub /\ req'[q].kind = "callback"
    BY <1>2 DEF Kept
  <2> QED BY <1>1, <1>5, <1>6, <2>1, <2>2 DEF ReqOK, Settled, Bearing
<1>8. ASSUME NEW s \in Subjects, users[s] = Null PROVE RowOK(s)'
  <2> SUFFICES ASSUME users'[s] # Null PROVE RowOK(s)'
    BY DEF RowOK
  <2>1. s = req[q].sub /\ users'[s].by = q /\ users'[s].email \in Allowed /\ users' # users
    BY <1>1, <1>8
  <2> QED BY <2>1 DEF RowOK, Settled, Kept
<1>9. req[q].pc \notin Settled /\ req[q].pc \notin {"respond", "done", "dropped", "record"}
  BY DEF Settled
<1>10. /\ \A p \in Requests \ {q} : req'[p] = req[p]
       /\ req'[q].kind = req[q].kind /\ req'[q].sub = req[q].sub
       /\ req'[q].browser = req[q].browser
  BY DEF Others, Kept
<1> HIDE DEF IInv
<1> QED
  BY <1>1, <1>3, <1>4, <1>7, <1>8, <1>9, <1>10, RequestStep

LEMMA UpsertIInv ==
  ASSUME IInv, NEW q \in Requests, Upsert(q)  PROVE IInv'
<1>1. /\ req[q].pc = "upsert" /\ UNCHANGED <<jar, flow, audit, building, tasks>>
      /\ users' = [users EXCEPT ![req[q].sub] = Upserted(q)]
      /\ Conclude(q, "record", CallerForUser(Upserted(q)))
  BY DEF Upsert
<1>2. PICK outcome \in {"ok", "inactive_user"} :
        outcome = CallerForUser(Upserted(q)) /\ (outcome = "ok" => Upserted(q).active)
  BY DEF CallerForUser
<1>3. outcome \in Outcomes /\ Conclude(q, "record", outcome)
  BY <1>1, <1>2 DEF Outcomes
<1>4. /\ req' \in [Requests -> RequestState] /\ Others(q) /\ Kept(q)
      /\ req'[q].pc = "record" /\ req'[q].outcome = outcome
  BY <1>3, ConcludeKeeps DEF PCs
<1> QED BY <1>1, <1>2, <1>4, UpsertStep DEF IInv, TypeOK

LEMMA StoreFailsIInv ==
  ASSUME IInv, NEW q \in Requests, StoreFails(q)  PROVE IInv'
<1>1. /\ req[q].pc \in {"find", "upsert"} /\ UNCHANGED <<jar, flow, audit, building, tasks>>
      /\ \/ users' = users
         \/ req[q].pc = "upsert" /\ users' = [users EXCEPT ![req[q].sub] = Upserted(q)]
      /\ req' = [req EXCEPT ![q].pc = "respond", ![q].outcome = "internal_error",
                            ![q].lost = users' # users]
  BY DEF StoreFails
<1>2. PICK lost \in BOOLEAN : lost = (users' # users)
  OBVIOUS
<1>3. /\ req' \in [Requests -> RequestState] /\ Others(q) /\ Kept(q)
      /\ req'[q].pc = "respond" /\ req'[q].outcome = "internal_error" /\ req'[q].lost = lost
  <2>1. req' = [req EXCEPT ![q].pc = "respond", ![q].outcome = "internal_error", ![q].lost = lost]
    BY <1>1, <1>2
  <2> QED BY <2>1, ConcludeMoves DEF PCs, Outcomes
<1>4. CASE users' = users
  <2>1. ReqOK(q) /\ Inactive' = Inactive
    BY <1>4 DEF IInv, Inactive
  <2>2. ReqOK(q)'
    BY <1>1, <1>3, <1>4, <2>1 DEF ReqOK, Kept, Settled, Bearing
  <2> QED BY <1>1, <1>3, <1>4, <2>2, PlainStep DEF IInv, TypeOK, Settled
<1>5. CASE req[q].pc = "upsert" /\ users' = [users EXCEPT ![req[q].sub] = Upserted(q)]
  BY <1>1, <1>2, <1>3, <1>5, UpsertStep DEF IInv, TypeOK
<1> QED BY <1>1, <1>4, <1>5

\* The page clears the cookies, whoever's they are by now.
LEMMA RespondIInv ==
  ASSUME IInv, NEW q \in Requests, Respond(q)  PROVE IInv'
<1>1. /\ req[q].pc = "respond" /\ GoTo(q, "done")
      /\ UNCHANGED <<users, flow, audit, building, tasks>>
      /\ jar' = [jar EXCEPT ![req[q].browser] = Null]
      /\ ReqOK(q) /\ jar \in [Browsers -> {Null} \cup Flows]
  BY DEF Respond, IInv, TypeOK
<1>2. /\ req' \in [Requests -> RequestState] /\ Others(q) /\ Kept(q) /\ req'[q].pc = "done"
      /\ req'[q].outcome = req[q].outcome /\ req'[q].lost = req[q].lost
  BY <1>1, GoToMoves DEF PCs
<1>3. /\ jar' \in [Browsers -> {Null} \cup Flows]
      /\ \A b \in Browsers : jar'[b] \in {Null, jar[b]}
  BY <1>1
<1>4. ReqOK(q)'
  <2>1. Inactive' = Inactive
    BY <1>1 DEF Inactive
  <2> QED BY <1>1, <1>2, <2>1 DEF ReqOK, Kept, Settled, Bearing
<1>5. building' \in {Null} \cup Requests /\ tasks' \in Nat
  BY <1>1 DEF IInv, TypeOK
<1> QED BY <1>1, <1>2, <1>3, <1>4, <1>5, PlainStep DEF Settled

-----------------------------------------------------------------------------
(* Bearer requests *)

LEMMA BearingIInv ==
  ASSUME IInv, NEW q \in Requests,
         \/ GetAuthority(q) \/ BuildAuthority(q) \/ VerifyToken(q) \/ Refresh(q)
         \/ Resolve(q)
  PROVE  IInv'
<1>1. /\ req[q].pc \in Bearing /\ ReqOK(q) /\ req[q] \in RequestState
      /\ UNCHANGED <<users, jar, flow, audit>> /\ Inactive' = Inactive
      /\ building' \in {Null} \cup Requests /\ tasks' \in Nat
      /\ jar \in [Browsers -> {Null} \cup Flows]
  BY DEF IInv, TypeOK, GetAuthority, BuildAuthority, VerifyToken, Refresh, Resolve,
         Bearing, Inactive
<1>2. \/ \E pc \in {"building", "verify", "resolve", "refresh"} : GoTo(q, pc)
      \/ \E outcome \in {"internal_error", "invalid_token", "inactive_user",
                         "not_registered"} : Conclude(q, "record", outcome)
      \/ /\ Conclude(q, "done", "ok") /\ users[req[q].sub] # Null
         /\ users[req[q].sub].active
  BY DEF GetAuthority, BuildAuthority, VerifyToken, Refresh, Resolve
<1>3. CASE \E pc \in {"building", "verify", "resolve", "refresh"} : GoTo(q, pc)
  <2>1. PICK pc \in {"building", "verify", "resolve", "refresh"} : GoTo(q, pc)
    BY <1>3
  <2>2. /\ req' \in [Requests -> RequestState] /\ Others(q) /\ Kept(q)
        /\ req'[q].pc = pc /\ req'[q].outcome = req[q].outcome
    BY <2>1, GoToMoves DEF PCs
  <2>3. ReqOK(q)'
    BY <1>1, <2>2 DEF ReqOK, Kept, Settled, Bearing
  <2> QED BY <1>1, <2>2, <2>3, PlainStep DEF Settled, Bearing
<1>4. CASE \E outcome \in {"internal_error", "invalid_token", "inactive_user",
                           "not_registered"} : Conclude(q, "record", outcome)
  <2>1. PICK outcome \in {"internal_error", "invalid_token", "inactive_user",
                          "not_registered"} : Conclude(q, "record", outcome)
    BY <1>4
  <2>2. /\ req' \in [Requests -> RequestState] /\ Others(q) /\ Kept(q)
        /\ req'[q].pc = "record" /\ req'[q].outcome = outcome
    BY <2>1, ConcludeKeeps DEF PCs, Outcomes
  <2>3. ReqOK(q)'
    BY <1>1, <2>2 DEF ReqOK, Kept, Settled, Bearing
  <2> QED BY <1>1, <2>2, <2>3, PlainStep DEF Settled, Bearing
<1>5. CASE /\ Conclude(q, "done", "ok") /\ users[req[q].sub] # Null
           /\ users[req[q].sub].active
  <2>1. /\ req' \in [Requests -> RequestState] /\ Others(q) /\ Kept(q)
        /\ req'[q].pc = "done" /\ req'[q].outcome = "ok"
    BY <1>5, ConcludeKeeps DEF PCs, Outcomes
  <2>2. req[q].sub \notin req[q].barred
    BY <1>1, <1>5 DEF ReqOK, Inactive
  <2>3. ReqOK(q)'
    BY <1>1, <2>1, <2>2 DEF ReqOK, Kept, Settled, Bearing
  <2> QED BY <1>1, <2>1, <2>3, PlainStep DEF Settled, Bearing
<1> QED BY <1>2, <1>3, <1>4, <1>5

-----------------------------------------------------------------------------
(* Records, dropped requests and the operator *)

LEMMA StoreRecordIInv ==
  ASSUME IInv, NEW q \in Requests, StoreRecord(q)  PROVE IInv'
<1>1. /\ req[q].pc = "record" /\ ReqOK(q) /\ req[q] \in RequestState
      /\ req[q].outcome \in Outcomes
      /\ UNCHANGED <<users, jar, flow, building, tasks>> /\ Inactive' = Inactive
      /\ building' \in {Null} \cup Requests /\ tasks' \in Nat
      /\ jar \in [Browsers -> {Null} \cup Flows]
  BY DEF IInv, TypeOK, StoreRecord, Inactive, ReqOK, RequestState
<1>2. PICK next \in {"respond", "done"} :
        \/ audit' = audit \cup {RecordOf(q)} /\ GoTo(q, next)
        \/ audit' = audit /\ req' = [req EXCEPT ![q].pc = next, ![q].lost = TRUE]
  BY DEF StoreRecord
<1>3. /\ req' \in [Requests -> RequestState] /\ Others(q) /\ Kept(q)
      /\ req'[q].pc = next /\ req'[q].outcome = req[q].outcome
      /\ req[q].lost => req'[q].lost
      /\ req'[q].lost \/ audit' = audit \cup {RecordOf(q)}
      /\ audit' = audit \/ audit' = audit \cup {RecordOf(q)}
  <2>1. CASE audit' = audit \cup {RecordOf(q)} /\ GoTo(q, next)
    BY <2>1, GoToMoves DEF PCs
  <2>2. CASE audit' = audit /\ req' = [req EXCEPT ![q].pc = next, ![q].lost = TRUE]
    <3>1. PICK outcome \in Outcomes : outcome = req[q].outcome
      BY <1>1
    <3>2. PICK lost \in BOOLEAN : lost = TRUE
      OBVIOUS
    <3>3. /\ req' = [req EXCEPT ![q].pc = next, ![q].lost = lost]
          /\ outcome = req[q].outcome /\ next \in PCs
      BY <2>2, <3>1, <3>2 DEF PCs
    <3>4. /\ req' \in [Requests -> RequestState] /\ Others(q) /\ Kept(q)
          /\ req'[q].pc = next /\ req'[q].outcome = outcome /\ req'[q].lost = lost
      BY <3>3, ConcludeMoves
    <3> QED BY <2>2, <3>1, <3>4, <3>2
  <2> QED BY <1>2, <2>1, <2>2
<1>4. ReqOK(q)'
  BY <1>1, <1>3 DEF ReqOK, Kept, Settled, Bearing
<1> QED BY <1>1, <1>3, <1>4, PlainStep DEF Settled

LEMMA DropIInv ==
  ASSUME IInv, NEW q \in Requests, Drop(q)  PROVE IInv'
<1>1. /\ req[q].pc \notin {"idle", "done", "dropped"} /\ GoTo(q, "dropped")
      /\ UNCHANGED <<jar, flow, audit, tasks>>
      /\ ReqOK(q) /\ req[q] \in RequestState
      /\ building' \in {Null} \cup Requests /\ tasks' \in Nat
      /\ jar \in [Browsers -> {Null} \cup Flows]
      /\ \/ users' = users
         \/ req[q].pc = "upsert" /\ users' = [users EXCEPT ![req[q].sub] = Upserted(q)]
  BY DEF IInv, TypeOK, Drop
<1>2. /\ req' \in [Requests -> RequestState] /\ Others(q) /\ Kept(q)
      /\ req'[q].pc = "dropped" /\ req'[q].outcome = req[q].outcome
      /\ req'[q].lost = req[q].lost
  BY <1>1, GoToMoves DEF PCs
<1>3. CASE users' = users
  <2>1. Inactive' = Inactive
    BY <1>3 DEF Inactive
  <2>2. ReqOK(q)'
    BY <1>1, <1>2, <1>3, <2>1 DEF ReqOK, Kept, Settled, Bearing
  <2> QED BY <1>1, <1>2, <1>3, <2>2, PlainStep DEF Settled
<1>4. CASE req[q].pc = "upsert" /\ users' = [users EXCEPT ![req[q].sub] = Upserted(q)]
  <2>1. req[q].outcome = "none"
    BY <1>1, <1>4 DEF ReqOK, Settled
  <2> QED BY <1>1, <1>2, <1>4, <2>1, UpsertStep
<1> QED BY <1>1, <1>3, <1>4

LEMMA NextIInv == ASSUME IInv, [Next]_vars PROVE IInv'
<1>1. CASE UNCHANGED vars
  <2>1. UsersKept /\ FlowsKept
    BY <1>1 DEF vars, UsersKept, FlowsKept
  <2>2. users' \in [Subjects -> {Null} \cup UserRow] /\ flow' \in [Flows -> FlowState]
        /\ jar' \in [Browsers -> {Null} \cup Flows]
    BY <1>1 DEF vars, IInv, TypeOK
  <2>3. \A f \in Flows : AgreedOK(f)'
    BY <1>1 DEF vars, IInv, AgreedOK
  <2> QED BY <1>1, <2>1, <2>2, <2>3, OutsideStep DEF vars
<1>2. ASSUME NEW f \in Flows, Login(f) \/ Redirected(f) \/ Authorise(f) PROVE IInv'
  BY <1>2, LoginIInv
<1>3. ASSUME NEW b \in Browsers, Expire(b) PROVE IInv'
  BY <1>3, ExpireIInv
<1>4. ASSUME NEW q \in Requests, Callback(q) \/ Bearer(q) \/ Step(q) \/ Respond(q) \/ Drop(q)
      PROVE IInv'
  <2>1. CASE Callback(q) \/ Bearer(q)
    BY <2>1, ArrivesIInv
  <2>2. CASE Step(q)
    BY <2>2, ExchangeIInv, FindIInv, UpsertIInv, StoreFailsIInv, BearingIInv,
       StoreRecordIInv DEF Step
  <2>3. CASE Respond(q) \/ Drop(q)
    BY <2>3, RespondIInv, DropIInv
  <2> QED BY <1>4, <2>1, <2>2, <2>3
<1>5. ASSUME NEW s \in Subjects, Deactivate(s) PROVE IInv'
  BY <1>5, DeactivateIInv
<1> QED BY <1>1, <1>2, <1>3, <1>4, <1>5 DEF Next, Finished

-----------------------------------------------------------------------------

\* The users table, the cookies, the logins, the requests and the audit keep
\* to IInv, whatever the order of their steps.
THEOREM InductiveInvariant == Spec => []IInv
<1>1. Init => IInv
  BY InitIInv
<1>2. IInv /\ [Next]_vars => IInv'
  BY NextIInv
<1> QED BY <1>1, <1>2, PTL DEF Spec

\* The variables keep the types Identity declares.
THEOREM TypeCorrect == Spec => []TypeOK
<1>1. IInv => TypeOK
  BY DEF IInv
<1> QED BY <1>1, InductiveInvariant, PTL

\* A code is redeemed only for the browser whose login it answers, and for
\* the account that agreed to it (oauth.rs, callback).
THEOREM CodesStay == Spec => []CodeStaysWithBrowser
<1>1. IInv => CodeStaysWithBrowser
  <2> SUFFICES ASSUME IInv, NEW f \in Flows, NEW q \in Requests, flow[f].spent_by = q
               PROVE  /\ req[q].browser = flow[f].browser
                      /\ req[q].sub \in {Null, flow[f].sub}
    BY DEF CodeStaysWithBrowser
  <2>1. q # Null
    BY IdentityAssumption
  <2> QED BY <2>1 DEF IInv, FlowOK
<1> QED BY <1>1, InductiveInvariant, PTL

\* The signup policy has let every user in under the email of the row
\* (resolver.rs, resolve_browser; user_repo.rs, upsert).
THEOREM UsersAllowed == Spec => []UsersWereAllowed
<1>1. IInv => UsersWereAllowed
  BY DEF IInv, RowOK, UsersWereAllowed
<1> QED BY <1>1, InductiveInvariant, PTL

\* Who was inactive when a request came is not let in by it, and stays
\* inactive (resolver.rs, caller_for_user; user_repo.rs, upsert).
THEOREM InactiveRefused == Spec => []InactiveStayOut
<1>1. IInv => InactiveStayOut
  BY DEF IInv, ReqOK, InactiveStayOut
<1> QED BY <1>1, InductiveInvariant, PTL

\* The record of a login says what became of it, and who has a row has the
\* record of the callback that made it (oauth.rs, record_signup).
THEOREM SignupsRecorded == Spec => []SignupsAreRecorded
<1>1. ASSUME IInv, NEW r \in audit, r.event = "signup"
      PROVE  /\ r.outcome = "ok" => users[r.sub] # Null
             /\ r.outcome = "signup_not_allowed" =>
                  \A s \in Subjects : users[s] # Null => users[s].by # r.request
             /\ req[r.request].outcome = r.outcome
  <2> DEFINE q == r.request
  <2>1. q \in Requests /\ r = RecordOf(q) /\ ReqOK(q)
    BY <1>1 DEF IInv, TypeOK, Record, AuditOK
  <2>2. req[q].kind = "callback" /\ r.outcome = req[q].outcome /\ r.sub = req[q].sub
    BY <1>1, <2>1 DEF RecordOf
  <2>3. \A s \in Subjects : users[s] # Null /\ users[s].by = q =>
          req[q].outcome # "signup_not_allowed"
    BY <1>1 DEF IInv, RowOK
  <2> QED BY <2>1, <2>2, <2>3 DEF ReqOK
<1>2. ASSUME IInv, NEW s \in Subjects, users[s] # Null,
             req[users[s].by].pc \in {"respond", "done"}
      PROVE  req[users[s].by].lost \/ RecordOf(users[s].by) \in audit
  BY <1>2 DEF IInv, RowOK
<1>3. IInv => SignupsAreRecorded
  BY <1>1, <1>2 DEF SignupsAreRecorded
<1> QED BY <1>3, InductiveInvariant, PTL

=============================================================================
