--------------------------- MODULE ToolCallProofs ---------------------------
(***************************************************************************)
(* Proofs about tool calls.                                                *)
(*                                                                         *)
(* ToolCall, for any number of calls, users, aliases and credentials and   *)
(* however the credentials change meanwhile.  Three parts, for each call   *)
(* by itself.  Grant says what was checked before anything could leave for *)
(* a target, and that what left is what was checked.  Recording says how   *)
(* far the records have come and that they tell the outcome.  Owning ties  *)
(* the copy of the credential that a call works on to the row it was read  *)
(* from: rows change under it, but keep whose they are, and a deletion is  *)
(* final (RowsKept).                                                       *)
(*                                                                         *)
(* JsonOutput, for every document, projection and budget.  The dialog      *)
(* keeps next to nothing (DialogInv): the work is in what Answer does, and *)
(* that is induction over the depth of a path, over the entries of a       *)
(* preview by their rank and over the members of a sum.  Induction is the  *)
(* first lemma of that part; the others follow the operators bottom up.    *)
(*                                                                         *)
(* SqlTools, for every catalog, query and budget.  What was granted covers *)
(* every site that the policy is shown, however deep.  A list has one      *)
(* inductive invariant (ListInv): what is left of a list comes after the   *)
(* place its cursor is read as, which white space in names may move.  A    *)
(* detail has another (DetailInv): what was read and whether it is still   *)
(* so.  Both rest on what the loops of the budget leave, an induction over *)
(* their turns, and the detail on names that come back from a text with    *)
(* commas.                                                                 *)
(***************************************************************************)
EXTENDS ToolCall, JsonOutput, SqlTools, FiniteSetTheorems, SequenceTheorems, WellFoundedInduction,
        TLAPS

Typed ==
    /\ rows \in [Requests -> {Null} \cup Row]
    /\ call \in [Calls -> CallState]
    /\ sent \subseteq Sending
    /\ audit \subseteq Record
    /\ toolHistory \subseteq Record

\* The checks of Verdict have passed for the credential that was read.
Ready(c) ==
    /\ call[c].id \in Requests /\ call[c].row \in Row
    /\ call[c].row.category = CategoryOf(call[c].tool)
    /\ call[c].asks \subseteq call[c].row.policy
    /\ call[c].row.secret # Null
    /\ call[c].tool = "api_call" => call[c].asks \cap call[c].row.secret = {}

Grant(c) ==
    /\ call[c].pc \in {"prepare", "send", "answer"} \/ Reached(c) => Ready(c)
    /\ call[c].pc \in {"idle", "find", "prepare", "send"} => ~Reached(c)
    /\ call[c].pc = "answer" => Reached(c)
    /\ \A s \in sent : s.call = c => s = Sends(c)

Settled(c) ==
    /\ call[c].kind = "none" => Reached(c)
    /\ call[c].kind \in Denials \cup {"malformed", "store_failed"} => ~Reached(c)

Recording(c) ==
    /\ call[c].pc \in {"audit", "history", "request", "done"} => Settled(c)
    /\ call[c].pc \in {"audit", "history"} => call[c].kind \notin {"malformed", "store_failed"}
    /\ call[c].pc \in {"idle", "find", "prepare", "send", "answer", "audit"} =>
          RecordsOf(c, audit) = {}
    /\ call[c].pc \in {"idle", "find", "prepare", "send", "answer", "audit", "history"} =>
          RecordsOf(c, toolHistory) = {}
    /\ \A r \in RecordsOf(c, audit) \cup RecordsOf(c, toolHistory) :
          r = ToolRecord(c) /\ Settled(c)
    /\ (/\ call[c].pc \in {"history", "request", "done"}
        /\ call[c].kind \notin {"malformed", "store_failed"}
        /\ RecordsOf(c, audit) = {}) => "audit" \in call[c].lost
    /\ (/\ call[c].pc \in {"request", "done"}
        /\ call[c].kind \notin {"malformed", "store_failed"}
        /\ RecordsOf(c, toolHistory) = {}) =>
          "history" \in call[c].lost \/ call[c].tool = "sql_schema"

Owning(c) ==
    /\ call[c].pc \in {"idle", "find"} => call[c].id = Null
    /\ \A id \in call[c].gone : rows[id] # Null /\ rows[id].deleted
    /\ call[c].id # Null =>
         LET id == call[c].id
         IN  /\ rows[id] # Null /\ id \notin call[c].gone
             /\ rows[id].owner = call[c].user /\ rows[id].alias = call[c].alias
             /\ rows[id].category = call[c].row.category
             /\ rows[id].secret \in {call[c].row.secret, Null}

CallOK(c) == Grant(c) /\ Recording(c) /\ Owning(c)

IInv == Typed /\ \A c \in Calls : CallOK(c)

RowsKept ==
    \A id \in Requests : rows[id] # Null =>
        /\ rows'[id] # Null
        /\ rows'[id].owner = rows[id].owner /\ rows'[id].alias = rows[id].alias
        /\ rows'[id].category = rows[id].category
        /\ rows'[id].secret \in {rows[id].secret, Null}
        /\ rows[id].deleted => rows'[id].deleted

-----------------------------------------------------------------------------

LEMMA InitIInv == Init => IInv
<1> SUFFICES ASSUME Init PROVE IInv
  OBVIOUS
<1>1. rows = [id \in Requests |-> Null]
  BY DEF Init, Ledger!Init
<1>2. Typed
  BY <1>1 DEF Init, Typed, CallState
<1>3. ASSUME NEW c \in Calls PROVE CallOK(c)
  BY <1>1 DEF Init, CallOK, Grant, Recording, Owning, Reached, RecordsOf
<1> QED BY <1>2, <1>3 DEF IInv

\* A step of other calls and of the credentials leaves what holds of d.
LEMMA OthersKeep ==
  ASSUME IInv, NEW d \in Calls, call'[d] = call[d], RowsKept,
         \A s : s.call = d => (s \in sent' <=> s \in sent),
         \A r : r.call = d => ((r \in audit' <=> r \in audit)
                               /\ (r \in toolHistory' <=> r \in toolHistory))
  PROVE  CallOK(d)'
<1> USE DEF IInv, CallOK
<1>1. Reached(d)' <=> Reached(d)
  BY DEF Reached
<1>2. RecordsOf(d, audit)' = RecordsOf(d, audit) /\ RecordsOf(d, toolHistory)' = RecordsOf(d, toolHistory)
  BY DEF RecordsOf
<1>3. Ready(d)' <=> Ready(d)
  BY DEF Ready
<1>4. Sends(d)' = Sends(d) /\ ToolRecord(d)' = ToolRecord(d) /\ (Settled(d)' <=> Settled(d))
  BY <1>1 DEF Sends, ToolRecord, RecordedId, Settled
<1>5. Grant(d)'
  BY <1>1, <1>3, <1>4 DEF Grant
<1>6. Recording(d)'
  BY <1>2, <1>4 DEF Recording
<1>7. call[d] \in CallState /\ call[d].gone \subseteq Requests /\ call[d].id \in {Null} \cup Requests
  BY DEF Typed, CallState
<1>8. Owning(d)'
  BY <1>7 DEF Owning, RowsKept
<1> QED BY <1>5, <1>6, <1>8

-----------------------------------------------------------------------------
(* Steps of one call *)

\* What a call keeps from its arrival and its lookup on.
Keeps(c) ==
    /\ call'[c].tool = call[c].tool /\ call'[c].channel = call[c].channel
    /\ call'[c].user = call[c].user /\ call'[c].alias = call[c].alias
    /\ call'[c].asks = call[c].asks /\ call'[c].id = call[c].id
    /\ call'[c].row = call[c].row /\ call'[c].gone = call[c].gone

Others(c) == \A d \in Calls \ {c} : call'[d] = call[d]

LEMMA GoToMoves ==
  ASSUME IInv, NEW c \in Calls, NEW kind \in {"none"} \cup Denials \cup Errors,
         NEW pc \in {"idle", "find", "prepare", "send", "answer", "audit", "history",
                     "request", "done", "dropped", "stopped"},
         GoTo(c, pc, kind)
  PROVE  /\ call' \in [Calls -> CallState] /\ Others(c) /\ Keeps(c)
         /\ call'[c].pc = pc /\ call'[c].kind = kind /\ call'[c].lost = call[c].lost
<1> DEFINE i == [call[c] EXCEPT !.pc = pc, !.kind = kind]
<1>1. call \in [Calls -> CallState] /\ call[c] \in CallState
  BY DEF IInv, Typed
<1>2. call' = [call EXCEPT ![c] = i]
  BY <1>1 DEF GoTo
<1>3. i \in CallState
  BY <1>1 DEF CallState
<1>4. call' \in [Calls -> CallState] /\ call'[c] = i /\ Others(c)
  BY <1>1, <1>2, <1>3 DEF Others
<1> QED BY <1>1, <1>4 DEF CallState, Keeps

\* An INSERT that fails moves on as one that succeeds.
LEMMA LosesMoves ==
  ASSUME IInv, NEW c \in Calls, NEW record \in {"audit", "history", "request"},
         NEW pc \in {"history", "request", "done"}, Loses(c, record, pc)
  PROVE  /\ call' \in [Calls -> CallState] /\ Others(c) /\ Keeps(c)
         /\ call'[c].pc = pc /\ call'[c].kind = call[c].kind
         /\ call'[c].lost = call[c].lost \cup {record}
<1> DEFINE i == [call[c] EXCEPT !.pc = pc, !.lost = @ \cup {record}]
<1>1. call \in [Calls -> CallState] /\ call[c] \in CallState
  BY DEF IInv, Typed
<1>2. call' = [call EXCEPT ![c] = i]
  BY <1>1 DEF Loses
<1>3. i \in CallState
  BY <1>1 DEF CallState
<1>4. call' \in [Calls -> CallState] /\ call'[c] = i /\ Others(c)
  BY <1>1, <1>2, <1>3 DEF Others
<1> QED BY <1>1, <1>4 DEF CallState, Keeps

\* A step that neither sends nor looks up is right if it is where it may be
\* and its records are.
LEMMA QuietStep ==
  ASSUME IInv, NEW c \in Calls, Typed', Others(c), Keeps(c), UNCHANGED <<rows, sent>>,
         \A d \in Calls \ {c} : \A r : r.call = d =>
             ((r \in audit' <=> r \in audit) /\ (r \in toolHistory' <=> r \in toolHistory)),
         call'[c].pc \notin {"idle", "find"},
         call'[c].pc \in {"prepare", "send", "answer"} => Ready(c),
         call'[c].pc \in {"prepare", "send"} => ~Reached(c),
         call'[c].pc = "answer" => Reached(c),
         Recording(c)'
  PROVE  IInv'
<1> USE DEF IInv
<1>1. ASSUME NEW d \in Calls \ {c} PROVE CallOK(d)'
  <2>1. RowsKept
    BY DEF RowsKept
  <2>2. call'[d] = call[d]
    BY DEF Others
  <2> QED BY <2>1, <2>2, OthersKeep
<1>2. (Reached(c)' <=> Reached(c)) /\ (Ready(c)' <=> Ready(c)) /\ Sends(c)' = Sends(c)
  BY DEF Reached, Ready, Sends, Keeps
<1>3. Grant(c)'
  BY <1>2 DEF CallOK, Grant
<1>4. Owning(c)'
  BY DEF CallOK, Owning, Keeps
<1> QED BY <1>1, <1>3, <1>4 DEF CallOK

\* A step to the records, with an outcome that fits what has been done.
LEMMA Concludes ==
  ASSUME IInv, NEW c \in Calls, NEW kind \in {"none"} \cup Denials \cup Errors,
         NEW pc \in {"audit", "request"}, GoTo(c, pc, kind),
         call[c].pc \in {"find", "prepare", "send", "answer"},
         UNCHANGED <<rows, sent, audit, toolHistory>>,
         kind = "none" => Reached(c),
         kind \in Denials \cup {"malformed", "store_failed"} => ~Reached(c),
         pc = "request" <=> kind \in {"malformed", "store_failed"}
  PROVE  IInv'
<1>1. /\ call' \in [Calls -> CallState] /\ Others(c) /\ Keeps(c)
      /\ call'[c].pc = pc /\ call'[c].kind = kind
  BY GoToMoves
<1>2. Typed'
  BY <1>1 DEF IInv, Typed
<1>3. RecordsOf(c, audit) = {} /\ RecordsOf(c, toolHistory) = {}
  BY DEF IInv, CallOK, Recording
<1>4. Reached(c)' <=> Reached(c)
  BY DEF Reached
<1>5. Recording(c)'
  BY <1>1, <1>3, <1>4 DEF Recording, Settled, RecordsOf
<1> QED BY <1>1, <1>2, <1>5, QuietStep

LEMMA FindFailsIInv ==
  ASSUME IInv, NEW c \in Calls, FindFails(c) \/ FindsNothing(c)  PROVE IInv'
<1>1. ~Reached(c)
  BY DEF IInv, CallOK, Grant, FindFails, FindsNothing
<1> QED
  BY <1>1, Concludes DEF FindFails, FindsNothing, Conclude, Denials, Errors, store

LEMMA PrepareIInv ==
  ASSUME IInv, NEW c \in Calls, Prepare(c)  PROVE IInv'
<1>1. call[c].pc = "prepare" /\ ~Reached(c) /\ Ready(c)
      /\ UNCHANGED <<rows, sent, audit, toolHistory>>
  BY DEF IInv, CallOK, Grant, Prepare, store
<1>2. CASE Conclude(c, "target_prepare_failed")
  BY <1>1, <1>2, Concludes DEF Conclude, Denials, Errors
<1>3. CASE GoTo(c, "send", "none")
  <2>1. /\ call' \in [Calls -> CallState] /\ Others(c) /\ Keeps(c)
        /\ call'[c].pc = "send" /\ call'[c].kind = "none"
    BY <1>3, GoToMoves
  <2>2. Typed'
    BY <1>1, <2>1 DEF IInv, Typed
  <2>3. RecordsOf(c, audit) = {} /\ RecordsOf(c, toolHistory) = {}
    BY <1>1 DEF IInv, CallOK, Recording
  <2>4. Recording(c)'
    BY <1>1, <2>1, <2>3 DEF Recording, RecordsOf
  <2> QED BY <1>1, <2>1, <2>2, <2>4, QuietStep
<1> QED BY <1>2, <1>3 DEF Prepare

LEMMA SendFailsIInv ==
  ASSUME IInv, NEW c \in Calls, SendFails(c) \/ TargetAnswers(c) \/ TargetFails(c)  PROVE IInv'
<1>1. call[c].pc = "answer" => Reached(c)
  BY DEF IInv, CallOK, Grant
<1> QED
  BY <1>1, Concludes DEF SendFails, TargetAnswers, TargetFails, Conclude, Denials, Errors, store

\* What leaves for the target was checked, and the call has sent nothing yet.
LEMMA SendIInv ==
  ASSUME IInv, NEW c \in Calls, Send(c)  PROVE IInv'
<1> USE DEF IInv, CallOK
<1>1. /\ call[c].pc = "send" /\ ~Reached(c) /\ Ready(c)
      /\ GoTo(c, "answer", "none") /\ sent' = sent \cup {Sends(c)}
      /\ UNCHANGED <<rows, audit, toolHistory>>
  BY DEF Grant, Send, store
<1>2. /\ call' \in [Calls -> CallState] /\ Others(c) /\ Keeps(c)
      /\ call'[c].pc = "answer" /\ call'[c].kind = "none"
  BY <1>1, GoToMoves
<1>3. Sends(c) \in Sending
  <2>1. call[c] \in CallState
    BY DEF Typed
  <2> QED BY <1>1, <2>1 DEF Ready, Sends, Sending, CallState, Row
<1>4. Typed'
  BY <1>1, <1>2, <1>3 DEF Typed
<1>5. ASSUME NEW d \in Calls \ {c} PROVE CallOK(d)'
  <2>1. RowsKept /\ call'[d] = call[d]
    BY <1>1, <1>2 DEF RowsKept, Others
  <2>2. \A s : s.call = d => (s \in sent' <=> s \in sent)
    BY <1>1 DEF Sends
  <2> QED BY <1>1, <2>1, <2>2, OthersKeep
<1>6. Sends(c)' = Sends(c) /\ Ready(c)'
  BY <1>1, <1>2 DEF Sends, Ready, Keeps
<1>7. Reached(c)' /\ \A s \in sent' : s.call = c => s = Sends(c)'
  <2>1. Sends(c).call = c
    BY DEF Sends
  <2> QED BY <1>1, <1>6, <2>1 DEF Reached
<1>8. Grant(c)'
  BY <1>2, <1>6, <1>7 DEF Grant
<1>9. Recording(c)'
  <2>1. RecordsOf(c, audit) = {} /\ RecordsOf(c, toolHistory) = {}
    BY <1>1 DEF Recording
  <2> QED BY <1>1, <1>2, <2>1 DEF Recording, RecordsOf
<1>10. Owning(c)'
  BY <1>1, <1>2 DEF Owning, Keeps
<1> QED BY <1>4, <1>5, <1>8, <1>9, <1>10

LEMMA FindsIInv ==
  ASSUME IInv, NEW c \in Calls, Finds(c)  PROVE IInv'
<1> USE DEF IInv, CallOK
<1>1. PICK id \in Found(c), opens \in BOOLEAN :
        LET kind == Verdict(call[c], rows[id], opens)
        IN  call' = [call EXCEPT ![c].id = id, ![c].row = rows[id], ![c].kind = kind,
                                 ![c].pc = IF kind # "none" THEN "audit"
                                           ELSE IF call[c].tool = "api_call" THEN "send"
                                           ELSE "prepare"]
  BY DEF Finds
<1> DEFINE kind == Verdict(call[c], rows[id], opens)
           pc == IF kind # "none" THEN "audit"
                 ELSE IF call[c].tool = "api_call" THEN "send" ELSE "prepare"
           i == [call[c] EXCEPT !.id = id, !.row = rows[id], !.kind = kind, !.pc = pc]
<1>2. call[c].pc = "find" /\ UNCHANGED <<rows, sent, audit, toolHistory>>
  BY DEF Finds, store
<1>3. call \in [Calls -> CallState] /\ call[c] \in CallState
  BY DEF Typed
<1>4. /\ id \in Requests /\ rows[id] \in Row /\ rows[id] # Null /\ ~rows[id].deleted
      /\ rows[id].owner = call[c].user /\ rows[id].alias = call[c].alias
  BY DEF Found, ActiveIds, Active, Typed
<1>5. /\ kind \in {"none"} \cup Denials \cup Errors
      /\ kind \notin {"malformed", "store_failed"}
      /\ kind = "none" =>
           /\ rows[id].category = CategoryOf(call[c].tool)
           /\ call[c].asks \subseteq rows[id].policy /\ rows[id].secret # Null
           /\ call[c].tool = "api_call" => call[c].asks \cap rows[id].secret = {}
  BY DEF Verdict, Denials, Errors
<1>6. i \in CallState
  <2>1. pc \in {"send", "prepare", "audit"}
    OBVIOUS
  <2> HIDE DEF kind, pc
  <2> QED BY <1>3, <1>4, <1>5, <2>1 DEF CallState
<1>7. call' = [call EXCEPT ![c] = i]
  <2>1. call' = [call EXCEPT ![c].id = id, ![c].row = rows[id], ![c].kind = kind, ![c].pc = pc]
    BY <1>1
  <2> HIDE DEF kind, pc
  <2> QED BY <1>3, <2>1
<1>8. call' \in [Calls -> CallState] /\ call'[c] = i /\ Others(c)
  BY <1>3, <1>6, <1>7 DEF Others
<1>9. /\ call'[c].id = id /\ call'[c].row = rows[id] /\ call'[c].kind = kind
      /\ call'[c].pc = pc /\ call'[c].tool = call[c].tool /\ call'[c].asks = call[c].asks
      /\ call'[c].user = call[c].user /\ call'[c].alias = call[c].alias
      /\ call'[c].gone = call[c].gone
  BY <1>3, <1>8 DEF CallState
<1>10. Typed'
  BY <1>2, <1>8 DEF Typed
<1>11. ASSUME NEW d \in Calls \ {c} PROVE CallOK(d)'
  <2>1. RowsKept /\ call'[d] = call[d]
    BY <1>2, <1>8 DEF RowsKept, Others
  <2> QED BY <1>2, <2>1, OthersKeep
<1>12. ~Reached(c) /\ ~Reached(c)'
  BY <1>2 DEF Grant, Reached
<1>13. Grant(c)'
  BY <1>4, <1>5, <1>9, <1>12 DEF Grant, Ready, Reached
<1>14. Recording(c)'
  <2>1. RecordsOf(c, audit) = {} /\ RecordsOf(c, toolHistory) = {}
    BY <1>2 DEF Recording
  <2> QED BY <1>2, <1>5, <1>9, <1>12, <2>1 DEF Recording, RecordsOf, Settled
<1>15. Owning(c)'
  <2>1. pc \notin {"idle", "find"}
    OBVIOUS
  <2>2. \A g \in call[c].gone : rows[g] # Null /\ rows[g].deleted
    BY DEF Owning
  <2> HIDE DEF kind, pc
  <2> QED BY <1>2, <1>4, <1>9, <2>1, <2>2 DEF Owning
<1> QED BY <1>10, <1>11, <1>13, <1>14, <1>15

\* A call that arrives has read nothing, sent nothing and left no record.
LEMMA ArriveIInv ==
  ASSUME IInv, NEW c \in Calls, Arrive(c) \/ ArriveMalformed(c)  PROVE IInv'
<1> USE DEF IInv, CallOK
<1> DEFINE gone == {id \in Requests : rows[id] # Null /\ rows[id].deleted}
<1>1. PICK channel \in {"mcp", "rest"},
           pc \in {"find", "audit", "request"}, kind \in {"none", "bad_input", "malformed"} :
        /\ Arrivals(c, channel, pc, kind)
        /\ <<pc, kind>> \in {<<"find", "none">>, <<"audit", "bad_input">>,
                             <<"request", "malformed">>}
  BY DEF Arrive, ArriveMalformed
<1>2. PICK tool \in Tools, u \in Users, a \in Aliases, asks \in SUBSET Headers :
        call' = [call EXCEPT ![c] =
              [@ EXCEPT !.pc = pc, !.kind = kind, !.tool = tool, !.channel = channel,
                        !.user = u, !.alias = a, !.asks = asks, !.gone = gone]]
  BY <1>1 DEF Arrivals
<1> DEFINE i == [call[c] EXCEPT !.pc = pc, !.kind = kind, !.tool = tool, !.channel = channel,
                                !.user = u, !.alias = a, !.asks = asks, !.gone = gone]
<1>3. call[c].pc = "idle" /\ UNCHANGED <<rows, sent, audit, toolHistory>>
  BY DEF Arrive, ArriveMalformed, store
<1>4. call \in [Calls -> CallState] /\ call[c] \in CallState
  BY DEF Typed
<1>5. i \in CallState
  <2>1. gone \in SUBSET Requests /\ kind \in {"none"} \cup Denials \cup Errors
    BY DEF Denials, Errors
  <2> HIDE DEF gone
  <2> DEFINE j == [call[c] EXCEPT !.pc = pc, !.kind = kind, !.tool = tool, !.channel = channel]
  <2>2. j \in CallState
    BY <1>4, <2>1 DEF CallState
  <2>3. i = [j EXCEPT !.user = u, !.alias = a, !.asks = asks, !.gone = gone]
    BY <1>4 DEF CallState
  <2> HIDE DEF i, j
  <2> QED BY <2>1, <2>2, <2>3 DEF CallState
<1>6. call' \in [Calls -> CallState] /\ call'[c] = i /\ Others(c)
  BY <1>2, <1>4, <1>5 DEF Others
<1>7. /\ call'[c].pc = pc /\ call'[c].kind = kind /\ call'[c].id = Null
      /\ call'[c].gone = gone
  BY <1>3, <1>4, <1>6 DEF CallState, Owning
<1>8. Typed'
  BY <1>3, <1>6 DEF Typed
<1>9. ASSUME NEW d \in Calls \ {c} PROVE CallOK(d)'
  <2>1. RowsKept /\ call'[d] = call[d]
    BY <1>3, <1>6 DEF RowsKept, Others
  <2> QED BY <1>3, <2>1, OthersKeep
<1>10. ~Reached(c) /\ ~Reached(c)'
  BY <1>3 DEF Grant, Reached
<1>11. Grant(c)'
  BY <1>1, <1>7, <1>10 DEF Grant, Reached
<1>12. Recording(c)'
  <2>1. RecordsOf(c, audit) = {} /\ RecordsOf(c, toolHistory) = {}
    BY <1>3 DEF Recording
  <2> QED BY <1>1, <1>3, <1>7, <1>10, <2>1 DEF Recording, RecordsOf, Settled, Denials
<1>13. Owning(c)'
  BY <1>3, <1>7 DEF Owning
<1> QED BY <1>8, <1>9, <1>11, <1>12, <1>13

-----------------------------------------------------------------------------
(* The records *)

LEMMA RecordTypes ==
  ASSUME IInv, NEW c \in Calls
  PROVE  /\ ToolRecord(c) \in Record /\ ToolRecord(c).event = "tool" /\ ToolRecord(c).call = c
         /\ RequestRecord(c) \in Record /\ RequestRecord(c).event = "request"
         /\ RequestRecord(c).call = c
<1>1. call[c] \in CallState
  BY DEF IInv, Typed
<1> QED
  BY <1>1 DEF CallState, ToolRecord, RecordedId, RequestRecord, Record, OutcomeOf

\* A step of the recorder: the outcome stays, and the tool's records are those
\* there were and at most the one that tells the outcome.
LEMMA RecordStep ==
  ASSUME IInv, NEW c \in Calls, call[c].pc \in {"audit", "history", "request"},
         call' \in [Calls -> CallState], Others(c), Keeps(c), UNCHANGED <<rows, sent>>,
         call'[c].pc \in {"history", "request", "done"}, call'[c].kind = call[c].kind,
         call[c].lost \subseteq call'[c].lost,
         audit' \in {audit, audit \cup {ToolRecord(c)}, audit \cup {RequestRecord(c)}},
         toolHistory' \in {toolHistory, toolHistory \cup {ToolRecord(c)}},
         call[c].pc = "audit" => /\ call'[c].pc = "history" \/ call[c].tool = "sql_schema"
                                 /\ toolHistory' = toolHistory
                                 /\ ToolRecord(c) \in audit' \/ "audit" \in call'[c].lost,
         call[c].pc = "history" => /\ call'[c].pc = "request"
                                   /\ ToolRecord(c) \in toolHistory' \/ "history" \in call'[c].lost
                                   /\ audit' = audit,
         call[c].pc = "request" => /\ call'[c].pc = "done"
                                   /\ audit' # audit => audit' = audit \cup {RequestRecord(c)}
                                   /\ toolHistory' = toolHistory
  PROVE  IInv'
<1> USE DEF IInv, CallOK
<1> DEFINE t == ToolRecord(c)
<1>1. /\ t \in Record /\ t.event = "tool" /\ t.call = c
      /\ RequestRecord(c) \in Record /\ RequestRecord(c).event = "request"
      /\ RequestRecord(c).call = c
  BY RecordTypes
<1> HIDE DEF t
<1>2. Typed'
  BY <1>1 DEF Typed, t
<1>3. \A d \in Calls \ {c} : \A r : r.call = d =>
        ((r \in audit' <=> r \in audit) /\ (r \in toolHistory' <=> r \in toolHistory))
  BY <1>1 DEF t
<1>4. /\ RecordsOf(c, audit') = IF t \in audit' THEN RecordsOf(c, audit) \cup {t}
                                ELSE RecordsOf(c, audit)
      /\ RecordsOf(c, toolHistory') =
           IF t \in toolHistory' THEN RecordsOf(c, toolHistory) \cup {t}
           ELSE RecordsOf(c, toolHistory)
  BY <1>1 DEF RecordsOf, t
<1>5. t' = t
  BY DEF t, ToolRecord, RecordedId, Keeps
<1>6. Settled(c) /\ Settled(c)'
  BY DEF Recording, Settled, Reached
<1>7. call[c].tool = call'[c].tool
  BY DEF Keeps
<1>8. Recording(c)'
  BY <1>1, <1>4, <1>5, <1>6, <1>7 DEF Recording, t
<1> QED BY <1>2, <1>3, <1>8, QuietStep

LEMMA RecordsIInv ==
  ASSUME IInv, NEW c \in Calls, RecordAudit(c) \/ RecordHistory(c) \/ RecordRequest(c)
  PROVE  IInv'
<1> DEFINE t == ToolRecord(c)
<1>1. call[c].kind \in {"none"} \cup Denials \cup Errors
  BY DEF IInv, Typed, CallState
<1>2. CASE RecordAudit(c)
  <2> DEFINE next == IF call[c].tool = "sql_schema" THEN "request" ELSE "history"
  <2>1. /\ call[c].pc = "audit" /\ UNCHANGED <<rows, sent, toolHistory>>
        /\ \/ audit' = audit \cup {t} /\ GoTo(c, next, call[c].kind)
           \/ UNCHANGED audit /\ Loses(c, "audit", next)
    BY <1>2 DEF RecordAudit, store
  <2>2. /\ call' \in [Calls -> CallState] /\ Others(c) /\ Keeps(c)
        /\ call'[c].pc = next /\ call'[c].kind = call[c].kind
        /\ call[c].lost \subseteq call'[c].lost
        /\ t \in audit' \/ "audit" \in call'[c].lost
    BY <1>1, <2>1, GoToMoves, LosesMoves
  <2> QED BY <2>1, <2>2, RecordStep
<1>3. CASE RecordHistory(c)
  <2>1. /\ call[c].pc = "history" /\ UNCHANGED <<rows, sent, audit>>
        /\ \/ toolHistory' = toolHistory \cup {t} /\ GoTo(c, "request", call[c].kind)
           \/ UNCHANGED toolHistory /\ Loses(c, "history", "request")
    BY <1>3 DEF RecordHistory, store
  <2>2. /\ call' \in [Calls -> CallState] /\ Others(c) /\ Keeps(c)
        /\ call'[c].pc = "request" /\ call'[c].kind = call[c].kind
        /\ call[c].lost \subseteq call'[c].lost
        /\ t \in toolHistory' \/ "history" \in call'[c].lost
    BY <1>1, <2>1, GoToMoves, LosesMoves
  <2> QED BY <2>1, <2>2, RecordStep
<1>4. CASE RecordRequest(c)
  <2>1. /\ call[c].pc = "request" /\ UNCHANGED <<rows, sent, toolHistory>>
        /\ \/ audit' = audit \cup {RequestRecord(c)} /\ GoTo(c, "done", call[c].kind)
           \/ UNCHANGED audit /\ Loses(c, "request", "done")
    BY <1>4 DEF RecordRequest, store
  <2>2. /\ call' \in [Calls -> CallState] /\ Others(c) /\ Keeps(c)
        /\ call'[c].pc = "done" /\ call'[c].kind = call[c].kind
        /\ call[c].lost \subseteq call'[c].lost
    BY <1>1, <2>1, GoToMoves, LosesMoves
  <2> QED BY <2>1, <2>2, RecordStep
<1> QED BY <1>2, <1>3, <1>4

-----------------------------------------------------------------------------
(* Calls that are cut off, and the credential store *)

\* A call that is dropped or stopped keeps what it did and recorded.
LEMMA CutOff ==
  ASSUME IInv, NEW c \in Calls, InProgress(c), NEW pc \in {"dropped", "stopped"},
         call'[c] = [call[c] EXCEPT !.pc = pc], UNCHANGED <<rows, sent, audit, toolHistory>>
  PROVE  CallOK(c)'
<1> USE DEF IInv, CallOK
<1>1. call[c] \in CallState
  BY DEF Typed
<1>2. call'[c].pc = pc /\ call'[c].kind = call[c].kind /\ Keeps(c)
  BY <1>1 DEF CallState, Keeps
<1>3. /\ (Reached(c)' <=> Reached(c)) /\ (Ready(c)' <=> Ready(c))
      /\ Sends(c)' = Sends(c) /\ ToolRecord(c)' = ToolRecord(c)
  BY <1>2 DEF Reached, Ready, Sends, Keeps, ToolRecord, RecordedId
<1>4. Grant(c)'
  BY <1>2, <1>3 DEF Grant
<1>5. Recording(c)'
  BY <1>2, <1>3 DEF Recording, Settled, RecordsOf
<1>6. Owning(c)'
  BY <1>2 DEF Owning, Keeps
<1> QED BY <1>4, <1>5, <1>6

LEMMA DropIInv ==
  ASSUME IInv, NEW c \in Calls, Drop(c)  PROVE IInv'
<1>1. /\ InProgress(c) /\ GoTo(c, "dropped", call[c].kind)
      /\ UNCHANGED <<rows, sent, audit, toolHistory>>
  BY DEF Drop, store
<1>2. call \in [Calls -> CallState] /\ call[c] \in CallState
  BY DEF IInv, Typed
<1>3. call' \in [Calls -> CallState] /\ Others(c)
  BY <1>1, <1>2, GoToMoves DEF CallState
<1>4. call'[c] = [call[c] EXCEPT !.pc = "dropped"]
  BY <1>1, <1>2 DEF GoTo, CallState
<1>5. ASSUME NEW d \in Calls \ {c} PROVE CallOK(d)'
  BY <1>1, <1>3, OthersKeep DEF Others, RowsKept
<1>6. CallOK(c)'
  BY <1>1, <1>4, CutOff
<1> QED BY <1>1, <1>3, <1>5, <1>6 DEF IInv, Typed

LEMMA StopIInv == ASSUME IInv, Stop PROVE IInv'
<1>1. UNCHANGED <<rows, sent, audit, toolHistory>>
  BY DEF Stop, store
<1>2. ASSUME NEW c \in Calls
      PROVE  /\ call'[c] \in CallState
             /\ InProgress(c) => call'[c] = [call[c] EXCEPT !.pc = "stopped"]
             /\ ~InProgress(c) => call'[c] = call[c]
  BY DEF Stop, IInv, Typed, CallState
<1>3. call' \in [Calls -> CallState]
  BY <1>2 DEF Stop
<1>4. ASSUME NEW c \in Calls PROVE CallOK(c)'
  <2>1. CASE InProgress(c)
    BY <1>1, <1>2, <2>1, CutOff
  <2>2. CASE ~InProgress(c)
    BY <1>1, <1>2, <2>2, OthersKeep DEF RowsKept
  <2> QED BY <2>1, <2>2
<1> QED BY <1>1, <1>3, <1>4 DEF IInv, Typed

\* Every operation of the ledger keeps whose a row is, and keeps its secret or
\* destroys it for good.
LEMMA LedgerKeepsRows ==
  ASSUME rows \in [Requests -> {Null} \cup Row], Ledger!Next
  PROVE  rows' \in [Requests -> {Null} \cup Row] /\ RowsKept
<1>1. Ledger!Row = Row
  BY DEF Ledger!Row, Row
<1>2. \A T, u, a : Ledger!ActiveIds(T, u, a) = ActiveIds(T, u, a)
  BY DEF Ledger!ActiveIds, ActiveIds, Ledger!Active, Active
<1>3. PICK u \in Users, a \in Aliases, id \in Requests :
        \/ Ledger!Register(u, a, id)
        \/ \E request \in Requests, changed \in SUBSET (Fields \cup {"policy"}) :
             Ledger!Update(u, a, id, request, changed)
        \/ \E request \in Requests : Ledger!Delete(u, a, id, request)
  BY DEF Ledger!Next
<1>4. CASE Ledger!Register(u, a, id)
  <2>1. rows[id] = Null /\ \E row \in Row : rows' = [rows EXCEPT ![id] = row]
    BY <1>1, <1>4 DEF Ledger!Register
  <2> QED BY <2>1, NullIsNoRow DEF RowsKept
<1>5. CASE \E request \in Requests, changed \in SUBSET (Fields \cup {"policy"}) :
             Ledger!Update(u, a, id, request, changed)
  <2>1. id \in ActiveIds(rows, u, a)
    BY <1>2, <1>5 DEF Ledger!Update
  <2>2. PICK policy \in SUBSET Headers, meta \in [Fields -> Values] :
          rows' = [rows EXCEPT ![id] = [@ EXCEPT !.policy = policy, !.meta = meta]]
    BY <1>5 DEF Ledger!Update
  <2>3. rows[id] \in Row
    BY <2>1 DEF ActiveIds, Active
  <2>4. [rows[id] EXCEPT !.policy = policy, !.meta = meta] \in Row
    BY <2>3 DEF Row
  <2> QED BY <2>2, <2>3, <2>4, NullIsNoRow DEF RowsKept, Row
<1>6. CASE \E request \in Requests : Ledger!Delete(u, a, id, request)
  <2>1. id \in ActiveIds(rows, u, a) /\ rows' = [rows EXCEPT ![id] = Ledger!DeletedRow(@)]
    BY <1>2, <1>6 DEF Ledger!Delete
  <2>2. rows[id] \in Row
    BY <2>1 DEF ActiveIds, Active
  <2>3. [rows[id] EXCEPT !.secret = Null, !.deleted = TRUE] \in Row
    BY <2>2 DEF Row
  <2> QED BY <2>1, <2>2, <2>3, NullIsNoRow DEF RowsKept, Row, Ledger!DeletedRow
<1> QED BY <1>3, <1>4, <1>5, <1>6

LEMMA StoreChangesIInv == ASSUME IInv, StoreChanges PROVE IInv'
<1>1. Ledger!Next /\ UNCHANGED <<call, sent, audit, toolHistory>>
  BY DEF StoreChanges
<1>2. rows' \in [Requests -> {Null} \cup Row] /\ RowsKept
  BY <1>1, LedgerKeepsRows DEF IInv, Typed
<1>3. ASSUME NEW c \in Calls PROVE CallOK(c)'
  BY <1>1, <1>2, OthersKeep
<1> QED BY <1>1, <1>2, <1>3 DEF IInv, Typed

-----------------------------------------------------------------------------

LEMMA NextIInv == IInv /\ [Next]_vars => IInv'
<1> SUFFICES ASSUME IInv, [Next]_vars PROVE IInv'
  OBVIOUS
<1>1. ASSUME NEW c \in Calls, Arrive(c) \/ ArriveMalformed(c) \/ Step(c) \/ Drop(c)
      PROVE  IInv'
  BY <1>1, ArriveIInv, FindFailsIInv, FindsIInv, PrepareIInv, SendIInv, SendFailsIInv,
     RecordsIInv, DropIInv DEF Step
<1>2. CASE UNCHANGED vars
  <2>1. UNCHANGED <<rows, call, sent, audit, toolHistory>>
    BY <1>2 DEF vars
  <2>2. ASSUME NEW c \in Calls PROVE CallOK(c)'
    BY <2>1, OthersKeep DEF RowsKept
  <2> QED BY <2>1, <2>2 DEF IInv, Typed
<1> QED BY <1>1, <1>2, StopIInv, StoreChangesIInv DEF Next, Finished

\* What a call has read, sent and recorded fits together in every reachable
\* state, for every call by itself.
THEOREM InductiveInvariant == Spec => []IInv
<1> QED BY InitIInv, NextIInv, PTL DEF Spec

\* send_target and the query executors send only what the policy as it was
\* read grants, and nothing that the caller asked for is lost to the secret.
THEOREM RequestsGranted == Spec => []RequestsAreGranted
<1>1. IInv => RequestsAreGranted
  <2> SUFFICES ASSUME IInv, NEW s \in sent
               PROVE  /\ s.caller = call[s.call].asks
                      /\ s.caller \subseteq call[s.call].row.policy
    BY DEF RequestsAreGranted
  <2>1. s.call \in Calls
    BY DEF IInv, Typed, Sending
  <2>2. Ready(s.call) /\ s = Sends(s.call)
    BY <2>1 DEF IInv, CallOK, Grant, Reached
  <2>3. s.caller = IF call[s.call].tool = "api_call"
                   THEN call[s.call].asks \ call[s.call].row.secret
                   ELSE call[s.call].asks
    BY <2>2 DEF Sends
  <2> QED BY <2>2, <2>3 DEF Ready
<1> QED BY <1>1, InductiveInvariant, PTL

\* find_credential_secret_by_alias gives a call its caller's own credential,
\* and whatever becomes of the row, the copy the call works on is of that
\* owner, alias and category.
THEOREM CredentialsAreOwn == Spec => []CallsUseOwnCredentials
<1>1. IInv => CallsUseOwnCredentials
  <2> SUFFICES ASSUME IInv, NEW s \in sent
               PROVE  /\ rows[s.id].owner = call[s.call].user
                      /\ rows[s.id].alias = call[s.call].alias
                      /\ rows[s.id].category = CategoryOf(call[s.call].tool)
                      /\ s.id \notin call[s.call].gone
                      /\ rows[s.id].secret \in {s.secret, Null}
    BY DEF CallsUseOwnCredentials
  <2>1. s.call \in Calls
    BY DEF IInv, Typed, Sending
  <2>2. Ready(s.call) /\ s = Sends(s.call) /\ Owning(s.call)
    BY <2>1 DEF IInv, CallOK, Grant, Reached
  <2>3. s.id = call[s.call].id /\ s.secret = call[s.call].row.secret
    BY <2>2 DEF Sends
  <2> QED BY <2>2, <2>3, NullAssumption DEF Ready, Owning
<1> QED BY <1>1, InductiveInvariant, PTL

\* The recorder (recording.rs of the three tools) writes one outcome for a
\* call, and it is what the call did.
THEOREM RecordsTruthful == Spec => []RecordsAreTruthful
<1>1. IInv => RecordsAreTruthful
  <2> SUFFICES ASSUME IInv, NEW c \in Calls,
                      NEW r \in RecordsOf(c, audit) \cup RecordsOf(c, toolHistory)
               PROVE  /\ RecordsOf(c, audit) \cup RecordsOf(c, toolHistory) = {r}
                      /\ r.outcome = "denied" => ~Reached(c)
                      /\ r.outcome = "ok" => Reached(c)
                      /\ r.credential_id = Null => ~Reached(c)
                      /\ \A s \in sent : s.call = c => r.credential_id = s.id
                      /\ call[c].pc = "done" => r.outcome = OutcomeOf(call[c].kind)
    BY DEF RecordsAreTruthful
  <2>1. Grant(c) /\ Recording(c)
    BY DEF IInv, CallOK
  <2>2. RecordsOf(c, audit) \cup RecordsOf(c, toolHistory) = {r}
    BY <2>1 DEF Recording
  <2>3. r = ToolRecord(c) /\ Settled(c)
    BY <2>1 DEF Recording
  <2>4. r.outcome = OutcomeOf(call[c].kind) /\ r.credential_id = call[c].id
    BY <2>3 DEF ToolRecord, RecordedId
  <2>5. (r.outcome = "denied" => ~Reached(c)) /\ (r.outcome = "ok" => Reached(c))
    BY <2>3, <2>4 DEF Settled, OutcomeOf
  <2>6. r.credential_id = Null => ~Reached(c)
    BY <2>1, <2>4, NullAssumption DEF Grant, Ready
  <2>7. \A s \in sent : s.call = c => r.credential_id = s.id
    BY <2>1, <2>4 DEF Grant, Sends
  <2> QED BY <2>2, <2>4, <2>5, <2>6, <2>7
<1> QED BY <1>1, InductiveInvariant, PTL

\* audit::runtime and the history recorders: an answered call is on record
\* but for the INSERTs that failed, and an answer without a record did nothing.
THEOREM AnswersAreRecorded == Spec => []AnsweredIsRecorded
<1>1. IInv => AnsweredIsRecorded
  BY DEF IInv, CallOK, Recording, Settled, AnsweredIsRecorded
<1> QED BY <1>1, InductiveInvariant, PTL

-----------------------------------------------------------------------------
(* JsonOutput: numbers and sums *)

\* A set that has 0, and the successor of each of its members, has every number.
LEMMA Induction ==
    ASSUME NEW T \in SUBSET Nat, 0 \in T, \A n \in T : n + 1 \in T
    PROVE  T = Nat
<1> SUFFICES ASSUME Nat \ T # {}
             PROVE  FALSE
  OBVIOUS
<1>1. IsWellFoundedOn(OpToRel(<, Nat), Nat)
  BY NatLessThanWellFounded
<1>2. PICK n \in Nat \ T : \A m \in Nat \ T : ~(<<m, n>> \in OpToRel(<, Nat))
  BY <1>1, WFMin
<1>3. n \in Nat /\ n \notin T /\ n # 0
  OBVIOUS
<1>4. n - 1 \in Nat /\ n - 1 < n /\ (n - 1) + 1 = n
  BY ONLY <1>3
<1>5. n - 1 \in T
  BY <1>2, <1>3, <1>4 DEF OpToRel
<1>6. QED
  BY <1>3, <1>4, <1>5

\* A finite set of numbers that is not empty has a largest and a smallest.
LEMMA Extremes ==
    ASSUME NEW S \in SUBSET Nat, IsFiniteSet(S), S # {}
    PROVE  /\ Max(S) \in S /\ \A x \in S : x <= Max(S)
           /\ Min(S) \in S /\ \A x \in S : Min(S) <= x
<1> DEFINE Has(n) == \A U \in SUBSET S : Cardinality(U) = n /\ U # {} =>
                        \E x \in U : \A y \in U : y <= x
           T == {n \in Nat : Has(n)}
<1>1. Has(0)
  <2> SUFFICES ASSUME NEW U \in SUBSET S, Cardinality(U) = 0, U # {}
               PROVE  FALSE
    OBVIOUS
  <2>1. IsFiniteSet(U)
    BY FS_Subset
  <2>2. QED
    BY <2>1, FS_EmptySet
<1>2. ASSUME NEW n \in Nat, Has(n)
      PROVE  Has(n + 1)
  <2> SUFFICES ASSUME NEW U \in SUBSET S, Cardinality(U) = n + 1, U # {}
               PROVE  \E x \in U : \A y \in U : y <= x
    OBVIOUS
  <2>1. PICK u \in U : TRUE
    OBVIOUS
  <2> DEFINE V == U \ {u}
  <2>2. Cardinality(V) = n /\ V \in SUBSET S
    <3>1. IsFiniteSet(U)
      BY FS_Subset
    <3>2. Cardinality(V) = (n + 1) - 1
      BY <2>1, <3>1, FS_RemoveElement
    <3>3. QED
      BY <3>2
  <2>3. CASE V = {}
    BY <2>1, <2>3
  <2>4. CASE V # {}
    <3>1. PICK v \in V : \A y \in V : y <= v
      BY <1>2, <2>2, <2>4
    <3>2. u \in Nat /\ v \in Nat /\ \A y \in U : y \in Nat
      OBVIOUS
    <3>3. CASE v <= u
      <4>1. \A y \in U : y <= u
        BY <3>1, <3>2, <3>3
      <4>2. QED
        BY <2>1, <4>1
    <3>4. CASE u <= v
      <4>1. \A y \in U : y <= v
        BY <3>1, <3>2, <3>4
      <4>2. QED
        BY <4>1
    <3>5. QED
      BY <3>2, <3>3, <3>4
  <2>5. QED
    BY <2>3, <2>4
<1> HIDE DEF Has
<1>3. T = Nat
  <2>1. 0 \in T /\ \A n \in T : n + 1 \in T
    BY <1>1, <1>2
  <2>2. T \in SUBSET Nat
    OBVIOUS
  <2> HIDE DEF T
  <2>3. QED
    BY <2>1, <2>2, Induction
<1>4. \E x \in S : \A y \in S : y <= x
  <2>1. Cardinality(S) \in Nat
    BY FS_CardinalityType
  <2>2. Has(Cardinality(S))
    BY <1>3, <2>1
  <2>3. QED
    BY <2>2 DEF Has
<1>5. \E x \in S : \A y \in S : x <= y
  <2>1. IsWellFoundedOn(OpToRel(<, Nat), Nat)
    BY NatLessThanWellFounded
  <2>2. PICK x \in S : \A y \in S : ~(<<y, x>> \in OpToRel(<, Nat))
    BY <2>1, WFMin
  <2>3. ASSUME NEW y \in S
        PROVE  x <= y
    <3>1. x \in Nat /\ y \in Nat
      OBVIOUS
    <3>2. ~(y < x)
      BY <2>2, <3>1 DEF OpToRel
    <3>3. QED
      BY ONLY <3>1, <3>2
  <2>4. QED
    BY <2>3
<1>6. Max(S) \in S /\ \A x \in S : Max(S) >= x
  BY <1>4 DEF Max
<1>7. Min(S) \in S /\ \A x \in S : Min(S) <= x
  BY <1>5 DEF Min
<1>8. QED
  BY <1>6, <1>7

\* A sum of numbers is a number, and that of none is 0.
LEMMA SumIsNumber ==
    ASSUME NEW f, IsFiniteSet(DOMAIN f), \A x \in DOMAIN f : f[x] \in Nat
    PROVE  SumFunction(f) \in Nat /\ (DOMAIN f = {} => SumFunction(f) = 0)
<1> DEFINE S == DOMAIN f
           Pick(s) == CHOOSE x \in s : TRUE
           Sums(it) == [s \in SUBSET S |->
                          IF s = {} THEN 0 ELSE f[Pick(s)] + it[s \ {Pick(s)}]]
           iter == CHOOSE it : it = Sums(it)
           Low(n) == {s \in SUBSET S : Cardinality(s) <= n}
           Fits(h, s) == h[s] = IF s = {} THEN 0 ELSE f[Pick(s)] + h[s \ {Pick(s)}]
           Has(n) == \E h \in [Low(n) -> Nat] : \A s \in Low(n) : Fits(h, s)
           T == {n \in Nat : Has(n)}
<1>1. \A s \in SUBSET S : s # {} => Pick(s) \in s /\ f[Pick(s)] \in Nat
  OBVIOUS
<1>2. ASSUME NEW s \in SUBSET S
      PROVE  /\ Cardinality(s) \in Nat /\ (Cardinality(s) = 0 => s = {})
             /\ s # {} => Cardinality(s \ {Pick(s)}) = Cardinality(s) - 1
                          /\ s \ {Pick(s)} \in SUBSET S
  <2>1. IsFiniteSet(s)
    BY FS_Subset
  <2>2. QED
    BY <1>1, <2>1, FS_CardinalityType, FS_EmptySet, FS_RemoveElement
<1> HIDE DEF Pick
<1>3. Has(0)
  <2> DEFINE h == [s \in Low(0) |-> 0]
  <2>1. ASSUME NEW s \in Low(0)
        PROVE  s = {}
    <3>1. s \in SUBSET S /\ Cardinality(s) <= 0
      OBVIOUS
    <3>2. Cardinality(s) \in Nat /\ (Cardinality(s) = 0 => s = {})
      BY <1>2, <3>1
    <3>3. QED
      BY <3>1, <3>2
  <2>2. h \in [Low(0) -> Nat] /\ \A s \in Low(0) : Fits(h, s)
    BY <2>1
  <2>3. QED
    BY <2>2
<1>4. ASSUME NEW n \in Nat, Has(n)
      PROVE  Has(n + 1)
  <2>1. PICK h \in [Low(n) -> Nat] : \A s \in Low(n) : Fits(h, s)
    BY <1>4
  <2> DEFINE g == [s \in Low(n + 1) |->
                     IF s \in Low(n) THEN h[s] ELSE f[Pick(s)] + h[s \ {Pick(s)}]]
  <2>2. ASSUME NEW s \in Low(n + 1), s # {}
        PROVE  s \ {Pick(s)} \in Low(n) /\ s \ {Pick(s)} \in Low(n + 1)
    BY <1>2, <2>2
  <2>3. ASSUME NEW s \in Low(n + 1)
        PROVE  g[s] \in Nat /\ Fits(g, s)
    <3>1. CASE s = {}
      <4>1. s \in Low(n)
        BY <3>1, FS_EmptySet
      <4>2. g[s] = h[s]
        BY <4>1
      <4>3. Fits(h, s) /\ h[s] \in Nat
        BY <2>1, <4>1
      <4>4. QED
        BY <3>1, <4>2, <4>3
    <3>2. CASE s # {} /\ s \in Low(n)
      <4> DEFINE t == s \ {Pick(s)}
      <4>1. t \in Low(n) /\ t \in Low(n + 1)
        BY <2>2, <3>2
      <4>2. g[s] = h[s] /\ g[t] = h[t]
        BY <3>2, <4>1
      <4>3. Fits(h, s) /\ h[s] \in Nat
        BY <2>1, <3>2
      <4>4. QED
        BY <3>2, <4>2, <4>3
    <3>3. CASE s # {} /\ s \notin Low(n)
      <4> DEFINE t == s \ {Pick(s)}
      <4>1. t \in Low(n) /\ t \in Low(n + 1)
        BY <2>2, <3>3
      <4>2. g[s] = f[Pick(s)] + h[t] /\ g[t] = h[t]
        BY <3>3, <4>1
      <4>3. h[t] \in Nat /\ f[Pick(s)] \in Nat
        BY <1>1, <2>1, <3>3, <4>1
      <4>4. QED
        BY <3>3, <4>2, <4>3
    <3>4. QED
      BY <3>1, <3>2, <3>3
  <2>4. g \in [Low(n + 1) -> Nat]
    <3>1. \A s \in Low(n + 1) : g[s] \in Nat
      BY <2>3
    <3>2. QED
      BY <3>1
  <2> HIDE DEF g
  <2>5. QED
    BY <2>3, <2>4
<1> HIDE DEF Has
<1>5. T = Nat
  <2>1. 0 \in T /\ \A n \in T : n + 1 \in T
    BY <1>3, <1>4
  <2>2. T \in SUBSET Nat
    OBVIOUS
  <2> HIDE DEF T
  <2>3. QED
    BY <2>1, <2>2, Induction
<1>6. PICK h \in [SUBSET S -> Nat] : \A s \in SUBSET S : Fits(h, s)
  <2>1. Cardinality(S) \in Nat
    BY FS_CardinalityType
  <2>2. Has(Cardinality(S))
    BY <1>5, <2>1
  <2>3. Low(Cardinality(S)) = SUBSET S
    BY FS_Subset
  <2>4. QED
    BY <2>2, <2>3 DEF Has
<1>7. h = Sums(h)
  BY <1>6
<1>8. iter = Sums(iter)
  <2> HIDE DEF Sums
  <2>1. QED
    BY <1>7
<1>9. ASSUME NEW s \in SUBSET S
      PROVE  iter[s] = IF s = {} THEN 0 ELSE f[Pick(s)] + iter[s \ {Pick(s)}]
  <2> HIDE DEF iter
  <2>1. QED
    BY <1>8
<1>10. SumFunction(f) = iter[S]
  BY DEF SumFunction, SumFunctionOnSet, FoldFunctionOnSet, MapThenFoldSet, Pick
<1> HIDE DEF iter
<1> DEFINE U == {n \in Nat : \A s \in SUBSET S : Cardinality(s) <= n => iter[s] \in Nat}
<1>11. 0 \in U
  <2> SUFFICES ASSUME NEW s \in SUBSET S, Cardinality(s) <= 0
               PROVE  iter[s] \in Nat
    OBVIOUS
  <2>1. s = {}
    <3>1. Cardinality(s) \in Nat /\ (Cardinality(s) = 0 => s = {})
      BY <1>2
    <3>2. QED
      BY <3>1
  <2>2. iter[s] = 0
    BY <1>9, <2>1
  <2>3. QED
    BY <2>2
<1>12. ASSUME NEW n \in U
       PROVE  n + 1 \in U
  <2> SUFFICES ASSUME NEW s \in SUBSET S, Cardinality(s) <= n + 1
               PROVE  iter[s] \in Nat
    OBVIOUS
  <2>1. CASE s = {}
    <3>1. iter[s] = 0
      BY <1>9, <2>1
    <3>2. QED
      BY <3>1
  <2>2. CASE s # {}
    <3>1. s \ {Pick(s)} \in SUBSET S /\ Cardinality(s \ {Pick(s)}) <= n
      <4>1. /\ Cardinality(s \ {Pick(s)}) = Cardinality(s) - 1
            /\ s \ {Pick(s)} \in SUBSET S /\ Cardinality(s) \in Nat
        BY <1>2, <2>2
      <4>2. QED
        BY <4>1
    <3>2. iter[s \ {Pick(s)}] \in Nat
      BY <1>12, <3>1
    <3>3. f[Pick(s)] \in Nat
      BY <1>1, <2>2
    <3>4. iter[s] = f[Pick(s)] + iter[s \ {Pick(s)}]
      BY <1>9, <2>2
    <3>5. QED
      BY <3>2, <3>3, <3>4
  <2>3. QED
    BY <2>1, <2>2
<1>13. U = Nat
  <2>1. U \in SUBSET Nat
    OBVIOUS
  <2> HIDE DEF U
  <2>2. QED
    BY <1>11, <1>12, <2>1, Induction
<1>14. iter[S] \in Nat
  <2>1. Cardinality(S) \in Nat
    BY FS_CardinalityType
  <2>2. Cardinality(S) \in U
    BY <1>13, <2>1
  <2>3. QED
    BY <2>1, <2>2
<1>15. S = {} => iter[S] = 0
  BY <1>9
<1>16. QED
  BY <1>10, <1>14, <1>15

\* A sum of numbers, one for each member of a finite set, is a number.
LEMMA SumOver ==
    ASSUME NEW f, NEW S, f \in [S -> Nat], IsFiniteSet(S)
    PROVE  SumFunction(f) \in Nat
<1>1. DOMAIN f = S /\ \A x \in S : f[x] \in Nat
  OBVIOUS
<1>2. QED
  BY <1>1, SumIsNumber

-----------------------------------------------------------------------------
(* The bytes of an answer are a number. *)

\* n values take n - 1 commas.
LEMMA CommasType ==
    ASSUME NEW n \in Nat
    PROVE  Commas(n) \in Nat
BY DEF Commas

\* Every set of nodes is finite.
LEMMA NodesFinite ==
    ASSUME NEW d, Document(d), NEW nodes \in SUBSET DOMAIN d
    PROVE  IsFiniteSet(nodes) /\ Cardinality(nodes) \in Nat
BY FS_Subset, FS_CardinalityType DEF Document

\* The brackets, commas and scalar of a node, and its text with its key.
LEMMA BytesType ==
    ASSUME NEW d, Document(d), NEW p
    PROVE  Bytes(d, p) \in Nat
<1> DEFINE Own(q) == OwnBytes(d, q)
              + (IF q # p /\ d[Parent(q)] = "object" THEN StepBytes(q[Len(q)]) ELSE 0)
           f == [q \in Under(d, p) |-> Own(q)]
<1>1. ASSUME NEW q
      PROVE  Own(q) \in Nat
  <2>1. Children(d, q) \in SUBSET DOMAIN d
    BY DEF Children, Under
  <2>2. Cardinality(Children(d, q)) \in Nat
    BY <2>1, NodesFinite
  <2>3. Commas(Cardinality(Children(d, q))) \in Nat
    BY <2>2, CommasType
  <2>4. OwnBytes(d, q) \in Nat
    BY <2>3 DEF OwnBytes
  <2>5. \A step : StepBytes(step) \in Nat
    BY JsonOutputAssumption DEF StepBytes, KeyBytes
  <2>6. QED
    BY <2>4, <2>5
<1>2. f \in [Under(d, p) -> Nat]
  BY <1>1
<1>3. IsFiniteSet(Under(d, p))
  BY NodesFinite DEF Under
<1>4. SumFunction(f) \in Nat
  BY <1>2, <1>3, SumOver
<1>5. QED
  BY <1>4 DEF Bytes

\* The array of some nodes.
LEMMA ArrayBytesType ==
    ASSUME NEW d, Document(d), NEW nodes \in SUBSET DOMAIN d
    PROVE  ArrayBytes(d, nodes) \in Nat
<1> DEFINE f == [p \in nodes |-> Bytes(d, p)]
<1>1. f \in [nodes -> Nat]
  BY BytesType
<1>2. SumFunction(f) \in Nat
  BY <1>1, NodesFinite, SumOver
<1>3. Commas(Cardinality(nodes)) \in Nat
  BY NodesFinite, CommasType
<1>4. QED
  BY <1>2, <1>3 DEF ArrayBytes

\* A JSONPath selects nodes of the document.
LEMMA QueryNodes ==
    ASSUME NEW d, NEW p, NEW text
    PROVE  Query(d, p, text) \in SUBSET DOMAIN d
BY DEF Query, Under

\* What a JSONPath of the caller selects, or its count or lengths.
LEMMA SelectedBytesType ==
    ASSUME NEW d, Document(d), NEW text
    PROVE  SelectedBytes(d, Selected(d, text)) \in Nat
<1> DEFINE s == Selected(d, text)
           Length(p) == IF HasLength(d, p) THEN 1 ELSE 4
           n == Cardinality(s.nodes)
           f == [p \in s.nodes |-> Length(p)]
<1>1. s.nodes \in SUBSET DOMAIN d
  BY QueryNodes DEF Selected
<1> HIDE DEF s
<1>2. f \in [s.nodes -> Nat]
  OBVIOUS
<1>3. SumFunction(f) \in Nat
  BY <1>1, <1>2, NodesFinite, SumOver
<1>4. Commas(n) \in Nat
  BY <1>1, NodesFinite, CommasType
<1>5. ArrayBytes(d, s.nodes) \in Nat
  BY <1>1, ArrayBytesType
<1> DEFINE sum == SumFunction(f)
           lead == IF n = 1 THEN 0 ELSE 2 + Commas(n)
<1>6. lead + sum \in Nat
  BY <1>3, <1>4
<1>7. SelectedBytes(d, s) = CASE s.operator = "count" -> 1
                              [] s.operator = "none"  -> ArrayBytes(d, s.nodes)
                              [] OTHER -> lead + sum
  BY DEF SelectedBytes
<1> HIDE DEF lead, sum
<1>8. SelectedBytes(d, s) \in Nat
  BY <1>5, <1>6, <1>7
<1>9. QED
  BY <1>8 DEF s

\* The object of all the paths of the caller.
LEMMA KeyedBytesType ==
    ASSUME NEW d, Document(d), NEW texts, IsFiniteSet(texts)
    PROVE  KeyedBytes(d, texts) \in Nat
<1> DEFINE f == [text \in texts |-> KeyBytes + SelectedBytes(d, Selected(d, text))]
<1>1. f \in [texts -> Nat]
  BY SelectedBytesType DEF KeyBytes
<1>2. SumFunction(f) \in Nat
  BY <1>1, SumOver
<1>3. Commas(Cardinality(texts)) \in Nat
  BY FS_CardinalityType, CommasType
<1>4. QED
  BY <1>2, <1>3 DEF KeyedBytes

\* A cell of a table.
LEMMA CellBytesType ==
    ASSUME NEW d, Document(d), NEW nodes \in SUBSET DOMAIN d
    PROVE  CellBytes(d, nodes) \in Nat
BY BytesType, ArrayBytesType DEF CellBytes

\* The rows of a table.
LEMMA TableBytesType ==
    ASSUME NEW d, Document(d), NEW table, NEW C, table.columns \in Seq(C)
    PROVE  TableBytes(d, table) \in Nat
<1> DEFINE R == Query(d, <<>>, table.base)
           I == DOMAIN table.columns
           lines == Rows(d, table)
           Cell(x) == KeyBytes + CellBytes(d, lines[x[1]][x[2]])
           f == [x \in R \X I |-> Cell(x)]
<1>1. DOMAIN lines = R
  BY DEF Rows
<1>2. Len(table.columns) \in Nat /\ I = 1 .. Len(table.columns)
  BY LenProperties
<1>3. IsFiniteSet(R) /\ Cardinality(R) \in Nat
  BY QueryNodes, NodesFinite
<1>4. IsFiniteSet(I)
  <2>1. 1 \in Int /\ Len(table.columns) \in Int
    BY <1>2
  <2>2. IsFiniteSet(1 .. Len(table.columns))
    BY <2>1, FS_Interval
  <2>3. QED
    BY <1>2, <2>2
<1>5. IsFiniteSet(R \X I)
  BY <1>3, <1>4, FS_Product
<1>6. ASSUME NEW x \in R \X I
      PROVE  Cell(x) \in Nat
  <2>1. lines[x[1]][x[2]] = Query(d, x[1], table.columns[x[2]])
    BY DEF Rows
  <2>2. CellBytes(d, lines[x[1]][x[2]]) \in Nat
    BY <2>1, QueryNodes, CellBytesType
  <2>3. QED
    BY <2>2 DEF KeyBytes
<1>7. f \in [R \X I -> Nat]
  BY <1>6
<1>8. SumFunction(f) \in Nat
  BY <1>5, <1>7, SumOver
<1>9. Commas(Cardinality(R)) \in Nat /\ Commas(Len(table.columns)) \in Nat
  BY <1>2, <1>3, CommasType
<1> DEFINE sum == SumFunction(f)
<1>10. TableBytes(d, table) = 2 + Commas(Cardinality(R))
          + Cardinality(R) * (2 + Commas(Len(table.columns))) + sum
  BY <1>1 DEF TableBytes
<1> HIDE DEF sum, R, I
<1>11. Cardinality(R) * (2 + Commas(Len(table.columns))) \in Nat
  <2>1. \A m, n \in Nat : m * (2 + n) \in Nat
    OBVIOUS
  <2>2. QED
    BY <1>3, <1>9, <2>1
<1>12. sum \in Nat
  BY <1>8 DEF sum, R, I
<1>13. QED
  BY <1>9, <1>10, <1>11, <1>12

-----------------------------------------------------------------------------
(* Raising max_bytes *)

\* What a call of the dialog looks like.
Asked(c) ==
    /\ c = [max_bytes |-> c.max_bytes, paths |-> c.paths, table |-> c.table,
            cap |-> c.cap, cut |-> c.cut]
    /\ c.max_bytes \in 1 .. MaxAllowedBytes
    /\ IsFiniteSet(c.paths)
    /\ c.table \in Projections \cup {None}
    /\ c.cap \in Nat /\ c.cut \in BOOLEAN

\* The answer is that of the latest call.
DialogInv ==
    /\ doc \in Docs /\ calls \in Nat
    /\ calls = 0 => answer = Refused("none")
    /\ calls > 0 => Asked(asked) /\ answer = Answer(doc, asked)

\* The bytes of the answer of a call of the dialog are a number.
LEMMA BodyBytesType ==
    ASSUME NEW d \in Docs, NEW c, Asked(c)
    PROVE  BodyBytes(d, c) \in Nat
<1>1. Document(d)
  BY ReadAssumption
<1>2. CASE c.table # None
  <2>1. c.table.columns \in Seq({c.table.columns[i] : i \in DOMAIN c.table.columns})
    BY <1>2, ReadAssumption DEF Asked
  <2>2. QED
    BY <1>1, <1>2, <2>1, TableBytesType DEF BodyBytes
<1>3. CASE c.table = None /\ c.paths # {}
  BY <1>1, <1>3, KeyedBytesType DEF BodyBytes, Asked
<1>4. CASE c.table = None /\ c.paths = {}
  BY <1>1, <1>4, BytesType DEF BodyBytes
<1>5. QED
  BY <1>2, <1>3, <1>4

\* Of two numbers the smaller.
LEMMA MinOfTwo ==
    ASSUME NEW m \in Nat, NEW n \in Nat
    PROVE  Min({m, n}) = IF m <= n THEN m ELSE n
<1> DEFINE S == {m, n}
<1>1. IsFiniteSet({m}) /\ IsFiniteSet({n})
  BY FS_Singleton
<1>2. S = {m} \cup {n} /\ S \in SUBSET Nat /\ S # {}
  OBVIOUS
<1>3. IsFiniteSet(S)
  BY <1>1, <1>2, FS_Union
<1> HIDE DEF S
<1>4. Min(S) \in S /\ \A x \in S : Min(S) <= x
  BY <1>2, <1>3, Extremes
<1>5. QED
  BY <1>4 DEF S

\* A suggestion is made of an answer that was measured, and is more than was
\* asked for.
LEMMA Suggestion ==
    ASSUME NEW d \in Docs, NEW c, Asked(c), Answer(d, c).raise # None
    PROVE  /\ ValidPaths(c.paths) /\ (c.table # None => ValidTable(c.table))
           /\ c.cut = FALSE /\ c.max_bytes < MaxAllowedBytes
           /\ BodyBytes(d, c) > c.max_bytes
           /\ Answer(d, c).raise = Min({BodyBytes(d, c), MaxAllowedBytes})
<1>1. \A s : Refused(s).raise = None
  BY DEF Refused
<1>2. \A b : Returned(b).raise = None
  BY DEF Refused, Returned
<1>3. \A r, b, p : Omitted(r, b, p, c).raise = SuggestedMaxBytes(r, b, c)
  BY DEF Omitted
<1>4. \A b : SuggestedMaxBytes("source", b, c) = None
  BY DEF SuggestedMaxBytes
<1>5. c.max_bytes \in Nat /\ BodyBytes(d, c) \in Nat
  BY BodyBytesType DEF Asked
<1>6. /\ ValidPaths(c.paths) /\ (c.table # None => ValidTable(c.table))
      /\ ~(c.cap > 0 /\ c.max_bytes > c.cap) /\ c.max_bytes \in 1 .. MaxAllowedBytes
  BY <1>1 DEF Answer
<1>7. ~c.cut
  BY <1>3, <1>4, <1>6 DEF Answer
<1>8. ~(BodyBytes(d, c) <= c.max_bytes)
  BY <1>2, <1>6, <1>7 DEF Answer
<1>9. PICK r \in {"projection", "output"} :
         Answer(d, c).raise = SuggestedMaxBytes(r, BodyBytes(d, c), c)
  BY <1>3, <1>6, <1>7, <1>8 DEF Answer
<1>10. c.max_bytes < MaxAllowedBytes
       /\ Answer(d, c).raise = Min({BodyBytes(d, c), MaxAllowedBytes})
  BY <1>9 DEF SuggestedMaxBytes
<1>11. c.cut = FALSE
  BY <1>7 DEF Asked
<1>12. BodyBytes(d, c) > c.max_bytes
  BY ONLY <1>5, <1>8
<1>13. QED
  BY <1>6, <1>10, <1>11, <1>12

\* Asked again with what was suggested, the target's answer is returned, or
\* denied by the credential's policy, or longer than may be asked for.
LEMMA RaisedAnswer ==
    ASSUME NEW d \in Docs, NEW c, Asked(c), Answer(d, c).raise # None,
           NEW e, e = [c EXCEPT !.max_bytes = Answer(d, c).raise]
    PROVE  /\ Asked(e) /\ e.max_bytes > c.max_bytes
           /\ \/ Answer(d, e).state = "returned"
              \/ Answer(d, e).state = "denied" /\ c.cap > 0
              \/ e.max_bytes = MaxAllowedBytes /\ Answer(d, e).raise = None
<1> DEFINE b == BodyBytes(d, c)
<1>1. /\ ValidPaths(c.paths) /\ (c.table # None => ValidTable(c.table))
      /\ c.cut = FALSE /\ c.max_bytes < MaxAllowedBytes
      /\ b > c.max_bytes
      /\ Answer(d, c).raise = Min({b, MaxAllowedBytes})
  BY Suggestion
<1>2. b \in Nat /\ MaxAllowedBytes \in Nat /\ c.max_bytes \in 1 .. MaxAllowedBytes
  BY BodyBytesType, JsonOutputAssumption DEF Asked
<1>3. e.max_bytes = Answer(d, c).raise /\ e.paths = c.paths /\ e.table = c.table
      /\ e.cap = c.cap /\ e.cut = c.cut
      /\ e = [max_bytes |-> e.max_bytes, paths |-> e.paths, table |-> e.table,
              cap |-> e.cap, cut |-> e.cut]
  BY DEF Asked
<1>4. e.max_bytes = IF b <= MaxAllowedBytes THEN b ELSE MaxAllowedBytes
  BY <1>1, <1>2, <1>3, MinOfTwo
<1> HIDE DEF b
<1>5. e.max_bytes > c.max_bytes /\ e.max_bytes \in 1 .. MaxAllowedBytes
  BY <1>1, <1>2, <1>4
<1>6. Asked(e)
  BY <1>3, <1>5 DEF Asked
<1>7. BodyBytes(d, e) = b
  BY <1>3 DEF BodyBytes, b
<1>8. CASE e.cap > 0 /\ e.max_bytes > e.cap
  <2>1. Answer(d, e) = Refused("denied")
    BY <1>1, <1>3, <1>5, <1>8 DEF Answer
  <2>2. QED
    BY <1>3, <1>5, <1>6, <1>8, <2>1 DEF Refused
<1>9. CASE ~(e.cap > 0 /\ e.max_bytes > e.cap) /\ b <= MaxAllowedBytes
  <2>1. b <= e.max_bytes
    BY <1>2, <1>4, <1>9
  <2>2. Answer(d, e) = Returned(b)
    BY <1>1, <1>3, <1>5, <1>7, <1>9, <2>1 DEF Answer
  <2>3. Answer(d, e).state = "returned"
    BY <2>2 DEF Returned, Refused
  <2>4. QED
    BY <1>5, <1>6, <2>3
<1>10. CASE ~(e.cap > 0 /\ e.max_bytes > e.cap) /\ ~(b <= MaxAllowedBytes)
  <2>1. e.max_bytes = MaxAllowedBytes /\ ~(b <= e.max_bytes)
    BY <1>4, <1>10
  <2>2. ~(e.max_bytes < MaxAllowedBytes)
    BY <1>2, <2>1
  <2>3. \A r : SuggestedMaxBytes(r, b, e) = None
    BY <2>2 DEF SuggestedMaxBytes
  <2>4. \A r, p : Omitted(r, b, p, e).raise = None
    BY <2>3 DEF Omitted
  <2>5. Answer(d, e).raise = None
    BY <1>1, <1>3, <1>5, <1>7, <1>10, <2>1, <2>4 DEF Answer
  <2>6. QED
    BY <1>5, <1>6, <2>1, <2>5
<1>11. QED
  BY <1>8, <1>9, <1>10

\* Every answer of the dialog is the one to its latest call.
THEOREM DialogInvariant == DialogSpec => []DialogInv
<1>1. DialogInit => DialogInv
  BY DEF DialogInit, DialogInv
<1>2. DialogInv /\ [DialogNext]_dialogVars => DialogInv'
  <2> SUFFICES ASSUME DialogInv, [DialogNext]_dialogVars
               PROVE  DialogInv'
    OBVIOUS
  <2>1. ASSUME NEW c, Call(c), Asked(c)
        PROVE  DialogInv'
    BY <2>1 DEF DialogInv, Call
  <2>2. CASE Ask
    <3>1. PICK max_bytes \in Budgets, cap \in Caps, cut \in BOOLEAN :
            \/ \E paths \in Selections :
                 Call([max_bytes |-> max_bytes, paths |-> paths, table |-> None,
                       cap |-> cap, cut |-> cut])
            \/ \E table \in Projections :
                 Call([max_bytes |-> max_bytes, paths |-> {}, table |-> table,
                       cap |-> cap, cut |-> cut])
      BY <2>2 DEF Ask
    <3>2. max_bytes \in 1 .. MaxAllowedBytes /\ cap \in Nat
      BY JsonOutputAssumption
    <3>3. ASSUME NEW paths, IsFiniteSet(paths), NEW table \in Projections \cup {None}
          PROVE  Asked([max_bytes |-> max_bytes, paths |-> paths, table |-> table,
                        cap |-> cap, cut |-> cut])
      BY <3>2, <3>3 DEF Asked
    <3>4. IsFiniteSet({}) /\ \A paths \in Selections : IsFiniteSet(paths)
      BY FS_EmptySet, ReadAssumption
    <3>5. QED
      BY <2>1, <3>1, <3>3, <3>4
  <2>3. CASE Raise
    <3>1. calls > 0
      BY <2>3 DEF Raise, DialogInv, Refused
    <3>2. Asked(asked) /\ answer = Answer(doc, asked) /\ doc \in Docs /\ answer.raise # None
      BY <2>3, <3>1 DEF DialogInv, Raise
    <3>3. Asked([asked EXCEPT !.max_bytes = answer.raise])
      BY <3>2, RaisedAnswer
    <3>4. QED
      BY <2>1, <2>3, <3>3 DEF Raise
  <2>4. ASSUME NEW e, Follow(e)
        PROVE  DialogInv'
    <3>1. calls > 0
      BY <2>4 DEF Follow, DialogInv, Refused
    <3>2. Asked(asked)
      BY <3>1 DEF DialogInv
    <3>3. ASSUME NEW paths, IsFiniteSet(paths)
          PROVE  Asked([asked EXCEPT !.paths = paths])
      BY <3>2, <3>3 DEF Asked
    <3>4. IsFiniteSet({e.path})
      BY FS_Singleton
    <3>5. Asked([asked EXCEPT !.paths = {e.path}])
      BY <3>3, <3>4
    <3>6. QED
      BY <2>1, <2>4, <3>5 DEF Follow
  <2>5. CASE UNCHANGED dialogVars
    BY <2>5 DEF DialogInv, dialogVars
  <2>6. QED
    BY <2>2, <2>3, <2>4, <2>5 DEF DialogNext, Ended
<1>3. QED
  BY <1>1, <1>2, PTL DEF DialogSpec

\* json.rs:196: the suggested max_bytes is more than was asked for, may be
\* asked for, and is enough unless the policy or the ceiling is in the way.
THEOREM RaisingIsOfUse == DialogSpec => RaisingLeads
<1> DEFINE Leads ==
      Raise =>
        /\ asked'.max_bytes > asked.max_bytes
        /\ \/ answer'.state = "returned"
           \/ answer'.state = "denied" /\ asked.cap > 0
           \/ asked'.max_bytes = MaxAllowedBytes /\ answer'.raise = None
<1>1. DialogInv /\ [DialogNext]_dialogVars => [Leads]_dialogVars
  <2> SUFFICES ASSUME DialogInv, Raise
               PROVE  Leads
    OBVIOUS
  <2>1. calls > 0
    BY DEF Raise, DialogInv, Refused
  <2>2. Asked(asked) /\ answer = Answer(doc, asked) /\ doc \in Docs /\ answer.raise # None
    BY <2>1 DEF DialogInv, Raise
  <2>3. asked' = [asked EXCEPT !.max_bytes = answer.raise] /\ answer' = Answer(doc, asked')
    BY DEF Raise, Call
  <2>4. QED
    BY <2>2, <2>3, RaisedAnswer
<1>2. QED
  BY <1>1, DialogInvariant, PTL DEF DialogSpec, RaisingLeads

-----------------------------------------------------------------------------
(* The paths of a document *)

\* The first i steps of a path.
LEMMA PrefixOf ==
    ASSUME NEW p \in Seq(Steps), NEW i \in 0 .. Len(p)
    PROVE  /\ Prefix(p, i) \in Seq(Steps) /\ Len(Prefix(p, i)) = i
           /\ \A j \in 1 .. i : Prefix(p, i)[j] = p[j]
           /\ \A j \in 0 .. i : Prefix(Prefix(p, i), j) = Prefix(p, j)
<1>1. Len(p) \in Nat /\ \A j \in 1 .. Len(p) : p[j] \in Steps
  BY LenProperties
<1>2. ASSUME NEW j \in 0 .. Len(p)
      PROVE  /\ Prefix(p, j) \in Seq(Steps) /\ Len(Prefix(p, j)) = j
             /\ \A k \in 1 .. j : Prefix(p, j)[k] = p[k]
  <2>1. j \in Int /\ \A k \in 1 .. j : p[k] \in Steps
    BY <1>1
  <2>2. /\ SubSeq(p, 1, j) \in Seq(Steps)
        /\ Len(SubSeq(p, 1, j)) = IF 1 <= j THEN j - 1 + 1 ELSE 0
        /\ \A k \in 1 .. j - 1 + 1 : SubSeq(p, 1, j)[k] = p[1 + k - 1]
    BY <2>1, SubSeqProperties
  <2>3. QED
    BY <1>1, <2>2 DEF Prefix
<1>3. ASSUME NEW j \in 0 .. i
      PROVE  Prefix(Prefix(p, i), j) = Prefix(p, j)
  <2> DEFINE q == Prefix(p, i)
  <2>1. q \in Seq(Steps) /\ Len(q) = i /\ \A k \in 1 .. i : q[k] = p[k]
    BY <1>2
  <2> HIDE DEF q
  <2>2. j \in Int /\ j \in 0 .. Len(p) /\ \A k \in 1 .. j : q[k] \in Steps
    BY <1>1, <2>1
  <2>3. /\ SubSeq(q, 1, j) \in Seq(Steps)
        /\ Len(SubSeq(q, 1, j)) = IF 1 <= j THEN j - 1 + 1 ELSE 0
        /\ \A k \in 1 .. j - 1 + 1 : SubSeq(q, 1, j)[k] = q[1 + k - 1]
    BY <2>2, SubSeqProperties
  <2>4. /\ Prefix(q, j) \in Seq(Steps) /\ Len(Prefix(q, j)) = j
        /\ \A k \in 1 .. j : Prefix(q, j)[k] = q[k]
    BY <2>2, <2>3 DEF Prefix
  <2>5. /\ Prefix(p, j) \in Seq(Steps) /\ Len(Prefix(p, j)) = j
        /\ \A k \in 1 .. j : Prefix(p, j)[k] = p[k]
    BY <1>2, <2>2
  <2>6. \A k \in 1 .. j : Prefix(q, j)[k] = Prefix(p, j)[k]
    BY <2>1, <2>2, <2>4, <2>5
  <2>7. Prefix(q, j) = Prefix(p, j)
    BY <2>4, <2>5, <2>6, SeqEqual
  <2>8. QED
    BY <2>7 DEF q
<1>4. QED
  BY <1>2, <1>3

\* A path is the prefix of itself of its own length, and no step is [*].
LEMMA WholePath ==
    ASSUME NEW p \in Seq(Steps)
    PROVE  /\ Len(p) \in Nat /\ DOMAIN p = 1 .. Len(p) /\ Prefix(p, Len(p)) = p
           /\ Prefix(p, 0) = <<>>
           /\ \A i \in DOMAIN p : p[i] \in Steps /\ p[i] # All
<1>1. Len(p) \in Nat /\ DOMAIN p = 1 .. Len(p) /\ \A i \in DOMAIN p : p[i] \in Steps
  BY LenProperties
<1>2. Prefix(p, Len(p)) = p
  <2>1. Len(p) \in 0 .. Len(p)
    BY <1>1
  <2>2. /\ Prefix(p, Len(p)) \in Seq(Steps) /\ Len(Prefix(p, Len(p))) = Len(p)
        /\ \A j \in 1 .. Len(p) : Prefix(p, Len(p))[j] = p[j]
    BY <2>1, PrefixOf
  <2>3. QED
    BY <2>2, SeqEqual
<1>3. Prefix(p, 0) = <<>>
  BY SubSeqEmpty DEF Prefix
<1>4. \A step \in Steps : step # All
  BY DEF Steps, All
<1>5. QED
  BY <1>1, <1>2, <1>3, <1>4

\* A node's ancestors are nodes, and objects or arrays as its path says.
LEMMA Ancestors ==
    ASSUME NEW d, Document(d), NEW p \in DOMAIN d
    PROVE  /\ p \in Seq(Steps)
           /\ \A i \in 0 .. Len(p) : Prefix(p, i) \in DOMAIN d
           /\ \A i \in 1 .. Len(p) :
                /\ d[Prefix(p, i - 1)] = IF p[i][1] = "name" THEN "object" ELSE "array"
                /\ p[i][1] = "item" => \A j \in 0 .. p[i][2] :
                      Append(Prefix(p, i - 1), <<"item", j>>) \in DOMAIN d
<1>1. p \in Seq(Steps) /\ Len(p) \in Nat
  BY WholePath DEF Document
<1> DEFINE T == {k \in Nat : k <= Len(p) => Prefix(p, Len(p) - k) \in DOMAIN d}
<1>2. ASSUME NEW i \in 1 .. Len(p), Prefix(p, i) \in DOMAIN d
      PROVE  /\ Prefix(p, i - 1) \in DOMAIN d
             /\ d[Prefix(p, i - 1)] = IF p[i][1] = "name" THEN "object" ELSE "array"
             /\ p[i][1] = "item" => \A j \in 0 .. p[i][2] :
                   Append(Prefix(p, i - 1), <<"item", j>>) \in DOMAIN d
  <2> DEFINE q == Prefix(p, i)
  <2>1. i \in 0 .. Len(p) /\ i - 1 \in 0 .. i /\ i \in 1 .. i /\ i # 0
    BY <1>1
  <2>2. Len(q) = i /\ q[i] = p[i] /\ Prefix(q, i - 1) = Prefix(p, i - 1)
    BY <1>1, <2>1, PrefixOf
  <2>3. Len(<<>>) = 0
    OBVIOUS
  <2> HIDE DEF q
  <2>4. q \in DOMAIN d \ {<<>>}
    <3>1. q # <<>>
      BY <2>1, <2>2, <2>3
    <3>2. QED
      BY <1>2, <3>1 DEF q
  <2>5. /\ Parent(q) \in DOMAIN d
        /\ d[Parent(q)] = IF q[Len(q)][1] = "name" THEN "object" ELSE "array"
        /\ q[Len(q)][1] = "item" => \A j \in 0 .. q[Len(q)][2] :
              Append(Parent(q), <<"item", j>>) \in DOMAIN d
    BY <2>4 DEF Document
  <2>6. Parent(q) = Prefix(p, i - 1)
    BY <2>2 DEF Parent
  <2>7. QED
    BY <2>2, <2>5, <2>6
<1>3. T = Nat
  <2>1. 0 \in T
    <3>1. Len(p) - 0 = Len(p) /\ Prefix(p, Len(p)) = p
      BY <1>1, WholePath
    <3>2. QED
      BY <3>1
  <2>2. ASSUME NEW k \in T
        PROVE  k + 1 \in T
    <3> SUFFICES ASSUME k + 1 <= Len(p)
                 PROVE  Prefix(p, Len(p) - (k + 1)) \in DOMAIN d
      OBVIOUS
    <3>1. k \in Nat /\ Len(p) - k \in 1 .. Len(p) /\ k <= Len(p)
          /\ Len(p) - (k + 1) = (Len(p) - k) - 1
      BY <1>1
    <3>2. Prefix(p, Len(p) - k) \in DOMAIN d
      BY <3>1
    <3>3. QED
      BY <1>2, <3>1, <3>2
  <2>3. T \in SUBSET Nat
    OBVIOUS
  <2> HIDE DEF T
  <2>4. QED
    BY <2>1, <2>2, <2>3, Induction
<1>4. ASSUME NEW i \in 0 .. Len(p)
      PROVE  Prefix(p, i) \in DOMAIN d
  <2>1. Len(p) - i \in Nat /\ Len(p) - i <= Len(p) /\ Len(p) - (Len(p) - i) = i
    BY <1>1
  <2>2. \A k \in Nat : k \in T
    <3> HIDE DEF T
    <3>1. QED
      BY <1>3
  <2>3. \A k \in Nat : k <= Len(p) => Prefix(p, Len(p) - k) \in DOMAIN d
    BY <2>2
  <2>4. QED
    BY <2>1, <2>3
<1>5. \A i \in 1 .. Len(p) : Prefix(p, i) \in DOMAIN d
  BY <1>4
<1>6. QED
  BY <1>1, <1>2, <1>4, <1>5

-----------------------------------------------------------------------------
(* Ranking *)

\* The score of an entry is a number: entries have been present.
LEMMA ScoreType ==
    ASSUME NEW e, e.present \in Nat
    PROVE  Score(e) \in Nat
<1> DEFINE a == IF e.stopped THEN 1000 ELSE 0
           b == CASE e.type = "object" -> 200 [] e.type = "array" -> 100 [] OTHER -> 0
<1>1. a \in 0 .. 1000
  OBVIOUS
<1>2. b \in 0 .. 200
  OBVIOUS
<1>3. Score(e) = (1200 + e.present) - (a + b)
  BY DEF Score
<1> HIDE DEF a, b
<1>4. QED
  BY <1>1, <1>2, <1>3

\* Some entry of any has the highest score.
LEMMA BestEntry ==
    ASSUME NEW E, IsFiniteSet(E), E # {}, \A e \in E : e.present \in Nat
    PROVE  \E e \in E : \A f \in E : Score(e) >= Score(f)
<1> DEFINE S == {Score(e) : e \in E}
           g == [e \in E |-> Score(e)]
<1>1. S \in SUBSET Nat /\ S # {}
  BY ScoreType
<1>2. g \in Surjection(E, S)
  BY DEF Surjection
<1>3. IsFiniteSet(S)
  BY <1>2, FS_Surjection
<1>4. Max(S) \in S /\ \A x \in S : x <= Max(S)
  <2> HIDE DEF S
  <2>1. QED
    BY <1>1, <1>3, Extremes
<1>5. PICK e \in E : Max(S) = Score(e)
  BY <1>4
<1>6. ASSUME NEW f \in E
      PROVE  Score(e) >= Score(f)
  <2>1. Score(f) <= Score(e)
    BY <1>4, <1>5
  <2>2. Score(f) \in Nat /\ Score(e) \in Nat
    BY ScoreType
  <2>3. QED
    BY <2>1, <2>2
<1>7. QED
  BY <1>6

\* The first k of some entries by score are k of them.
LEMMA RankedEntries ==
    ASSUME NEW E, IsFiniteSet(E), \A e \in E : e.present \in Nat
    PROVE  /\ DOMAIN Ranked(E) = 0 .. Cardinality(E)
           /\ \A k \in 0 .. Cardinality(E) :
                 Ranked(E)[k] \in SUBSET E /\ Cardinality(Ranked(E)[k]) = k
           /\ Ranked(E)[0] = {}
<1> DEFINE n == Cardinality(E)
           Top(s) == CHOOSE e \in E \ s : \A f \in E \ s : Score(e) >= Score(f)
           Rank(k, best) == IF k = 0 THEN {} ELSE best[k - 1] \cup {Top(best[k - 1])}
           Has(m) == \E h : h = [k \in 0 .. m |-> Rank(k, h)]
           T == {m \in Nat : Has(m)}
           best == CHOOSE best : best = [k \in 0 .. n |-> Rank(k, best)]
<1>1. Ranked(E) = best
  BY DEF Ranked
<1>2. n \in Nat
  BY FS_CardinalityType
<1>3. ASSUME NEW s \in SUBSET E, Cardinality(s) < n
      PROVE  /\ s \cup {Top(s)} \in SUBSET E
             /\ Cardinality(s \cup {Top(s)}) = Cardinality(s) + 1
  <2>1. IsFiniteSet(s) /\ IsFiniteSet(E \ s)
    BY FS_Subset
  <2>2. E \ s # {}
    <3>1. s # E
      BY <1>2, <1>3
    <3>2. QED
      BY <3>1
  <2>3. \E e \in E \ s : \A f \in E \ s : Score(e) >= Score(f)
    <3> DEFINE F == E \ s
    <3>1. IsFiniteSet(F) /\ F # {} /\ \A e \in F : e.present \in Nat
      BY <2>1, <2>2
    <3> HIDE DEF F
    <3>2. \E e \in F : \A f \in F : Score(e) >= Score(f)
      BY <3>1, BestEntry
    <3>3. QED
      BY <3>2 DEF F
  <2>4. Top(s) \in E \ s
    BY <2>3
  <2> HIDE DEF Top
  <2>5. QED
    BY <2>1, <2>4, FS_AddElement
<1> HIDE DEF Top
<1>4. Has(0)
  <2> DEFINE h == [k \in 0 .. 0 |-> {}]
  <2>1. h = [k \in 0 .. 0 |-> Rank(k, h)]
    OBVIOUS
  <2>2. QED
    BY <2>1
<1>5. ASSUME NEW m \in Nat, Has(m)
      PROVE  Has(m + 1)
  <2>1. PICK h : h = [k \in 0 .. m |-> Rank(k, h)]
    BY <1>5
  <2> DEFINE g == [k \in 0 .. m + 1 |-> IF k <= m THEN h[k] ELSE h[m] \cup {Top(h[m])}]
  <2>2. ASSUME NEW k \in 0 .. m + 1
        PROVE  g[k] = Rank(k, g)
    <3>1. CASE k = 0
      BY <2>1, <3>1
    <3>2. CASE k # 0 /\ k <= m
      <4>1. k \in 0 .. m /\ k - 1 \in 0 .. m + 1 /\ k - 1 <= m
        BY <3>2
      <4>2. g[k] = h[k] /\ g[k - 1] = h[k - 1]
        BY <4>1, <3>2
      <4>3. h[k] = Rank(k, h)
        BY <2>1, <4>1
      <4> HIDE DEF g
      <4>4. QED
        BY <3>2, <4>2, <4>3
    <3>3. CASE k # 0 /\ ~(k <= m)
      <4>1. k = m + 1 /\ k - 1 = m /\ m \in 0 .. m + 1 /\ m <= m
        BY <3>3
      <4>2. g[k] = h[m] \cup {Top(h[m])} /\ g[k - 1] = h[m]
        BY <4>1, <3>3
      <4> HIDE DEF g
      <4>3. QED
        BY <3>3, <4>1, <4>2
    <3>4. QED
      BY <3>1, <3>2, <3>3
  <2>3. g = [k \in 0 .. m + 1 |-> Rank(k, g)]
    <3>1. g = [k \in 0 .. m + 1 |-> g[k]]
      OBVIOUS
    <3> HIDE DEF g, Rank
    <3>2. QED
      BY <2>2, <3>1
  <2> HIDE DEF g
  <2>4. QED
    BY <2>3
<1>6. T = Nat
  <2> HIDE DEF Has
  <2>1. 0 \in T /\ \A m \in T : m + 1 \in T
    BY <1>4, <1>5
  <2>2. T \in SUBSET Nat
    OBVIOUS
  <2> HIDE DEF T
  <2>3. QED
    BY <2>1, <2>2, Induction
<1>7. Has(n)
  <2> HIDE DEF Has
  <2>1. QED
    BY <1>2, <1>6
<1>8. best = [k \in 0 .. n |-> Rank(k, best)]
  <2> HIDE DEF Rank
  <2>1. QED
    BY <1>7
<1> HIDE DEF best
<1>9. best[0] = {} /\ \A k \in 0 .. n : k # 0 => best[k] = best[k - 1] \cup {Top(best[k - 1])}
  <2>1. 0 \in 0 .. n
    BY <1>2
  <2>2. \A k \in 0 .. n : best[k] = Rank(k, best)
    <3> HIDE DEF Rank
    <3>1. QED
      BY <1>8
  <2>3. QED
    BY <2>1, <2>2
<1> DEFINE U == {k \in Nat : k <= n => best[k] \in SUBSET E /\ Cardinality(best[k]) = k}
<1>10. U = Nat
  <2>1. 0 \in U
    BY <1>9, FS_EmptySet
  <2>2. ASSUME NEW k \in U
        PROVE  k + 1 \in U
    <3> SUFFICES ASSUME k + 1 <= n
                 PROVE  best[k + 1] \in SUBSET E /\ Cardinality(best[k + 1]) = k + 1
      OBVIOUS
    <3>1. k \in Nat /\ k <= n /\ k < n /\ k + 1 \in 0 .. n /\ k + 1 # 0 /\ (k + 1) - 1 = k
      BY <1>2
    <3>2. best[k] \in SUBSET E /\ Cardinality(best[k]) = k
      BY <3>1
    <3>3. best[k + 1] = best[k] \cup {Top(best[k])}
      BY <1>9, <3>1
    <3>4. QED
      BY <1>3, <3>1, <3>2, <3>3
  <2>3. U \in SUBSET Nat
    OBVIOUS
  <2> HIDE DEF U
  <2>4. QED
    BY <2>1, <2>2, <2>3, Induction
<1>11. ASSUME NEW k \in 0 .. n
       PROVE  best[k] \in SUBSET E /\ Cardinality(best[k]) = k
  <2>1. k \in Nat /\ k <= n
    BY <1>2
  <2>2. \A j \in Nat : j \in U
    <3> HIDE DEF U
    <3>1. QED
      BY <1>10
  <2>3. QED
    BY <2>1, <2>2
<1>12. DOMAIN best = 0 .. n
  <2> HIDE DEF Rank
  <2>1. QED
    BY <1>8
<1>13. QED
  BY <1>1, <1>9, <1>11, <1>12

\* The preview shows entries of its own, and when it shows as many as there
\* are it shows them all.
LEMMA ShownEntries ==
    ASSUME NEW d, Document(d)
    PROVE  /\ Shown(d) \in SUBSET Stats(d)
           /\ Cardinality(Shown(d)) = Cardinality(Stats(d)) => Shown(d) = Stats(d)
<1> DEFINE E == Stats(d)
           best == Ranked(E)
           Sum(k) == SumFunction([e \in best[k] |-> EntryBytes(e)])
           fits == {k \in DOMAIN best : k <= MaxPreviewPaths /\ Sum(k) <= MaxPreviewBytes}
           g == [p \in Visited(d) |-> Stat(d, PathOf(d, p))]
<1>1. Visited(d) \in SUBSET DOMAIN d /\ IsFiniteSet(Visited(d))
  <2>1. Visited(d) \in SUBSET DOMAIN d
    BY DEF Visited
  <2>2. QED
    BY <2>1, NodesFinite
<1>2. g \in Surjection(Visited(d), E)
  BY DEF Stats, Surjection
<1>3. IsFiniteSet(E)
  BY <1>1, <1>2, FS_Surjection
<1>4. \A e \in E : e.present \in Nat
  <2> SUFFICES ASSUME NEW path
               PROVE  Stat(d, path).present \in Nat
    BY DEF Stats
  <2> DEFINE nodes == {p \in Visited(d) : PathOf(d, p) = path}
  <2>1. nodes \in SUBSET DOMAIN d
    BY <1>1
  <2>2. Stat(d, path).present = Cardinality(nodes)
    BY DEF Stat
  <2> HIDE DEF nodes
  <2>3. QED
    BY <2>1, <2>2, NodesFinite
<1> HIDE DEF E
<1>5. /\ DOMAIN best = 0 .. Cardinality(E)
      /\ \A k \in 0 .. Cardinality(E) : best[k] \in SUBSET E
      /\ best[0] = {}
  BY <1>3, <1>4, RankedEntries
<1>6. Cardinality(E) \in Nat
  BY <1>3, FS_CardinalityType
<1>7. 0 \in fits
  <2>1. DOMAIN [e \in best[0] |-> EntryBytes(e)] = {}
    BY <1>5
  <2>2. Sum(0) = 0
    <3> DEFINE f == [e \in best[0] |-> EntryBytes(e)]
    <3>1. DOMAIN f = {} /\ IsFiniteSet(DOMAIN f) /\ \A x \in DOMAIN f : f[x] \in Nat
      BY <2>1, FS_EmptySet
    <3> HIDE DEF f
    <3>2. SumFunction(f) = 0
      BY <3>1, SumIsNumber
    <3>3. QED
      BY <3>2 DEF f
  <2> HIDE DEF Sum
  <2>3. QED
    BY <1>5, <1>6, <2>2, JsonOutputAssumption
<1>8. Max(fits) \in fits
  <2>1. fits \in SUBSET (0 .. Cardinality(E))
    BY <1>5
  <2>2. IsFiniteSet(0 .. Cardinality(E))
    BY <1>6, FS_Interval
  <2> HIDE DEF fits
  <2>3. fits \in SUBSET Nat
    BY <1>6, <2>1
  <2>4. IsFiniteSet(fits)
    BY <2>1, <2>2, FS_Subset
  <2>5. QED
    BY <1>7, <2>3, <2>4, Extremes
<1>9. Shown(d) = best[Max(fits)]
  BY DEF Shown, E
<1>10. Shown(d) \in SUBSET E
  BY <1>5, <1>8, <1>9
<1>11. Cardinality(Shown(d)) = Cardinality(E) => Shown(d) = E
  BY <1>3, <1>10, FS_Subset
<1>12. QED
  BY <1>10, <1>11 DEF E

-----------------------------------------------------------------------------
(* The preview *)

\* A path and its prefixes have the arrays of the longer one in common.
LEMMA ArraysOfPrefix ==
    ASSUME NEW d, NEW p \in Seq(Steps), NEW m \in 0 .. Len(p)
    PROVE  /\ Arrays(d, Prefix(p, m)) = {i \in Arrays(d, p) : i < m}
           /\ Arrays(d, p) = {i \in 0 .. Len(p) - 1 : d[Prefix(p, i)] = "array"}
<1>1. Len(p) \in Nat /\ Len(Prefix(p, m)) = m
  BY WholePath, PrefixOf
<1>2. \A i \in 0 .. m : Prefix(Prefix(p, m), i) = Prefix(p, i)
  BY PrefixOf
<1>3. Arrays(d, Prefix(p, m)) = {i \in 0 .. m - 1 : d[Prefix(p, i)] = "array"}
  BY <1>1, <1>2 DEF Arrays
<1>4. 0 .. m - 1 = {i \in 0 .. Len(p) - 1 : i < m}
  BY <1>1
<1>5. Arrays(d, p) = {i \in 0 .. Len(p) - 1 : d[Prefix(p, i)] = "array"}
  BY DEF Arrays
<1>6. QED
  BY <1>3, <1>4, <1>5

\* A path and the path it is counted under are as long, and agree but at the
\* arrays.
LEMMA PathOfShape ==
    ASSUME NEW d, NEW p \in Seq(Steps)
    PROVE  /\ DOMAIN PathOf(d, p) = 1 .. Len(p) /\ Len(PathOf(d, p)) = Len(p)
           /\ PathOf(d, p) \in Seq(Steps \cup {All})
           /\ \A i \in 1 .. Len(p) :
                PathOf(d, p)[i] = IF i - 1 \in Arrays(d, p) THEN All ELSE p[i]
<1>1. Len(p) \in Nat /\ DOMAIN p = 1 .. Len(p) /\ \A i \in DOMAIN p : p[i] \in Steps
  BY WholePath
<1> DEFINE f == [i \in 1 .. Len(p) |-> IF i - 1 \in Arrays(d, p) THEN All ELSE p[i]]
<1>2. PathOf(d, p) = f
  BY <1>1 DEF PathOf
<1>3. f \in [1 .. Len(p) -> Steps \cup {All}]
  BY <1>1
<1>4. f \in Seq(Steps \cup {All})
  BY <1>1, <1>3
<1>5. DOMAIN f = 1 .. Len(p) /\ Len(f) = Len(p)
  BY <1>1, <1>4, LenProperties
<1>6. QED
  BY <1>2, <1>4, <1>5

\* The path of an ancestor is above the path of the node.
LEMMA PathAbove ==
    ASSUME NEW d, NEW p \in Seq(Steps), NEW m \in 0 .. Len(p)
    PROVE  IsPrefix(PathOf(d, Prefix(p, m)), PathOf(d, p))
<1> DEFINE q == Prefix(p, m)
           s == PathOf(d, q)
           t == PathOf(d, p)
           S == Steps \cup {All}
<1>1. /\ Len(p) \in Nat /\ q \in Seq(Steps) /\ Len(q) = m
      /\ \A j \in 1 .. m : q[j] = p[j]
  BY WholePath, PrefixOf
<1>2. /\ s \in Seq(S) /\ Len(s) = m
      /\ \A i \in 1 .. m : s[i] = IF i - 1 \in Arrays(d, q) THEN All ELSE q[i]
  <2> HIDE DEF q
  <2>1. QED
    BY <1>1, PathOfShape
<1>3. /\ t \in Seq(S) /\ Len(t) = Len(p)
      /\ \A i \in 1 .. Len(p) : t[i] = IF i - 1 \in Arrays(d, p) THEN All ELSE p[i]
  BY PathOfShape
<1>4. Arrays(d, q) = {i \in Arrays(d, p) : i < m}
  BY ArraysOfPrefix
<1> HIDE DEF q, s, t, S
<1>5. ASSUME NEW i \in 1 .. m
      PROVE  s[i] = t[i]
  <2>1. i \in 1 .. Len(p) /\ i - 1 < m
    BY <1>1
  <2>2. i - 1 \in Arrays(d, q) <=> i - 1 \in Arrays(d, p)
    BY <1>4, <2>1
  <2>3. QED
    BY <1>1, <1>2, <1>3, <2>1, <2>2
<1>6. \A i \in 1 .. m : s[i] \in S /\ t[i] \in S
  <2>1. \A i \in 1 .. m : i \in 1 .. Len(t)
    BY <1>1, <1>3
  <2>2. QED
    BY <1>2, <1>3, <2>1, LenProperties
<1>7. m \in Int /\ m - 1 + 1 = m
  OBVIOUS
<1>8. /\ SubSeq(s, 1, m) \in Seq(S) /\ SubSeq(t, 1, m) \in Seq(S)
      /\ Len(SubSeq(s, 1, m)) = Len(SubSeq(t, 1, m))
      /\ Len(SubSeq(s, 1, m)) = IF 1 <= m THEN m ELSE 0
      /\ \A i \in 1 .. m : SubSeq(s, 1, m)[i] = s[1 + i - 1] /\ SubSeq(t, 1, m)[i] = t[1 + i - 1]
  BY <1>6, <1>7, SubSeqProperties
<1>9. SubSeq(s, 1, m) = SubSeq(t, 1, m)
  <2>1. \A i \in 1 .. Len(SubSeq(s, 1, m)) : SubSeq(s, 1, m)[i] = SubSeq(t, 1, m)[i]
    <3>1. Len(SubSeq(s, 1, m)) = m /\ \A i \in 1 .. m : 1 + i - 1 = i
      BY <1>8
    <3>2. QED
      BY <1>5, <1>8, <3>1
  <2>2. QED
    BY <1>8, <2>1, SeqEqual
<1>10. Len(s) <= Len(t)
  BY <1>1, <1>2, <1>3
<1>11. QED
  BY <1>2, <1>9, <1>10 DEF IsPrefix, s, t, q

\* The arrays above a node are finite in number.
LEMMA ArraysFinite ==
    ASSUME NEW d, NEW p \in Seq(Steps)
    PROVE  /\ IsFiniteSet(Arrays(d, p)) /\ Cardinality(Arrays(d, p)) \in Nat
           /\ Arrays(d, p) \in SUBSET (0 .. Len(p) - 1)
<1>1. Len(p) \in Nat /\ Arrays(d, p) \in SUBSET (0 .. Len(p) - 1)
  BY WholePath DEF Arrays
<1>2. IsFiniteSet(0 .. Len(p) - 1)
  <2>1. 0 \in Int /\ Len(p) - 1 \in Int
    BY <1>1
  <2>2. QED
    BY <2>1, FS_Interval
<1>3. QED
  BY <1>1, <1>2, FS_Subset, FS_CardinalityType

\* An array with an item has all the items before it.
LEMMA ItemsAreCounted ==
    ASSUME NEW d, Document(d), NEW q \in DOMAIN d, NEW j \in Nat,
           \A i \in 0 .. j : Append(q, <<"item", i>>) \in DOMAIN d
    PROVE  Cardinality(Children(d, q)) > j
<1> DEFINE C == Children(d, q)
           f == [i \in 0 .. j |-> Append(q, <<"item", i>>)]
<1>1. q \in Seq(Steps) /\ Len(q) \in Nat
  BY Ancestors, WholePath
<1>2. ASSUME NEW i \in 0 .. j
      PROVE  /\ f[i] \in C
             /\ f[i][Len(q) + 1] = <<"item", i>>
  <2>1. <<"item", i>> \in Steps
    BY DEF Steps
  <2>2. /\ f[i] \in Seq(Steps) /\ Len(f[i]) = Len(q) + 1
        /\ \A k \in 1 .. Len(q) : f[i][k] = q[k]
        /\ f[i][Len(q) + 1] = <<"item", i>>
    BY <1>1, <2>1, AppendProperties
  <2>3. f[i] \in DOMAIN d
    OBVIOUS
  <2> HIDE DEF f
  <2>4. Len(q) \in 0 .. Len(f[i])
    BY <1>1, <2>2
  <2>5. /\ Prefix(f[i], Len(q)) \in Seq(Steps) /\ Len(Prefix(f[i], Len(q))) = Len(q)
        /\ \A k \in 1 .. Len(q) : Prefix(f[i], Len(q))[k] = f[i][k]
    BY <2>2, <2>4, PrefixOf
  <2>6. Prefix(f[i], Len(q)) = q
    BY <1>1, <2>2, <2>5, SeqEqual
  <2>7. QED
    BY <1>1, <2>2, <2>3, <2>6 DEF Children, Under
<1>3. f \in Injection(0 .. j, C)
  <2>1. f \in [0 .. j -> C]
    <3>1. DOMAIN f = 0 .. j /\ f = [i \in 0 .. j |-> f[i]]
      OBVIOUS
    <3> HIDE DEF f, C
    <3>2. QED
      BY <1>2, <3>1
  <2>2. ASSUME NEW a \in 0 .. j, NEW b \in 0 .. j, f[a] = f[b]
        PROVE  a = b
    <3>1. <<"item", a>> = <<"item", b>>
      <4> HIDE DEF f
      <4>1. QED
        BY <1>2, <2>2
    <3>2. QED
      BY <3>1
  <2>3. DOMAIN f = 0 .. j
    OBVIOUS
  <2> HIDE DEF f, C
  <2>4. QED
    BY <2>1, <2>2, <2>3 DEF Injection, IsInjective
<1>4. IsFiniteSet(C) /\ Cardinality(C) \in Nat
  BY NodesFinite DEF Children, Under
<1>5. Cardinality(0 .. j) <= Cardinality(C)
  <2> HIDE DEF C, f
  <2>1. QED
    BY <1>3, <1>4, FS_Injection
<1>6. Cardinality(0 .. j) = j + 1
  BY FS_Interval
<1> HIDE DEF C
<1>7. Cardinality(C) > j
  BY <1>4, <1>5, <1>6
<1>8. QED
  BY <1>7 DEF C

\* The entry of a node that is visited.
LEMMA EntryOf ==
    ASSUME NEW d, Document(d), NEW q \in Visited(d)
    PROVE  /\ Stat(d, PathOf(d, q)) \in Stats(d)
           /\ Stat(d, PathOf(d, q)).path = PathOf(d, q)
           /\ Stopped(d, q) => Stat(d, PathOf(d, q)).stopped
           /\ d[q] = "array" =>
                /\ Stat(d, PathOf(d, q)).max \in Nat
                /\ Cardinality(Children(d, q)) <= Stat(d, PathOf(d, q)).max
<1> DEFINE path == PathOf(d, q)
           nodes == {p \in Visited(d) : PathOf(d, p) = path}
           lists == {p \in nodes : d[p] = "array"}
           Size(p) == Cardinality(Children(d, p))
           sizes == {Size(p) : p \in lists}
           g == [p \in lists |-> Size(p)]
<1>1. Stat(d, path) \in Stats(d)
  BY DEF Stats
<1>2. /\ Stat(d, path).path = path
      /\ Stat(d, path).stopped = \E p \in nodes : Stopped(d, p)
      /\ Stat(d, path).max = IF sizes = {} THEN None ELSE Max(sizes)
  BY DEF Stat
<1>3. q \in nodes
  OBVIOUS
<1>4. Visited(d) \in SUBSET DOMAIN d
  BY DEF Visited
<1>5. ASSUME d[q] = "array"
      PROVE  Stat(d, path).max \in Nat /\ Size(q) <= Stat(d, path).max
  <2>1. IsFiniteSet(lists)
    BY <1>4, NodesFinite
  <2>2. g \in Surjection(lists, sizes)
    <3> HIDE DEF lists, Size
    <3>1. QED
      BY DEF Surjection
  <2>3. IsFiniteSet(sizes)
    <3> HIDE DEF lists, sizes, g
    <3>1. QED
      BY <2>1, <2>2, FS_Surjection
  <2>4. \A p : Size(p) \in Nat
    BY NodesFinite DEF Children, Under
  <2>5. Size(q) \in sizes
    BY <1>3, <1>5
  <2>6. sizes \in SUBSET Nat
    <3> HIDE DEF lists, Size
    <3>1. QED
      BY <2>4
  <2> HIDE DEF sizes, Size
  <2>7. Max(sizes) \in sizes /\ Size(q) <= Max(sizes)
    BY <2>3, <2>5, <2>6, Extremes
  <2>8. QED
    BY <1>2, <2>5, <2>6, <2>7
<1>6. Stopped(d, q) => Stat(d, path).stopped
  BY <1>2, <1>3
<1>7. QED
  BY <1>1, <1>2, <1>5, <1>6

\* A node that is not visited is below one that is stopped at or that has more
\* items than are sampled.
LEMMA Unvisited ==
    ASSUME NEW d, Document(d), NEW p \in DOMAIN d, p \notin Visited(d)
    PROVE  \E m \in 0 .. Len(p) :
             /\ Prefix(p, m) \in Visited(d)
             /\ \/ Stopped(d, Prefix(p, m))
                \/ /\ d[Prefix(p, m)] = "array"
                   /\ Cardinality(Children(d, Prefix(p, m))) > ArraySample
<1> DEFINE I == {i \in 0 .. Len(p) : Prefix(p, i) \in Visited(d)}
           m == Max(I)
           q == Prefix(p, m)
           r == Prefix(p, m + 1)
<1>1. p \in Seq(Steps) /\ Len(p) \in Nat /\ Prefix(p, Len(p)) = p /\ Prefix(p, 0) = <<>>
  BY Ancestors, WholePath
<1>2. 0 \in I
  <2>1. Arrays(d, <<>>) = {}
    BY DEF Arrays
  <2>2. Cardinality({}) = 0
    BY FS_EmptySet
  <2>3. Len(<<>>) = 0
    OBVIOUS
  <2>4. <<>> \in Visited(d)
    <3>1. MaxPreviewDepth \in Nat
      BY JsonOutputAssumption
    <3>2. 0 <= MaxPreviewDepth
      BY <3>1
    <3>3. <<>> \in DOMAIN d
      BY DEF Document
    <3>4. Cardinality(Arrays(d, <<>>)) <= 1
      BY <2>1, <2>2
    <3>5. \A i \in Arrays(d, <<>>) : FALSE
      BY <2>1
    <3> DEFINE root == <<>>
    <3>6. /\ root \in DOMAIN d /\ Len(root) <= MaxPreviewDepth
          /\ Cardinality(Arrays(d, root)) <= 1
          /\ \A i \in Arrays(d, root) : FALSE
      BY <2>3, <3>2, <3>3, <3>4, <3>5
    <3> HIDE DEF root
    <3>7. root \in Visited(d)
      BY <3>6 DEF Visited
    <3>8. QED
      BY <3>7 DEF root
  <2>5. QED
    BY <1>1, <2>4
<1>3. m \in I /\ \A i \in I : i <= m
  <2>1. IsFiniteSet(0 .. Len(p))
    BY <1>1, FS_Interval
  <2>2. I \in SUBSET (0 .. Len(p)) /\ I \in SUBSET Nat
    BY <1>1
  <2> HIDE DEF I
  <2>3. IsFiniteSet(I)
    BY <2>1, <2>2, FS_Subset
  <2>4. QED
    BY <1>2, <2>2, <2>3, Extremes
<1> HIDE DEF m
<1>4. m \in Nat /\ m \in 0 .. Len(p) /\ q \in Visited(d) /\ m < Len(p)
  <2>1. m \in 0 .. Len(p) /\ q \in Visited(d)
    BY <1>3
  <2>2. m # Len(p)
    BY <1>1, <2>1
  <2>3. Len(p) \in Nat
    BY <1>1
  <2>4. m \in Nat /\ m < Len(p)
    BY ONLY <2>1, <2>2, <2>3
  <2>5. QED
    BY <2>1, <2>4
<1>5. m + 1 \in 0 .. Len(p) /\ m + 1 \in 1 .. Len(p) /\ (m + 1) - 1 = m
  BY <1>1, <1>4
<1>6. r \notin Visited(d)
  <2>1. m + 1 \notin I
    <3> HIDE DEF I
    <3>1. QED
      BY <1>3, <1>4
  <2>2. QED
    BY <1>5, <2>1
<1>7. r \in DOMAIN d /\ r \in Seq(Steps) /\ Len(r) = m + 1
      /\ \A k \in 1 .. m + 1 : r[k] = p[k]
  BY <1>1, <1>5, Ancestors, PrefixOf
<1>8. q \in DOMAIN d /\ q \in Seq(Steps) /\ Len(q) = m
      /\ \A k \in 1 .. m : q[k] = p[k]
  BY <1>1, <1>4, Ancestors, PrefixOf
<1>9. /\ d[q] = IF p[m + 1][1] = "name" THEN "object" ELSE "array"
      /\ p[m + 1][1] = "item" => \A j \in 0 .. p[m + 1][2] : Append(q, <<"item", j>>) \in DOMAIN d
      /\ p[m + 1] \in Steps
  <2>1. p[m + 1] \in Steps
    BY <1>1, <1>5, WholePath
  <2>2. /\ d[Prefix(p, (m + 1) - 1)] = IF p[m + 1][1] = "name" THEN "object" ELSE "array"
        /\ p[m + 1][1] = "item" => \A j \in 0 .. p[m + 1][2] :
              Append(Prefix(p, (m + 1) - 1), <<"item", j>>) \in DOMAIN d
    BY <1>5, Ancestors
  <2>3. QED
    BY <1>5, <2>1, <2>2
<1>10. Arrays(d, r) = Arrays(d, q) \cup (IF d[q] = "array" THEN {m} ELSE {})
  <2>1. Arrays(d, q) = {i \in Arrays(d, p) : i < m}
    BY <1>1, <1>4, ArraysOfPrefix
  <2>2. Arrays(d, r) = {i \in Arrays(d, p) : i < m + 1}
    BY <1>1, <1>5, ArraysOfPrefix
  <2>3. m \in Arrays(d, p) <=> d[q] = "array"
    BY <1>1, <1>4 DEF Arrays
  <2>4. Arrays(d, p) \in SUBSET Nat
    BY <1>1, ArraysFinite
  <2>5. ASSUME NEW i \in Nat
        PROVE  i < m + 1 <=> (i < m \/ i = m)
    BY <1>4
  <2> HIDE DEF q, r
  <2>6. QED
    BY <2>1, <2>2, <2>3, <2>4, <2>5
<1>11. /\ Len(q) <= MaxPreviewDepth
       /\ Cardinality(Arrays(d, q)) <= 1
       /\ \A i \in Arrays(d, q) : q[i + 1][2] < ArraySample
  BY <1>4 DEF Visited
<1> HIDE DEF q, r, I
<1>12. CASE ~(Len(r) <= MaxPreviewDepth)
  <2>1. MaxPreviewDepth \in Nat
    BY JsonOutputAssumption
  <2>2. Len(q) >= MaxPreviewDepth
    BY <1>4, <1>7, <1>8, <1>12, <2>1
  <2>3. QED
    BY <1>4, <2>2 DEF Stopped, q
<1>13. CASE ~(Cardinality(Arrays(d, r)) <= 1)
  <2>1. d[q] = "array"
    BY <1>10, <1>11, <1>13
  <2>2. Arrays(d, q) # {}
    <3>1. SUFFICES ASSUME Arrays(d, q) = {}
                   PROVE  FALSE
      OBVIOUS
    <3>2. Arrays(d, r) = {m}
      BY <1>10, <2>1, <3>1
    <3>3. Cardinality({m}) = 1
      BY FS_Singleton
    <3>4. QED
      BY <1>13, <3>2, <3>3
  <2>3. QED
    BY <1>4, <2>1, <2>2 DEF Stopped, q
<1>14. CASE /\ Len(r) <= MaxPreviewDepth
            /\ Cardinality(Arrays(d, r)) <= 1
  <2>1. PICK i \in Arrays(d, r) : ~(r[i + 1][2] < ArraySample)
    BY <1>6, <1>7, <1>14 DEF Visited
  <2>2. i \notin Arrays(d, q)
    <3> SUFFICES ASSUME i \in Arrays(d, q)
                 PROVE  FALSE
      OBVIOUS
    <3>1. i \in 0 .. m - 1
      BY <1>8, ArraysFinite
    <3>2. i + 1 \in 1 .. m /\ i + 1 \in 1 .. m + 1
      BY <1>4, <3>1
    <3>3. r[i + 1] = q[i + 1]
      BY <1>7, <1>8, <3>2
    <3>4. QED
      BY <1>11, <2>1, <3>3
  <2>3. d[q] = "array" /\ i = m
    BY <1>10, <2>1, <2>2
  <2>4. r[m + 1] = p[m + 1]
    BY <1>4, <1>7
  <2>5. p[m + 1][1] = "item" /\ p[m + 1][2] \in Nat
    BY <1>9, <2>3 DEF Steps
  <2>6. ~(p[m + 1][2] < ArraySample)
    BY <2>1, <2>3, <2>4
  <2>7. Cardinality(Children(d, q)) > p[m + 1][2]
    BY <1>8, <1>9, <2>5, ItemsAreCounted
  <2>8. Cardinality(Children(d, q)) \in Nat /\ ArraySample \in Nat
    BY NodesFinite, JsonOutputAssumption DEF Children, Under
  <2>9. Cardinality(Children(d, q)) > ArraySample
    BY <2>5, <2>6, <2>7, <2>8
  <2>10. QED
    BY <1>4, <2>3, <2>9 DEF q
<1>15. QED
  BY <1>12, <1>13, <1>14

\* The preview, when it is not cut, tells of every node.
LEMMA EveryNodeIsTold ==
    ASSUME Document(doc), NEW p \in DOMAIN doc
    PROVE  \E e \in Stats(doc) : TellsOf(e, p)
<1>1. CASE p \in Visited(doc)
  BY <1>1, EntryOf DEF TellsOf
<1>2. CASE p \notin Visited(doc)
  <2>1. PICK m \in 0 .. Len(p) :
          /\ Prefix(p, m) \in Visited(doc)
          /\ \/ Stopped(doc, Prefix(p, m))
             \/ /\ doc[Prefix(p, m)] = "array"
                /\ Cardinality(Children(doc, Prefix(p, m))) > ArraySample
    BY <1>2, Unvisited
  <2> DEFINE q == Prefix(p, m)
             e == Stat(doc, PathOf(doc, q))
  <2>2. /\ e \in Stats(doc) /\ e.path = PathOf(doc, q)
        /\ Stopped(doc, q) => e.stopped
        /\ doc[q] = "array" => e.max \in Nat /\ Cardinality(Children(doc, q)) <= e.max
    BY <2>1, EntryOf
  <2>3. IsPrefix(e.path, PathOf(doc, p))
    <3>1. p \in Seq(Steps)
      BY Ancestors
    <3>2. QED
      BY <2>2, <3>1, PathAbove
  <2> HIDE DEF e
  <2>4. CASE Stopped(doc, q)
    BY <2>2, <2>3, <2>4 DEF TellsOf
  <2>5. CASE doc[q] = "array" /\ Cardinality(Children(doc, q)) > ArraySample
    <3>1. Cardinality(Children(doc, q)) \in Nat /\ ArraySample \in Nat
      BY NodesFinite, JsonOutputAssumption DEF Children, Under
    <3>2. e.max > ArraySample /\ e.max # None
      BY <2>2, <2>5, <3>1, JsonOutputAssumption
    <3>3. QED
      BY <2>2, <2>3, <3>2 DEF TellsOf
  <2>6. QED
    BY <2>1, <2>4, <2>5
<1>3. QED
  BY <1>1, <1>2

\* Two nodes of which one is selected by the path of the other have the same
\* arrays above them: up to the only array of that path they are the same, and
\* after it all steps of the path are names.
LEMMA SameArrays ==
    ASSUME NEW d, Document(d), NEW p \in Visited(d), NEW q \in DOMAIN d,
           Len(q) = Len(p),
           \A i \in 1 .. Len(p) : PathOf(d, p)[i] \in {All, q[i]}
    PROVE  Arrays(d, q) = Arrays(d, p)
<1>1. p \in DOMAIN d /\ Cardinality(Arrays(d, p)) <= 1
  BY DEF Visited
<1>2. p \in Seq(Steps) /\ q \in Seq(Steps) /\ Len(p) \in Nat
  BY <1>1, Ancestors, WholePath
<1>3. /\ \A i \in 1 .. Len(p) : p[i] \in Steps /\ p[i] # All
      /\ \A i \in 1 .. Len(p) : q[i] \in Steps
  BY <1>2, WholePath
<1>4. \A i \in 0 .. Len(p) - 1 :
        /\ i \in Arrays(d, p) <=> d[Prefix(p, i)] = "array"
        /\ i \in Arrays(d, q) <=> d[Prefix(q, i)] = "array"
  BY DEF Arrays
<1>5. ASSUME NEW i \in 0 .. Len(p) - 1
      PROVE  /\ i \in Arrays(d, p) <=> p[i + 1][1] = "item"
             /\ i \in Arrays(d, q) <=> q[i + 1][1] = "item"
  <2>1. i + 1 \in 1 .. Len(p) /\ (i + 1) - 1 = i
    BY <1>2
  <2>2. /\ d[Prefix(p, (i + 1) - 1)] = IF p[i + 1][1] = "name" THEN "object" ELSE "array"
        /\ d[Prefix(q, (i + 1) - 1)] = IF q[i + 1][1] = "name" THEN "object" ELSE "array"
    BY <1>1, <2>1, Ancestors
  <2>3. /\ d[Prefix(p, i)] = IF p[i + 1][1] = "name" THEN "object" ELSE "array"
        /\ d[Prefix(q, i)] = IF q[i + 1][1] = "name" THEN "object" ELSE "array"
    BY <2>1, <2>2
  <2>4. p[i + 1] \in Steps /\ q[i + 1] \in Steps
    BY <1>3, <2>1
  <2>5. /\ p[i + 1][1] = "item" <=> ~(p[i + 1][1] = "name")
        /\ q[i + 1][1] = "item" <=> ~(q[i + 1][1] = "name")
    BY <2>4 DEF Steps
  <2>6. QED
    BY <1>4, <2>3, <2>5
<1>6. ASSUME NEW i \in 0 .. Len(p) - 1, i \notin Arrays(d, p)
      PROVE  q[i + 1] = p[i + 1] /\ i \notin Arrays(d, q)
  <2>1. i + 1 \in 1 .. Len(p) /\ (i + 1) - 1 = i
    BY <1>2
  <2>2. PathOf(d, p)[i + 1] = p[i + 1]
    BY <1>2, <1>6, <2>1, PathOfShape
  <2>3. q[i + 1] = p[i + 1]
    BY <1>3, <2>1, <2>2
  <2>4. QED
    BY <1>5, <1>6, <2>3
<1>7. ASSUME NEW i \in Arrays(d, p)
      PROVE  i \in Arrays(d, q)
  <2>1. i \in 0 .. Len(p) - 1 /\ Arrays(d, p) \in SUBSET (0 .. Len(p) - 1)
        /\ IsFiniteSet(Arrays(d, p)) /\ Cardinality(Arrays(d, p)) \in Nat
    BY <1>2, ArraysFinite
  <2>2. Arrays(d, p) = {i}
    <3>1. Cardinality(Arrays(d, p)) # 0
      BY <2>1, FS_EmptySet
    <3>2. Cardinality(Arrays(d, p)) = 1
      BY <1>1, <2>1, <3>1
    <3>3. \E x : Arrays(d, p) = {x}
      BY <2>1, <3>2, FS_Singleton
    <3>4. QED
      BY <3>3
  <2>3. i \in 0 .. Len(p)
    BY <1>2, <2>1
  <2>4. /\ Prefix(p, i) \in Seq(Steps) /\ Len(Prefix(p, i)) = i
        /\ \A k \in 1 .. i : Prefix(p, i)[k] = p[k]
    BY <1>2, <2>3, PrefixOf
  <2>5. /\ Prefix(q, i) \in Seq(Steps) /\ Len(Prefix(q, i)) = i
        /\ \A k \in 1 .. i : Prefix(q, i)[k] = q[k]
    BY <1>2, <2>3, PrefixOf
  <2>6. \A k \in 1 .. i : Prefix(p, i)[k] = Prefix(q, i)[k]
    <3> SUFFICES ASSUME NEW k \in 1 .. i
                 PROVE  Prefix(p, i)[k] = Prefix(q, i)[k]
      OBVIOUS
    <3>1. k - 1 \in 0 .. Len(p) - 1 /\ k - 1 # i /\ (k - 1) + 1 = k
      BY <1>2, <2>1
    <3>2. k - 1 \notin Arrays(d, p)
      BY <2>2, <3>1
    <3>3. q[(k - 1) + 1] = p[(k - 1) + 1]
      BY <1>6, <3>1, <3>2
    <3>4. QED
      BY <2>4, <2>5, <3>1, <3>3
  <2>7. Prefix(p, i) = Prefix(q, i)
    BY <2>4, <2>5, <2>6, SeqEqual
  <2>8. QED
    BY <1>4, <2>1, <2>7
<1>8. Arrays(d, q) \in SUBSET (0 .. Len(p) - 1) /\ Arrays(d, p) \in SUBSET (0 .. Len(p) - 1)
  BY <1>2, ArraysFinite
<1>9. QED
  BY <1>6, <1>7, <1>8

\* A plain path of the preview selects what it says.
LEMMA PlainPathsSelect ==
    ASSUME Document(doc), NEW e \in Stats(doc), PlainPath(e.path)
    PROVE  Selects(e)
<1> DEFINE path == e.path
<1>1. PICK p \in Visited(doc) : path = PathOf(doc, p)
  <2>1. PICK p \in Visited(doc) : e = Stat(doc, PathOf(doc, p))
    BY DEF Stats
  <2>2. QED
    BY <2>1, EntryOf
<1>2. p \in DOMAIN doc /\ p \in Seq(Steps) /\ Len(p) \in Nat
  BY Ancestors, WholePath DEF Visited
<1>3. /\ DOMAIN path = 1 .. Len(p) /\ Len(path) = Len(p)
      /\ path \in Seq(Steps \cup {All})
      /\ \A i \in 1 .. Len(p) :
           path[i] = IF i - 1 \in Arrays(doc, p) THEN All ELSE p[i]
  BY <1>1, <1>2, PathOfShape
<1>4. PlainPath(path)
  OBVIOUS
<1> HIDE DEF path
<1>5. ValidPaths({path})
  <2>1. Cardinality({path}) = 1
    BY FS_Singleton
  <2>2. 1 <= MaxJsonPaths
    BY JsonOutputAssumption
  <2>3. QED
    BY <1>4, <2>1, <2>2 DEF ValidPaths, PlainPath
<1>6. Operator(path) = "none"
  <2>1. CASE path = <<>>
    BY <2>1 DEF Operator
  <2>2. CASE path # <<>>
    <3>1. Len(path) \in DOMAIN path
      BY <1>2, <1>3, <2>2
    <3>2. path[Len(path)] \in Steps \cup {All}
      BY <1>3, <3>1, LenProperties
    <3>3. path[Len(path)] \notin {<<"call", "count">>, <<"call", "length">>}
      BY <3>2 DEF Steps, All
    <3>4. path[Len(path)] \notin {Name("count"), Name("length")}
      BY <1>4, <2>2 DEF PlainPath
    <3>5. QED
      BY <3>3, <3>4 DEF Operator
  <2>3. QED
    BY <2>1, <2>2
<1> DEFINE nodes == Selected(doc, path).nodes
<1>7. nodes = {q \in DOMAIN doc : Len(q) = Len(p) /\ \A i \in 1 .. Len(p) : path[i] \in {All, q[i]}}
  <2>1. nodes = Query(doc, <<>>, path)
    BY <1>6 DEF Selected, BasePath
  <2>2. Len(<<>>) = 0
    OBVIOUS
  <2>3. Under(doc, <<>>) = DOMAIN doc
    <3>1. \A q \in DOMAIN doc : Len(q) >= 0 /\ Prefix(q, 0) = <<>>
      BY Ancestors, WholePath
    <3>2. QED
      BY <2>2, <3>1 DEF Under
  <2>4. 0 + Len(path) = Len(p) /\ \A i \in 1 .. Len(p) : 0 + i = i
    BY <1>2, <1>3
  <2>5. QED
    BY <1>3, <2>1, <2>2, <2>3, <2>4 DEF Query
<1>8. ASSUME NEW q \in Visited(doc), PathOf(doc, q) = path
      PROVE  q \in nodes
  <2>1. q \in DOMAIN doc /\ q \in Seq(Steps)
    BY Ancestors DEF Visited
  <2>2. /\ Len(path) = Len(q)
        /\ \A i \in 1 .. Len(q) : path[i] = IF i - 1 \in Arrays(doc, q) THEN All ELSE q[i]
    BY <1>8, <2>1, PathOfShape
  <2> HIDE DEF nodes
  <2>3. QED
    BY <1>3, <1>7, <2>1, <2>2
<1>9. ASSUME NEW q \in nodes
      PROVE  q \in DOMAIN doc /\ PathOf(doc, q) = path
  <2>1. q \in DOMAIN doc /\ Len(q) = Len(p) /\ \A i \in 1 .. Len(p) : path[i] \in {All, q[i]}
    <3> HIDE DEF nodes
    <3>1. QED
      BY <1>7
  <2>2. Arrays(doc, q) = Arrays(doc, p)
    BY <1>1, <2>1, SameArrays
  <2>3. q \in Seq(Steps)
    BY <2>1, Ancestors
  <2>4. /\ Len(PathOf(doc, q)) = Len(p) /\ PathOf(doc, q) \in Seq(Steps \cup {All})
        /\ \A i \in 1 .. Len(p) :
             PathOf(doc, q)[i] = IF i - 1 \in Arrays(doc, q) THEN All ELSE q[i]
    BY <2>1, <2>3, PathOfShape
  <2>5. \A i \in 1 .. Len(p) : PathOf(doc, q)[i] = path[i]
    <3> SUFFICES ASSUME NEW i \in 1 .. Len(p)
                 PROVE  PathOf(doc, q)[i] = path[i]
      OBVIOUS
    <3>1. p[i] # All
      BY <1>2, WholePath
    <3>2. QED
      BY <1>3, <2>1, <2>2, <2>4, <3>1
  <2>6. QED
    BY <1>3, <2>1, <2>4, <2>5, SeqEqual
<1>10. Selected(doc, path).operator = "none"
  BY <1>6 DEF Selected
<1> HIDE DEF nodes
<1>11. /\ {q \in Visited(doc) : PathOf(doc, q) = path} \subseteq nodes
       /\ nodes \subseteq {q \in DOMAIN doc : PathOf(doc, q) = path}
  BY <1>8, <1>9
<1>12. QED
  BY <1>5, <1>10, <1>11 DEF Selects, path, nodes

\* json.rs:213: the paths of a preview can be followed.
THEOREM PreviewReliable == DialogSpec => []PreviewIsReliable
<1>1. DialogInv => PreviewIsReliable
  <2> SUFFICES ASSUME DialogInv
               PROVE  PreviewIsReliable
    OBVIOUS
  <2> DEFINE shown == answer.preview.shown
  <2>1. Document(doc)
    BY ReadAssumption DEF DialogInv
  <2>2. CASE answer.reason = "output" /\ answer.preview = Preview(doc)
    <3>1. shown = Shown(doc) /\ answer.preview.path_count = Cardinality(Stats(doc))
      BY <2>2 DEF Preview
    <3>2. shown \in SUBSET Stats(doc)
      BY <2>1, <3>1, ShownEntries
    <3>3. Cardinality(shown) = answer.preview.path_count => shown = Stats(doc)
      BY <2>1, <3>1, ShownEntries
    <3> HIDE DEF shown
    <3>4. Cardinality(shown) = answer.preview.path_count =>
            \A p \in DOMAIN doc : \E e \in shown : TellsOf(e, p)
      BY <2>1, <3>3, EveryNodeIsTold
    <3>5. \A e \in shown : PlainPath(e.path) => Selects(e)
      BY <2>1, <3>2, PlainPathsSelect
    <3>6. QED
      BY <3>4, <3>5 DEF PreviewIsReliable, shown
  <2>3. CASE answer.reason # "output" /\ answer.preview = NoPreview
    BY <2>3 DEF PreviewIsReliable, NoPreview
  <2>4. \/ answer.reason = "output" /\ answer.preview = Preview(doc)
        \/ answer.reason # "output" /\ answer.preview = NoPreview
    <3>1. \A s : Refused(s).reason = "none" /\ Refused(s).preview = NoPreview
      BY DEF Refused
    <3>2. \A b : Returned(b).reason = "none" /\ Returned(b).preview = NoPreview
      BY DEF Refused, Returned
    <3>3. \A r, b, p, c : Omitted(r, b, p, c).reason = r /\ Omitted(r, b, p, c).preview = p
      BY DEF Omitted
    <3>4. answer = Refused("none") \/ answer = Answer(doc, asked)
      BY DEF DialogInv
    <3>5. CASE answer = Refused("none")
      BY <3>1, <3>5
    <3>6. CASE answer = Answer(doc, asked)
      BY <3>1, <3>2, <3>3, <3>6 DEF Answer
    <3>7. QED
      BY <3>4, <3>5, <3>6
  <2>5. QED
    BY <2>2, <2>3, <2>4
<1>2. QED
  BY <1>1, DialogInvariant, PTL DEF DialogSpec

-----------------------------------------------------------------------------
(* SqlTools: queries *)

\* What is known of a query that was sent and of one that was answered
QueryInv ==
    /\ query.pc = "sent" =>
         \E statements \in Programs : /\ Granted(query.policy, statements)
                                      /\ query.statement = statements[1]
    /\ query.pc = "done" =>
         /\ query.rows \in Results /\ query.max \in RowLimits
         /\ query.out = LoadRows(query.rows, query.max)

\* A query that was sent was granted, and an answer is made of its rows.
LEMMA QueryInvariant == ToolsSpec => []QueryInv
<1>1. ToolsInit => QueryInv
  BY DEF ToolsInit, QueryInv, NoQuery
<1>2. QueryInv /\ [ToolsNext]_toolsVars => QueryInv'
  <2> SUFFICES ASSUME QueryInv, [ToolsNext]_toolsVars
               PROVE  QueryInv'
    OBVIOUS
  <2>1. CASE query' = query
    BY <2>1 DEF QueryInv
  <2>2. CASE AskQuery
    BY <2>2 DEF AskQuery, QueryInv
  <2>3. CASE AnswerQuery
    BY <2>3 DEF AnswerQuery, QueryInv
  <2>4. CASE Return
    BY <2>4 DEF Return, NoQuery, QueryInv
  <2>5. QED
    BY <2>1, <2>2, <2>3, <2>4
    DEF ToolsNext, toolsVars, DefineTable, DropTable, Changed, BeginList, ReadPage, RefuseCursor, GiveUp,
        LoadColumns, LoadKey, LoadIndexes
<1>3. QED
  BY <1>1, <1>2, PTL DEF ToolsSpec

\* The visitor reads a site's name, unless it has escapes, as Postgres does:
\* folded, which the lookup of an unquoted name does too, and a quoted one is
\* only refused more often for it.
LEMMA PartsOfName ==
    ASSUME NEW site, IsSite(site), Escaped(site.name) = {}
    PROVE  /\ Len(site.name) \in Nat \ {0}
           /\ DOMAIN site.name = 1 .. Len(site.name)
           /\ Len(Parts(site.name)) = Len(site.name)
           /\ \A i \in 1 .. Len(site.name) : Parts(site.name)[i] = site.name[i].word
           /\ \A i \in 1 .. Len(site.name) : Lookup(site.name[i])[1] = site.name[i].word
<1> DEFINE name == site.name
           n == Len(name)
<1>1. name \in Seq({name[i] : i \in DOMAIN name}) /\ name # <<>>
  BY DEF IsSite, IsSequence
<1>2. n \in Nat \ {0} /\ DOMAIN name = 1 .. n
  BY <1>1
<1>3. Parts(name) = [i \in 1 .. n |-> Fold(Trim(name[i])).word]
  BY <1>2 DEF Parts, Read
<1>4. Len(Parts(name)) = n
  BY <1>2, <1>3
<1>5. ASSUME NEW i \in 1 .. n
      PROVE  Fold(Trim(name[i])).word = name[i].word
  <2>1. name[i] = Text(name[i].word, name[i].odd)
    BY <1>2 DEF IsSite
  <2>2. QED
    BY <2>1 DEF Text, Fold, Trim
<1>6. QED
  BY <1>2, <1>3, <1>4, <1>5 DEF Lookup

\* What a site that the policy sees, reads and does not refuse may run
LEMMA SitesRunGranted ==
    ASSUME NEW site, IsSite(site), Legible(site), NEW policy, ~SiteRefused(policy, site),
           NEW f \in IF site.at = "value" THEN ValueCalled(site.name) ELSE Called(site.name)
    PROVE  f[2] \notin BuiltinDenied /\ <<f[2]>> \notin policy.deniedFunctions
<1> DEFINE name == site.name
           n == Len(name)
           parts == Parts(name)
<1>1. /\ n \in Nat \ {0} /\ Len(parts) = n
      /\ \A i \in 1 .. n : parts[i] = name[i].word /\ Lookup(name[i])[1] = name[i].word
  BY PartsOfName DEF Legible
<1>2. Short(parts) = name[n].word /\ Lookup(name[n])[1] = name[n].word
  BY <1>1 DEF Short
<1>3. \A g : Len(<<g>>) = 1
  OBVIOUS
<1>4. CASE site.at = "value"
  <2>1. PICK v \in ValueFunctions : n = 1 /\ v = name[1].word /\ f = <<"", v>>
    BY <1>4 DEF ValueCalled
  <2>2. ~Denied(policy, <<v>>, FALSE)
    BY <1>2, <1>4, <2>1 DEF SiteRefused
  <2>3. ~DeniedByPolicy(policy, <<v>>, v)
    BY <2>2 DEF Denied, Short
  <2>4. <<v>> \notin policy.deniedFunctions
    BY <1>3, <2>3 DEF DeniedByPolicy
  <2>5. QED
    BY <2>1, <2>4, SqlPolicyAssumption
<1>5. CASE site.at # "value"
  <2>1. f[2] = name[n].word
    <3>1. Lookup(name[n]) = <<f[2], {}>>
      BY <1>5 DEF Called
    <3>2. QED
      BY <1>2, <3>1
  <2>2. ~Denied(policy, parts, TRUE)
    BY <1>5 DEF SiteRefused, Legible, Hooked
  <2>3. <<f[2]>> \notin {<<g>> : g \in BuiltinDenied}
    BY <1>2, <2>1, <2>2 DEF Denied
  <2>4. ~DeniedByPolicy(policy, parts, f[2])
    BY <1>2, <2>1, <2>2 DEF Denied
  <2>5. <<f[2]>> \notin policy.deniedFunctions
    <3>1. ~(Len(<<f[2]>>) > 1)
      OBVIOUS
    <3>2. \A d \in policy.deniedFunctions : ~(IF Len(d) > 1 THEN d = parts ELSE d = <<f[2]>>)
      BY <2>4 DEF DeniedByPolicy
    <3>3. QED
      BY <3>1, <3>2
  <2>6. QED
    BY <2>3, <2>5
<1>6. QED
  BY <1>4, <1>5

\* What a relation that the policy does not refuse may be
LEMMA SitesReadGranted ==
    ASSUME NEW site, IsSite(site), Legible(site), site.at = "relation",
           NEW policy, ~SiteRefused(policy, site), ~policy.metadata
    PROVE  LET name == site.name
               last == Lookup(name[Len(name)])
           IN  ~(IF Len(name) = 1 THEN last[2] = {} /\ last[1] \in PgWords
                 ELSE name[Len(name) - 1].word \in MetadataSchemas)
<1> DEFINE name == site.name
           n == Len(name)
           parts == Parts(name)
<1>1. /\ n \in Nat \ {0} /\ Len(parts) = n
      /\ \A i \in 1 .. n : parts[i] = name[i].word /\ Lookup(name[i])[1] = name[i].word
  BY PartsOfName DEF Legible
<1>2. ~IsMetadataRelation(parts)
  BY DEF SiteRefused
<1>3. CASE n = 1
  BY <1>1, <1>2, <1>3 DEF IsMetadataRelation
<1>4. CASE n # 1
  <2>1. n - 1 \in 1 .. n
    <3>1. \A k \in Nat \ {0} : k # 1 => k - 1 \in 1 .. k
      OBVIOUS
    <3>2. QED
      BY <1>1, <1>4, <3>1
  <2>2. parts[n - 1] = name[n - 1].word
    BY <1>1, <2>1
  <2>3. parts[n - 1] \notin MetadataSchemas
    BY <1>1, <1>2, <1>4 DEF IsMetadataRelation
  <2>4. QED
    BY <1>4, <2>2, <2>3
<1>5. QED
  BY <1>3, <1>4

\* A text that is sent explains nothing and, where its names are read by the
\* policy as Postgres reads them, runs no denied function and reads no metadata
\* unless the policy allows it: every such site of a granted text was visited,
\* however deep, and none was refused.
THEOREM OnlyGrantedRuns == ToolsSpec => []RunsOnlyGranted
<1>1. QueryInv => RunsOnlyGranted
  <2> SUFFICES ASSUME QueryInv, query.pc = "sent"
               PROVE  LET policy == query.policy
                          s == query.statement
                          named == {site \in Written(s.of[1]) : Legible(site)}
                      IN  /\ s.kind = "query" \/ (policy.explain /\ (s.analyze => policy.analyze))
                          /\ \A f \in Runs(named) :
                                /\ f[2] \notin BuiltinDenied
                                /\ <<f[2]>> \notin policy.deniedFunctions
                          /\ ReadsMetadata(named) => policy.metadata
    BY DEF RunsOnlyGranted
  <2> DEFINE policy == query.policy
             s == query.statement
             top == s.of[1]
             named == {site \in Written(top) : Legible(site)}
  <2>1. PICK statements \in Programs : Granted(policy, statements) /\ s = statements[1]
    BY DEF QueryInv
  <2>2. /\ Len(statements) = 1 /\ s.of # <<>>
        /\ s.kind = "explain" => policy.explain /\ (s.analyze => policy.analyze)
        /\ s.kind \in {"query", "explain"}
        /\ \A site \in VisitedSites(top) : ~SiteRefused(policy, site)
    BY <2>1 DEF Granted
  <2>3. \A site \in Written(top) : IsSite(site)
    BY <2>1, <2>2, SqlToolsAssumption
  <2>4. \A site \in named : IsSite(site) /\ Legible(site) /\ ~SiteRefused(policy, site)
    BY <2>2, <2>3 DEF VisitedSites, Legible
  <2> HIDE DEF policy, named
  <2>5. ASSUME NEW f \in Runs(named)
        PROVE  f[2] \notin BuiltinDenied /\ <<f[2]>> \notin policy.deniedFunctions
    <3>1. PICK site \in named :
            f \in CASE site.at = "value" -> ValueCalled(site.name)
                   [] site.at = "table" -> {}
                   [] OTHER -> Called(site.name)
      BY DEF Runs
    <3>2. site.at # "table"
      BY <2>4 DEF Legible, Hooked
    <3>3. f \in IF site.at = "value" THEN ValueCalled(site.name) ELSE Called(site.name)
      BY <3>1, <3>2
    <3>4. QED
      BY <2>4, <3>3, SitesRunGranted
  <2>6. ReadsMetadata(named) => policy.metadata
    <3> SUFFICES ASSUME ReadsMetadata(named), ~policy.metadata
                 PROVE  FALSE
      OBVIOUS
    <3>1. PICK site \in {x \in named : x.at \in {"relation", "table"}} :
            LET name == site.name
                last == Lookup(name[Len(name)])
            IN  IF Len(name) = 1 THEN last[2] = {} /\ last[1] \in PgWords
                ELSE name[Len(name) - 1].word \in MetadataSchemas
      BY DEF ReadsMetadata
    <3>2. site.at = "relation"
      BY <2>4, <3>1 DEF Legible, Hooked
    <3>3. QED
      BY <2>4, <3>1, <3>2, SitesReadGranted
  <2>7. QED
    BY <2>2, <2>5, <2>6 DEF policy, named
<1>2. QED
  BY <1>1, QueryInvariant, PTL

\* A prefix of a sequence of any kind
LEMMA CutPrefix ==
    ASSUME NEW given, IsSequence(given), NEW max \in Nat
    PROVE  /\ Len(given) \in Nat /\ DOMAIN given = 1 .. Len(given)
           /\ IsSequence(Cut(given, max))
           /\ Len(Cut(given, max)) = IF max < Len(given) THEN max ELSE Len(given)
           /\ DOMAIN Cut(given, max) = 1 .. Len(Cut(given, max))
           /\ \A i \in 1 .. Len(Cut(given, max)) : Cut(given, max)[i] = given[i]
<1> DEFINE S == {given[i] : i \in DOMAIN given}
           n == IF max < Len(given) THEN max ELSE Len(given)
           c == Cut(given, max)
<1>1. given \in Seq(S) /\ Len(given) \in Nat /\ DOMAIN given = 1 .. Len(given)
  BY DEF IsSequence
<1> HIDE DEF S
<1>2. n \in 0 .. Len(given)
  BY <1>1
<1>3. c = SubSeq(given, 1, n)
  BY DEF Cut
<1>4. c \in Seq(S) /\ Len(c) = n /\ \A i \in 1 .. n : c[i] = given[i]
  BY <1>1, <1>2, <1>3
<1>5. c \in Seq({c[i] : i \in DOMAIN c}) /\ DOMAIN c = 1 .. Len(c)
  <2>1. DOMAIN c = 1 .. n /\ c = [i \in 1 .. n |-> c[i]]
    BY <1>2, <1>4
  <2> DEFINE T == {c[i] : i \in DOMAIN c}
  <2>2. \A i \in 1 .. n : c[i] \in T
    BY <2>1
  <2> HIDE DEF T
  <2>3. n \in Nat /\ [i \in 1 .. n |-> c[i]] \in [1 .. n -> T]
    BY <1>1, <1>2, <2>2
  <2>4. [i \in 1 .. n |-> c[i]] \in Seq(T)
    BY <2>3, SeqDef
  <2>5. QED
    BY <1>4, <2>1, <2>4 DEF T
<1>6. QED
  BY <1>1, <1>4, <1>5 DEF IsSequence

\* Of two columns of one name the last is read back.
LEMMA LastIsRead ==
    ASSUME NEW row, IsSequence(row), NEW j \in DOMAIN row,
           \A k \in j + 1 .. Len(row) : row[k].name # row[j].name
    PROVE  /\ row[j].name \in DOMAIN ReadBack(row)
           /\ ReadBack(row)[row[j].name] = row[j].value
<1> DEFINE n == row[j].name
           IsLast(i) == row[i].name = n /\ \A k \in DOMAIN row : row[k].name = n => k <= i
<1>1. Len(row) \in Nat /\ DOMAIN row = 1 .. Len(row)
  BY DEF IsSequence
<1>2. IsLast(j)
  <2> SUFFICES ASSUME NEW k \in DOMAIN row, row[k].name = n, ~(k <= j)
               PROVE  FALSE
    OBVIOUS
  <2>1. k \in j + 1 .. Len(row)
    BY <1>1
  <2>2. QED
    BY <2>1
<1>3. \A i \in DOMAIN row : IsLast(i) => i = j
  <2> SUFFICES ASSUME NEW i \in DOMAIN row, IsLast(i)
               PROVE  i = j
    OBVIOUS
  <2>1. i <= j /\ j <= i
    BY <1>2
  <2>2. QED
    BY <1>1, <2>1
<1> DEFINE at == CHOOSE i \in DOMAIN row : IsLast(i)
<1>4. at = j
  BY <1>2, <1>3
<1>5. n \in {row[i].name : i \in DOMAIN row}
  OBVIOUS
<1>6. ReadBack(row)[n] = row[at].value
  BY <1>5 DEF ReadBack
<1>7. QED
  BY <1>4, <1>5, <1>6 DEF ReadBack

\* Columns hold an entry for each row that is counted, the row's own, and
\* rows are said to be missing if and only if some are.
THEOREM ColumnsHoldRows == ToolsSpec => []ColumnsAreRows
<1>1. QueryInv => ColumnsAreRows
  <2> SUFFICES ASSUME QueryInv, query.pc = "done"
               PROVE  ColumnsAreRows
    BY DEF ColumnsAreRows
  <2> DEFINE given == query.rows
             max == query.max
             out == query.out
             wanted == Cut(given, max + 1)
             read == [i \in DOMAIN wanted |-> ReadBack(given[i])]
             kept == Cut(read, max)
  <2>1. given \in Results /\ max \in RowLimits /\ out = LoadRows(given, max)
    BY DEF QueryInv
  <2>2. max \in Nat \ {0} /\ max + 1 \in Nat
    BY <2>1, SqlToolsAssumption
  <2>3. IsSequence(given) /\ \A i \in DOMAIN given : IsSequence(given[i])
    BY <2>1, SqlToolsAssumption
  <2>4. /\ Len(given) \in Nat /\ DOMAIN given = 1 .. Len(given)
        /\ Len(wanted) = (IF max + 1 < Len(given) THEN max + 1 ELSE Len(given))
        /\ DOMAIN wanted = 1 .. Len(wanted)
    BY <2>2, <2>3, CutPrefix
  <2>5. out.columns = Transpose(kept) /\ out.row_count = Len(kept) /\ out.truncated = (Len(read) > max)
    BY <2>1 DEF LoadRows
  <2> HIDE DEF given, max, out, wanted
  <2>6. Len(wanted) \in Nat /\ read \in Seq({read[i] : i \in DOMAIN read}) /\ Len(read) = Len(wanted)
    <3>1. Len(wanted) \in Nat
      BY <2>2, <2>4
    <3>2. read = [i \in 1 .. Len(wanted) |-> ReadBack(given[i])]
      BY <2>4
    <3>3. QED
      BY <3>1, <3>2
  <2>7. /\ Len(kept) = (IF max < Len(read) THEN max ELSE Len(read))
        /\ DOMAIN kept = 1 .. Len(kept)
        /\ \A i \in 1 .. Len(kept) : kept[i] = read[i]
    BY <2>2, <2>6, CutPrefix DEF IsSequence
  <2>8. /\ Len(kept) \in Nat /\ Len(kept) <= max /\ Len(kept) <= Len(wanted)
        /\ (Len(read) > max) <=> (Len(given) > Len(kept))
    BY <2>2, <2>4, <2>6, <2>7
  <2>9. ASSUME NEW i \in 1 .. Len(kept), NEW j \in DOMAIN given[i],
               \A k \in j + 1 .. Len(given[i]) : given[i][k].name # given[i][j].name
        PROVE  /\ Len(out.columns[given[i][j].name]) = Len(kept)
               /\ out.columns[given[i][j].name][i] = given[i][j].value
    <3> DEFINE n == given[i][j].name
               column == [k \in DOMAIN kept |-> IF n \in DOMAIN kept[k] THEN kept[k][n] ELSE "null"]
    <3>1. i \in DOMAIN wanted /\ i \in DOMAIN given
      BY <2>2, <2>4, <2>6, <2>7, <2>8
    <3>2. kept[i] = ReadBack(given[i])
      BY <2>7, <3>1
    <3>3. n \in DOMAIN kept[i] /\ kept[i][n] = given[i][j].value
      BY <2>3, <2>9, <3>1, <3>2, LastIsRead
    <3> HIDE DEF kept, n
    <3>4. n \in UNION {DOMAIN kept[k] : k \in DOMAIN kept}
      BY <2>7, <3>3
    <3>5. out.columns[n] = column
      BY <2>5, <3>4 DEF Transpose
    <3>6. column = [k \in 1 .. Len(kept) |-> IF n \in DOMAIN kept[k] THEN kept[k][n] ELSE "null"]
      BY <2>7
    <3>7. Len(column) = Len(kept)
      BY <2>8, <3>6
    <3>8. column[i] = kept[i][n]
      BY <3>3, <3>6
    <3>9. QED
      BY <3>3, <3>5, <3>7, <3>8 DEF n
  <2>10. QED
    BY <2>5, <2>8, <2>9 DEF ColumnsAreRows, given, max, out
<1>2. QED
  BY <1>1, QueryInvariant, PTL

-----------------------------------------------------------------------------
(* SqlTools: the order of tables *)

\* Names are compared code by code: a strict order, in which two names that
\* are not the same always have a place.
LEMMA BelowIsOrder ==
    ASSUME NEW s \in Seq(Nat), NEW t \in Seq(Nat)
    PROVE  /\ ~Below(s, s)
           /\ s # t => Below(s, t) \/ Below(t, s)
           /\ \A u \in Seq(Nat) : Below(s, t) /\ Below(t, u) => Below(s, u)
<1>1. /\ Len(s) \in Nat /\ \A i \in 1 .. Len(s) : s[i] \in Nat
      /\ Len(t) \in Nat /\ \A i \in 1 .. Len(t) : t[i] \in Nat
  OBVIOUS
<1>2. ~Below(s, s)
  <2> SUFFICES ASSUME NEW n \in 0 .. Len(s), n < Len(s), s[n + 1] < s[n + 1]
               PROVE  FALSE
    BY <1>1 DEF Below
  <2>1. n + 1 \in 1 .. Len(s)
    BY <1>1
  <2>2. s[n + 1] \in Nat
    BY <1>1, <2>1
  <2>3. QED
    BY <2>2
<1>3. ASSUME s # t
      PROVE  Below(s, t) \/ Below(t, s)
  <2> DEFINE D == {i \in 1 .. Len(s) : i <= Len(t) /\ s[i] # t[i]}
  <2>1. CASE D = {}
    <3>1. \A i \in 1 .. Len(s) : i <= Len(t) => s[i] = t[i]
      BY <2>1
    <3>2. Len(s) # Len(t)
      BY <1>1, <1>3, <3>1
    <3>3. CASE Len(s) < Len(t)
      <4>1. \A i \in 1 .. Len(s) : s[i] = t[i]
        BY <1>1, <3>1, <3>3
      <4>2. QED
        BY <1>1, <3>3, <4>1 DEF Below
    <3>4. CASE Len(t) < Len(s)
      <4>1. \A i \in 1 .. Len(t) : t[i] = s[i]
        BY <1>1, <3>1, <3>4
      <4>2. QED
        BY <1>1, <3>4, <4>1 DEF Below
    <3>5. QED
      BY <1>1, <3>2, <3>3, <3>4
  <2>2. CASE D # {}
    <3>1. D \in SUBSET Nat /\ IsFiniteSet(D)
      <4>1. IsFiniteSet(1 .. Len(s))
        BY <1>1, FS_Interval
      <4>2. D \in SUBSET (1 .. Len(s))
        OBVIOUS
      <4>3. QED
        BY <4>1, <4>2, FS_Subset
    <3> DEFINE m == Min(D)
    <3> HIDE DEF D
    <3>2. m \in D /\ \A x \in D : m <= x
      BY <2>2, <3>1, Extremes
    <3> HIDE DEF m
    <3>3. m \in 1 .. Len(s) /\ m <= Len(t) /\ s[m] # t[m]
      BY <3>2 DEF D
    <3>4. m \in Nat /\ m - 1 \in Nat /\ m - 1 < Len(s) /\ m - 1 < Len(t) /\ (m - 1) + 1 = m
      BY <1>1, <3>3
    <3>5. \A i \in 1 .. m - 1 : s[i] = t[i]
      <4> SUFFICES ASSUME NEW i \in 1 .. m - 1, s[i] # t[i]
                   PROVE  FALSE
        OBVIOUS
      <4>1. i \in 1 .. Len(s) /\ i <= Len(t) /\ i < m
        BY <1>1, <3>4
      <4>2. i \in D
        BY <4>1 DEF D
      <4>3. m <= i
        BY <3>2, <4>2
      <4>4. QED
        BY <3>4, <4>1, <4>3
    <3>6. s[m] < t[m] \/ t[m] < s[m]
      <4>1. s[m] \in Nat /\ t[m] \in Nat
        BY <1>1, <3>3
      <4>2. QED
        BY <3>3, <4>1
    <3>7. m - 1 \in 0 .. Len(s) /\ m - 1 \in 0 .. Len(t)
      BY <1>1, <3>4
    <3>8. s[(m - 1) + 1] = s[m] /\ t[(m - 1) + 1] = t[m]
      BY <3>4
    <3>9. QED
      BY <3>4, <3>5, <3>6, <3>7, <3>8 DEF Below
  <2>3. QED
    BY <2>1, <2>2
<1>4. ASSUME NEW u \in Seq(Nat), Below(s, t), Below(t, u)
      PROVE  Below(s, u)
  <2>0. Len(u) \in Nat /\ \A i \in 1 .. Len(u) : u[i] \in Nat
    OBVIOUS
  <2>1. PICK n \in 0 .. Len(s) : /\ n < Len(t) /\ \A i \in 1 .. n : s[i] = t[i]
                                 /\ n = Len(s) \/ s[n + 1] < t[n + 1]
    BY <1>4 DEF Below
  <2>2. PICK m \in 0 .. Len(t) : /\ m < Len(u) /\ \A i \in 1 .. m : t[i] = u[i]
                                 /\ m = Len(t) \/ t[m + 1] < u[m + 1]
    BY <1>4 DEF Below
  <2>3. CASE n < m
    <3>1. \A i \in 1 .. n : s[i] = u[i]
      BY <1>1, <2>1, <2>2, <2>3
    <3>2. n + 1 \in 1 .. m
      BY <1>1, <2>3
    <3>3. t[n + 1] = u[n + 1]
      BY <2>2, <3>2
    <3>4. n < Len(u)
      BY <1>1, <2>0, <2>2, <2>3
    <3>5. QED
      BY <2>1, <3>1, <3>3, <3>4 DEF Below
  <2>4. CASE m < n
    <3>1. \A i \in 1 .. m : s[i] = u[i]
      BY <1>1, <2>1, <2>2, <2>4
    <3>2. m + 1 \in 1 .. n /\ m # Len(t) /\ m \in 0 .. Len(s)
      BY <1>1, <2>1, <2>4
    <3>3. s[m + 1] < u[m + 1]
      BY <2>1, <2>2, <3>2
    <3>4. QED
      BY <2>2, <3>1, <3>2, <3>3 DEF Below
  <2>5. CASE n = m
    <3>1. \A i \in 1 .. n : s[i] = u[i]
      BY <2>1, <2>2, <2>5
    <3>2. n # Len(t) /\ n < Len(u) /\ t[n + 1] < u[n + 1]
      BY <1>1, <2>1, <2>2, <2>5
    <3>3. ASSUME n # Len(s)
          PROVE  s[n + 1] < u[n + 1]
      <4>1. n + 1 \in 1 .. Len(s) /\ n + 1 \in 1 .. Len(t) /\ n + 1 \in 1 .. Len(u)
        BY <1>1, <2>0, <2>1, <3>2, <3>3
      <4>2. s[n + 1] \in Nat /\ t[n + 1] \in Nat /\ u[n + 1] \in Nat
        BY <1>1, <2>0, <4>1
      <4>3. s[n + 1] < t[n + 1]
        BY <2>1, <3>3
      <4>4. QED
        BY <3>2, <4>2, <4>3
    <3>4. QED
      BY <3>1, <3>2, <3>3 DEF Below
  <2>6. QED
    BY <1>1, <2>3, <2>4, <2>5
<1>5. QED
  BY <1>2, <1>3, <1>4

Places == Seq(Nat) \X Seq(Nat)

\* So are the names of tables.
LEMMA AfterIsOrder ==
    ASSUME NEW a \in Places, NEW b \in Places
    PROVE  /\ ~After(a, a)
           /\ a # b => After(a, b) \/ After(b, a)
           /\ \A c \in Places : After(a, b) /\ After(b, c) => After(a, c)
<1>1. /\ a[1] \in Seq(Nat) /\ a[2] \in Seq(Nat) /\ b[1] \in Seq(Nat) /\ b[2] \in Seq(Nat)
      /\ a = <<a[1], a[2]>> /\ b = <<b[1], b[2]>>
  BY DEF Places
<1>2. ~After(a, a)
  BY <1>1, BelowIsOrder DEF After
<1>3. ASSUME a # b
      PROVE  After(a, b) \/ After(b, a)
  <2>1. a[1] # b[1] \/ a[2] # b[2]
    BY <1>1, <1>3
  <2>2. a[1] # b[1] => Below(a[1], b[1]) \/ Below(b[1], a[1])
    BY <1>1, BelowIsOrder
  <2>3. a[2] # b[2] => Below(a[2], b[2]) \/ Below(b[2], a[2])
    BY <1>1, BelowIsOrder
  <2>4. QED
    BY <2>1, <2>2, <2>3 DEF After
<1>4. ASSUME NEW c \in Places, After(a, b), After(b, c)
      PROVE  After(a, c)
  <2>1. c[1] \in Seq(Nat) /\ c[2] \in Seq(Nat)
    BY DEF Places
  <2>2. Below(c[1], b[1]) /\ Below(b[1], a[1]) => Below(c[1], a[1])
    BY <1>1, <2>1, BelowIsOrder
  <2>3. Below(c[2], b[2]) /\ Below(b[2], a[2]) => Below(c[2], a[2])
    BY <1>1, <2>1, BelowIsOrder
  <2>4. QED
    BY <1>4, <2>2, <2>3 DEF After
<1>5. QED
  BY <1>2, <1>3, <1>4

\* ORDER BY: each of the tables has one place, and those before it are those
\* it is after.
LEMMA OrderedTables ==
    ASSUME NEW S \in SUBSET Places, IsFiniteSet(S)
    PROVE  /\ Cardinality(S) \in Nat
           /\ Ordered(S) \in [1 .. Cardinality(S) -> S]
           /\ \A t \in S : \E i \in 1 .. Cardinality(S) : Ordered(S)[i] = t
           /\ \A i, j \in 1 .. Cardinality(S) : i < j => After(Ordered(S)[j], Ordered(S)[i])
<1> DEFINE n == Cardinality(S)
           Before(t) == {u \in S : After(t, u)}
           place == [t \in S |-> Cardinality(Before(t)) + 1]
<1>1. n \in Nat
  BY FS_CardinalityType
<1>2. ASSUME NEW t \in S
      PROVE  /\ place[t] \in 1 .. n
             /\ IsFiniteSet(Before(t)) /\ Cardinality(Before(t)) \in Nat
  <2>1. Before(t) \in SUBSET S /\ t \notin Before(t)
    BY AfterIsOrder
  <2>2. IsFiniteSet(Before(t)) /\ Cardinality(Before(t)) <= n /\ Cardinality(Before(t)) # n
    BY <2>1, FS_Subset
  <2>3. Cardinality(Before(t)) \in Nat
    BY <2>2, FS_CardinalityType
  <2>4. Cardinality(Before(t)) + 1 \in 1 .. n
    BY <1>1, <2>2, <2>3
  <2>5. QED
    BY <2>2, <2>3, <2>4
<1>3. ASSUME NEW t \in S, NEW u \in S, After(u, t)
      PROVE  place[t] < place[u]
  <2>1. Before(t) \in SUBSET Before(u)
    BY <1>3, AfterIsOrder
  <2>2. t \in Before(u) /\ t \notin Before(t)
    BY <1>3, AfterIsOrder
  <2>3. Cardinality(Before(t)) <= Cardinality(Before(u)) /\ Cardinality(Before(t)) # Cardinality(Before(u))
    BY <1>2, <2>1, <2>2, FS_Subset
  <2>4. Cardinality(Before(t)) \in Nat /\ Cardinality(Before(u)) \in Nat
    BY <1>2
  <2>5. Cardinality(Before(t)) + 1 < Cardinality(Before(u)) + 1
    BY <2>3, <2>4
  <2>6. QED
    BY <2>5
<1>4. \A t \in S : \A i \in 1 .. n : (place[t] = i) <=> (Cardinality(Before(t)) = i - 1)
  <2> SUFFICES ASSUME NEW t \in S, NEW i \in 1 .. n
               PROVE  (Cardinality(Before(t)) + 1 = i) <=> (Cardinality(Before(t)) = i - 1)
    OBVIOUS
  <2>1. Cardinality(Before(t)) \in Nat
    BY <1>2
  <2>2. QED
    BY <1>1, <2>1
<1> DEFINE o == Ordered(S)
<1>5. /\ DOMAIN o = 1 .. n /\ o = [i \in 1 .. n |-> o[i]]
      /\ \A i \in 1 .. n : o[i] = CHOOSE t \in S : Cardinality(Before(t)) = i - 1
  BY DEF Ordered
<1> HIDE DEF place
<1>6. place \in Injection(S, 1 .. n)
  <2>1. \A t, u \in S : place[t] = place[u] => t = u
    <3> SUFFICES ASSUME NEW t \in S, NEW u \in S, t # u
                 PROVE  place[t] # place[u]
      OBVIOUS
    <3>1. After(t, u) \/ After(u, t)
      BY AfterIsOrder
    <3>2. place[t] \in 1 .. n /\ place[u] \in 1 .. n
      BY <1>2
    <3>3. QED
      BY <1>1, <1>3, <3>1, <3>2
  <2>2. place \in [S -> 1 .. n]
    BY <1>2 DEF place
  <2>3. QED
    BY <2>1, <2>2 DEF Injection, IsInjective
<1>7. IsFiniteSet(1 .. n) /\ Cardinality(1 .. n) = n
  BY <1>1, FS_Interval
<1>8. place \in Surjection(S, 1 .. n)
  BY <1>6, <1>7, FS_Injection
<1>9. \A i \in 1 .. n : \E t \in S : place[t] = i
  BY <1>8 DEF Surjection
<1>10. ASSUME NEW i \in 1 .. n
       PROVE  o[i] \in S /\ place[o[i]] = i
  <2>1. \E t \in S : Cardinality(Before(t)) = i - 1
    BY <1>4, <1>9
  <2>2. o[i] = CHOOSE t \in S : Cardinality(Before(t)) = i - 1
    BY <1>5
  <2>3. o[i] \in S /\ Cardinality(Before(o[i])) = i - 1
    BY <2>1, <2>2
  <2>4. QED
    BY <1>4, <2>3
<1> HIDE DEF o
<1>11. \A t \in S : \E i \in 1 .. n : o[i] = t
  <2> SUFFICES ASSUME NEW t \in S
               PROVE  \E i \in 1 .. n : o[i] = t
    OBVIOUS
  <2>1. place[t] \in 1 .. n
    BY <1>2
  <2>2. place[o[place[t]]] = place[t] /\ o[place[t]] \in S
    BY <1>10, <2>1
  <2>3. o[place[t]] = t
    BY <1>6, <2>2 DEF Injection, IsInjective
  <2>4. QED
    BY <2>1, <2>3
<1>12. ASSUME NEW i \in 1 .. n, NEW j \in 1 .. n, i < j
       PROVE  After(o[j], o[i])
  <2>1. o[i] \in S /\ o[j] \in S /\ place[o[i]] = i /\ place[o[j]] = j
    BY <1>10
  <2>2. o[i] # o[j]
    BY <1>1, <1>12, <2>1
  <2>3. ~After(o[i], o[j])
    <3> SUFFICES ASSUME After(o[i], o[j])
                 PROVE  FALSE
      OBVIOUS
    <3>1. j < i
      BY <1>3, <2>1
    <3>2. QED
      BY <1>1, <1>12, <3>1
  <2>4. QED
    BY <2>1, <2>2, <2>3, AfterIsOrder
<1>13. o \in [1 .. n -> S]
  BY <1>5, <1>10
<1>14. QED
  BY <1>1, <1>11, <1>12, <1>13 DEF o

\* Two names with a character between them
LEMMA JoinedBy ==
    ASSUME NEW s \in Seq(Nat), NEW u \in Seq(Nat), NEW x \in Nat
    PROVE  /\ s \o <<x>> \o u \in Seq(Nat)
           /\ Len(s \o <<x>> \o u) = Len(s) + 1 + Len(u)
           /\ \A i \in 1 .. Len(s) : (s \o <<x>> \o u)[i] = s[i]
           /\ (s \o <<x>> \o u)[Len(s) + 1] = x
           /\ \A i \in 1 .. Len(u) : (s \o <<x>> \o u)[Len(s) + 1 + i] = u[i]
<1> DEFINE d == s \o <<x>>
           c == d \o u
<1>1. Len(s) \in Nat /\ Len(u) \in Nat
  OBVIOUS
<1>2. <<x>> \in Seq(Nat) /\ Len(<<x>>) = 1 /\ <<x>>[1] = x
  OBVIOUS
<1>3. /\ d \in Seq(Nat) /\ Len(d) = Len(s) + 1
      /\ \A i \in 1 .. Len(s) + 1 : d[i] = IF i <= Len(s) THEN s[i] ELSE <<x>>[i - Len(s)]
  BY <1>2, ConcatProperties
<1>4. (\A i \in 1 .. Len(s) : d[i] = s[i]) /\ d[Len(s) + 1] = x
  <2>1. \A i \in 1 .. Len(s) : i \in 1 .. Len(s) + 1 /\ i <= Len(s)
    BY <1>1
  <2>2. Len(s) + 1 \in 1 .. Len(s) + 1 /\ ~(Len(s) + 1 <= Len(s)) /\ (Len(s) + 1) - Len(s) = 1
    BY <1>1
  <2>3. QED
    BY <1>2, <1>3, <2>1, <2>2
<1> HIDE DEF d
<1>5. /\ c \in Seq(Nat) /\ Len(c) = Len(d) + Len(u)
      /\ \A i \in 1 .. Len(d) + Len(u) : c[i] = IF i <= Len(d) THEN d[i] ELSE u[i - Len(d)]
  <2>1. d \in Seq(Nat) /\ u \in Seq(Nat)
    BY <1>3
  <2>2. QED
    BY ONLY <2>1, ConcatProperties
<1> HIDE DEF c
<1>6. \A i \in 1 .. Len(s) + 1 : c[i] = d[i]
  BY <1>1, <1>3, <1>5
<1>7. \A i \in 1 .. Len(u) : c[Len(s) + 1 + i] = u[i]
  <2> SUFFICES ASSUME NEW i \in 1 .. Len(u)
               PROVE  c[Len(s) + 1 + i] = u[i]
    OBVIOUS
  <2> DEFINE j == Len(s) + 1 + i
  <2>1. j \in 1 .. Len(d) + Len(u) /\ ~(j <= Len(d)) /\ j - Len(d) = i
    BY <1>1, <1>3
  <2> HIDE DEF j
  <2>2. c[j] = u[i]
    BY <1>5, <2>1
  <2>3. QED
    BY <2>2 DEF j
<1>8. (\A i \in 1 .. Len(s) : c[i] = s[i]) /\ c[Len(s) + 1] = x
  <2>1. \A i \in 1 .. Len(s) : i \in 1 .. Len(s) + 1
    BY <1>1
  <2>2. Len(s) + 1 \in 1 .. Len(s) + 1
    BY <1>1
  <2>3. QED
    BY <1>4, <1>6, <2>1, <2>2
<1>9. c \in Seq(Nat) /\ Len(c) = Len(s) + 1 + Len(u)
  BY <1>3, <1>5
<1>10. QED
  BY <1>7, <1>8, <1>9 DEF c, d

\* A cursor stands for its table, or for a place before it if there is a dot
\* in the namespace.
LEMMA SplitOfCursor ==
    ASSUME NEW t \in SqlName \X Seq(Nat)
    PROVE  LET split == SplitCursor(JoinCursor(t))
           IN  /\ split \in Places /\ split # <<<<>>, <<>>>>
               /\ split = t \/ After(t, split)
               /\ ~Dotted(t) => split = t
<1> DEFINE s == t[1]
           u == t[2]
           c == JoinCursor(t)
           dots == {i \in DOMAIN c : c[i] = Dot}
           m == Min(dots)
           a == SubSeq(c, 1, m - 1)
           b == SubSeq(c, m + 1, Len(c))
<1>1. /\ s \in Seq(Nat) /\ u \in Seq(Nat) /\ t = <<s, u>>
      /\ Len(s) \in Nat \ {0} /\ Len(u) \in Nat
  BY DEF SqlName
<1> HIDE DEF s, u
<1>3. /\ c \in Seq(Nat) /\ Len(c) = Len(s) + 1 + Len(u)
      /\ \A i \in 1 .. Len(s) : c[i] = s[i]
      /\ c[Len(s) + 1] = Dot
      /\ \A i \in 1 .. Len(u) : c[Len(s) + 1 + i] = u[i]
  <2>1. c = s \o <<Dot>> \o u /\ Dot \in Nat
    BY DEF JoinCursor, s, u, Dot
  <2> HIDE DEF c
  <2>2. QED
    BY <1>1, <2>1, JoinedBy
<1> HIDE DEF c
<1>4. DOMAIN c = 1 .. Len(c) /\ Len(c) \in Nat
  BY <1>3
<1>5. dots \in SUBSET Nat /\ IsFiniteSet(dots) /\ Len(s) + 1 \in dots
  <2>1. Len(s) + 1 \in DOMAIN c
    BY <1>1, <1>3, <1>4
  <2>2. IsFiniteSet(1 .. Len(c))
    BY <1>4, FS_Interval
  <2>3. dots \in SUBSET (1 .. Len(c))
    BY <1>4
  <2>4. QED
    BY <1>3, <1>4, <2>1, <2>2, <2>3, FS_Subset
<1> HIDE DEF dots
<1>6. m \in dots /\ m <= Len(s) + 1
  BY <1>5, Extremes
<1>7. m \in 1 .. Len(s) + 1 /\ c[m] = Dot
  BY <1>1, <1>4, <1>6 DEF dots
<1>8. SplitCursor(c) = <<a, b>>
  BY <1>5 DEF SplitCursor, dots
<1> HIDE DEF m
<1>9. /\ a \in Seq(Nat) /\ Len(a) = m - 1 /\ \A i \in 1 .. m - 1 : a[i] = c[i]
      /\ b \in Seq(Nat) /\ Len(b) = Len(c) - m /\ \A i \in 1 .. Len(c) - m : b[i] = c[m + i]
  <2>1. \A i \in 1 .. Len(c) : c[i] \in Nat
    BY <1>3
  <2>2. /\ m - 1 \in Int /\ m + 1 \in Int /\ Len(c) \in Int /\ m - 1 <= Len(c) /\ m <= Len(c) /\ 1 <= m
        /\ m \in Nat
    BY <1>1, <1>3, <1>7
  <2>3. /\ a \in Seq(Nat) /\ Len(a) = IF 1 <= m - 1 THEN (m - 1) - 1 + 1 ELSE 0
        /\ \A i \in 1 .. (m - 1) - 1 + 1 : a[i] = c[1 + i - 1]
    <3>1. \A i \in 1 .. m - 1 : c[i] \in Nat
      BY <2>1, <2>2
    <3>2. QED
      BY <2>2, <3>1, SubSeqProperties
  <2>4. /\ b \in Seq(Nat) /\ Len(b) = IF m + 1 <= Len(c) THEN Len(c) - (m + 1) + 1 ELSE 0
        /\ \A i \in 1 .. Len(c) - (m + 1) + 1 : b[i] = c[(m + 1) + i - 1]
    <3>1. \A i \in m + 1 .. Len(c) : c[i] \in Nat
      BY <2>1, <2>2
    <3>2. QED
      BY <2>2, <3>1, SubSeqProperties
  <2> HIDE DEF a, b
  <2>5. Len(a) = m - 1 /\ Len(b) = Len(c) - m
    BY <2>2, <2>3, <2>4
  <2>6. \A i \in 1 .. m - 1 : i \in 1 .. (m - 1) - 1 + 1 /\ 1 + i - 1 = i
    BY <2>2
  <2>7. \A i \in 1 .. Len(c) - m : i \in 1 .. Len(c) - (m + 1) + 1 /\ (m + 1) + i - 1 = m + i
    BY <2>2
  <2>8. QED
    BY <2>3, <2>4, <2>5, <2>6, <2>7
<1> HIDE DEF a, b
<1>10. Len(a) # 0 \/ Len(b) # 0
  BY <1>1, <1>3, <1>7, <1>9
<1>11. <<a, b>> \in Places /\ <<a, b>> # <<<<>>, <<>>>>
  <2>1. a # <<>> \/ b # <<>>
    BY <1>10
  <2>2. QED
    BY <1>9, <2>1 DEF Places
<1>12. CASE m = Len(s) + 1
  <2>1. a = s
    <3>1. Len(a) = Len(s) /\ m - 1 = Len(s)
      BY <1>1, <1>9, <1>12
    <3>2. \A i \in 1 .. Len(a) : a[i] = s[i]
      BY <1>3, <1>9, <3>1
    <3>3. QED
      BY <1>1, <1>9, <3>1, <3>2, SeqEqual
  <2>2. b = u
    <3>1. Len(b) = Len(u)
      BY <1>1, <1>3, <1>9, <1>12
    <3>2. \A i \in 1 .. Len(u) : b[i] = u[i]
      BY <1>1, <1>3, <1>9, <1>12
    <3>3. QED
      BY <1>1, <1>9, <3>1, <3>2, SeqEqual
  <2>3. QED
    BY <1>1, <1>8, <1>11, <2>1, <2>2 DEF c
<1>13. CASE m # Len(s) + 1
  <2>1. m \in 1 .. Len(s)
    BY <1>1, <1>7, <1>13
  <2>2. Below(a, s)
    <3>1. m - 1 \in 0 .. Len(a) /\ m - 1 = Len(a) /\ m - 1 < Len(s)
      BY <1>1, <1>9, <2>1
    <3>2. \A i \in 1 .. m - 1 : a[i] = s[i]
      BY <1>1, <1>3, <1>9, <2>1
    <3>3. QED
      BY <3>1, <3>2 DEF Below
  <2>3. After(t, <<a, b>>)
    BY <2>2 DEF After, s
  <2>4. Dotted(t)
    <3>1. s[m] = Dot
      BY <1>3, <1>7, <2>1
    <3>3. m \in DOMAIN s
      BY <1>1, <2>1
    <3>2. QED
      BY <3>1, <3>3 DEF Dotted, s
  <2>5. QED
    BY <1>8, <1>11, <2>3, <2>4 DEF c
<1>14. QED
  BY <1>12, <1>13

\* A cursor that is trimmed keeps the namespace, which does not begin with
\* white space, and what is left of the table's name comes before it.
LEMMA TrimmedCursor ==
    ASSUME NEW t \in SqlName \X SqlName, ~Indented(t)
    PROVE  \E u \in Seq(Nat) :
              /\ TrimBlanks(JoinCursor(t)) = JoinCursor(<<t[1], u>>)
              /\ u = t[2] \/ Below(u, t[2])
              /\ ~Trailing(t) => u = t[2]
<1> DEFINE s == t[1]
           v == t[2]
           c == JoinCursor(t)
           kept == {i \in DOMAIN c : c[i] \notin White}
           m == Max(kept)
           w == SubSeq(c, 1, m)
           k == m - (Len(s) + 1)
           u == SubSeq(v, 1, k)
           d == JoinCursor(<<s, u>>)
<1>1. /\ s \in Seq(Nat) /\ v \in Seq(Nat) /\ t = <<s, v>>
      /\ Len(s) \in Nat \ {0} /\ Len(v) \in Nat \ {0}
      /\ \A i \in 1 .. Len(v) : v[i] \in Nat
  BY ElementOfSeq DEF SqlName
<1>2. /\ c \in Seq(Nat) /\ Len(c) = Len(s) + 1 + Len(v)
      /\ \A i \in 1 .. Len(s) : c[i] = s[i]
      /\ c[Len(s) + 1] = Dot
      /\ \A i \in 1 .. Len(v) : c[Len(s) + 1 + i] = v[i]
  <2>1. c = s \o <<Dot>> \o v /\ Dot \in Nat
    BY DEF JoinCursor, Dot
  <2> HIDE DEF c, s, v
  <2>2. QED
    BY <1>1, <2>1, JoinedBy
<1>3. s[1] \notin White
  BY DEF Indented
<1>4. ~Trailing(t) => v[Len(v)] \notin White
  BY DEF Trailing
<1> HIDE DEF c, s, v
<1>5. DOMAIN c = 1 .. Len(c) /\ Len(c) \in Nat /\ \A i \in 1 .. Len(c) : c[i] \in Nat
  BY <1>2, ElementOfSeq
<1>6. kept \in SUBSET Nat /\ IsFiniteSet(kept) /\ kept \subseteq 1 .. Len(c)
  <2>1. IsFiniteSet(1 .. Len(c))
    BY <1>5, FS_Interval
  <2>2. QED
    BY <1>5, <2>1, FS_Subset
<1>7. 1 \in kept /\ Len(s) + 1 \in kept
  <2>1. 1 \in 1 .. Len(s) /\ 1 \in 1 .. Len(c) /\ Len(s) + 1 \in 1 .. Len(c)
    BY <1>1, <1>2
  <2>2. c[1] \notin White
    BY <1>2, <1>3, <2>1
  <2>3. c[Len(s) + 1] \notin White
    BY <1>2 DEF White, Break, Blank, Dot
  <2>4. QED
    BY <1>5, <2>1, <2>2, <2>3
<1>8. ~Trailing(t) => Len(c) \in kept
  <2>1. Len(v) \in 1 .. Len(v) /\ Len(s) + 1 + Len(v) = Len(c) /\ Len(c) \in 1 .. Len(c)
    BY <1>1, <1>2
  <2>2. c[Len(c)] = v[Len(v)]
    BY <1>2, <2>1
  <2>3. QED
    BY <1>4, <1>5, <2>1, <2>2
<1>9. TrimBlanks(c) = SubSeq(c, Min(kept), m)
  BY <1>7 DEF TrimBlanks
<1> HIDE DEF kept
<1>10. /\ m \in kept /\ Min(kept) \in kept
       /\ \A x \in kept : Min(kept) <= x /\ x <= m
  BY <1>6, <1>7, Extremes
<1> HIDE DEF m
<1>11. /\ Min(kept) = 1 /\ m \in 1 .. Len(c) /\ Len(s) + 1 <= m
       /\ ~Trailing(t) => m = Len(c)
  <2>1. Min(kept) \in 1 .. Len(c) /\ Min(kept) <= 1 /\ m \in 1 .. Len(c) /\ Len(s) + 1 <= m
    BY <1>6, <1>7, <1>10
  <2>2. ~Trailing(t) => Len(c) <= m
    BY <1>8, <1>10
  <2> DEFINE lo == Min(kept)
             hi == Len(c)
  <2>3. lo \in 1 .. hi /\ lo <= 1 /\ m \in 1 .. hi /\ hi \in Nat
    BY <1>5, <2>1
  <2> HIDE DEF lo, hi
  <2>4. lo = 1 /\ (hi <= m => m = hi)
    BY ONLY <2>3
  <2>5. QED
    BY <2>1, <2>2, <2>4 DEF lo, hi
<1>12. TrimBlanks(c) = w
  BY <1>9, <1>11
<1>13. k \in 0 .. Len(v) /\ Len(s) + 1 + k = m /\ (~Trailing(t) => k = Len(v))
  BY <1>1, <1>2, <1>5, <1>11
<1> HIDE DEF k
<1>14. w \in Seq(Nat) /\ Len(w) = m /\ \A i \in 1 .. m : w[i] = c[i]
  BY <1>2, <1>5, <1>11
<1>15. u \in Seq(Nat) /\ Len(u) = k /\ \A i \in 1 .. k : u[i] = v[i]
  BY <1>1, <1>13
<1> HIDE DEF u, w
<1>16. /\ d \in Seq(Nat) /\ Len(d) = Len(s) + 1 + Len(u)
       /\ \A i \in 1 .. Len(s) : d[i] = s[i]
       /\ d[Len(s) + 1] = Dot
       /\ \A i \in 1 .. Len(u) : d[Len(s) + 1 + i] = u[i]
  <2>1. d = s \o <<Dot>> \o u /\ Dot \in Nat
    BY DEF JoinCursor, Dot
  <2>2. s \in Seq(Nat) /\ u \in Seq(Nat)
    BY <1>1, <1>15
  <2> HIDE DEF d
  <2>3. QED
    BY ONLY <2>1, <2>2, JoinedBy
<1> HIDE DEF d
<1>17. w = d
  <2>1. Len(w) = Len(d)
    BY <1>13, <1>14, <1>15, <1>16
  <2>2. ASSUME NEW i \in 1 .. Len(w)
        PROVE  w[i] = d[i]
    <3>1. w[i] = c[i]
      BY <1>14
    <3>2. CASE i \in 1 .. Len(s)
      BY <1>2, <1>16, <3>1, <3>2
    <3>3. CASE i = Len(s) + 1
      BY <1>2, <1>16, <3>1, <3>3
    <3>4. CASE i > Len(s) + 1
      <4> DEFINE j == i - (Len(s) + 1)
      <4>1. j \in 1 .. k /\ Len(s) + 1 + j = i
        <5>1. Len(s) \in Nat /\ k \in Nat /\ i \in 1 .. Len(s) + 1 + k
          BY <1>1, <1>13, <1>14
        <5>2. QED
          BY ONLY <3>4, <5>1
      <4> HIDE DEF j
      <4>4. j \in 1 .. Len(v) /\ j \in 1 .. Len(u)
        BY <1>1, <1>13, <1>15, <4>1
      <4>2. c[Len(s) + 1 + j] = v[j] /\ d[Len(s) + 1 + j] = u[j] /\ u[j] = v[j]
        BY <1>2, <1>15, <1>16, <4>1, <4>4
      <4>3. QED
        BY <3>1, <4>1, <4>2
    <3>5. QED
      BY <1>1, <1>14, <1>11, <3>2, <3>3, <3>4
  <2>3. QED
    BY <1>14, <1>16, <2>1, <2>2, SeqEqual
<1>18. ASSUME k = Len(v)
       PROVE  u = v
  BY <1>1, <1>15, <1>18, SeqEqual
<1>19. ASSUME k # Len(v)
       PROVE  Below(u, v)
  <2>1. k \in 0 .. Len(u) /\ k < Len(v) /\ k = Len(u)
    BY <1>1, <1>13, <1>15, <1>19
  <2>2. QED
    BY <1>15, <2>1 DEF Below
<1>20. /\ TrimBlanks(c) = JoinCursor(<<s, u>>) /\ (u = v \/ Below(u, v))
       /\ (~Trailing(t) => u = v) /\ u \in Seq(Nat)
  BY <1>12, <1>13, <1>15, <1>17, <1>18, <1>19 DEF d
<1>21. QED
  BY <1>20 DEF c, s, v

\* The place that a page is asked after stands for a table, or comes before it.
LEMMA CursorAsked ==
    ASSUME NEW t \in SqlName \X SqlName, ~Indented(t)
    PROVE  LET split == SplitCursor(TrimBlanks(JoinCursor(t)))
           IN  /\ split \in Places /\ split # <<<<>>, <<>>>>
               /\ split = t \/ After(t, split)
               /\ ~Dotted(t) /\ ~Trailing(t) => split = t
<1>1. t[1] \in SqlName /\ t[1] \in Seq(Nat) /\ t[2] \in Seq(Nat) /\ t = <<t[1], t[2]>>
  BY DEF SqlName
<1>2. PICK u \in Seq(Nat) :
         /\ TrimBlanks(JoinCursor(t)) = JoinCursor(<<t[1], u>>)
         /\ u = t[2] \/ Below(u, t[2])
         /\ ~Trailing(t) => u = t[2]
  BY TrimmedCursor
<1> DEFINE v == <<t[1], u>>
           split == SplitCursor(JoinCursor(v))
<1>3. v \in SqlName \X Seq(Nat) /\ v[1] = t[1] /\ v[2] = u /\ v \in Places /\ t \in Places
  BY <1>1 DEF Places
<1>4. SplitCursor(TrimBlanks(JoinCursor(t))) = split
  BY <1>2
<1>5. v = t \/ After(t, v)
  BY <1>1, <1>2, <1>3 DEF After
<1>6. ~Trailing(t) => v = t
  BY <1>1, <1>2
<1>7. ~Dotted(t) => ~Dotted(v)
  BY <1>3 DEF Dotted
<1> HIDE DEF v
<1>8. /\ split \in Places /\ split # <<<<>>, <<>>>>
      /\ split = v \/ After(v, split)
      /\ ~Dotted(v) => split = v
  BY <1>3, SplitOfCursor
<1> HIDE DEF split
<1>9. split = t \/ After(t, split)
  BY <1>3, <1>5, <1>8, AfterIsOrder
<1>10. QED
  BY <1>4, <1>6, <1>7, <1>8, <1>9

-----------------------------------------------------------------------------
(* SqlTools: answers cut to a budget *)

Passes(f, S, a, m, step) ==
    /\ f \in [0 .. m -> S] /\ f[0] = a
    /\ \A n \in 1 .. m : f[n] = step[n][f[n - 1]]

\* What a loop of so many turns goes through
LEMMA Iteration ==
    ASSUME NEW S, NEW a \in S, NEW m \in Nat, NEW step \in [1 .. m -> [S -> S]]
    PROVE  \E f : Passes(f, S, a, m, step)
<1> DEFINE Goes(k) == \E f \in [0 .. k -> S] :
                          f[0] = a /\ \A n \in 1 .. k : f[n] = step[n][f[n - 1]]
           T == {k \in Nat : k <= m => Goes(k)}
<1>1. Goes(0)
  <2> DEFINE f == [n \in 0 .. 0 |-> a]
  <2>1. f \in [0 .. 0 -> S] /\ f[0] = a
    OBVIOUS
  <2>2. \A n \in 1 .. 0 : f[n] = step[n][f[n - 1]]
    OBVIOUS
  <2> HIDE DEF f
  <2>3. QED
    BY <2>1, <2>2
<1>2. ASSUME NEW k \in Nat, k + 1 <= m, Goes(k)
      PROVE  Goes(k + 1)
  <2>1. PICK f \in [0 .. k -> S] : f[0] = a /\ \A n \in 1 .. k : f[n] = step[n][f[n - 1]]
    BY <1>2
  <2> DEFINE g == [n \in 0 .. k + 1 |-> IF n = k + 1 THEN step[k + 1][f[k]] ELSE f[n]]
  <2>2. k + 1 \in 1 .. m /\ step[k + 1] \in [S -> S] /\ f[k] \in S
    BY <1>2, <2>1
  <2>3. g \in [0 .. k + 1 -> S]
    <3>1. \A n \in 0 .. k + 1 : n # k + 1 => n \in 0 .. k
      OBVIOUS
    <3>2. QED
      BY <2>1, <2>2, <3>1
  <2>4. g[0] = a
    <3>1. 0 \in 0 .. k + 1 /\ 0 # k + 1
      OBVIOUS
    <3>2. QED
      BY <2>1, <3>1
  <2>5. ASSUME NEW n \in 1 .. k + 1
        PROVE  g[n] = step[n][g[n - 1]]
    <3>1. n \in 0 .. k + 1 /\ n - 1 \in 0 .. k + 1 /\ n - 1 # k + 1
      OBVIOUS
    <3>2. g[n - 1] = f[n - 1]
      BY <3>1
    <3>3. CASE n = k + 1
      <4>1. n - 1 = k
        BY <3>3
      <4>2. QED
        BY <3>1, <3>2, <3>3, <4>1
    <3>4. CASE n # k + 1
      <4>1. n \in 1 .. k
        BY <3>4
      <4>2. QED
        BY <2>1, <3>1, <3>2, <3>4, <4>1
    <3>5. QED
      BY <3>3, <3>4
  <2> HIDE DEF g
  <2>6. QED
    BY <2>3, <2>4, <2>5
<1> HIDE DEF Goes
<1>3. \A k \in T : k + 1 \in T
  <2> SUFFICES ASSUME NEW k \in T, k + 1 <= m
               PROVE  Goes(k + 1)
    OBVIOUS
  <2>1. k \in Nat /\ k <= m
    OBVIOUS
  <2>2. QED
    BY <1>2, <2>1
<1>4. T = Nat
  <2>1. 0 \in T /\ T \in SUBSET Nat
    BY <1>1
  <2> HIDE DEF T
  <2>2. QED
    BY <1>3, <2>1, Induction
<1>5. Goes(m)
  BY <1>4
<1>6. QED
  BY <1>5 DEF Goes, Passes

\* One turn of the loop of trim_schema_payload
Turned(out, max) ==
    IF out.returned <= max \/ Bare(out) THEN out ELSE Measured(Shorter(out))

\* trim_schema_payload ends, for what it makes in each turn is an answer: if
\* a turn leads from each set of answers to the next, the loop leads from the
\* first to the last.
LEMMA TrimmedTurns ==
    ASSUME NEW m \in Nat, NEW S, NEW out \in S[0], NEW max, Turns(out) = m,
           \A n \in 1 .. m : \A o \in S[n - 1] : Turned(o, max) \in S[n]
    PROVE  Trimmed(out, max) \in S[m]
<1> DEFINE U == UNION {S[n] : n \in 0 .. m}
           IsCut(c) == c = [n \in 0 .. m |-> IF n = 0 THEN out ELSE
                              IF c[n - 1].returned <= max \/ Bare(c[n - 1]) THEN c[n - 1]
                              ELSE Measured(Shorter(c[n - 1]))]
           step == [n \in 1 .. m |-> [o \in U |-> IF o \in S[n - 1] THEN Turned(o, max) ELSE o]]
           cut == CHOOSE c : IsCut(c)
<1>1. step \in [1 .. m -> [U -> U]]
  <2> SUFFICES ASSUME NEW n \in 1 .. m, NEW o \in U
               PROVE  (IF o \in S[n - 1] THEN Turned(o, max) ELSE o) \in U
    OBVIOUS
  <2>1. n \in 0 .. m
    OBVIOUS
  <2>2. o \in S[n - 1] => Turned(o, max) \in S[n]
    OBVIOUS
  <2>3. QED
    BY <2>1, <2>2
<1>2. out \in U
  <2>1. 0 \in 0 .. m
    OBVIOUS
  <2>2. QED
    BY <2>1
<1>3. PICK f \in [0 .. m -> U] : f[0] = out /\ \A n \in 1 .. m : f[n] = step[n][f[n - 1]]
  <2> HIDE DEF step, U
  <2>1. \E f : Passes(f, U, out, m, step)
    BY ONLY m \in Nat, <1>1, <1>2, Iteration
  <2>2. QED
    BY <2>1 DEF Passes
<1>4. ASSUME NEW g, g[0] = out, \A n \in 1 .. m : g[n - 1] \in S[n - 1] => g[n] = Turned(g[n - 1], max)
      PROVE  \A n \in 0 .. m : g[n] \in S[n]
  <2> DEFINE T == {n \in Nat : n <= m => g[n] \in S[n]}
  <2>1. \A n \in T : n + 1 \in T
    <3> SUFFICES ASSUME NEW n \in T, n + 1 <= m
                 PROVE  g[n + 1] \in S[n + 1]
      OBVIOUS
    <3>1. n + 1 \in 1 .. m /\ (n + 1) - 1 = n /\ n <= m
      OBVIOUS
    <3>2. g[n] \in S[n]
      BY <3>1
    <3>3. g[n + 1] = Turned(g[n], max)
      BY <1>4, <3>1, <3>2
    <3>4. QED
      BY <3>1, <3>2, <3>3
  <2>2. 0 \in T /\ T \in SUBSET Nat
    BY <1>4
  <2>3. T = Nat
    <3> HIDE DEF T
    <3>1. QED
      BY <2>1, <2>2, Induction
  <2>4. \A n \in Nat : n <= m => g[n] \in S[n]
    BY <2>3
  <2>5. \A n \in 0 .. m : n \in Nat /\ n <= m
    OBVIOUS
  <2>6. QED
    BY ONLY <2>4, <2>5
<1>5. \A n \in 1 .. m : f[n - 1] \in S[n - 1] => f[n] = Turned(f[n - 1], max)
  <2> SUFFICES ASSUME NEW n \in 1 .. m, f[n - 1] \in S[n - 1]
               PROVE  f[n] = Turned(f[n - 1], max)
    OBVIOUS
  <2>1. f[n - 1] \in U
    <3>1. n - 1 \in 0 .. m
      OBVIOUS
    <3>2. QED
      BY <3>1
  <2> HIDE DEF U
  <2>2. QED
    BY <1>3, <2>1
<1> HIDE DEF step, U
<1>6. \A n \in 0 .. m : f[n] \in S[n]
  BY <1>3, <1>4, <1>5
<1>7. IsCut(f)
  <2>1. \A n \in 0 .. m : f[n] = IF n = 0 THEN out ELSE
                              IF f[n - 1].returned <= max \/ Bare(f[n - 1]) THEN f[n - 1]
                              ELSE Measured(Shorter(f[n - 1]))
    <3> SUFFICES ASSUME NEW n \in 0 .. m, n # 0
                 PROVE  f[n] = Turned(f[n - 1], max)
      BY <1>3 DEF Turned
    <3>1. n \in 1 .. m /\ n - 1 \in 0 .. m
      OBVIOUS
    <3>2. QED
      BY <1>5, <1>6, <3>1
  <2>2. f = [n \in 0 .. m |-> f[n]]
    BY <1>3
  <2>3. [n \in 0 .. m |-> f[n]] = [n \in 0 .. m |-> IF n = 0 THEN out ELSE
                              IF f[n - 1].returned <= max \/ Bare(f[n - 1]) THEN f[n - 1]
                              ELSE Measured(Shorter(f[n - 1]))]
    BY ONLY <2>1
  <2>4. QED
    BY ONLY <2>2, <2>3
<1>8. IsCut(cut)
  <2> HIDE DEF IsCut
  <2>1. QED
    BY <1>7
<1>9. Trimmed(out, max) = cut[m]
  BY DEF Trimmed
<1> HIDE DEF cut
<1>10. cut[0] = out
  BY <1>8
<1>11. ASSUME NEW n \in 1 .. m
       PROVE  cut[n] = Turned(cut[n - 1], max)
  <2>1. n \in 0 .. m /\ n # 0
    OBVIOUS
  <2>2. QED
    BY <1>8, <2>1 DEF Turned
<1>12. \A n \in 0 .. m : cut[n] \in S[n]
  BY <1>4, <1>10, <1>11
<1>13. QED
  BY <1>9, <1>12

-----------------------------------------------------------------------------
(* SqlTools: pages of a list *)

\* The sizes of names and lists of names are numbers.
LEMMA NamesBytesType ==
    ASSUME NEW names, NEW n \in Nat, DOMAIN names = 1 .. n,
           \A i \in 1 .. n : Len(names[i]) \in Nat
    PROVE  NamesBytes(names) \in Nat
<1> DEFINE f == [i \in DOMAIN names |-> ItemBytes + Len(names[i])]
<1>1. ItemBytes \in Nat
  BY SqlSchemaAssumption
<1>2. IsFiniteSet(DOMAIN f)
  BY FS_Interval
<1>3. \A i \in DOMAIN f : f[i] \in Nat
  BY <1>1
<1> HIDE DEF f
<1>4. SumFunction(f) \in Nat
  BY <1>2, <1>3, SumIsNumber
<1>5. QED
  BY <1>4 DEF NamesBytes, f

\* The first k tables of a list, with a cursor if there are more
NextOf(r, k) == IF k < Len(r) THEN JoinCursor(r[k]) ELSE <<>>

PageOf(r, k, more, truncated, returned) ==
    [tables |-> SubSeq(r, 1, k), table |-> <<>>,
     page |-> <<[has_more |-> k < Len(r), next |-> NextOf(r, k)]>>,
     truncated |-> truncated, more |-> more, returned |-> returned]

Spelled(tables) == [i \in DOMAIN tables |-> tables[i][1] \o tables[i][2]]

TableNames == SqlName \X SqlName

\* Tables have two names, and a cursor joins them to a text.
LEMMA CreatedTables ==
    /\ Created \subseteq TableNames /\ TableNames \subseteq Places
    /\ \A t \in TableNames : Len(JoinCursor(t)) \in Nat /\ Len(t[1] \o t[2]) \in Nat
<1>1. Created \subseteq TableNames
  BY SqlToolsAssumption DEF TableNames
<1>2. TableNames \subseteq Places
  BY DEF TableNames, Places, SqlName
<1>3. ASSUME NEW t \in TableNames
      PROVE  Len(JoinCursor(t)) \in Nat /\ Len(t[1] \o t[2]) \in Nat
  <2>1. t[1] \in Seq(Nat) /\ t[2] \in Seq(Nat) /\ Dot \in Nat
    BY DEF TableNames, SqlName, Dot
  <2>2. t[1] \o <<Dot>> \o t[2] \in Seq(Nat)
    BY <2>1, JoinedBy
  <2>3. t[1] \o t[2] \in Seq(Nat)
    BY <2>1, ConcatProperties
  <2>4. Len(t[1] \o <<Dot>> \o t[2]) \in Nat /\ Len(t[1] \o t[2]) \in Nat
    BY <2>2, <2>3, LenProperties
  <2>5. QED
    BY <2>4 DEF JoinCursor
<1>4. QED
  BY <1>1, <1>2, <1>3

\* The first items of a list
LEMMA PageTables ==
    ASSUME NEW X, NEW r \in Seq(X), NEW k \in 0 .. Len(r)
    PROVE  /\ SubSeq(r, 1, k) \in Seq(X) /\ Len(SubSeq(r, 1, k)) = k
           /\ DOMAIN SubSeq(r, 1, k) = 1 .. k
           /\ \A i \in 1 .. k : SubSeq(r, 1, k)[i] = r[i]
<1>1. Len(r) \in Nat /\ k \in Nat /\ k <= Len(r)
  OBVIOUS
<1>2. \A i \in 1 .. k : r[i] \in X
  <2>1. \A i \in 1 .. k : i \in 1 .. Len(r)
    BY <1>1
  <2>2. QED
    BY <2>1, ElementOfSeq
<1> DEFINE p == SubSeq(r, 1, k)
<1>3. /\ p \in Seq(X) /\ Len(p) = IF 1 <= k THEN k - 1 + 1 ELSE 0
      /\ \A i \in 1 .. k - 1 + 1 : p[i] = r[1 + i - 1]
  BY <1>1, <1>2, SubSeqProperties
<1> HIDE DEF p
<1>4. Len(p) = k
  BY <1>1, <1>3
<1>5. \A i \in 1 .. k : i \in 1 .. k - 1 + 1 /\ 1 + i - 1 = i
  BY <1>1
<1>6. DOMAIN p = 1 .. k
  BY <1>3, <1>4, LenProperties
<1>7. QED
  BY <1>3, <1>4, <1>5, <1>6 DEF p

\* One less of them
LEMMA FrontOfFirst ==
    ASSUME NEW X, NEW r \in Seq(X), NEW k \in 1 .. Len(r)
    PROVE  Front(SubSeq(r, 1, k)) = SubSeq(r, 1, k - 1)
<1> DEFINE p == SubSeq(r, 1, k)
           q == SubSeq(r, 1, k - 1)
           f == SubSeq(p, 1, k - 1)
<1>1. Len(r) \in Nat /\ k \in Nat /\ k \in 0 .. Len(r) /\ k - 1 \in 0 .. Len(r) /\ k - 1 \in 0 .. k
  OBVIOUS
<1>2. p \in Seq(X) /\ Len(p) = k /\ \A i \in 1 .. k : p[i] = r[i]
  BY <1>1, PageTables
<1>3. q \in Seq(X) /\ Len(q) = k - 1 /\ \A i \in 1 .. k - 1 : q[i] = r[i]
  BY <1>1, PageTables
<1> HIDE DEF p, q
<1>4. f \in Seq(X) /\ Len(f) = k - 1 /\ \A i \in 1 .. k - 1 : f[i] = p[i]
  BY <1>1, <1>2, PageTables
<1>5. Front(p) = f
  BY <1>2 DEF Front
<1> HIDE DEF f
<1>6. \A i \in 1 .. k - 1 : i \in 1 .. k
  BY <1>1
<1>7. f = q
  BY <1>2, <1>3, <1>4, <1>6, SeqEqual
<1>8. QED
  BY <1>5, <1>7 DEF p, q

\* The size of a page
LEMMA PageSize ==
    ASSUME NEW r \in Seq(TableNames), NEW k \in 0 .. Len(r), k < Len(r) => k # 0,
           NEW more \in BOOLEAN, NEW truncated, NEW returned \in Nat
    PROVE  /\ EncodedLen(PageOf(r, k, more, truncated, returned)) =
                 EnvelopeBytes + Width(returned) + NamesBytes(Spelled(SubSeq(r, 1, k)))
                    + Len(NextOf(r, k)) + (IF more THEN MoreBytes ELSE 0)
           /\ NamesBytes(Spelled(SubSeq(r, 1, k))) \in Nat
           /\ Len(NextOf(r, k)) \in Nat
           /\ EncodedLen(PageOf(r, k, more, truncated, returned)) \in Nat
<1> DEFINE p == SubSeq(r, 1, k)
           t == Spelled(p)
           next == NextOf(r, k)
           out == PageOf(r, k, more, truncated, returned)
<1>1. p \in Seq(TableNames) /\ DOMAIN p = 1 .. k /\ k \in Nat /\ Len(r) \in Nat
  BY PageTables
<1> HIDE DEF p
<1>2. NamesBytes(t) \in Nat
  <2>1. \A i \in 1 .. k : p[i] \in TableNames
    BY <1>1
  <2>2. DOMAIN t = 1 .. k /\ \A i \in 1 .. k : Len(t[i]) \in Nat
    BY <1>1, <2>1, CreatedTables DEF Spelled
  <2> HIDE DEF t
  <2>3. QED
    BY <1>1, <2>2, NamesBytesType
<1>3. Len(next) \in Nat
  <2>1. CASE k < Len(r)
    <3>1. k \in 1 .. Len(r)
      BY <1>1, <2>1
    <3>2. r[k] \in TableNames
      BY <3>1, ElementOfSeq
    <3>3. QED
      BY <2>1, <3>2, CreatedTables DEF NextOf
  <2>2. CASE ~(k < Len(r))
    BY <2>2 DEF NextOf
  <2>3. QED
    BY <2>1, <2>2
<1>4. /\ EnvelopeBytes \in Nat /\ MoreBytes \in Nat /\ Width(returned) \in Nat
  BY SqlSchemaAssumption DEF Width
<1>5. EncodedLen(out) = EnvelopeBytes + Width(returned) + NamesBytes(t) + Len(next) + 0
                           + (IF more THEN MoreBytes ELSE 0)
  <2>1. /\ out.returned = returned /\ out.tables = p /\ out.page # <<>> /\ out.page[1].next = next
        /\ out.table = <<>> /\ out.more = more
    BY DEF PageOf, p
  <2> HIDE DEF out, next
  <2>2. QED
    BY <2>1 DEF EncodedLen, t, Spelled
<1> HIDE DEF t, next, out
<1> DEFINE nt == NamesBytes(t)
           nn == Len(next)
           wd == Width(returned)
           adv == IF more THEN MoreBytes ELSE 0
           e == EncodedLen(out)
<1>6. /\ nt \in Nat /\ nn \in Nat /\ wd \in Nat /\ adv \in Nat /\ EnvelopeBytes \in Nat
      /\ e = EnvelopeBytes + wd + nt + nn + 0 + adv
  BY <1>2, <1>3, <1>4, <1>5
<1> HIDE DEF nt, nn, wd, adv, e
<1>7. e = EnvelopeBytes + wd + nt + nn + adv /\ e \in Nat
  BY ONLY <1>6
<1>8. QED
  BY <1>2, <1>3, <1>7 DEF t, next, out, p, nt, nn, wd, adv, e

\* The least budget has room for a list of one table.
LEMMA FirstFits ==
    ASSUME NEW r \in Seq(Created), Len(r) # 0, NEW max \in SchemaBudgets,
           NEW more \in BOOLEAN, NEW truncated, NEW returned \in Nat
    PROVE  EncodedLen(PageOf(r, 1, more, truncated, returned)) <= max
<1> DEFINE p == SubSeq(r, 1, 1)
           t == Spelled(p)
           next == NextOf(r, 1)
           one == OneTable(r[1])
<1>1. r \in Seq(TableNames) /\ Len(r) \in Nat /\ 1 \in 1 .. Len(r) /\ r[1] \in Created
  BY CreatedTables, SeqMonotonic
<1>2. p = <<r[1]>>
  <2>1. p \in Seq(TableNames) /\ Len(p) = 1 /\ p[1] = r[1]
    BY <1>1, PageTables
  <2>2. <<r[1]>> \in Seq(TableNames) /\ Len(<<r[1]>>) = 1
    BY <1>1, CreatedTables
  <2> HIDE DEF p
  <2>3. \A i \in 1 .. Len(p) : p[i] = <<r[1]>>[i]
    BY <2>1
  <2>4. QED
    BY <2>1, <2>2, <2>3, SeqEqual
<1>3. /\ EncodedLen(PageOf(r, 1, more, truncated, returned))
            = EnvelopeBytes + Width(returned) + NamesBytes(t) + Len(next)
                 + (IF more THEN MoreBytes ELSE 0)
      /\ NamesBytes(t) \in Nat /\ Len(next) \in Nat
  <2>1. 1 \in 0 .. Len(r) /\ (1 < Len(r) => 1 # 0)
    BY <1>1
  <2>2. QED
    BY <1>1, <2>1, PageSize
<1>4. EncodedLen(one) = EnvelopeBytes + NumberBytes + NamesBytes(t) + Len(JoinCursor(r[1])) + 0
                           + MoreBytes
  <2>1. /\ one.returned = 1 /\ one.tables = p /\ one.page # <<>>
        /\ one.page[1].next = JoinCursor(r[1]) /\ one.table = <<>> /\ one.more
    BY <1>2 DEF OneTable, NoAnswer
  <2>2. Width(1) = NumberBytes
    BY DEF Width
  <2> HIDE DEF one, p
  <2>3. QED
    BY <2>1, <2>2 DEF EncodedLen, Spelled
<1>5. EncodedLen(one) <= max /\ max \in Nat
  BY <1>1, SqlToolsAssumption
<1>6. /\ EnvelopeBytes \in Nat /\ MoreBytes \in Nat /\ NumberBytes \in Nat
      /\ Width(returned) \in Nat /\ Width(returned) <= NumberBytes
  BY SqlSchemaAssumption DEF Width
<1>7. Len(JoinCursor(r[1])) \in Nat /\ Len(next) <= Len(JoinCursor(r[1]))
  <2>1. Len(JoinCursor(r[1])) \in Nat
    BY <1>1, CreatedTables
  <2>2. Len(<<>>) = 0
    OBVIOUS
  <2>3. QED
    BY <2>1, <2>2 DEF NextOf
<1> HIDE DEF t, next, one, p
<1> DEFINE nt == NamesBytes(t)
           nn == Len(next)
           nj == Len(JoinCursor(r[1]))
           w == Width(returned)
           e == EncodedLen(PageOf(r, 1, more, truncated, returned))
           f == EncodedLen(one)
<1>8. /\ nt \in Nat /\ nn \in Nat /\ nj \in Nat /\ nn <= nj /\ w \in Nat /\ w <= NumberBytes
      /\ EnvelopeBytes \in Nat /\ MoreBytes \in Nat /\ NumberBytes \in Nat /\ max \in Nat
      /\ e = EnvelopeBytes + w + nt + nn + (IF more THEN MoreBytes ELSE 0)
      /\ f = EnvelopeBytes + NumberBytes + nt + nj + 0 + MoreBytes
      /\ f <= max
  BY <1>3, <1>4, <1>5, <1>6, <1>7
<1> HIDE DEF nt, nn, nj, w, e, f
<1>9. e <= max
  <2>1. CASE more
    BY ONLY <1>8, <2>1
  <2>2. CASE ~more
    BY ONLY <1>8, <2>2
  <2>3. QED
    BY <2>1, <2>2
<1>10. QED
  BY <1>9 DEF e

\* A turn takes the last table of a page.
LEMMA PageTurn ==
    ASSUME NEW r \in Seq(TableNames), NEW k \in 1 .. Len(r),
           NEW more \in BOOLEAN, NEW truncated, NEW returned
    PROVE  LET out == PageOf(r, k, more, truncated, returned)
           IN  /\ Turns(out) = k /\ ~Bare(out)
               /\ k # 1 => Shorter(out) = PageOf(r, k - 1, more, truncated, returned)
<1> DEFINE p == SubSeq(r, 1, k)
           out == PageOf(r, k, more, truncated, returned)
<1>1. k \in Nat /\ Len(r) \in Nat /\ k \in 0 .. Len(r)
  OBVIOUS
<1>2. p \in Seq(TableNames) /\ Len(p) = k /\ DOMAIN p = 1 .. k /\ \A i \in 1 .. k : p[i] = r[i]
  BY <1>1, PageTables
<1>3. out.tables = p /\ out.table = <<>>
  BY DEF PageOf
<1>4. Turns(out) = k
  <2> HIDE DEF out, p
  <2>1. Turns(out) = k + 0
    BY <1>2, <1>3 DEF Turns
  <2>2. QED
    BY <1>1, <2>1
<1>5. ~Bare(out)
  <2> HIDE DEF out, p
  <2>1. p # <<>>
    BY <1>1, <1>2
  <2>2. QED
    BY <1>3, <2>1 DEF Bare
<1>6. ASSUME k # 1
      PROVE  Shorter(out) = PageOf(r, k - 1, more, truncated, returned)
  <2> DEFINE q == SubSeq(r, 1, k - 1)
  <2>1. k - 1 \in 1 .. Len(r) /\ k - 1 \in 0 .. Len(r) /\ k - 1 < Len(r)
    BY <1>1, <1>6
  <2>2. q \in Seq(TableNames) /\ Len(q) = k - 1 /\ \A i \in 1 .. k - 1 : q[i] = r[i]
    BY <2>1, PageTables
  <2>3. Front(p) = q
    BY FrontOfFirst
  <2>4. q # <<>> /\ Last(q) = r[k - 1]
    <3> HIDE DEF q
    <3>1. k - 1 \in 1 .. k - 1 /\ Len(q) # 0
      BY <1>1, <1>6, <2>2
    <3>2. q # <<>>
      BY <3>1
    <3>3. QED
      BY <2>2, <3>1, <3>2 DEF Last
  <2> HIDE DEF p, q
  <2>5. Shorter(out) = ShorterList(out)
    BY <1>3 DEF Shorter
  <2>6. ShorterList(out) = [out EXCEPT !.tables = q,
              !.page = <<[has_more |-> TRUE, next |-> JoinCursor(r[k - 1])]>>]
    <3> HIDE DEF out
    <3>1. QED
      BY <1>3, <2>3, <2>4 DEF ShorterList
  <2>7. PageOf(r, k - 1, more, truncated, returned) =
           [tables |-> q, table |-> <<>>,
            page |-> <<[has_more |-> TRUE, next |-> JoinCursor(r[k - 1])]>>,
            truncated |-> truncated, more |-> more, returned |-> returned]
    BY <2>1 DEF PageOf, NextOf, q
  <2>8. QED
    BY <2>5, <2>6, <2>7 DEF PageOf
<1>7. QED
  BY <1>4, <1>5, <1>6

LEMMA BudgetIsNumber ==
    ASSUME NEW max \in SchemaBudgets
    PROVE  max \in Nat
BY SqlToolsAssumption, SqlSchemaAssumption

WithTruncated(out, b) == [out EXCEPT !.truncated = b]

WithMore(out, b) == [out EXCEPT !.more = b]

\* The fields of a page that are set one by one
LEMMA PageFields ==
    ASSUME NEW r, NEW k, NEW more, NEW truncated, NEW returned, NEW b,
           NEW out, out = PageOf(r, k, more, truncated, returned)
    PROVE  /\ out.returned = returned
           /\ Measured(out) = PageOf(r, k, more, truncated, EncodedLen(out))
           /\ WithTruncated(out, b) = PageOf(r, k, more, b, returned)
           /\ WithMore(out, b) = PageOf(r, k, b, truncated, returned)
<1> DEFINE p == SubSeq(r, 1, k)
           page == <<[has_more |-> k < Len(r), next |-> NextOf(r, k)]>>
           size == EncodedLen(out)
<1>1. \A n, c, d : PageOf(r, k, c, d, n) =
         [tables |-> p, table |-> <<>>, page |-> page, truncated |-> d, more |-> c, returned |-> n]
  BY DEF PageOf
<1>2. Measured(out) = [out EXCEPT !.returned = size]
  BY DEF Measured
<1> HIDE DEF size, p, page
<1>3. out = [tables |-> p, table |-> <<>>, page |-> page, truncated |-> truncated, more |-> more,
             returned |-> returned]
  BY <1>1
<1>4. [out EXCEPT !.returned = size] = PageOf(r, k, more, truncated, size)
  BY <1>1, <1>3
<1>5. [out EXCEPT !.truncated = b] = PageOf(r, k, more, b, returned)
  BY <1>1, <1>3
<1>6. [out EXCEPT !.more = b] = PageOf(r, k, b, truncated, returned)
  BY <1>1, <1>3
<1>7. out.returned = returned
  BY <1>3
<1>8. WithTruncated(out, b) = PageOf(r, k, more, b, returned)
  BY <1>5 DEF WithTruncated
<1>9. WithMore(out, b) = PageOf(r, k, b, truncated, returned)
  BY <1>6 DEF WithMore
<1>10. Measured(out) = PageOf(r, k, more, truncated, EncodedLen(out))
  BY <1>2, <1>4 DEF size
<1>11. QED
  BY <1>7, <1>8, <1>9, <1>10

\* A page that was measured is the page with its size.
LEMMA PageMeasured ==
    ASSUME NEW r, NEW k, NEW more, NEW truncated, NEW returned
    PROVE  LET out == PageOf(r, k, more, truncated, returned)
           IN  /\ out.returned = returned
               /\ Measured(out) = PageOf(r, k, more, truncated, EncodedLen(out))
<1> DEFINE out == PageOf(r, k, more, truncated, returned)
<1>1. out = PageOf(r, k, more, truncated, returned)
  OBVIOUS
<1> HIDE DEF out
<1>2. /\ out.returned = returned
      /\ Measured(out) = PageOf(r, k, more, truncated, EncodedLen(out))
  BY <1>1, PageFields
<1>3. QED
  BY <1>2 DEF out

Pages(r, numbers, more, truncated) ==
    {PageOf(r, q[1], more, truncated, q[2]) : q \in numbers \X Nat}

\* What trim_table_list leaves of a page: a page that fits, of fewer tables
\* but never of none.
LEMMA PageTrimmed ==
    ASSUME NEW r \in Seq(Created), NEW k \in 1 .. Len(r), NEW max \in SchemaBudgets,
           NEW more \in BOOLEAN, NEW truncated, NEW returned \in Nat, k = 1 => returned <= max
    PROVE  Trimmed(PageOf(r, k, more, truncated, returned), max)
              \in Pages(r, 1 .. k, more, truncated)
<1> DEFINE Page(j, n) == PageOf(r, j, more, truncated, n)
           Q == {q \in (1 .. k) \X Nat : q[1] = 1 => q[2] <= max}
           S == {Page(q[1], q[2]) : q \in Q}
           out == Page(k, returned)
<1>1. r \in Seq(TableNames) /\ Len(r) \in Nat /\ k \in Nat /\ max \in Nat /\ Len(r) # 0
  BY CreatedTables, SeqMonotonic, BudgetIsNumber
<1>2. out \in S
  <2>1. <<k, returned>> \in Q
    BY <1>1
  <2>2. QED
    BY <2>1
<1>3. ASSUME NEW j \in 1 .. k, NEW n \in Nat
      PROVE  /\ Turns(Page(j, n)) = j /\ Page(j, n).returned = n
             /\ ~Bare(Page(j, n))
             /\ j # 1 => \E m \in Nat : /\ Measured(Shorter(Page(j, n))) = Page(j - 1, m)
                                        /\ j = 2 => m <= max
  <2>1. j \in 1 .. Len(r) /\ j \in Nat
    BY <1>1
  <2>2. /\ Turns(Page(j, n)) = j /\ ~Bare(Page(j, n))
        /\ j # 1 => Shorter(Page(j, n)) = Page(j - 1, n)
    BY <1>1, <2>1, PageTurn
  <2>3. ASSUME j # 1
        PROVE  \E m \in Nat : Measured(Shorter(Page(j, n))) = Page(j - 1, m) /\ (j = 2 => m <= max)
    <3> DEFINE m == EncodedLen(Page(j - 1, n))
    <3>1. j - 1 \in 0 .. Len(r) /\ j - 1 # 0
      BY <1>1, <2>1, <2>3
    <3>2. m \in Nat
      BY <1>1, <3>1, PageSize
    <3>3. Measured(Page(j - 1, n)) = Page(j - 1, m)
      BY PageMeasured
    <3>4. ASSUME j = 2
          PROVE  m <= max
      <4>1. j - 1 = 1
        BY <3>4
      <4>2. QED
        BY <1>1, <4>1, FirstFits
    <3> HIDE DEF m
    <3>5. QED
      BY <2>2, <2>3, <3>2, <3>3, <3>4
  <2>4. Page(j, n).returned = n
    BY PageMeasured
  <2>5. QED
    BY <2>2, <2>3, <2>4
<1> HIDE DEF Page
<1>4. \A o \in S : Turned(o, max) \in S
  <2> SUFFICES ASSUME NEW q \in Q, ~(Page(q[1], q[2]).returned <= max)
               PROVE  Measured(Shorter(Page(q[1], q[2]))) \in S
    BY DEF Turned
  <2>1. q[1] \in 1 .. k /\ q[2] \in Nat /\ (q[1] = 1 => q[2] <= max)
    OBVIOUS
  <2>2. q[1] # 1
    BY <1>3, <2>1
  <2>3. PICK m \in Nat : /\ Measured(Shorter(Page(q[1], q[2]))) = Page(q[1] - 1, m)
                         /\ q[1] = 2 => m <= max
    BY <1>3, <2>1, <2>2
  <2>4. q[1] - 1 \in 1 .. k /\ (q[1] - 1 = 1 => q[1] = 2)
    BY <1>1, <2>1, <2>2
  <2>5. <<q[1] - 1, m>> \in Q
    BY <2>3, <2>4
  <2>6. Page(q[1] - 1, m) \in S
    BY <2>5
  <2>7. QED
    BY <2>3, <2>6
<1>5. Turns(out) = k
  BY <1>1, <1>3
<1>6. Trimmed(out, max) \in S
  <2> HIDE DEF S, out
  <2> DEFINE sets == [n \in 0 .. k |-> S]
  <2>1. out \in sets[0] /\ sets[k] = S
    BY <1>1, <1>2
  <2>2. \A n \in 1 .. k : \A o \in sets[n - 1] : Turned(o, max) \in sets[n]
    <3> SUFFICES ASSUME NEW n \in 1 .. k, NEW o \in sets[n - 1]
                 PROVE  Turned(o, max) \in sets[n]
      OBVIOUS
    <3>1. n \in 0 .. k /\ n - 1 \in 0 .. k
      BY <1>1
    <3>2. QED
      BY <1>4, <3>1
  <2> HIDE DEF sets
  <2>3. Trimmed(out, max) \in sets[k]
    BY ONLY <1>1, <1>5, <2>1, <2>2, TrimmedTurns
  <2>4. QED
    BY <2>1, <2>3
<1>7. PICK q \in Q : Trimmed(out, max) = Page(q[1], q[2])
  BY <1>6
<1>8. q \in (1 .. k) \X Nat
  OBVIOUS
<1>9. QED
  BY <1>7, <1>8 DEF Page, Pages

\* An answer without tables is not cut.
LEMMA EmptyPageTrimmed ==
    ASSUME NEW r \in Seq(Created), NEW max, NEW more, NEW truncated, NEW returned
    PROVE  Trimmed(PageOf(r, 0, more, truncated, returned), max)
              = PageOf(r, 0, more, truncated, returned)
<1> DEFINE out == PageOf(r, 0, more, truncated, returned)
           sets == [n \in 0 .. 0 |-> {out}]
<1>1. out.tables = <<>> /\ out.table = <<>>
  <2>1. r \in Seq(TableNames) /\ 0 \in 0 .. Len(r)
    BY CreatedTables, SeqMonotonic
  <2>2. Len(SubSeq(r, 1, 0)) = 0 /\ SubSeq(r, 1, 0) \in Seq(TableNames)
    BY <2>1, PageTables
  <2>3. SubSeq(r, 1, 0) = <<>>
    BY <2>2, EmptySeq
  <2>4. QED
    BY <2>3 DEF PageOf
<1> HIDE DEF out
<1>2. Turns(out) = 0 /\ Bare(out)
  BY <1>1 DEF Turns, Bare
<1>3. out \in sets[0] /\ sets[0] = {out} /\ 0 \in Nat
  OBVIOUS
<1>4. \A n \in 1 .. 0 : \A o \in sets[n - 1] : Turned(o, max) \in sets[n]
  OBVIOUS
<1> HIDE DEF sets
<1>5. Trimmed(out, max) \in sets[0]
  BY ONLY <1>2, <1>3, <1>4, TrimmedTurns
<1>6. QED
  BY <1>3, <1>5 DEF out

\* What finalize_output leaves of a page: fewer tables, but none only of none.
LEMMA PageFinalized ==
    ASSUME NEW r \in Seq(Created), NEW k \in 0 .. Len(r), k = 0 => Len(r) = 0,
           NEW max \in SchemaBudgets
    PROVE  \E j \in 0 .. k, more \in BOOLEAN, truncated \in BOOLEAN, n \in Nat :
              /\ Finalize(PageOf(r, k, FALSE, FALSE, 0), max) = PageOf(r, j, more, truncated, n)
              /\ j = 0 => k = 0
<1> DEFINE Kept == {j \in 0 .. k : j = 0 => k = 0}
<1>1. r \in Seq(TableNames) /\ Len(r) \in Nat /\ k \in Nat /\ max \in Nat /\ 0 \in Nat
  BY CreatedTables, SeqMonotonic, BudgetIsNumber
<1>2. ASSUME NEW j \in Kept, NEW more \in BOOLEAN, NEW truncated \in BOOLEAN, NEW n \in Nat
      PROVE  \E m \in Nat : /\ Measured(PageOf(r, j, more, truncated, n)) = PageOf(r, j, more, truncated, m)
                            /\ j = 1 => m <= max
  <2> DEFINE m == EncodedLen(PageOf(r, j, more, truncated, n))
  <2>1. j \in 0 .. Len(r) /\ (j < Len(r) => j # 0)
    BY <1>1
  <2>2. m \in Nat
    BY <1>1, <2>1, PageSize
  <2>3. ASSUME j = 1
        PROVE  m <= max
    <3>1. Len(r) # 0
      BY <1>1, <2>3
    <3>2. QED
      BY <2>3, <3>1, FirstFits
  <2>4. Measured(PageOf(r, j, more, truncated, n)) = PageOf(r, j, more, truncated, m)
    BY PageMeasured
  <2> HIDE DEF m
  <2>5. QED
    BY <2>2, <2>3, <2>4
<1>3. ASSUME NEW j \in Kept, NEW n \in Nat, j = 1 => n <= max
      PROVE  Trimmed(PageOf(r, j, FALSE, TRUE, n), max) \in Pages(r, Kept, FALSE, TRUE)
  <2>1. CASE j = 0
    <3>1. Trimmed(PageOf(r, j, FALSE, TRUE, n), max) = PageOf(r, j, FALSE, TRUE, n)
      BY <2>1, EmptyPageTrimmed
    <3>2. <<j, n>> \in Kept \X Nat /\ <<j, n>>[1] = j /\ <<j, n>>[2] = n
      OBVIOUS
    <3> HIDE DEF Kept
    <3>3. QED
      BY <3>1, <3>2 DEF Pages
  <2>2. CASE j # 0
    <3>1. j \in 1 .. Len(r)
      BY <1>1, <2>2
    <3>2. FALSE \in BOOLEAN
      OBVIOUS
    <3>3. Trimmed(PageOf(r, j, FALSE, TRUE, n), max) \in Pages(r, 1 .. j, FALSE, TRUE)
      <4> DEFINE truncated == TRUE
      <4> HIDE DEF truncated
      <4>1. Trimmed(PageOf(r, j, FALSE, truncated, n), max) \in Pages(r, 1 .. j, FALSE, truncated)
        BY <1>3, <3>1, <3>2, PageTrimmed
      <4>2. QED
        BY <4>1 DEF truncated
    <3>4. (1 .. j) \X Nat \subseteq Kept \X Nat
      BY <1>1
    <3>5. Pages(r, 1 .. j, FALSE, TRUE) \subseteq Pages(r, Kept, FALSE, TRUE)
      BY <3>4 DEF Pages
    <3>6. QED
      BY <3>3, <3>5
  <2>3. QED
    BY <2>1, <2>2
<1>4. ASSUME NEW out \in Pages(r, Kept, FALSE, TRUE)
      PROVE  \E j \in Kept, n \in Nat : out = PageOf(r, j, FALSE, TRUE, n)
  <2> HIDE DEF Kept
  <2>1. PICK q \in Kept \X Nat : out = PageOf(r, q[1], FALSE, TRUE, q[2])
    BY DEF Pages
  <2>2. q[1] \in Kept /\ q[2] \in Nat
    OBVIOUS
  <2>3. QED
    BY <2>1, <2>2
<1>6. k \in Kept
  BY <1>1
<1>7. \A j \in Kept : j \in 0 .. k /\ (j = 0 => k = 0)
  OBVIOUS
<1> HIDE DEF Kept
<1> DEFINE out == PageOf(r, k, FALSE, FALSE, 0)
           whole == Measured(out)
           cut == Trimmed(WithTruncated(whole, TRUE), max)
           b == max < MaxSchemaBytes
           advised == Measured(WithMore(cut, b))
           plain == Measured(Trimmed(WithMore(advised, FALSE), max))
           IsPage(o) == \E j \in Kept, more \in BOOLEAN, truncated \in BOOLEAN, n \in Nat :
                           o = PageOf(r, j, more, truncated, n)
<1>8. Finalize(out, max) = IF whole.returned <= max THEN whole
                           ELSE IF advised.returned <= max THEN advised ELSE plain
  <2> HIDE DEF out
  <2>1. QED
    BY DEF Finalize, WithTruncated, WithMore
<1>9. b \in BOOLEAN
  OBVIOUS
<1> HIDE DEF b
<1>10. PICK size \in Nat : whole = PageOf(r, k, FALSE, FALSE, size) /\ (k = 1 => size <= max)
  BY <1>1, <1>2, <1>6
<1> HIDE DEF out, whole
<1>11. WithTruncated(whole, TRUE) = PageOf(r, k, FALSE, TRUE, size)
  <2> DEFINE no == FALSE
  <2>1. whole = PageOf(r, k, no, no, size)
    BY <1>10
  <2> HIDE DEF no
  <2>2. \A x : WithTruncated(whole, x) = PageOf(r, k, no, x, size)
    BY <2>1, PageFields
  <2>3. WithTruncated(whole, TRUE) = PageOf(r, k, no, TRUE, size)
    BY <2>2
  <2>4. QED
    BY <2>3 DEF no
<1>12. cut \in Pages(r, Kept, FALSE, TRUE)
  BY <1>3, <1>6, <1>10, <1>11
<1> HIDE DEF cut
<1>13. PICK i \in Kept, m \in Nat : cut = PageOf(r, i, FALSE, TRUE, m)
  BY <1>4, <1>12
<1>14. WithMore(cut, b) = PageOf(r, i, b, TRUE, m)
  <2> DEFINE yes == TRUE
             no == FALSE
  <2>1. cut = PageOf(r, i, no, yes, m)
    BY <1>13
  <2> HIDE DEF yes, no
  <2>2. WithMore(cut, b) = PageOf(r, i, b, yes, m)
    BY <2>1, PageFields
  <2>3. QED
    BY <2>2 DEF yes
<1>15. PICK more \in Nat : advised = PageOf(r, i, b, TRUE, more) /\ (i = 1 => more <= max)
  <2>1. TRUE \in BOOLEAN
    OBVIOUS
  <2>2. \E x \in Nat : /\ Measured(PageOf(r, i, b, TRUE, m)) = PageOf(r, i, b, TRUE, x)
                       /\ i = 1 => x <= max
    BY <1>2, <1>9, <2>1
  <2>3. QED
    BY <1>14, <2>2
<1> HIDE DEF advised
<1>16. WithMore(advised, FALSE) = PageOf(r, i, FALSE, TRUE, more)
  <2> DEFINE yes == TRUE
  <2>1. advised = PageOf(r, i, b, yes, more)
    BY <1>15
  <2> HIDE DEF yes
  <2>2. \A x : WithMore(advised, x) = PageOf(r, i, x, yes, more)
    BY <2>1, PageFields
  <2>3. WithMore(advised, FALSE) = PageOf(r, i, FALSE, yes, more)
    BY <2>2
  <2>4. QED
    BY <2>3 DEF yes
<1>17. Trimmed(WithMore(advised, FALSE), max) \in Pages(r, Kept, FALSE, TRUE)
  BY <1>3, <1>15, <1>16
<1>18. PICK j \in Kept, n \in Nat :
          Trimmed(WithMore(advised, FALSE), max) = PageOf(r, j, FALSE, TRUE, n)
  BY <1>4, <1>17
<1>19. PICK x \in Nat : plain = PageOf(r, j, FALSE, TRUE, x)
  <2> DEFINE truncated == TRUE
             mentioned == FALSE
  <2>1. truncated \in BOOLEAN /\ mentioned \in BOOLEAN
    OBVIOUS
  <2> HIDE DEF truncated, mentioned
  <2>2. \E x \in Nat : Measured(PageOf(r, j, mentioned, truncated, n)) = PageOf(r, j, mentioned, truncated, x)
    BY <1>2, <2>1
  <2>3. QED
    BY <1>18, <2>2 DEF truncated, mentioned
<1> HIDE DEF plain
<1>20. TRUE \in BOOLEAN /\ FALSE \in BOOLEAN
  OBVIOUS
<1>21. IsPage(whole) /\ IsPage(advised) /\ IsPage(plain)
  BY <1>6, <1>9, <1>10, <1>15, <1>19, <1>20
<1>22. IsPage(Finalize(out, max))
  <2> HIDE DEF IsPage
  <2>1. QED
    BY <1>8, <1>21
<1>23. QED
  BY <1>7, <1>22 DEF out

-----------------------------------------------------------------------------
(* SqlTools: lists of tables *)

IsCatalog(c) ==
    /\ IsFiniteSet(DOMAIN c) /\ DOMAIN c \subseteq Created
    /\ \A t \in DOMAIN c : IsDefinition(c[t])

\* The tables that a page is asked of
Left(c, cursor) ==
    {t \in Listable(c) : SplitCursor(cursor) = <<<<>>, <<>>>> \/ After(t, SplitCursor(cursor))}

\* The SELECT of list_tables gives the tables after the cursor, in order.
LEMMA RestOfTables ==
    ASSUME NEW c, IsCatalog(c), NEW cursor
    PROVE  LET r == Rest(c, cursor)
           IN  /\ r \in Seq(Created) /\ Len(r) \in Nat
               /\ \A i \in 1 .. Len(r) : r[i] \in Left(c, cursor)
               /\ \A t \in Left(c, cursor) : \E i \in 1 .. Len(r) : r[i] = t
               /\ \A i, j \in 1 .. Len(r) : i < j => After(r[j], r[i])
<1> DEFINE S == Left(c, cursor)
           r == Rest(c, cursor)
           n == Cardinality(S)
<1>1. S \in SUBSET Created /\ IsFiniteSet(S)
  <2>1. S \subseteq DOMAIN c
    BY DEF Left, Listable
  <2>2. QED
    BY <2>1, FS_Subset DEF IsCatalog
<1>2. r = Ordered(S)
  BY DEF Rest, Left
<1>3. S \in SUBSET Places
  BY <1>1, CreatedTables
<1> HIDE DEF S, r
<1>4. /\ n \in Nat
      /\ r \in [1 .. n -> S]
      /\ \A t \in S : \E i \in 1 .. n : r[i] = t
      /\ \A i, j \in 1 .. n : i < j => After(r[j], r[i])
  BY <1>1, <1>2, <1>3, OrderedTables
<1> HIDE DEF n
<1>5. r \in Seq(Created) /\ Len(r) = n
  <2>1. r \in [1 .. n -> Created]
    BY <1>1, <1>4
  <2>2. QED
    BY <1>4, <2>1
<1>6. QED
  BY <1>4, <1>5 DEF S, r

\* list_tables asks for one table more than the page to know of the next.
LEMMA ListedPage ==
    ASSUME NEW c, IsCatalog(c), NEW cursor, NEW limit \in Limits
    PROVE  \E k \in 0 .. Len(Rest(c, cursor)) :
              /\ ListTables(c, cursor, limit) = PageOf(Rest(c, cursor), k, FALSE, FALSE, 0)
              /\ k = 0 => Len(Rest(c, cursor)) = 0
<1> DEFINE r == Rest(c, cursor)
           k == IF limit < Len(r) THEN limit ELSE Len(r)
           tables == Cut(r, limit)
           more == Len(Cut(r, limit + 1)) > limit
<1>1. r \in Seq(Created) /\ Len(r) \in Nat
  BY RestOfTables
<1>2. ListTables(c, cursor, limit) =
         [NoAnswer EXCEPT
            !.tables = tables,
            !.page = <<[has_more |-> more, next |-> IF more THEN JoinCursor(Last(tables)) ELSE <<>>]>>]
  BY DEF ListTables
<1> HIDE DEF r
<1>3. limit \in Nat /\ limit # 0
  BY SqlToolsAssumption
<1>4. k \in 0 .. Len(r) /\ (k = 0 => Len(r) = 0)
  BY <1>1, <1>3
<1>5. tables = SubSeq(r, 1, k)
  BY DEF Cut
<1>6. more <=> k < Len(r)
  <2>1. r \in Seq(TableNames)
    BY <1>1, CreatedTables, SeqMonotonic
  <2>2. CASE limit + 1 < Len(r)
    <3>1. Cut(r, limit + 1) = SubSeq(r, 1, limit + 1)
      BY <2>2 DEF Cut
    <3>2. limit + 1 \in 0 .. Len(r)
      BY <1>1, <1>3, <2>2
    <3>3. Len(Cut(r, limit + 1)) = limit + 1
      BY <2>1, <3>1, <3>2, PageTables
    <3>4. QED
      BY <1>1, <1>3, <2>2, <3>3
  <2>3. CASE ~(limit + 1 < Len(r))
    <3>1. Cut(r, limit + 1) = SubSeq(r, 1, Len(r))
      BY <2>3 DEF Cut
    <3>2. Len(r) \in 0 .. Len(r)
      BY <1>1
    <3>3. Len(Cut(r, limit + 1)) = Len(r)
      BY <2>1, <3>1, <3>2, PageTables
    <3>4. QED
      BY <1>1, <1>3, <2>3, <3>3
  <2>4. QED
    BY <2>2, <2>3
<1> HIDE DEF more
<1>7. ASSUME k < Len(r)
      PROVE  Last(tables) = r[k]
  <2>1. r \in Seq(TableNames) /\ k \in 1 .. k
    BY <1>1, <1>3, <1>7, CreatedTables, SeqMonotonic
  <2>2. Len(tables) = k /\ tables[k] = r[k]
    BY <1>4, <1>5, <2>1, PageTables
  <2>3. QED
    BY <2>2 DEF Last
<1> HIDE DEF tables, k
<1>8. (IF more THEN JoinCursor(Last(tables)) ELSE <<>>) = NextOf(r, k)
  BY <1>6, <1>7 DEF NextOf
<1>9. more = (k < Len(r))
  <2>1. more \in BOOLEAN /\ (k < Len(r)) \in BOOLEAN
    BY DEF more
  <2>2. QED
    BY <1>6, <2>1
<1>10. ListTables(c, cursor, limit) = PageOf(r, k, FALSE, FALSE, 0)
  <2>1. PageOf(r, k, FALSE, FALSE, 0) =
           [NoAnswer EXCEPT !.tables = SubSeq(r, 1, k),
                            !.page = <<[has_more |-> k < Len(r), next |-> NextOf(r, k)]>>]
    <3> DEFINE p == SubSeq(r, 1, k)
               page == <<[has_more |-> k < Len(r), next |-> NextOf(r, k)]>>
    <3> DEFINE no == FALSE
               empty == NoAnswer
               named == [empty EXCEPT !.tables = p]
               paged == [named EXCEPT !.page = page]
    <3>1. PageOf(r, k, FALSE, FALSE, 0) =
             [tables |-> p, table |-> <<>>, page |-> page, truncated |-> no, more |-> no,
              returned |-> 0]
      BY DEF PageOf
    <3>2. [empty EXCEPT !.tables = p, !.page = page] = paged
      <4> HIDE DEF empty
      <4>1. QED
        OBVIOUS
    <3>3. empty = [tables |-> <<>>, table |-> <<>>, page |-> <<>>, truncated |-> no, more |-> no,
                   returned |-> 0]
      BY DEF NoAnswer
    <3> HIDE DEF p, page, no, empty
    <3>4. named = [tables |-> p, table |-> <<>>, page |-> <<>>, truncated |-> no, more |-> no,
                   returned |-> 0]
      BY <3>3
    <3> HIDE DEF named
    <3>5. paged = [tables |-> p, table |-> <<>>, page |-> page, truncated |-> no, more |-> no,
                   returned |-> 0]
      BY <3>4
    <3> HIDE DEF paged
    <3>6. QED
      BY <3>1, <3>2, <3>5 DEF p, page, empty
  <2>2. QED
    BY <1>2, <1>5, <1>8, <1>9, <2>1
<1>11. QED
  BY <1>4, <1>10 DEF r

\* What the caller gets of a page: tables from the beginning of the rest,
\* some if there are any, and the cursor after them.
LEMMA PageRead ==
    ASSUME NEW c, IsCatalog(c), NEW cursor, NEW limit \in Limits, NEW max \in SchemaBudgets
    PROVE  LET out == Finalize(ListTables(c, cursor, limit), max)
               r == Rest(c, cursor)
           IN  \E j \in 0 .. Len(r) :
                  /\ j = 0 => Len(r) = 0
                  /\ out.tables = SubSeq(r, 1, j)
                  /\ out.page[1].has_more = (j < Len(r))
                  /\ out.page[1].next = NextOf(r, j)
<1> DEFINE r == Rest(c, cursor)
           out == Finalize(ListTables(c, cursor, limit), max)
<1>1. r \in Seq(Created) /\ Len(r) \in Nat
  BY RestOfTables
<1>2. PICK k \in 0 .. Len(r) : /\ ListTables(c, cursor, limit) = PageOf(r, k, FALSE, FALSE, 0)
                               /\ k = 0 => Len(r) = 0
  BY ListedPage
<1> HIDE DEF r
<1>3. PICK j \in 0 .. k, more \in BOOLEAN, truncated \in BOOLEAN, n \in Nat :
         /\ out = PageOf(r, j, more, truncated, n)
         /\ j = 0 => k = 0
  <2>1. out = Finalize(PageOf(r, k, FALSE, FALSE, 0), max)
    BY <1>2
  <2>2. k = 0 => Len(r) = 0
    BY <1>2
  <2>3. \E j \in 0 .. k, more \in BOOLEAN, truncated \in BOOLEAN, n \in Nat :
           /\ Finalize(PageOf(r, k, FALSE, FALSE, 0), max) = PageOf(r, j, more, truncated, n)
           /\ j = 0 => k = 0
    BY ONLY <1>1, <2>2, PageFinalized
  <2> HIDE DEF out
  <2>4. QED
    BY <2>1, <2>3
<1> HIDE DEF out
<1>4. j \in 0 .. Len(r) /\ (j = 0 => Len(r) = 0)
  BY <1>1, <1>2, <1>3
<1>5. /\ out.tables = SubSeq(r, 1, j) /\ out.page[1].has_more = (j < Len(r))
      /\ out.page[1].next = NextOf(r, j)
  BY <1>3 DEF PageOf
<1>6. QED
  BY <1>4, <1>5 DEF out, r

ListStates ==
    [pc : {"idle", "asking", "done", "refused"}, cursor : Seq(Nat), listed : Seq(Created), pages : Nat,
     throughout : SUBSET Created, ever : SUBSET Created]

Told(l) == {l.listed[i] : i \in 1 .. Len(l.listed)}

\* What a caller who follows next_cursor knows of the tables of catalog c
IsListing(l, c) ==
    /\ l \in ListStates
    /\ l.pc = "idle" => l.listed = <<>>
    /\ Told(l) \subseteq l.ever
    /\ (\A t \in l.ever : ~Dotted(t) /\ ~Indented(t) /\ ~Trailing(t)) =>
          \A i \in 2 .. Len(l.listed) : After(l.listed[i], l.listed[i - 1])
    /\ l.pc = "done" /\ (\A t \in l.ever : ~Indented(t)) => l.throughout \subseteq Told(l)
    /\ l.pc = "asking" =>
          /\ l.throughout \subseteq Listable(c) /\ Listable(c) \subseteq l.ever
          /\ l.cursor = IF l.listed = <<>> THEN <<>> ELSE JoinCursor(Last(l.listed))
          /\ (\A t \in l.ever : ~Indented(t)) =>
                \A t \in l.throughout :
                   \/ t \in Told(l) \/ l.listed = <<>>
                   \/ After(t, SplitCursor(TrimBlanks(l.cursor)))

\* Two sequences of tables, one after the other
LEMMA ListedOn ==
    ASSUME NEW a \in Seq(Created), NEW b \in Seq(Created)
    PROVE  /\ a \o b \in Seq(Created) /\ Len(a \o b) = Len(a) + Len(b)
           /\ Len(a) \in Nat /\ Len(b) \in Nat
           /\ \A i \in 1 .. Len(a) : (a \o b)[i] = a[i]
           /\ \A i \in 1 .. Len(b) : (a \o b)[Len(a) + i] = b[i]
<1> DEFINE c == a \o b
<1>1. Len(a) \in Nat /\ Len(b) \in Nat
  BY LenProperties
<1>2. /\ c \in Seq(Created) /\ Len(c) = Len(a) + Len(b)
      /\ \A i \in 1 .. Len(a) + Len(b) : c[i] = IF i <= Len(a) THEN a[i] ELSE b[i - Len(a)]
  BY ConcatProperties
<1> HIDE DEF c
<1>3. \A i \in 1 .. Len(a) : c[i] = a[i]
  BY <1>1, <1>2
<1>4. \A i \in 1 .. Len(b) : c[Len(a) + i] = b[i]
  <2> SUFFICES ASSUME NEW i \in 1 .. Len(b)
               PROVE  c[Len(a) + i] = b[i]
    OBVIOUS
  <2>1. Len(a) + i \in 1 .. Len(a) + Len(b) /\ ~(Len(a) + i <= Len(a)) /\ (Len(a) + i) - Len(a) = i
    BY <1>1
  <2>2. QED
    BY <1>2, <2>1
<1>5. QED
  BY <1>1, <1>2, <1>3, <1>4 DEF c

\* The first tables of a list
LEMMA PageOfCreated ==
    ASSUME NEW r \in Seq(Created), NEW j \in 0 .. Len(r)
    PROVE  /\ SubSeq(r, 1, j) \in Seq(Created) /\ Len(SubSeq(r, 1, j)) = j
           /\ \A i \in 1 .. j : SubSeq(r, 1, j)[i] = r[i]
BY PageTables

\* A page more.  A table that was there all the time is told of or is still
\* after the cursor: the page ends with a table it comes after, or with the
\* last there is.
LEMMA ListingGoesOn ==
    ASSUME NEW c, IsCatalog(c), NEW l, IsListing(l, c), l.pc = "asking",
           NEW r, r = Rest(c, TrimBlanks(l.cursor)), NEW j \in 0 .. Len(r), j = 0 => Len(r) = 0,
           NEW m, m \in ListStates,
           m.pc = IF j < Len(r) THEN "asking" ELSE "done", m.cursor = NextOf(r, j),
           m.listed = l.listed \o SubSeq(r, 1, j),
           m.throughout = l.throughout, m.ever = l.ever
    PROVE  IsListing(m, c)
<1> DEFINE a == l.listed
           b == SubSeq(r, 1, j)
           n == Len(a)
           sought == TrimBlanks(l.cursor)
<1>1. /\ r \in Seq(Created) /\ Len(r) \in Nat
      /\ \A i \in 1 .. Len(r) : r[i] \in Left(c, sought)
      /\ \A t \in Left(c, sought) : \E i \in 1 .. Len(r) : r[i] = t
      /\ \A i, k \in 1 .. Len(r) : i < k => After(r[k], r[i])
  <2> DEFINE cursor == sought
  <2>1. r = Rest(c, cursor)
    OBVIOUS
  <2> HIDE DEF cursor
  <2>2. LET rest == Rest(c, cursor)
        IN  /\ rest \in Seq(Created) /\ Len(rest) \in Nat
            /\ \A i \in 1 .. Len(rest) : rest[i] \in Left(c, cursor)
            /\ \A t \in Left(c, cursor) : \E i \in 1 .. Len(rest) : rest[i] = t
            /\ \A i, k \in 1 .. Len(rest) : i < k => After(rest[k], rest[i])
    BY RestOfTables
  <2>3. QED
    BY <2>1, <2>2 DEF cursor
<1> HIDE DEF sought
<1>2. b \in Seq(Created) /\ Len(b) = j /\ \A i \in 1 .. j : b[i] = r[i]
  BY <1>1, PageOfCreated
<1>3. a \in Seq(Created) /\ l \in ListStates /\ n \in Nat
  BY DEF IsListing, ListStates
<1> HIDE DEF a, b
<1>4. m.listed = a \o b
  BY DEF a, b
<1>5. /\ m.listed \in Seq(Created) /\ Len(m.listed) = n + j
      /\ \A i \in 1 .. n : m.listed[i] = a[i]
      /\ \A i \in 1 .. j : m.listed[n + i] = r[i]
  <2>1. /\ a \o b \in Seq(Created) /\ Len(a \o b) = Len(a) + Len(b)
        /\ \A i \in 1 .. Len(a) : (a \o b)[i] = a[i]
        /\ \A i \in 1 .. Len(b) : (a \o b)[Len(a) + i] = b[i]
    BY <1>2, <1>3, ListedOn
  <2>2. QED
    BY <1>2, <1>4, <2>1
<1> HIDE DEF n
<1>6. j \in Nat /\ j <= Len(r)
  BY <1>1
<1>7. Told(m) = Told(l) \cup {r[i] : i \in 1 .. j}
  <2>1. \A x \in Told(l) : x \in Told(m)
    <3> SUFFICES ASSUME NEW i \in 1 .. n
                 PROVE  a[i] \in Told(m)
      BY DEF Told, a, n
    <3>1. i \in 1 .. n + j
      BY <1>3, <1>6
    <3>2. QED
      BY <1>5, <3>1 DEF Told
  <2>2. \A i \in 1 .. j : r[i] \in Told(m)
    <3> SUFFICES ASSUME NEW i \in 1 .. j
                 PROVE  r[i] \in Told(m)
      OBVIOUS
    <3>1. n + i \in 1 .. n + j
      BY <1>3, <1>6
    <3>2. QED
      BY <1>5, <3>1 DEF Told
  <2>3. \A x \in Told(m) : x \in Told(l) \/ \E i \in 1 .. j : x = r[i]
    <3> SUFFICES ASSUME NEW k \in 1 .. n + j
                 PROVE  m.listed[k] \in Told(l) \/ \E i \in 1 .. j : m.listed[k] = r[i]
      BY <1>5 DEF Told
    <3>1. CASE k <= n
      <4>1. k \in 1 .. n
        BY <1>3, <1>6, <3>1
      <4>2. QED
        BY <1>5, <4>1 DEF Told, a, n
    <3>2. CASE ~(k <= n)
      <4>1. k - n \in 1 .. j /\ n + (k - n) = k
        BY <1>3, <1>6, <3>2
      <4>2. QED
        BY <1>5, <4>1
    <3>3. QED
      BY <3>1, <3>2
  <2>4. QED
    BY <2>1, <2>2, <2>3
<1>8. Left(c, sought) \subseteq Listable(c) /\ Listable(c) \subseteq l.ever
  BY DEF Left, IsListing
<1>9. Told(m) \subseteq m.ever
  <2>1. \A i \in 1 .. j : r[i] \in l.ever
    <3> SUFFICES ASSUME NEW i \in 1 .. j
                 PROVE  r[i] \in l.ever
      OBVIOUS
    <3>1. i \in 1 .. Len(r)
      BY <1>1, <1>6
    <3>2. QED
      BY <1>1, <1>8, <3>1
  <2>2. Told(l) \subseteq l.ever
    BY DEF IsListing
  <2>3. QED
    BY <1>7, <2>1, <2>2
<1>10. l.listed # <<>> => /\ a[n] \in Told(l) /\ l.cursor = JoinCursor(a[n])
                          /\ n # 0 /\ a[n] \in TableNames
  <2> SUFFICES ASSUME a # <<>>
               PROVE  a[n] \in Told(l) /\ l.cursor = JoinCursor(a[n]) /\ n # 0 /\ a[n] \in TableNames
    BY DEF a
  <2>1. n # 0
    BY <1>3, EmptySeq DEF n
  <2>2. n \in 1 .. n
    BY <1>3, <2>1
  <2>3. a[n] \in Told(l) /\ a[n] \in Created
    BY <1>3, <2>2, ElementOfSeq DEF Told, a, n
  <2>4. l.cursor = JoinCursor(a[n])
    BY DEF IsListing, Last, a, n
  <2>5. QED
    BY <2>1, <2>3, <2>4, CreatedTables
<1>11. ASSUME \A t \in m.ever : ~Dotted(t) /\ ~Indented(t) /\ ~Trailing(t)
       PROVE  \A i \in 2 .. Len(m.listed) : After(m.listed[i], m.listed[i - 1])
  <2> SUFFICES ASSUME NEW i \in 2 .. n + j
               PROVE  After(m.listed[i], m.listed[i - 1])
    BY <1>5
  <2>1. CASE i <= n
    <3>1. i \in 1 .. n /\ i - 1 \in 1 .. n /\ i \in 2 .. n
      BY <1>3, <1>6, <2>1
    <3>2. After(a[i], a[i - 1])
      BY <1>11, <3>1 DEF IsListing, a, n
    <3>3. QED
      BY <1>5, <3>1, <3>2
  <2>2. CASE i = n + 1
    <3>1. n # 0 /\ n \in 1 .. n /\ 1 \in 1 .. j /\ i - 1 = n
      BY <1>3, <1>6, <2>2
    <3>2. a # <<>>
      <4> SUFFICES ASSUME a = <<>>
                   PROVE  FALSE
        OBVIOUS
      <4>1. QED
        BY <3>1 DEF n
    <3>3. /\ a[n] \in Told(l) /\ l.cursor = JoinCursor(a[n]) /\ a[n] \in TableNames
      BY <1>10, <3>2 DEF a
    <3>4. a[n] \in m.ever
      BY <1>7, <1>9, <3>3
    <3>5. SplitCursor(sought) = a[n] /\ SplitCursor(sought) # <<<<>>, <<>>>>
      <4>1. ~Dotted(a[n]) /\ ~Indented(a[n]) /\ ~Trailing(a[n])
        BY <1>11, <3>4
      <4>2. /\ SplitCursor(TrimBlanks(JoinCursor(a[n]))) # <<<<>>, <<>>>>
            /\ SplitCursor(TrimBlanks(JoinCursor(a[n]))) = a[n]
        BY <3>3, <4>1, CursorAsked DEF TableNames
      <4>3. sought = TrimBlanks(JoinCursor(a[n]))
        BY <3>3 DEF sought
      <4>4. QED
        BY ONLY <4>2, <4>3
    <3>6. r[1] \in Left(c, sought)
      <4>1. 1 \in 1 .. Len(r)
        <5>1. Len(r) \in Nat /\ j \in Nat /\ j <= Len(r) /\ 1 \in 1 .. j
          BY <1>1, <1>6, <3>1
        <5>2. QED
          BY ONLY <5>1
      <4>2. QED
        BY <1>1, <4>1
    <3>7. After(r[1], a[n])
      BY <3>5, <3>6 DEF Left
    <3>8. m.listed[n + 1] = r[1] /\ m.listed[n] = a[n]
      BY <1>5, <3>1
    <3>9. QED
      BY <2>2, <3>1, <3>7, <3>8
  <2>3. CASE i > n + 1
    <3> DEFINE k == i - n
    <3>1. k \in 1 .. Len(r) /\ k - 1 \in 1 .. Len(r) /\ k - 1 < k
      BY <1>1, <1>3, <1>6, <2>3
    <3>2. k \in 1 .. j /\ k - 1 \in 1 .. j /\ n + k = i /\ n + (k - 1) = i - 1
      BY <1>1, <1>3, <1>6, <2>3
    <3> HIDE DEF k
    <3>3. After(r[k], r[k - 1])
      BY <1>1, <3>1
    <3>4. m.listed[n + k] = r[k] /\ m.listed[n + (k - 1)] = r[k - 1]
      BY <1>5, <3>2
    <3>5. QED
      BY <3>2, <3>3, <3>4
  <2>4. i <= n \/ i = n + 1 \/ i > n + 1
    <3>1. n \in Nat /\ j \in Nat /\ i \in 2 .. n + j
      BY <1>3, <1>6
    <3>2. QED
      BY ONLY <3>1
  <2>5. QED
    BY <2>1, <2>2, <2>3, <2>4
<1>12. ASSUME \A u \in m.ever : ~Indented(u), NEW t \in m.throughout, t \notin Told(m)
       PROVE  j < Len(r) /\ After(t, SplitCursor(TrimBlanks(m.cursor)))
  <2>1. t \in Listable(c)
    BY DEF IsListing
  <2>2. t \in Left(c, sought)
    <3>1. CASE a = <<>>
      <4>1. sought = <<>>
        BY <3>1 DEF IsListing, a, sought, TrimBlanks
      <4>2. SplitCursor(<<>>) = <<<<>>, <<>>>>
        BY DEF SplitCursor
      <4>3. QED
        BY <2>1, <4>1, <4>2 DEF Left
    <3>2. CASE a # <<>>
      <4>1. t \notin Told(l)
        BY <1>7, <1>12
      <4>2. After(t, SplitCursor(sought))
        BY <1>12, <3>2, <4>1 DEF IsListing, a, sought
      <4>3. QED
        BY <2>1, <4>2 DEF Left
    <3>3. QED
      BY <3>1, <3>2
  <2>3. PICK i \in 1 .. Len(r) : r[i] = t
    BY <1>1, <2>2
  <2>4. ~(i <= j)
    <3> SUFFICES ASSUME i <= j
                 PROVE  FALSE
      OBVIOUS
    <3>1. i \in 1 .. j
      BY <1>6
    <3>2. QED
      BY <1>7, <1>12, <2>3, <3>1
  <2>5. j < Len(r) /\ j # 0 /\ j \in 1 .. Len(r) /\ j < i
    BY <1>1, <1>6, <2>4
  <2>6. After(t, r[j])
    BY <1>1, <2>3, <2>5
  <2>7. r[j] \in TableNames /\ t \in TableNames
    BY <1>1, <2>3, <2>5, CreatedTables, ElementOfSeq
  <2>8. m.cursor = JoinCursor(r[j])
    BY <2>5 DEF NextOf
  <2>9. LET s == SplitCursor(TrimBlanks(JoinCursor(r[j])))
        IN  s \in Places /\ (s = r[j] \/ After(r[j], s))
    <3>1. j \in 1 .. j
      BY <1>6, <2>5
    <3>2. ~Indented(r[j])
      BY <1>7, <1>9, <1>12, <3>1
    <3>3. QED
      BY <2>7, <3>2, CursorAsked DEF TableNames
  <2>10. QED
    BY <2>5, <2>6, <2>7, <2>8, <2>9, AfterIsOrder, CreatedTables
<1>13. ASSUME m.pc = "asking"
       PROVE  m.cursor = IF m.listed = <<>> THEN <<>> ELSE JoinCursor(Last(m.listed))
  <2>1. j < Len(r)
    BY <1>13
  <2>2. j # 0 /\ j \in 1 .. j /\ n + j # 0
    BY <1>1, <1>3, <1>6, <2>1
  <2>3. m.listed # <<>>
    <3> SUFFICES ASSUME m.listed = <<>>
                 PROVE  FALSE
      OBVIOUS
    <3>1. QED
      BY <1>5, <2>2
  <2>4. Last(m.listed) = r[j]
    BY <1>5, <2>2 DEF Last
  <2>5. QED
    BY <2>1, <2>3, <2>4 DEF NextOf
<1>14. m.pc # "idle"
  OBVIOUS
<1>15. m.pc = "done" /\ (\A u \in m.ever : ~Indented(u)) => m.throughout \subseteq Told(m)
  BY <1>12
<1>16. l.throughout \subseteq Listable(c) /\ Listable(c) \subseteq l.ever
  BY DEF IsListing
<1>17. QED
  BY <1>9, <1>11, <1>12, <1>13, <1>14, <1>15, <1>16 DEF IsListing

\* TableNames are created and dropped: what was there all the time is less, what
\* was there at some time is more.
LEMMA ListingChanges ==
    ASSUME NEW c, NEW d, NEW l, IsListing(l, c),
           NEW m, m \in ListStates, m.pc = l.pc, m.cursor = l.cursor, m.listed = l.listed,
           m.throughout = l.throughout \cap Listable(d), m.ever = l.ever \cup Listable(d)
    PROVE  IsListing(m, d)
<1>1. Told(m) = Told(l)
  BY DEF Told
<1>2. QED
  BY <1>1 DEF IsListing

\* The list of the caller is always what can be known of the catalog.
ListInv == IsCatalog(catalog) /\ IsListing(list, catalog)

\* Only tables that can be are listed.
LEMMA ListableTables ==
    ASSUME NEW c, IsCatalog(c)
    PROVE  Listable(c) \subseteq Created
BY DEF IsCatalog, Listable

\* A list that has not begun tells of nothing.
LEMMA NoListing ==
    ASSUME NEW c
    PROVE  NoList \in ListStates /\ IsListing(NoList, c)
<1>1. <<>> \in Seq(Nat) /\ <<>> \in Seq(Created) /\ Len(<<>>) = 0
  OBVIOUS
<1>2. NoList \in ListStates
  BY <1>1 DEF NoList, ListStates
<1>3. /\ NoList.listed = <<>> /\ NoList.pc = "idle" /\ Told(NoList) = {}
  BY DEF NoList, Told
<1>4. \A i \in 2 .. Len(NoList.listed) : FALSE
  BY <1>1, <1>3
<1>5. QED
  BY <1>2, <1>3, <1>4 DEF IsListing

\* A state of a list, written out
LEMMA ListFields ==
    ASSUME NEW l \in ListStates
    PROVE  l = [pc |-> l.pc, cursor |-> l.cursor, listed |-> l.listed, pages |-> l.pages,
                throughout |-> l.throughout, ever |-> l.ever]
BY DEF ListStates

\* A table is created or dropped.
LEMMA ChangeKeepsList ==
    ASSUME ListInv, Changed, IsCatalog(catalog')
    PROVE  ListInv'
<1> DEFINE d == catalog'
           th == list.throughout \cap Listable(d)
           ev == list.ever \cup Listable(d)
           m == [pc |-> list.pc, cursor |-> list.cursor, listed |-> list.listed,
                 pages |-> list.pages, throughout |-> th, ever |-> ev]
<1>1. list \in ListStates /\ IsListing(list, catalog)
  BY DEF ListInv, IsListing
<1>2. list' = [list EXCEPT !.throughout = th, !.ever = ev]
  BY DEF Changed
<1>3. IsCatalog(d)
  OBVIOUS
<1> HIDE DEF d
<1>4. th \in SUBSET Created /\ ev \in SUBSET Created
  BY <1>1, <1>3, ListableTables DEF ListStates
<1>5. [[list EXCEPT !.throughout = th] EXCEPT !.ever = ev] = [list EXCEPT !.throughout = th, !.ever = ev]
  <2> HIDE DEF th, ev
  <2>1. QED
    OBVIOUS
<1>6. [[list EXCEPT !.throughout = th] EXCEPT !.ever = ev] = m
  <2> DEFINE l == [list EXCEPT !.throughout = th]
             p == list.pc
             q == list.cursor
             r == list.listed
             s == list.pages
             e == list.ever
  <2>1. list = [pc |-> p, cursor |-> q, listed |-> r, pages |-> s,
                throughout |-> list.throughout, ever |-> e]
    BY <1>1, ListFields
  <2> HIDE DEF th, ev, p, q, r, s, e
  <2>2. l = [pc |-> p, cursor |-> q, listed |-> r, pages |-> s, throughout |-> th, ever |-> e]
    BY <2>1
  <2> HIDE DEF l
  <2>3. [l EXCEPT !.ever = ev] =
           [pc |-> p, cursor |-> q, listed |-> r, pages |-> s, throughout |-> th, ever |-> ev]
    BY <2>2
  <2>4. QED
    BY <2>3 DEF l, p, q, r, s, e
<1>7. list' = m
  BY ONLY <1>2, <1>5, <1>6
<1>8. m \in ListStates
  <2>1. /\ list.pc \in {"idle", "asking", "done", "refused"} /\ list.cursor \in Seq(Nat)
        /\ list.listed \in Seq(Created) /\ list.pages \in Nat
    BY <1>1 DEF ListStates
  <2> HIDE DEF th, ev
  <2>2. QED
    BY <1>4, <2>1 DEF ListStates
<1>9. IsListing(m, d)
  <2>1. /\ m.pc = list.pc /\ m.cursor = list.cursor /\ m.listed = list.listed
        /\ m.throughout = th /\ m.ever = ev
    OBVIOUS
  <2> HIDE DEF m
  <2>2. QED
    BY <1>1, <1>8, <2>1, ListingChanges
<1>10. IsListing(list', catalog')
  BY <1>7, <1>9 DEF d
<1>11. QED
  BY <1>10 DEF ListInv

\* A table is created or altered.
LEMMA DefineKeepsCatalog ==
    ASSUME ListInv, DefineTable
    PROVE  ListInv'
<1>1. PICK t \in Created, d \in Definitions :
         catalog' = [u \in DOMAIN catalog \cup {t} |-> IF u = t THEN d ELSE catalog[u]] /\ Changed
  BY DEF DefineTable
<1>2. IsCatalog(catalog) /\ IsDefinition(d)
  BY SqlToolsAssumption DEF ListInv
<1>3. IsFiniteSet(DOMAIN catalog \cup {t})
  BY <1>2, FS_AddElement DEF IsCatalog
<1>4. IsCatalog(catalog')
  BY <1>1, <1>2, <1>3 DEF IsCatalog
<1>5. QED
  BY <1>1, <1>4, ChangeKeepsList

\* A table is dropped.
LEMMA DropKeepsCatalog ==
    ASSUME ListInv, DropTable
    PROVE  ListInv'
<1>1. PICK t \in DOMAIN catalog :
         catalog' = [u \in DOMAIN catalog \ {t} |-> catalog[u]] /\ Changed
  BY DEF DropTable
<1>2. IsCatalog(catalog)
  BY DEF ListInv
<1>3. IsFiniteSet(DOMAIN catalog \ {t})
  BY <1>2, FS_RemoveElement DEF IsCatalog
<1>4. IsCatalog(catalog')
  BY <1>1, <1>2, <1>3 DEF IsCatalog
<1>5. QED
  BY <1>1, <1>4, ChangeKeepsList

\* A list begins with the tables there are.
LEMMA BeginKeepsList ==
    ASSUME ListInv, BeginList
    PROVE  ListInv'
<1> DEFINE L == Listable(catalog)
           m == [pc |-> "asking", cursor |-> <<>>, listed |-> <<>>, pages |-> 0,
                 throughout |-> L, ever |-> L]
<1>1. IsCatalog(catalog) /\ L \in SUBSET Created /\ catalog' = catalog
  BY ListableTables DEF ListInv, BeginList
<1>2. list' = m
  BY DEF BeginList, NoList
<1>3. /\ <<>> \in Seq(Nat) /\ <<>> \in Seq(Created)
      /\ \A i \in 2 .. Len(<<>>) : FALSE
  OBVIOUS
<1>4. /\ m.pc = "asking" /\ m.cursor = <<>> /\ m.listed = <<>> /\ m.throughout = L /\ m.ever = L
      /\ m \in ListStates
  <2> HIDE DEF L
  <2>1. QED
    BY <1>1, <1>3 DEF ListStates
<1>5. Told(m) = {}
  BY <1>4 DEF Told
<1> HIDE DEF m
<1>6. IsListing(m, catalog)
  BY <1>3, <1>4, <1>5 DEF IsListing
<1>7. QED
  BY <1>1, <1>2, <1>6 DEF ListInv

\* A page is read and added to what was listed.
LEMMA ReadKeepsList ==
    ASSUME ListInv, ReadPage
    PROVE  ListInv'
<1>1. /\ IsCatalog(catalog) /\ IsListing(list, catalog) /\ list \in ListStates
      /\ list.pc = "asking" /\ catalog' = catalog
  BY DEF ListInv, IsListing, ReadPage
<1> DEFINE out(limit, max) == Finalize(ListTables(catalog, TrimBlanks(list.cursor), limit), max)
<1>2. PICK limit \in Limits, max \in SchemaBudgets :
         list' = [list EXCEPT
                    !.pc = IF out(limit, max).page[1].has_more THEN "asking" ELSE "done",
                    !.cursor = out(limit, max).page[1].next, !.pages = list.pages + 1,
                    !.listed = list.listed \o out(limit, max).tables]
  BY ONLY ReadPage, Zenon DEF ReadPage
<1> DEFINE r == Rest(catalog, TrimBlanks(list.cursor))
           a == out(limit, max)
<1>3. PICK j \in 0 .. Len(r) :
         /\ j = 0 => Len(r) = 0
         /\ a.tables = SubSeq(r, 1, j)
         /\ a.page[1].has_more = (j < Len(r))
         /\ a.page[1].next = NextOf(r, j)
  <2> DEFINE cursor == TrimBlanks(list.cursor)
  <2> HIDE DEF cursor
  <2>1. \E j \in 0 .. Len(Rest(catalog, cursor)) :
           /\ j = 0 => Len(Rest(catalog, cursor)) = 0
           /\ Finalize(ListTables(catalog, cursor, limit), max).tables
                 = SubSeq(Rest(catalog, cursor), 1, j)
           /\ Finalize(ListTables(catalog, cursor, limit), max).page[1].has_more
                 = (j < Len(Rest(catalog, cursor)))
           /\ Finalize(ListTables(catalog, cursor, limit), max).page[1].next
                 = NextOf(Rest(catalog, cursor), j)
    BY <1>1, PageRead
  <2>2. QED
    BY <2>1 DEF cursor
<1> DEFINE pc == IF a.page[1].has_more THEN "asking" ELSE "done"
           next == a.page[1].next
           listed == list.listed \o a.tables
           pages == list.pages + 1
           m == [pc |-> pc, cursor |-> next, listed |-> listed, pages |-> pages,
                 throughout |-> list.throughout, ever |-> list.ever]
<1>4. list' = [list EXCEPT !.pc = pc, !.cursor = next, !.pages = pages, !.listed = listed]
  BY <1>2
<1>5. [list EXCEPT !.pc = pc, !.cursor = next, !.pages = pages, !.listed = listed]
         = [[[[list EXCEPT !.pc = pc] EXCEPT !.cursor = next] EXCEPT !.pages = pages]
              EXCEPT !.listed = listed]
  <2> HIDE DEF pc, next, pages, listed
  <2>1. QED
    OBVIOUS
<1>6. [[[[list EXCEPT !.pc = pc] EXCEPT !.cursor = next] EXCEPT !.pages = pages]
         EXCEPT !.listed = listed] = m
  <2> DEFINE th == list.throughout
             ev == list.ever
             x == list.pc
             y == list.cursor
             z == list.pages
             w == list.listed
             l1 == [list EXCEPT !.pc = pc]
             l2 == [l1 EXCEPT !.cursor = next]
             l3 == [l2 EXCEPT !.pages = pages]
             l4 == [l3 EXCEPT !.listed = listed]
  <2>1. list = [pc |-> x, cursor |-> y, listed |-> w, pages |-> z, throughout |-> th, ever |-> ev]
    BY <1>1, ListFields
  <2> HIDE DEF pc, next, pages, listed, th, ev, x, y, z, w
  <2>2. l1 = [pc |-> pc, cursor |-> y, listed |-> w, pages |-> z, throughout |-> th, ever |-> ev]
    BY <2>1
  <2> HIDE DEF l1
  <2>3. l2 = [pc |-> pc, cursor |-> next, listed |-> w, pages |-> z, throughout |-> th, ever |-> ev]
    BY <2>2
  <2> HIDE DEF l2
  <2>4. l3 = [pc |-> pc, cursor |-> next, listed |-> w, pages |-> pages, throughout |-> th, ever |-> ev]
    BY <2>3
  <2> HIDE DEF l3
  <2>5. l4 = [pc |-> pc, cursor |-> next, listed |-> listed, pages |-> pages, throughout |-> th,
              ever |-> ev]
    BY <2>4
  <2>6. QED
    BY <2>5 DEF l1, l2, l3, th, ev
<1>7. list' = m
  BY ONLY <1>4, <1>5, <1>6
<1>8. r \in Seq(Created) /\ Len(r) \in Nat
  <2> DEFINE cursor == TrimBlanks(list.cursor)
  <2> HIDE DEF cursor
  <2>1. Rest(catalog, cursor) \in Seq(Created) /\ Len(Rest(catalog, cursor)) \in Nat
    BY <1>1, RestOfTables
  <2>2. QED
    BY <2>1 DEF cursor
<1> HIDE DEF r, a
<1>9. NextOf(r, j) \in Seq(Nat)
  <2>1. CASE j < Len(r)
    <3>1. j \in 1 .. Len(r)
      <4>1. j # 0 /\ j \in 0 .. Len(r) /\ Len(r) \in Nat
        BY <1>3, <1>8, <2>1
      <4>2. QED
        BY ONLY <4>1
    <3>2. r[j] \in TableNames
      BY <1>8, <3>1, CreatedTables, ElementOfSeq
    <3>3. r[j][1] \in Seq(Nat) /\ r[j][2] \in Seq(Nat) /\ Dot \in Nat
      BY <3>2 DEF TableNames, SqlName, Dot
    <3>4. QED
      BY <2>1, <3>3, JoinedBy DEF NextOf, JoinCursor
  <2>2. CASE ~(j < Len(r))
    BY <2>2 DEF NextOf
  <2>3. QED
    BY <2>1, <2>2
<1>10. m \in ListStates
  <2>1. /\ list.listed \in Seq(Created) /\ list.pages \in Nat
        /\ list.throughout \in SUBSET Created /\ list.ever \in SUBSET Created
    BY <1>1 DEF ListStates
  <2>2. SubSeq(r, 1, j) \in Seq(Created)
    BY <1>8, PageOfCreated
  <2>3. listed \in Seq(Created)
    BY <1>3, <2>1, <2>2, ListedOn
  <2>4. pages \in Nat /\ next \in Seq(Nat) /\ pc \in {"idle", "asking", "done", "refused"}
    BY <1>3, <1>9, <2>1
  <2> HIDE DEF pc, next, pages, listed
  <2>5. QED
    BY <2>1, <2>3, <2>4 DEF ListStates
<1>11. /\ m.pc = (IF j < Len(r) THEN "asking" ELSE "done") /\ m.cursor = NextOf(r, j)
       /\ m.listed = list.listed \o SubSeq(r, 1, j)
       /\ m.throughout = list.throughout /\ m.ever = list.ever
  BY <1>3
<1>12. r = Rest(catalog, TrimBlanks(list.cursor)) /\ (j = 0 => Len(r) = 0) /\ j \in 0 .. Len(r)
  BY <1>3 DEF r
<1> HIDE DEF m
<1>13. IsListing(m, catalog)
  <2> DEFINE l == list
  <2>1. /\ IsListing(l, catalog) /\ l.pc = "asking" /\ r = Rest(catalog, TrimBlanks(l.cursor))
        /\ m.listed = l.listed \o SubSeq(r, 1, j) /\ m.throughout = l.throughout /\ m.ever = l.ever
    BY <1>1, <1>11, <1>12
  <2> HIDE DEF l
  <2>2. QED
    BY <1>1, <1>10, <1>11, <1>12, <2>1, ListingGoesOn
<1>14. IsListing(list', catalog')
  BY <1>1, <1>7, <1>13
<1>15. QED
  BY <1>1, <1>14 DEF ListInv

\* The caller's cursor is refused, and the list ends where it is.
LEMMA RefusalKeepsList ==
    ASSUME ListInv, RefuseCursor
    PROVE  ListInv'
<1> DEFINE pc == "refused"
           x == list.pc
           y == list.cursor
           w == list.listed
           z == list.pages
           th == list.throughout
           ev == list.ever
           m == [pc |-> pc, cursor |-> y, listed |-> w, pages |-> z, throughout |-> th, ever |-> ev]
<1>1. /\ IsCatalog(catalog) /\ IsListing(list, catalog) /\ list \in ListStates
      /\ catalog' = catalog /\ list' = [list EXCEPT !.pc = pc]
  BY DEF ListInv, IsListing, RefuseCursor
<1>2. list = [pc |-> x, cursor |-> y, listed |-> w, pages |-> z, throughout |-> th, ever |-> ev]
  BY <1>1, ListFields
<1>3. m \in ListStates /\ m.pc = "refused" /\ m.listed = w /\ m.ever = ev
  BY <1>1 DEF ListStates
<1>4. list' = m
  <2> HIDE DEF pc, x, y, w, z, th, ev
  <2>1. QED
    BY <1>1, <1>2
<1> HIDE DEF m
<1>5. Told(m) = Told(list)
  BY <1>3 DEF Told
<1>6. IsListing(m, catalog)
  BY <1>1, <1>3, <1>5 DEF IsListing
<1>7. QED
  BY <1>1, <1>4, <1>6 DEF ListInv

\* The inductive invariant of the caller's list
THEOREM ListInvariant == ToolsSpec => []ListInv
<1>1. ASSUME ToolsInit
      PROVE  ListInv
  <2>1. IsCatalog(catalog)
    BY <1>1, SqlToolsAssumption DEF ToolsInit, IsCatalog, Created
  <2>2. list = NoList
    BY <1>1 DEF ToolsInit
  <2>3. QED
    BY <2>1, <2>2, NoListing DEF ListInv
<1>2. ASSUME ListInv, [ToolsNext]_toolsVars
      PROVE  ListInv'
  <2>1. CASE DefineTable
    BY <1>2, <2>1, DefineKeepsCatalog
  <2>2. CASE DropTable
    BY <1>2, <2>2, DropKeepsCatalog
  <2>3. CASE BeginList
    BY <1>2, <2>3, BeginKeepsList
  <2>4. CASE ReadPage
    BY <1>2, <2>4, ReadKeepsList
  <2>5. ASSUME list' = list \/ list' = NoList, catalog' = catalog
        PROVE  ListInv'
    <3>1. IsListing(list', catalog)
      BY <1>2, <2>5, NoListing DEF ListInv
    <3>2. QED
      BY <1>2, <2>5, <3>1 DEF ListInv
  <2>6. CASE GiveUp
    BY <2>5, <2>6 DEF GiveUp
  <2>7. CASE LoadColumns
    BY <2>5, <2>7 DEF LoadColumns
  <2>8. CASE LoadKey
    BY <2>5, <2>8 DEF LoadKey
  <2>9. CASE LoadIndexes
    BY <2>5, <2>9 DEF LoadIndexes
  <2>10. CASE AskQuery
    BY <2>5, <2>10 DEF AskQuery
  <2>11. CASE AnswerQuery
    BY <2>5, <2>11 DEF AnswerQuery
  <2>12. CASE Return
    BY <2>5, <2>12 DEF Return
  <2>13. CASE UNCHANGED toolsVars
    BY <2>5, <2>13 DEF toolsVars
  <2>14. CASE RefuseCursor
    BY <1>2, <2>14, RefusalKeepsList
  <2>15. QED
    BY <1>2, <2>1, <2>2, <2>3, <2>4, <2>6, <2>7, <2>8, <2>9, <2>10, <2>11, <2>12, <2>13, <2>14
       DEF ToolsNext
<1>3. QED
  BY <1>1, <1>2, PTL DEF ToolsSpec

\* A caller who follows next_cursor to the end is told of every table that was
\* there all the time, unless a namespace begins with white space, of none that
\* never was, and of each once and in order, unless what a cursor is split or
\* trimmed at is in a name.
THEOREM ListIsWhole == ToolsSpec => []TablesAreListed
<1>1. ASSUME ListInv
      PROVE  TablesAreListed
  <2>1. IsListing(list, catalog) /\ list.listed \in Seq(Created)
    BY <1>1 DEF ListInv, IsListing, ListStates
  <2>2. DOMAIN list.listed = 1 .. Len(list.listed)
    BY <2>1, LenProperties
  <2>3. Told(list) = {list.listed[i] : i \in DOMAIN list.listed}
    BY <2>2 DEF Told
  <2>4. list.pc = "done" /\ (\A t \in list.ever : ~Indented(t)) =>
           list.throughout \subseteq {list.listed[i] : i \in DOMAIN list.listed}
    BY <2>1, <2>3 DEF IsListing
  <2>5. \A i \in DOMAIN list.listed : list.listed[i] \in list.ever
    BY <2>1, <2>3 DEF IsListing
  <2>6. (\A t \in list.ever : ~Dotted(t) /\ ~Indented(t) /\ ~Trailing(t)) =>
           \A i \in 2 .. Len(list.listed) : After(list.listed[i], list.listed[i - 1])
    BY <2>1 DEF IsListing
  <2>7. QED
    BY <2>4, <2>5, <2>6 DEF TablesAreListed
<1>2. QED
  BY <1>1, ListInvariant, PTL

-----------------------------------------------------------------------------
(* SqlTools: lists of names *)

Lines == Seq(Seq(Nat))

\* What is left of a word without blanks at its ends
LEMMA TrimmedBlanks ==
    ASSUME NEW w \in Seq(Nat)
    PROVE  /\ TrimBlanks(w) \in Seq(Nat)
           /\ w = <<>> => TrimBlanks(w) = w
           /\ w # <<>> /\ Clean(w) => TrimBlanks(w) = w
<1> DEFINE kept == {i \in DOMAIN w : w[i] \notin White}
           u == SubSeq(w, Min(kept), Max(kept))
<1>1. Len(w) \in Nat /\ DOMAIN w = 1 .. Len(w) /\ \A i \in 1 .. Len(w) : w[i] \in Nat
  BY LenProperties, ElementOfSeq
<1>2. TrimBlanks(w) = IF kept = {} THEN <<>> ELSE u
  BY DEF TrimBlanks
<1>3. kept \in SUBSET Nat /\ IsFiniteSet(kept) /\ kept \subseteq 1 .. Len(w)
  <2>1. kept \subseteq 1 .. Len(w)
    BY <1>1
  <2>2. IsFiniteSet(1 .. Len(w))
    BY <1>1, FS_Interval
  <2>3. QED
    BY <2>1, <2>2, FS_Subset
<1>4. kept = {} => w = <<>> \/ ~Clean(w)
  <2> SUFFICES ASSUME kept = {}, w # <<>>
               PROVE  ~Clean(w)
    OBVIOUS
  <2>1. Len(w) # 0
    BY <1>1, EmptySeq
  <2>2. 1 \in DOMAIN w
    BY <1>1, <2>1
  <2>3. QED
    BY <2>2 DEF Clean
<1>5. w = <<>> => kept = {}
  OBVIOUS
<1>6. ASSUME kept # {}
      PROVE  /\ u \in Seq(Nat)
             /\ Clean(w) => u = w
  <2> DEFINE a == Min(kept)
             b == Max(kept)
  <2>1. /\ a \in kept /\ b \in kept /\ \A x \in kept : a <= x /\ x <= b
    <3> HIDE DEF kept
    <3>1. QED
      BY <1>3, <1>6, Extremes
  <2>2. a \in 1 .. Len(w) /\ b \in 1 .. Len(w)
    BY <1>3, <2>1
  <2> HIDE DEF a, b
  <2>3. /\ u \in Seq(Nat) /\ Len(u) = IF a <= b THEN b - a + 1 ELSE 0
        /\ \A i \in 1 .. b - a + 1 : u[i] = w[a + i - 1]
    <3>1. \A i \in a .. b : w[i] \in Nat
      BY <1>1, <2>2
    <3>2. /\ SubSeq(w, a, b) \in Seq(Nat) /\ Len(SubSeq(w, a, b)) = IF a <= b THEN b - a + 1 ELSE 0
          /\ \A i \in 1 .. b - a + 1 : SubSeq(w, a, b)[i] = w[a + i - 1]
      BY <2>2, <3>1, SubSeqProperties
    <3>3. QED
      BY <3>2 DEF a, b
  <2>4. ASSUME Clean(w)
        PROVE  u = w
    <3>1. 1 \in 1 .. Len(w) /\ Len(w) \in 1 .. Len(w)
      BY <1>1, <2>2
    <3>2. w[1] \notin White /\ w[Len(w)] \notin White
      BY <2>4 DEF Clean
    <3>3. 1 \in kept /\ Len(w) \in kept
      BY <1>1, <3>1, <3>2
    <3>4. a = 1 /\ b = Len(w)
      <4>1. a <= 1 /\ Len(w) <= b
        BY <2>1, <3>3
      <4>2. Len(w) \in Nat
        BY <1>1
      <4>3. a \in Nat /\ 1 <= a /\ b \in Nat /\ b <= Len(w)
        BY ONLY <2>2, <4>2
      <4>4. QED
        BY ONLY <4>1, <4>2, <4>3
    <3>5. Len(u) = Len(w) /\ \A i \in 1 .. Len(u) : u[i] = w[i]
      <4> HIDE DEF u
      <4>1. Len(u) = Len(w)
        BY <1>1, <2>2, <2>3, <3>4
      <4>2. \A i \in 1 .. Len(w) : i \in 1 .. b - a + 1 /\ a + i - 1 = i
        BY <1>1, <3>4
      <4>3. QED
        BY <2>3, <4>1, <4>2
    <3> HIDE DEF u
    <3>6. QED
      BY <2>3, <3>5, SeqEqual
  <2>5. QED
    BY <2>3, <2>4
<1>7. <<>> \in Seq(Nat)
  OBVIOUS
<1> HIDE DEF kept, u
<1>8. QED
  BY <1>2, <1>4, <1>5, <1>6, <1>7

\* array_to_string, name by name
LEMMA JoinedNames ==
    ASSUME NEW names \in Seq(SqlName)
    PROVE  \E text \in [0 .. Len(names) -> Seq(Nat)] :
              /\ Joined(names) = text[Len(names)] /\ text[0] = <<>>
              /\ \A n \in 1 .. Len(names) :
                    text[n] = IF n = 1 THEN names[1] ELSE text[n - 1] \o <<Comma>> \o names[n]
<1> DEFINE m == Len(names)
           IsText(c) == c = [n \in 0 .. m |->
                               IF n = 0 THEN <<>> ELSE IF n = 1 THEN names[1]
                               ELSE c[n - 1] \o <<Comma>> \o names[n]]
           Grown(n, o) == IF n = 1 THEN names[1] ELSE o \o <<Comma>> \o names[n]
           step == [n \in 1 .. m |-> [o \in Seq(Nat) |-> Grown(n, o)]]
           text == CHOOSE c : IsText(c)
<1>1. m \in Nat /\ \A n \in 1 .. m : names[n] \in Seq(Nat)
  <2>1. \A n \in 1 .. m : names[n] \in SqlName
    BY ElementOfSeq
  <2>2. QED
    BY <2>1 DEF SqlName
<1> HIDE DEF m
<1>2. \A n \in 1 .. m, o \in Seq(Nat) : Grown(n, o) \in Seq(Nat)
  <2> SUFFICES ASSUME NEW n \in 1 .. m, NEW o \in Seq(Nat)
               PROVE  Grown(n, o) \in Seq(Nat)
    OBVIOUS
  <2>1. names[n] \in Seq(Nat) /\ Comma \in Nat
    BY <1>1 DEF Comma
  <2>2. o \o <<Comma>> \o names[n] \in Seq(Nat)
    BY <2>1, JoinedBy
  <2>3. QED
    BY <2>1, <2>2
<1>3. step \in [1 .. m -> [Seq(Nat) -> Seq(Nat)]]
  <2> HIDE DEF Grown
  <2>1. QED
    BY <1>2
<1>4. PICK f \in [0 .. m -> Seq(Nat)] : f[0] = <<>> /\ \A n \in 1 .. m : f[n] = step[n][f[n - 1]]
  <2> HIDE DEF step
  <2>1. <<>> \in Seq(Nat) /\ m \in Nat
    BY <1>1
  <2>2. \E f : Passes(f, Seq(Nat), <<>>, m, step)
    BY ONLY <1>3, <2>1, Iteration
  <2>3. QED
    BY <2>2 DEF Passes
<1>5. \A n \in 1 .. m : f[n] = Grown(n, f[n - 1])
  <2> SUFFICES ASSUME NEW n \in 1 .. m
               PROVE  f[n] = Grown(n, f[n - 1])
    OBVIOUS
  <2>1. n - 1 \in 0 .. m
    BY <1>1
  <2>2. f[n - 1] \in Seq(Nat) /\ f[n] = step[n][f[n - 1]]
    BY <1>4, <2>1
  <2> HIDE DEF Grown
  <2>3. QED
    BY <2>2
<1>6. IsText(f)
  <2>1. \A n \in 0 .. m : f[n] = IF n = 0 THEN <<>> ELSE IF n = 1 THEN names[1]
                               ELSE f[n - 1] \o <<Comma>> \o names[n]
    <3> SUFFICES ASSUME NEW n \in 0 .. m, n # 0
                 PROVE  f[n] = Grown(n, f[n - 1])
      BY <1>4
    <3>1. n \in 1 .. m
      BY <1>1
    <3>2. QED
      BY <1>5, <3>1
  <2>2. f = [n \in 0 .. m |-> f[n]]
    BY <1>4
  <2>3. [n \in 0 .. m |-> f[n]] = [n \in 0 .. m |->
                               IF n = 0 THEN <<>> ELSE IF n = 1 THEN names[1]
                               ELSE f[n - 1] \o <<Comma>> \o names[n]]
    BY ONLY <2>1
  <2>4. QED
    BY ONLY <2>2, <2>3, Zenon
<1>7. IsText(text)
  BY <1>6
<1>8. Joined(names) = text[m]
  BY DEF Joined, m
<1> HIDE DEF text
<1>9. text[0] = <<>>
  BY <1>1, <1>7
<1>10. \A n \in 1 .. m : text[n] = Grown(n, text[n - 1])
  <2> SUFFICES ASSUME NEW n \in 1 .. m
               PROVE  text[n] = Grown(n, text[n - 1])
    OBVIOUS
  <2>1. n \in 0 .. m /\ n # 0
    BY <1>1
  <2>2. QED
    BY <1>7, <2>1
<1> HIDE DEF Grown, IsText
<1>11. \A n \in 0 .. m : text[n] \in Seq(Nat)
  <2> DEFINE T == {n \in Nat : n <= m => text[n] \in Seq(Nat)}
  <2>1. \A n \in T : n + 1 \in T
    <3> SUFFICES ASSUME NEW n \in T, n + 1 <= m
                 PROVE  text[n + 1] \in Seq(Nat)
      OBVIOUS
    <3>1. n + 1 \in 1 .. m /\ (n + 1) - 1 = n /\ n <= m
      BY <1>1
    <3>2. text[n + 1] = Grown(n + 1, text[n]) /\ text[n] \in Seq(Nat)
      BY <1>10, <3>1
    <3>3. Grown(n + 1, text[n]) \in Seq(Nat)
      BY ONLY <1>2, <3>1, <3>2
    <3>4. QED
      BY <3>2, <3>3
  <2>2. 0 \in T /\ T \in SUBSET Nat
    <3>1. <<>> \in Seq(Nat)
      OBVIOUS
    <3>2. QED
      BY <1>9, <3>1
  <2>3. T = Nat
    <3> HIDE DEF T
    <3>1. QED
      BY <2>1, <2>2, Induction
  <2>4. QED
    BY <2>3
<1>12. text \in [0 .. m -> Seq(Nat)]
  <2>1. text = [n \in 0 .. m |-> text[n]]
    BY <1>7 DEF IsText
  <2>2. QED
    BY <1>11, <2>1
<1>13. QED
  BY <1>8, <1>9, <1>10, <1>12 DEF m, Grown

\* Word w is what stands between places a and b of a text, and has no comma.
Enclosed(text, a, b, w) ==
    /\ a = 0 \/ text[a] = Comma
    /\ \A i \in a + 1 .. b - 1 : text[i] # Comma
    /\ Len(w) = b - a - 1 /\ \A i \in 1 .. b - a - 1 : w[i] = text[a + i]

\* What commas enclose in a text is in N.
WordsIn(text, N) ==
    \A a \in 0 .. Len(text), b \in 1 .. Len(text) + 1, w \in Seq(Nat) :
        a < b /\ (b = Len(text) + 1 \/ text[b] = Comma) /\ Enclosed(text, a, b, w) => w \in N

\* One name more, without commas
LEMMA WordAdded ==
    ASSUME NEW text \in Seq(Nat), NEW s \in Seq(Nat), NEW N, s \in N,
           \A i \in 1 .. Len(s) : s[i] # Comma, WordsIn(text, N)
    PROVE  WordsIn(text \o <<Comma>> \o s, N)
<1> DEFINE c == text \o <<Comma>> \o s
           n == Len(text)
           k == Len(s)
<1>1. n \in Nat /\ k \in Nat /\ Comma \in Nat
  BY LenProperties DEF Comma
<1>2. /\ c \in Seq(Nat) /\ Len(c) = n + 1 + k /\ \A i \in 1 .. n : c[i] = text[i]
      /\ c[n + 1] = Comma /\ \A i \in 1 .. k : c[n + 1 + i] = s[i]
  BY <1>1, JoinedBy
<1> HIDE DEF c
<1> SUFFICES ASSUME NEW a \in 0 .. Len(c), NEW b \in 1 .. Len(c) + 1, NEW w \in Seq(Nat),
                    a < b, b = Len(c) + 1 \/ c[b] = Comma, Enclosed(c, a, b, w)
             PROVE  w \in N
  BY DEF WordsIn, c
<1>3. /\ a = 0 \/ c[a] = Comma
      /\ \A i \in a + 1 .. b - 1 : c[i] # Comma
      /\ Len(w) = b - a - 1 /\ \A i \in 1 .. b - a - 1 : w[i] = c[a + i]
  BY DEF Enclosed
<1>4. a \in Nat /\ b \in Nat /\ a <= n + 1 + k /\ 1 <= b /\ b <= n + 1 + k + 1
  <2>1. Len(c) = n + 1 + k /\ n + 1 + k \in Nat
    BY <1>1, <1>2
  <2>2. QED
    BY <2>1
<1>5. \A i \in 1 .. k : c[n + 1 + i] # Comma
  BY <1>2
<1> HIDE DEF n, k
<1>6. CASE b <= n + 1
  <2>1. a \in 0 .. n /\ b \in 1 .. n + 1 /\ a <= n
    BY ONLY <1>1, <1>4, <1>6, a < b
  <2>2. a = 0 \/ text[a] = Comma
    <3>1. a # 0 => a \in 1 .. n
      BY ONLY <1>1, <2>1
    <3>2. QED
      BY <1>2, <1>3, <3>1
  <2>3. \A i \in a + 1 .. b - 1 : i \in 1 .. n
    BY ONLY <1>1, <1>4, <1>6
  <2>4. \A i \in a + 1 .. b - 1 : text[i] # Comma
    BY <1>2, <1>3, <2>3
  <2>5. \A i \in 1 .. b - a - 1 : a + i \in 1 .. n
    BY ONLY <1>1, <1>4, <1>6
  <2>6. \A i \in 1 .. b - a - 1 : w[i] = text[a + i]
    BY <1>2, <1>3, <2>5
  <2>7. b = n + 1 \/ text[b] = Comma
    <3>1. CASE b = n + 1
      BY <3>1
    <3>2. CASE b # n + 1
      <4>1. b \in 1 .. n /\ b # n + 1 + k + 1
        BY ONLY <1>1, <1>4, <1>6, <3>2
      <4>2. c[b] = Comma
        BY <1>2, <4>1
      <4>3. QED
        BY <1>2, <4>1, <4>2
    <3>3. QED
      BY <3>1, <3>2
  <2>8. Enclosed(text, a, b, w)
    BY <1>3, <2>2, <2>4, <2>6 DEF Enclosed
  <2>9. QED
    BY <2>1, <2>7, <2>8 DEF WordsIn, n
<1>7. CASE ~(b <= n + 1)
  <2>1. b = n + 1 + k + 1
    <3> SUFFICES ASSUME b # n + 1 + k + 1
                 PROVE  FALSE
      OBVIOUS
    <3> DEFINE i == b - (n + 1)
    <3>1. i \in 1 .. k /\ n + 1 + i = b
      BY ONLY <1>1, <1>4, <1>7, b # n + 1 + k + 1
    <3>2. c[b] = Comma
      BY <1>2
    <3> HIDE DEF i
    <3>3. QED
      BY <1>5, <3>1, <3>2
  <2>2. a = n + 1
    <3>1. ~(a <= n)
      <4> SUFFICES ASSUME a <= n
                   PROVE  FALSE
        OBVIOUS
      <4>1. n + 1 \in a + 1 .. b - 1
        BY ONLY <1>1, <1>4, <1>7, a <= n
      <4>2. QED
        BY <1>2, <1>3, <4>1
    <3>2. ~(a > n + 1)
      <4> SUFFICES ASSUME a > n + 1
                   PROVE  FALSE
        OBVIOUS
      <4> DEFINE i == a - (n + 1)
      <4>1. i \in 1 .. k /\ n + 1 + i = a /\ a # 0
        BY ONLY <1>1, <1>4, a > n + 1
      <4> HIDE DEF i
      <4>2. QED
        BY <1>3, <1>5, <4>1
    <3>3. QED
      BY ONLY <1>1, <1>4, <3>1, <3>2
  <2>3. b - a - 1 = k
    BY ONLY <1>1, <2>1, <2>2
  <2>4. Len(w) = Len(s) /\ \A i \in 1 .. Len(w) : w[i] = s[i]
    BY <1>2, <1>3, <2>2, <2>3 DEF k
  <2>5. w = s
    BY <2>4, SeqEqual
  <2>6. QED
    BY <2>5
<1>8. QED
  BY <1>6, <1>7

\* array_to_string puts commas between names, and there are no others if the
\* names have none.
LEMMA WordsOfNames ==
    ASSUME NEW names \in Seq(SqlName), NEW N, <<>> \in N,
           \A n \in 1 .. Len(names) :
              names[n] \in N /\ \A i \in 1 .. Len(names[n]) : names[n][i] # Comma
    PROVE  WordsIn(Joined(names), N)
<1> DEFINE m == Len(names)
<1>1. m \in Nat /\ \A n \in 1 .. m : names[n] \in Seq(Nat)
  <2>1. \A n \in 1 .. m : names[n] \in SqlName
    BY ElementOfSeq
  <2>2. QED
    BY <2>1, LenProperties DEF SqlName
<1>2. PICK text \in [0 .. m -> Seq(Nat)] :
         /\ Joined(names) = text[m] /\ text[0] = <<>>
         /\ \A n \in 1 .. m :
               text[n] = IF n = 1 THEN names[1] ELSE text[n - 1] \o <<Comma>> \o names[n]
  BY JoinedNames
<1> HIDE DEF m
<1>3. WordsIn(<<>>, N)
  <2> SUFFICES ASSUME NEW a \in 0 .. 0, NEW b \in 1 .. 1, NEW w \in Seq(Nat),
                      Enclosed(<<>>, a, b, w)
               PROVE  w \in N
    BY DEF WordsIn
  <2>1. Len(w) = 0
    BY DEF Enclosed
  <2>2. QED
    BY <2>1, EmptySeq
<1>4. ASSUME 1 \in 1 .. m
      PROVE  WordsIn(names[1], N)
  <2> DEFINE s == names[1]
  <2>1. /\ s \in Seq(Nat) /\ s \in N /\ Len(s) \in Nat /\ \A i \in 1 .. Len(s) : s[i] # Comma
    BY <1>1, <1>4, LenProperties DEF m
  <2> HIDE DEF s
  <2> SUFFICES ASSUME NEW a \in 0 .. Len(s), NEW b \in 1 .. Len(s) + 1, NEW w \in Seq(Nat),
                      b = Len(s) + 1 \/ s[b] = Comma, Enclosed(s, a, b, w)
               PROVE  w \in N
    BY DEF WordsIn, s
  <2>2. b = Len(s) + 1
    <3>1. b # Len(s) + 1 => b \in 1 .. Len(s)
      BY <2>1
    <3>2. QED
      BY <2>1, <3>1
  <2>3. a = 0
    <3>1. a # 0 => a \in 1 .. Len(s)
      BY <2>1
    <3>2. QED
      BY <2>1, <3>1 DEF Enclosed
  <2>4. b - a - 1 = Len(s) /\ \A i \in 1 .. Len(s) : a + i = i
    BY <2>1, <2>2, <2>3
  <2>5. Len(w) = Len(s) /\ \A i \in 1 .. Len(w) : w[i] = s[i]
    BY <2>4 DEF Enclosed
  <2>6. w = s
    BY <2>1, <2>5, SeqEqual
  <2>7. QED
    BY <2>1, <2>6
<1> DEFINE T == {n \in Nat : n <= m => WordsIn(text[n], N)}
<1>5. \A n \in T : n + 1 \in T
  <2> SUFFICES ASSUME NEW n \in T, n + 1 <= m
               PROVE  WordsIn(text[n + 1], N)
    OBVIOUS
  <2>1. n \in 0 .. m /\ n + 1 \in 1 .. m /\ (n + 1) - 1 = n /\ n <= m /\ (n + 1 = 1 => 1 \in 1 .. m)
    BY <1>1
  <2>2. WordsIn(text[n], N) /\ text[n] \in Seq(Nat)
    BY <1>2, <2>1
  <2>3. CASE n + 1 = 1
    <3>1. text[n + 1] = names[1]
      BY <1>2, <2>1, <2>3
    <3>2. QED
      BY <1>4, <2>1, <2>3, <3>1
  <2>4. CASE n + 1 # 1
    <3>1. text[n + 1] = text[n] \o <<Comma>> \o names[n + 1]
      BY <1>2, <2>1, <2>4
    <3>2. /\ names[n + 1] \in Seq(Nat) /\ names[n + 1] \in N
          /\ \A i \in 1 .. Len(names[n + 1]) : names[n + 1][i] # Comma
      BY <1>1, <2>1 DEF m
    <3>3. WordsIn(text[n] \o <<Comma>> \o names[n + 1], N)
      BY <2>2, <3>2, WordAdded
    <3>4. QED
      BY <3>1, <3>3
  <2>5. QED
    BY <2>3, <2>4
<1>6. 0 \in T /\ T \in SUBSET Nat
  BY <1>2, <1>3
<1>7. T = Nat
  <2> HIDE DEF T
  <2>1. QED
    BY <1>5, <1>6, Induction
<1>8. WordsIn(text[m], N)
  <2>1. m \in Nat /\ m <= m
    BY <1>1
  <2>2. \A n \in Nat : n <= m => WordsIn(text[n], N)
    BY <1>7
  <2>3. QED
    BY <2>1, <2>2
<1>9. QED
  BY <1>2, <1>8

\* split_comma_list, character by character
LEMMA SplitText ==
    ASSUME NEW chars \in Seq(Nat)
    PROVE  \E f \in [0 .. Len(chars) -> [words : Lines, word : Seq(Nat)]] :
              /\ SplitCommas(chars) = EndOfWord(f[Len(chars)])
              /\ f[0] = [words |-> <<>>, word |-> <<>>]
              /\ \A n \in 1 .. Len(chars) :
                    f[n] = IF chars[n] = Comma THEN [words |-> EndOfWord(f[n - 1]), word |-> <<>>]
                           ELSE [words |-> f[n - 1].words, word |-> Append(f[n - 1].word, chars[n])]
<1> DEFINE m == Len(chars)
           S == [words : Lines, word : Seq(Nat)]
           start == [words |-> <<>>, word |-> <<>>]
           Grown(n, o) == IF chars[n] = Comma THEN [words |-> EndOfWord(o), word |-> <<>>]
                         ELSE [words |-> o.words, word |-> Append(o.word, chars[n])]
           IsRead(c) == c = [n \in 0 .. m |->
                               IF n = 0 THEN [words |-> <<>>, word |-> <<>>]
                               ELSE IF chars[n] = Comma
                                    THEN [words |-> EndOfWord(c[n - 1]), word |-> <<>>]
                               ELSE [words |-> c[n - 1].words, word |-> Append(c[n - 1].word, chars[n])]]
           step == [n \in 1 .. m |-> [o \in S |-> Grown(n, o)]]
           read == CHOOSE c : IsRead(c)
<1>1. m \in Nat /\ \A n \in 1 .. m : chars[n] \in Nat
  BY LenProperties, ElementOfSeq
<1> HIDE DEF m
<1>2. start \in S
  <2>1. <<>> \in Lines /\ <<>> \in Seq(Nat)
    BY DEF Lines
  <2>2. QED
    BY <2>1
<1>3. \A o \in S : EndOfWord(o) \in Lines
  <2> SUFFICES ASSUME NEW o \in S
               PROVE  EndOfWord(o) \in Lines
    OBVIOUS
  <2>1. TrimBlanks(o.word) \in Seq(Nat) /\ o.words \in Lines
    BY TrimmedBlanks
  <2>2. Append(o.words, TrimBlanks(o.word)) \in Lines
    BY <2>1, AppendProperties DEF Lines
  <2>3. QED
    BY <2>1, <2>2 DEF EndOfWord
<1>4. \A n \in 1 .. m, o \in S : Grown(n, o) \in S
  <2> SUFFICES ASSUME NEW n \in 1 .. m, NEW o \in S
               PROVE  Grown(n, o) \in S
    OBVIOUS
  <2>1. o.words \in Lines /\ o.word \in Seq(Nat) /\ chars[n] \in Nat /\ EndOfWord(o) \in Lines
    BY <1>1, <1>3
  <2>2. Append(o.word, chars[n]) \in Seq(Nat) /\ <<>> \in Seq(Nat)
    BY <2>1, AppendProperties
  <2>3. QED
    BY <2>1, <2>2
<1>5. step \in [1 .. m -> [S -> S]]
  <2> HIDE DEF Grown, S
  <2>1. QED
    BY <1>4
<1>6. PICK f \in [0 .. m -> S] : f[0] = start /\ \A n \in 1 .. m : f[n] = step[n][f[n - 1]]
  <2> HIDE DEF step, S, start
  <2>1. \E f : Passes(f, S, start, m, step)
    BY <1>1, <1>2, <1>5, Iteration
  <2>2. QED
    BY <2>1 DEF Passes
<1>7. \A n \in 1 .. m : f[n] = Grown(n, f[n - 1])
  <2> SUFFICES ASSUME NEW n \in 1 .. m
               PROVE  f[n] = Grown(n, f[n - 1])
    OBVIOUS
  <2>1. n - 1 \in 0 .. m
    BY <1>1
  <2>2. f[n - 1] \in S /\ f[n] = step[n][f[n - 1]]
    BY <1>6, <2>1
  <2> HIDE DEF Grown, S
  <2>3. QED
    BY <2>2
<1>8. IsRead(f)
  <2> DEFINE G(n) == IF n = 0 THEN [words |-> <<>>, word |-> <<>>]
                     ELSE IF chars[n] = Comma THEN [words |-> EndOfWord(f[n - 1]), word |-> <<>>]
                     ELSE [words |-> f[n - 1].words, word |-> Append(f[n - 1].word, chars[n])]
  <2>1. \A n \in 0 .. m : f[n] = G(n)
    <3> SUFFICES ASSUME NEW n \in 0 .. m, n # 0
                 PROVE  f[n] = Grown(n, f[n - 1])
      BY <1>6
    <3>1. n \in 1 .. m
      BY <1>1
    <3>2. QED
      BY <1>7, <3>1
  <2> HIDE DEF G
  <2>2. f = [n \in 0 .. m |-> G(n)]
    BY <1>6, <2>1
  <2>3. QED
    BY <2>2 DEF G
<1>9. IsRead(read)
  <2> HIDE DEF IsRead
  <2>1. QED
    BY <1>8
<1>10. SplitCommas(chars) = EndOfWord(read[m])
  BY DEF SplitCommas, m
<1> HIDE DEF read
<1>11. read[0] = start
  BY <1>1, <1>9
<1>12. \A n \in 1 .. m : read[n] = Grown(n, read[n - 1])
  <2> SUFFICES ASSUME NEW n \in 1 .. m
               PROVE  read[n] = Grown(n, read[n - 1])
    OBVIOUS
  <2>1. n \in 0 .. m /\ n # 0
    BY <1>1
  <2>2. QED
    BY <1>9, <2>1
<1>13. read = [n \in 0 .. m |-> read[n]]
  BY <1>9
<1> HIDE DEF Grown, IsRead, S, start
<1>14. \A n \in 0 .. m : read[n] \in S
  <2> DEFINE T == {n \in Nat : n <= m => read[n] \in S}
  <2>1. \A n \in T : n + 1 \in T
    <3> SUFFICES ASSUME NEW n \in T, n + 1 <= m
                 PROVE  read[n + 1] \in S
      OBVIOUS
    <3>1. n + 1 \in 1 .. m /\ (n + 1) - 1 = n /\ n <= m
      BY <1>1
    <3>2. read[n + 1] = Grown(n + 1, read[n]) /\ read[n] \in S
      BY <1>12, <3>1
    <3>3. QED
      BY <1>4, <3>1, <3>2
  <2>2. 0 \in T /\ T \in SUBSET Nat
    BY <1>2, <1>11
  <2>3. T = Nat
    <3> HIDE DEF T
    <3>1. QED
      BY <2>1, <2>2, Induction
  <2>4. QED
    BY <2>3
<1>15. read \in [0 .. m -> S]
  BY <1>13, <1>14
<1>16. QED
  BY <1>10, <1>11, <1>12, <1>15 DEF m, Grown, S, start

\* What split_comma_list makes of a text: the words that commas enclose,
\* without the blanks at their ends.
LEMMA WordsOfText ==
    ASSUME NEW chars \in Seq(Nat), NEW N, WordsIn(chars, N),
           NEW M, \A w \in N : TrimBlanks(w) \in M \/ TrimBlanks(w) = <<>>
    PROVE  SplitCommas(chars) \in Lines /\ SplitCommas(chars) \in Seq(M)
<1> DEFINE m == Len(chars)
           S == [words : Lines, word : Seq(Nat)]
<1>1. m \in Nat /\ \A n \in 1 .. m : chars[n] \in Nat
  BY LenProperties, ElementOfSeq
<1>2. PICK f \in [0 .. m -> S] :
         /\ SplitCommas(chars) = EndOfWord(f[m])
         /\ f[0] = [words |-> <<>>, word |-> <<>>]
         /\ \A n \in 1 .. m :
               f[n] = IF chars[n] = Comma THEN [words |-> EndOfWord(f[n - 1]), word |-> <<>>]
                      ELSE [words |-> f[n - 1].words, word |-> Append(f[n - 1].word, chars[n])]
  BY SplitText
<1>3. ASSUME NEW a \in 0 .. m, NEW b \in 1 .. m + 1, a < b, b = m + 1 \/ chars[b] = Comma,
             NEW o \in S, Enclosed(chars, a, b, o.word), o.words \in Seq(M)
      PROVE  EndOfWord(o) \in Seq(M) /\ EndOfWord(o) \in Lines
  <2>1. o.word \in N /\ o.words \in Lines /\ o.word \in Seq(Nat)
    BY <1>3 DEF WordsIn
  <2>2. CASE TrimBlanks(o.word) = <<>>
    BY <1>3, <2>1, <2>2 DEF EndOfWord
  <2>3. CASE TrimBlanks(o.word) # <<>>
    <3>1. TrimBlanks(o.word) \in M /\ TrimBlanks(o.word) \in Seq(Nat)
      BY <2>1, <2>3, TrimmedBlanks
    <3>2. /\ Append(o.words, TrimBlanks(o.word)) \in Seq(M)
          /\ Append(o.words, TrimBlanks(o.word)) \in Lines
      BY <1>3, <2>1, <3>1, AppendProperties DEF Lines
    <3>3. EndOfWord(o) = Append(o.words, TrimBlanks(o.word))
      BY <2>3 DEF EndOfWord
    <3>4. QED
      BY <3>2, <3>3
  <2>4. QED
    BY <2>2, <2>3
<1> HIDE DEF m
<1> DEFINE Sound(n) == /\ f[n].words \in Seq(M)
                       /\ \E a \in 0 .. n : Enclosed(chars, a, n + 1, f[n].word)
           T == {n \in Nat : n <= m => Sound(n)}
<1>4. Sound(0)
  <2>1. f[0].words = <<>> /\ f[0].word = <<>> /\ <<>> \in Seq(M) /\ Len(<<>>) = 0
    BY <1>2
  <2>2. Enclosed(chars, 0, 0 + 1, <<>>)
    BY <2>1 DEF Enclosed
  <2>3. QED
    BY <2>1, <2>2
<1>5. ASSUME NEW n \in Nat, n + 1 <= m, Sound(n)
      PROVE  Sound(n + 1)
  <2>1. n + 1 \in 1 .. m /\ (n + 1) - 1 = n /\ n \in 0 .. m /\ n + 1 \in 1 .. m + 1
    BY <1>1, <1>5
  <2>2. f[n] \in S /\ f[n].words \in Seq(M) /\ f[n].word \in Seq(Nat) /\ chars[n + 1] \in Nat
    BY <1>1, <1>2, <1>5, <2>1
  <2>3. PICK a \in 0 .. n : Enclosed(chars, a, n + 1, f[n].word)
    BY <1>5
  <2>4. a \in 0 .. m /\ a < n + 1 /\ a \in Nat
    <3>1. n + 1 <= m /\ n \in Nat /\ m \in Nat /\ a \in 0 .. n
      BY <1>1, <1>5
    <3>2. QED
      BY ONLY <3>1
  <2>5. CASE chars[n + 1] = Comma
    <3>1. f[n + 1] = [words |-> EndOfWord(f[n]), word |-> <<>>]
      BY <1>2, <2>1, <2>5
    <3>2. EndOfWord(f[n]) \in Seq(M)
      <4> DEFINE o == f[n]
                 b == n + 1
      <4>1. /\ b \in 1 .. m + 1 /\ a < b /\ chars[b] = Comma
            /\ o \in S /\ Enclosed(chars, a, b, o.word) /\ o.words \in Seq(M)
        BY <2>1, <2>2, <2>3, <2>4, <2>5
      <4> HIDE DEF o, b, S
      <4>2. EndOfWord(o) \in Seq(M)
        BY <1>3, <2>4, <4>1
      <4>3. QED
        BY <4>2 DEF o
    <3>3. Enclosed(chars, n + 1, (n + 1) + 1, <<>>)
      <4>1. Len(<<>>) = 0
        OBVIOUS
      <4>2. QED
        BY <2>5, <4>1 DEF Enclosed
    <3>4. n + 1 \in 0 .. n + 1
      OBVIOUS
    <3>5. f[n + 1].words = EndOfWord(f[n]) /\ f[n + 1].word = <<>>
      BY <3>1
    <3>6. QED
      BY <3>2, <3>3, <3>4, <3>5
  <2>6. CASE chars[n + 1] # Comma
    <3> DEFINE w == f[n].word
               u == Append(w, chars[n + 1])
    <3>1. f[n + 1].words = f[n].words /\ f[n + 1].word = u
      <4>1. f[n + 1] = [words |-> f[n].words, word |-> u]
        BY <1>2, <2>1, <2>6
      <4>2. QED
        BY <4>1
    <3>2. /\ a = 0 \/ chars[a] = Comma
          /\ \A i \in a + 1 .. (n + 1) - 1 : chars[i] # Comma
          /\ Len(w) = (n + 1) - a - 1 /\ \A i \in 1 .. (n + 1) - a - 1 : w[i] = chars[a + i]
      BY <2>3 DEF Enclosed
    <3>3. Len(u) = Len(w) + 1 /\ u[Len(w) + 1] = chars[n + 1] /\ \A i \in 1 .. Len(w) : u[i] = w[i]
      BY <2>2, AppendProperties
    <3> HIDE DEF w, u
    <3>4. Len(w) = n - a /\ n \in Nat
      BY <2>1, <2>4, <3>2
    <3>5. Len(u) = ((n + 1) + 1) - a - 1
      <4>1. Len(u) = (n - a) + 1
        BY <3>3, <3>4
      <4>2. QED
        BY ONLY <2>4, <3>4, <4>1
    <3>6. \A i \in a + 1 .. ((n + 1) + 1) - 1 : chars[i] # Comma
      <4> SUFFICES ASSUME NEW i \in a + 1 .. ((n + 1) + 1) - 1
                   PROVE  chars[i] # Comma
        OBVIOUS
      <4>1. i = n + 1 \/ i \in a + 1 .. (n + 1) - 1
        BY <2>1, <2>4
      <4>2. QED
        BY <2>6, <3>2, <4>1
    <3>7. \A i \in 1 .. ((n + 1) + 1) - a - 1 : u[i] = chars[a + i]
      <4> SUFFICES ASSUME NEW i \in 1 .. ((n + 1) + 1) - a - 1
                   PROVE  u[i] = chars[a + i]
        OBVIOUS
      <4>1. CASE i = Len(w) + 1
        <5>1. a + i = n + 1
          BY <2>1, <2>4, <3>4, <4>1
        <5>2. QED
          BY <3>3, <4>1, <5>1
      <4>2. CASE i # Len(w) + 1
        <5>1. i \in 1 .. Len(w) /\ i \in 1 .. (n + 1) - a - 1
          BY <2>1, <2>4, <3>4, <4>2
        <5>2. QED
          BY <3>2, <3>3, <5>1
      <4>3. QED
        BY <4>1, <4>2
    <3>8. Enclosed(chars, a, (n + 1) + 1, u)
      BY <3>2, <3>5, <3>6, <3>7 DEF Enclosed
    <3>9. a \in 0 .. n + 1
      BY <2>4
    <3>10. QED
      BY <2>2, <3>1, <3>8, <3>9
  <2>7. QED
    BY <2>5, <2>6
<1> HIDE DEF Sound
<1>6. \A n \in T : n + 1 \in T
  <2> SUFFICES ASSUME NEW n \in T, n + 1 <= m
               PROVE  Sound(n + 1)
    OBVIOUS
  <2>1. n \in Nat /\ n <= m
    BY <1>1
  <2>2. QED
    BY <1>5, <2>1
<1>7. T = Nat
  <2>1. 0 \in T /\ T \in SUBSET Nat
    BY <1>4
  <2> HIDE DEF T
  <2>2. QED
    BY <1>6, <2>1, Induction
<1>8. Sound(m)
  <2>1. m \in Nat /\ m <= m
    BY <1>1
  <2>2. \A n \in Nat : n <= m => Sound(n)
    BY <1>7
  <2>3. QED
    BY <2>1, <2>2
<1>9. PICK a \in 0 .. m : Enclosed(chars, a, m + 1, f[m].word)
  BY <1>8 DEF Sound
<1>10. /\ m + 1 \in 1 .. m + 1 /\ a < m + 1 /\ f[m] \in S /\ f[m].words \in Seq(M)
  BY <1>1, <1>2, <1>8 DEF Sound
<1> HIDE DEF S
<1>11. EndOfWord(f[m]) \in Seq(M) /\ EndOfWord(f[m]) \in Lines
  BY <1>3, <1>9, <1>10
<1>12. QED
  BY <1>2, <1>11

\* The names of a list come back as they were, unless one has a comma in it
\* or a blank at an end.
LEMMA NamesComeBack ==
    ASSUME NEW names \in Seq(SqlName)
    PROVE  /\ Names(names) \in Lines
           /\ (\A n \in 1 .. Len(names) : Clean(names[n])) =>
                 Names(names) \in Seq({names[n] : n \in 1 .. Len(names)})
<1> DEFINE T == Joined(names)
           m == Len(names)
           M == {names[n] : n \in 1 .. m}
<1>1. m \in Nat /\ \A n \in 1 .. m : names[n] \in Seq(Nat) /\ names[n] # <<>>
  <2>1. \A n \in 1 .. m : names[n] \in SqlName
    BY ElementOfSeq
  <2>2. QED
    BY <2>1, LenProperties DEF SqlName
<1>2. T \in Seq(Nat)
  <2>1. PICK text \in [0 .. m -> Seq(Nat)] : T = text[m]
    BY JoinedNames
  <2>2. m \in 0 .. m
    BY <1>1
  <2>3. QED
    BY <2>1, <2>2
<1> HIDE DEF T
<1>3. Names(names) = SplitCommas(T)
  BY DEF Names, T
<1>4. Names(names) \in Lines
  <2> DEFINE N == Seq(Nat)
  <2>1. WordsIn(T, N)
    BY DEF WordsIn
  <2>2. \A w \in N : TrimBlanks(w) \in N \/ TrimBlanks(w) = <<>>
    BY TrimmedBlanks
  <2> HIDE DEF N
  <2>3. SplitCommas(T) \in Lines
    BY <1>2, <2>1, <2>2, WordsOfText
  <2>4. QED
    BY <1>3, <2>3
<1>5. ASSUME \A n \in 1 .. m : Clean(names[n])
      PROVE  Names(names) \in Seq(M)
  <2> DEFINE N == M \cup {<<>>}
  <2>1. \A n \in 1 .. m : names[n] \in N /\ \A i \in 1 .. Len(names[n]) : names[n][i] # Comma
    <3> SUFFICES ASSUME NEW n \in 1 .. m
                 PROVE  \A i \in 1 .. Len(names[n]) : names[n][i] # Comma
      OBVIOUS
    <3>1. DOMAIN names[n] = 1 .. Len(names[n])
      BY <1>1, LenProperties
    <3>2. QED
      BY <1>5, <3>1 DEF Clean
  <2>2. <<>> \in N
    OBVIOUS
  <2>3. \A w \in N : TrimBlanks(w) \in M \/ TrimBlanks(w) = <<>>
    <3> SUFFICES ASSUME NEW w \in N
                 PROVE  TrimBlanks(w) \in M \/ TrimBlanks(w) = <<>>
      OBVIOUS
    <3>1. CASE w = <<>>
      <4>1. <<>> \in Seq(Nat)
        OBVIOUS
      <4>2. QED
        BY <3>1, <4>1, TrimmedBlanks
    <3>2. CASE w \in M
      <4>1. PICK n \in 1 .. m : w = names[n]
        BY <3>2
      <4>2. w \in Seq(Nat) /\ w # <<>> /\ Clean(w)
        BY <1>1, <1>5, <4>1
      <4>3. TrimBlanks(w) = w
        BY <4>2, TrimmedBlanks
      <4>4. QED
        BY <3>2, <4>3
    <3>3. QED
      BY <3>1, <3>2
  <2> HIDE DEF N
  <2>4. WordsIn(T, N)
    BY <2>1, <2>2, WordsOfNames DEF T
  <2> HIDE DEF M
  <2>5. SplitCommas(T) \in Seq(M)
    BY <1>2, <2>3, <2>4, WordsOfText
  <2>6. QED
    BY <1>3, <2>5
<1>6. QED
  BY <1>4, <1>5

-----------------------------------------------------------------------------
(* SqlTools: the detail of a table *)

DetailTables == [columns : Lines, key : Lines, indexes : Seq(Lines)]

DetailAnswer(t, more, truncated, returned) ==
    [tables |-> <<>>, table |-> <<t>>, page |-> <<>>, truncated |-> truncated, more |-> more,
     returned |-> returned]

\* The size of a detail without that of its size
DetailBytes(t, more) ==
    EnvelopeBytes + NamesBytes(t.columns) + NamesBytes(t.key) + IndexesBytes(t.indexes)
        + IF more THEN MoreBytes ELSE 0

\* The size of a list of names is a number.
LEMMA LinesBytes ==
    ASSUME NEW names \in Lines
    PROVE  NamesBytes(names) \in Nat
<1>1. Len(names) \in Nat /\ DOMAIN names = 1 .. Len(names)
  BY LenProperties DEF Lines
<1>2. \A i \in 1 .. Len(names) : names[i] \in Seq(Nat)
  BY ElementOfSeq DEF Lines
<1>3. \A i \in 1 .. Len(names) : Len(names[i]) \in Nat
  BY <1>2, LenProperties
<1>4. QED
  BY <1>1, <1>3, NamesBytesType

\* The size of a list of indexes is a number.
LEMMA ListsBytes ==
    ASSUME NEW indexes \in Seq(Lines)
    PROVE  IndexesBytes(indexes) \in Nat
<1> DEFINE f == [i \in DOMAIN indexes |-> ItemBytes + NamesBytes(indexes[i])]
<1>1. Len(indexes) \in Nat /\ DOMAIN indexes = 1 .. Len(indexes) /\ ItemBytes \in Nat
  BY LenProperties, SqlSchemaAssumption
<1>2. \A i \in 1 .. Len(indexes) : NamesBytes(indexes[i]) \in Nat
  BY ElementOfSeq, LinesBytes
<1>3. IsFiniteSet(DOMAIN f)
  BY <1>1, FS_Interval
<1>4. \A i \in DOMAIN f : f[i] \in Nat
  BY <1>1, <1>2
<1> HIDE DEF f
<1>5. SumFunction(f) \in Nat
  BY <1>3, <1>4, SumIsNumber
<1>6. QED
  BY <1>5 DEF IndexesBytes, f

\* The size of a detail
LEMMA DetailSize ==
    ASSUME NEW t \in DetailTables, NEW more \in BOOLEAN, NEW truncated, NEW returned \in Nat
    PROVE  /\ DetailBytes(t, more) \in Nat /\ Width(returned) \in Nat
           /\ 1 <= Width(returned) /\ Width(returned) <= NumberBytes
           /\ EncodedLen(DetailAnswer(t, more, truncated, returned))
                 = DetailBytes(t, more) + Width(returned)
<1> DEFINE a == NamesBytes(t.columns)
           b == NamesBytes(t.key)
           c == IndexesBytes(t.indexes)
           w == Width(returned)
           adv == IF more THEN MoreBytes ELSE 0
           out == DetailAnswer(t, more, truncated, returned)
           none == NamesBytes([i \in DOMAIN <<>> |-> <<>>[i][1] \o <<>>[i][2]])
           size == EncodedLen(out)
           base == DetailBytes(t, more)
<1>1. a \in Nat /\ b \in Nat /\ c \in Nat
  BY LinesBytes, ListsBytes DEF DetailTables
<1>2. /\ w \in Nat /\ 1 <= w /\ w <= NumberBytes /\ adv \in Nat /\ EnvelopeBytes \in Nat
      /\ NumberBytes \in Nat
  BY SqlSchemaAssumption DEF Width
<1>3. none = 0
  <2> DEFINE e == [i \in DOMAIN <<>> |-> <<>>[i][1] \o <<>>[i][2]]
             f == [i \in DOMAIN e |-> ItemBytes + Len(e[i])]
  <2>1. DOMAIN f = {} /\ IsFiniteSet({})
    BY FS_EmptySet
  <2>2. NamesBytes(e) = SumFunction(f)
    BY DEF NamesBytes
  <2> HIDE DEF f
  <2>3. SumFunction(f) = 0
    BY <2>1, SumIsNumber
  <2>4. QED
    BY <2>2, <2>3
<1>4. size = EnvelopeBytes + w + none + 0 + (a + b + c) + adv
  <2>1. /\ out.returned = returned /\ out.tables = <<>> /\ out.page = <<>> /\ out.table # <<>>
        /\ out.table[1] = t /\ out.more = more
    BY DEF DetailAnswer
  <2> HIDE DEF out
  <2>2. QED
    BY <2>1 DEF EncodedLen
<1>5. base = EnvelopeBytes + a + b + c + adv
  BY DEF DetailBytes
<1> HIDE DEF a, b, c, w, adv, none, size, base
<1>6. base \in Nat /\ size = base + w
  BY ONLY <1>1, <1>2, <1>3, <1>4, <1>5
<1>7. QED
  BY <1>2, <1>6 DEF w, size, base, out

\* What is left of a table when it is cut from its end
IsCutTable(t, whole) ==
    /\ t \in DetailTables
    /\ \E k \in 0 .. Len(whole.columns) : t.columns = SubSeq(whole.columns, 1, k)
    /\ t.key # <<>> => t.key = whole.key /\ t.columns = whole.columns
    /\ t.indexes # <<>> => t = whole

\* How often it can still be cut
PartsOf(t) ==
    Len(t.columns) + (IF t.key = <<>> THEN 0 ELSE 1) + (IF t.indexes = <<>> THEN 0 ELSE 1)

\* A table is the longest cut of itself, and can be cut until nothing is left.
LEMMA WholeTable ==
    ASSUME NEW t \in DetailTables
    PROVE  /\ IsCutTable(t, t) /\ PartsOf(t) \in Nat /\ PartsOf(t) <= Len(t.columns) + 2
           /\ Len(t.columns) \in Nat
           /\ PartsOf(t) = 0 <=> (t.columns = <<>> /\ t.key = <<>> /\ t.indexes = <<>>)
           /\ t = [columns |-> t.columns, key |-> t.key, indexes |-> t.indexes]
<1>1. t.columns \in Lines /\ Len(t.columns) \in Nat /\ (t.columns = <<>> <=> Len(t.columns) = 0)
  <2>1. t.columns \in Seq(Seq(Nat))
    BY DEF DetailTables, Lines
  <2>2. Len(t.columns) \in Nat /\ (t.columns = <<>> <=> Len(t.columns) = 0)
    BY <2>1, LenProperties, EmptySeq
  <2>3. QED
    BY <2>1, <2>2 DEF Lines
<1>2. t.columns = SubSeq(t.columns, 1, Len(t.columns))
  <2> DEFINE s == t.columns
             u == SubSeq(s, 1, Len(s))
  <2>1. s \in Seq(Seq(Nat)) /\ Len(s) \in 0 .. Len(s)
    BY <1>1 DEF Lines
  <2> HIDE DEF s
  <2>2. u \in Seq(Seq(Nat)) /\ Len(u) = Len(s) /\ \A i \in 1 .. Len(s) : u[i] = s[i]
    BY <2>1, PageTables
  <2> HIDE DEF u
  <2>3. u = s
    BY <2>1, <2>2, SeqEqual
  <2>4. QED
    BY <2>3 DEF u, s
<1>3. Len(t.columns) \in 0 .. Len(t.columns)
  BY <1>1
<1>4. IsCutTable(t, t)
  BY <1>2, <1>3 DEF IsCutTable
<1> DEFINE n == Len(t.columns)
           x == IF t.key = <<>> THEN 0 ELSE 1
           y == IF t.indexes = <<>> THEN 0 ELSE 1
<1>5. /\ n \in Nat /\ x \in {0, 1} /\ y \in {0, 1} /\ PartsOf(t) = n + x + y
      /\ x = 0 <=> t.key = <<>>
      /\ y = 0 <=> t.indexes = <<>>
      /\ n = 0 <=> t.columns = <<>>
  BY <1>1 DEF PartsOf
<1>6. t = [columns |-> t.columns, key |-> t.key, indexes |-> t.indexes]
  BY DEF DetailTables
<1> HIDE DEF n, x, y
<1>7. PartsOf(t) \in Nat /\ PartsOf(t) <= n + 2 /\ (PartsOf(t) = 0 <=> n = 0 /\ x = 0 /\ y = 0)
  BY ONLY <1>5
<1>8. QED
  BY <1>4, <1>5, <1>6, <1>7 DEF n

\* A turn takes the indexes, or else the key, or else the last column.
LEMMA TableTurn ==
    ASSUME NEW whole \in DetailTables, NEW t, IsCutTable(t, whole), PartsOf(t) # 0
    PROVE  /\ IsCutTable(ShorterTable(t), whole) /\ ShorterTable(t).indexes = <<>>
           /\ PartsOf(ShorterTable(t)) = PartsOf(t) - 1
<1> DEFINE a == t.columns
           b == t.key
           c == t.indexes
           s == ShorterTable(t)
<1>1. /\ t = [columns |-> a, key |-> b, indexes |-> c] /\ a \in Lines /\ b \in Lines
      /\ c \in Seq(Lines) /\ Len(a) \in Nat
      /\ PartsOf(t) = Len(a) + (IF b = <<>> THEN 0 ELSE 1) + (IF c = <<>> THEN 0 ELSE 1)
  <2>1. t \in DetailTables
    BY DEF IsCutTable
  <2>2. QED
    BY <2>1, WholeTable DEF DetailTables, PartsOf
<1>2. PICK k \in 0 .. Len(whole.columns) : a = SubSeq(whole.columns, 1, k)
  BY DEF IsCutTable
<1>3. /\ b # <<>> => b = whole.key /\ a = whole.columns
      /\ c # <<>> => b = whole.key /\ a = whole.columns
  BY DEF IsCutTable
<1>4. whole.columns \in Seq(Seq(Nat)) /\ Len(whole.columns) \in Nat /\ Len(a) = k
  <2>1. whole.columns \in Seq(Seq(Nat))
    BY DEF DetailTables, Lines
  <2>2. QED
    BY <1>2, <2>1, PageTables, LenProperties
<1>5. <<>> \in Lines /\ <<>> \in Seq(Lines)
  BY DEF Lines
<1>6. CASE c # <<>>
  <2>1. s = [columns |-> a, key |-> b, indexes |-> <<>>]
    <3>1. s = [t EXCEPT !.indexes = <<>>]
      BY <1>6 DEF ShorterTable
    <3> HIDE DEF s, a, b, c
    <3>2. QED
      BY <1>1, <3>1
  <2> HIDE DEF s
  <2>2. s.columns = a /\ s.key = b /\ s.indexes = <<>> /\ s \in DetailTables
    BY <1>1, <1>5, <2>1 DEF DetailTables
  <2>3. IsCutTable(s, whole)
    BY <1>2, <1>3, <2>2 DEF IsCutTable
  <2>4. PartsOf(s) = Len(a) + (IF b = <<>> THEN 0 ELSE 1) + 0
    BY <2>2 DEF PartsOf
  <2>5. PartsOf(s) = PartsOf(t) - 1
    <3> DEFINE n == Len(a)
               x == IF b = <<>> THEN 0 ELSE 1
               p == PartsOf(t)
               q == PartsOf(s)
    <3>1. n \in Nat /\ x \in Nat /\ p = n + x + 1 /\ q = n + x + 0
      BY <1>1, <1>6, <2>4
    <3> HIDE DEF n, x, p, q
    <3>2. q = p - 1
      BY ONLY <3>1
    <3>3. QED
      BY <3>2 DEF p, q
  <2>6. QED
    BY <2>2, <2>3, <2>5 DEF s
<1>7. CASE c = <<>> /\ b # <<>>
  <2>1. s = [columns |-> a, key |-> <<>>, indexes |-> <<>>]
    <3>1. s = [t EXCEPT !.key = <<>>]
      BY <1>7 DEF ShorterTable
    <3>2. c = <<>>
      BY <1>7
    <3> HIDE DEF s, a, b, c
    <3>3. QED
      BY <1>1, <3>1, <3>2
  <2> HIDE DEF s
  <2>2. s.columns = a /\ s.key = <<>> /\ s.indexes = <<>> /\ s \in DetailTables
    BY <1>1, <1>5, <2>1 DEF DetailTables
  <2>3. IsCutTable(s, whole)
    BY <1>2, <2>2 DEF IsCutTable
  <2>4. PartsOf(s) = Len(a) + 0 + 0
    BY <2>2 DEF PartsOf
  <2>5. PartsOf(s) = PartsOf(t) - 1
    <3> DEFINE n == Len(a)
               p == PartsOf(t)
               q == PartsOf(s)
    <3>1. n \in Nat /\ p = n + 1 + 0 /\ q = n + 0 + 0
      BY <1>1, <1>7, <2>4
    <3> HIDE DEF n, p, q
    <3>2. q = p - 1
      BY ONLY <3>1
    <3>3. QED
      BY <3>2 DEF p, q
  <2>6. QED
    BY <2>2, <2>3, <2>5 DEF s
<1>8. CASE c = <<>> /\ b = <<>>
  <2> DEFINE f == Front(a)
  <2>1. PartsOf(t) = Len(a) + 0 + 0
    BY <1>1, <1>8
  <2>2. k \in 1 .. Len(whole.columns) /\ k - 1 \in 0 .. Len(whole.columns)
    <3> DEFINE n == Len(a)
               p == PartsOf(t)
               m == Len(whole.columns)
    <3>1. n \in Nat /\ p = n + 0 + 0 /\ p # 0 /\ n = k /\ m \in Nat /\ k \in 0 .. m
      BY <1>1, <1>4, <2>1
    <3> HIDE DEF n, p, m
    <3>2. k \in 1 .. m /\ k - 1 \in 0 .. m
      BY ONLY <3>1
    <3>3. QED
      BY <3>2 DEF m
  <2>3. f = SubSeq(whole.columns, 1, k - 1)
    BY <1>2, <1>4, <2>2, FrontOfFirst
  <2>4. f \in Lines /\ Len(f) = k - 1
    BY <1>4, <2>2, <2>3, PageTables DEF Lines
  <2> HIDE DEF f
  <2>5. s = [columns |-> f, key |-> <<>>, indexes |-> <<>>]
    <3>1. s = [t EXCEPT !.columns = f]
      BY <1>8 DEF ShorterTable, f
    <3>2. c = <<>> /\ b = <<>>
      BY <1>8
    <3> HIDE DEF s, a, b, c
    <3>3. QED
      BY <1>1, <3>1, <3>2
  <2> HIDE DEF s
  <2>6. s.columns = f /\ s.key = <<>> /\ s.indexes = <<>> /\ s \in DetailTables
    BY <1>5, <2>4, <2>5 DEF DetailTables
  <2>7. IsCutTable(s, whole)
    BY <2>2, <2>3, <2>6 DEF IsCutTable
  <2>8. PartsOf(s) = Len(f) + 0 + 0
    BY <2>6 DEF PartsOf
  <2>9. PartsOf(s) = PartsOf(t) - 1
    <3>1. k \in Nat /\ PartsOf(t) = k + 0 + 0 /\ PartsOf(s) = (k - 1) + 0 + 0
      BY <1>4, <2>1, <2>4, <2>8
    <3>2. QED
      BY ONLY <3>1
  <2>10. QED
    BY <2>6, <2>7, <2>9 DEF s
<1>9. QED
  BY <1>6, <1>7, <1>8

WithTable(out, t) == [out EXCEPT !.table = <<t>>]

\* The fields of a detail that are set one by one
LEMMA DetailSet ==
    ASSUME NEW t, NEW more, NEW truncated, NEW returned, NEW b, NEW s,
           NEW out, out = DetailAnswer(t, more, truncated, returned)
    PROVE  /\ WithTable(out, s) = DetailAnswer(s, more, truncated, returned)
           /\ WithTruncated(out, b) = DetailAnswer(t, more, b, returned)
           /\ WithMore(out, b) = DetailAnswer(t, b, truncated, returned)
<1> DEFINE none == <<>>
           this == <<t>>
           that == <<s>>
<1>1. \A c, d, n :
         /\ DetailAnswer(t, c, d, n) =
              [tables |-> none, table |-> this, page |-> none, truncated |-> d, more |-> c,
               returned |-> n]
         /\ DetailAnswer(s, c, d, n) =
              [tables |-> none, table |-> that, page |-> none, truncated |-> d, more |-> c,
               returned |-> n]
  BY DEF DetailAnswer
<1> HIDE DEF none, this, that
<1>2. out = [tables |-> none, table |-> this, page |-> none, truncated |-> truncated, more |-> more,
             returned |-> returned]
  BY <1>1
<1>3. [out EXCEPT !.truncated = b] = DetailAnswer(t, more, b, returned)
  BY <1>1, <1>2
<1>4. [out EXCEPT !.more = b] = DetailAnswer(t, b, truncated, returned)
  BY <1>1, <1>2
<1>5. [out EXCEPT !.table = that] = DetailAnswer(s, more, truncated, returned)
  BY <1>1, <1>2
<1>6. WithTruncated(out, b) = DetailAnswer(t, more, b, returned)
  BY <1>3 DEF WithTruncated
<1>7. WithMore(out, b) = DetailAnswer(t, b, truncated, returned)
  BY <1>4 DEF WithMore
<1>8. WithTable(out, s) = DetailAnswer(s, more, truncated, returned)
  BY <1>5 DEF WithTable, that
<1>9. QED
  BY <1>6, <1>7, <1>8

\* The fields of a detail, and what it is when it was measured
LEMMA DetailFields ==
    ASSUME NEW t, NEW more, NEW truncated, NEW returned,
           NEW out, out = DetailAnswer(t, more, truncated, returned)
    PROVE  /\ out.returned = returned /\ out.table = <<t>> /\ out.tables = <<>> /\ out.table # <<>>
           /\ out.table[1] = t
           /\ Measured(out) = DetailAnswer(t, more, truncated, EncodedLen(out))
<1> DEFINE size == EncodedLen(out)
           none == <<>>
           this == <<t>>
<1>1. \A n : DetailAnswer(t, more, truncated, n) =
              [tables |-> none, table |-> this, page |-> none, truncated |-> truncated,
               more |-> more, returned |-> n]
  BY DEF DetailAnswer
<1>2. Measured(out) = [out EXCEPT !.returned = size]
  BY DEF Measured
<1>3. this # none /\ this[1] = t
  OBVIOUS
<1> HIDE DEF size, none, this
<1>4. out = [tables |-> none, table |-> this, page |-> none, truncated |-> truncated, more |-> more,
             returned |-> returned]
  BY <1>1
<1>5. [out EXCEPT !.returned = size] = DetailAnswer(t, more, truncated, size)
  BY <1>1, <1>4
<1>6. out.returned = returned /\ out.table = this /\ out.tables = none
  BY <1>4
<1>7. out.table # none /\ out.table[1] = t
  BY <1>3, <1>6
<1>8. Measured(out) = DetailAnswer(t, more, truncated, size)
  BY <1>2, <1>5
<1>9. out.table = <<t>> /\ out.tables = <<>> /\ out.table # <<>>
  BY <1>6, <1>7 DEF none, this
<1>10. Measured(out) = DetailAnswer(t, more, truncated, EncodedLen(out))
  BY <1>8 DEF size
<1>11. QED
  BY <1>6, <1>7, <1>9, <1>10

\* A turn of the loop for a detail: one that fits, or that is bare, is left,
\* and another is one part shorter.
LEMMA DetailTurn ==
    ASSUME NEW whole \in DetailTables, NEW t, IsCutTable(t, whole),
           NEW more \in BOOLEAN, NEW truncated, NEW n \in Nat, NEW max \in Nat,
           NEW out, out = DetailAnswer(t, more, truncated, n)
    PROVE  /\ n <= max \/ PartsOf(t) = 0 => Turned(out, max) = out
           /\ ~(n <= max) /\ PartsOf(t) # 0 =>
                 \E s \in DetailTables, k \in Nat :
                    /\ Turned(out, max) = DetailAnswer(s, more, truncated, k)
                    /\ IsCutTable(s, whole) /\ s.indexes = <<>>
                    /\ PartsOf(s) = PartsOf(t) - 1
                    /\ k = DetailBytes(s, more) + Width(n)
<1>1. t \in DetailTables
  BY DEF IsCutTable
<1>2. /\ out.returned = n /\ out.table = <<t>> /\ out.tables = <<>> /\ out.table # <<>>
      /\ out.table[1] = t
  BY DetailFields
<1>3. Bare(out) <=> PartsOf(t) = 0
  BY <1>1, <1>2, WholeTable DEF Bare
<1>4. ASSUME n <= max \/ PartsOf(t) = 0
      PROVE  Turned(out, max) = out
  BY <1>2, <1>3, <1>4 DEF Turned
<1>5. ASSUME ~(n <= max), PartsOf(t) # 0
      PROVE  \E s \in DetailTables, k \in Nat :
                /\ Turned(out, max) = DetailAnswer(s, more, truncated, k)
                /\ IsCutTable(s, whole) /\ s.indexes = <<>>
                /\ PartsOf(s) = PartsOf(t) - 1
                /\ k = DetailBytes(s, more) + Width(n)
  <2> DEFINE s == ShorterTable(t)
             next == DetailAnswer(s, more, truncated, n)
             k == EncodedLen(next)
  <2>1. Turned(out, max) = Measured(Shorter(out))
    BY <1>2, <1>3, <1>5 DEF Turned
  <2>2. IsCutTable(s, whole) /\ s.indexes = <<>> /\ PartsOf(s) = PartsOf(t) - 1
    BY <1>5, TableTurn
  <2> HIDE DEF s
  <2>3. Shorter(out) = next
    <3>1. Shorter(out) = WithTable(out, s)
      BY <1>2 DEF Shorter, WithTable, s
    <3>2. WithTable(out, s) = next
      BY DetailSet
    <3>3. QED
      BY <3>1, <3>2
  <2>4. s \in DetailTables
    BY <2>2 DEF IsCutTable
  <2>5. k = DetailBytes(s, more) + Width(n) /\ DetailBytes(s, more) \in Nat /\ Width(n) \in Nat
    BY <2>4, DetailSize
  <2>6. next = DetailAnswer(s, more, truncated, n)
    OBVIOUS
  <2> HIDE DEF next
  <2>10. Measured(next) = DetailAnswer(s, more, truncated, k)
    BY <2>6, DetailFields
  <2> HIDE DEF k
  <2>7. k \in Nat
    BY <2>5
  <2>8. Turned(out, max) = DetailAnswer(s, more, truncated, k)
    BY <2>1, <2>3, <2>10
  <2>9. QED
    BY <2>2, <2>4, <2>5, <2>7, <2>8
<1>6. QED
  BY <1>4, <1>5

\* What is left of a detail after j turns, of which there can be m
LeftTables(whole, more, max, m, j) ==
    {q \in DetailTables \X Nat :
        /\ IsCutTable(q[1], whole) /\ q[1].indexes = <<>>
        /\ q[2] <= max => DetailBytes(q[1], more) + 1 <= max
        /\ q[2] <= max \/ PartsOf(q[1]) <= m - j}

\* What trim_table_detail leaves of a detail that does not fit: no index, and
\* one that fits but for the digits of its size, or that is bare.
LEMMA DetailTrimmed ==
    ASSUME NEW whole \in DetailTables, NEW t, IsCutTable(t, whole), NEW more \in BOOLEAN,
           NEW truncated, NEW n \in Nat, NEW max \in Nat, ~(n <= max)
    PROVE  \E u \in DetailTables, k \in Nat :
              /\ Trimmed(DetailAnswer(t, more, truncated, n), max)
                    = DetailAnswer(u, more, truncated, k)
              /\ IsCutTable(u, whole) /\ u.indexes = <<>>
              /\ k <= max => DetailBytes(u, more) + 1 <= max
              /\ k <= max \/ PartsOf(u) = 0
<1> DEFINE D(u, k) == DetailAnswer(u, more, truncated, k)
           out == D(t, n)
           m == Turns(out)
           Left2(j) == LeftTables(whole, more, max, m, j)
           sets == [j \in 0 .. m |-> IF j = 0 THEN {out} ELSE {D(q[1], q[2]) : q \in Left2(j)}]
<1>1. t \in DetailTables
  BY DEF IsCutTable
<1>2. m \in Nat /\ m - 1 \in Nat /\ PartsOf(t) \in Nat /\ PartsOf(t) <= m /\ m # 0
  <2>1. out.tables = <<>> /\ out.table # <<>> /\ out.table[1] = t
    <3>1. out = DetailAnswer(t, more, truncated, n)
      OBVIOUS
    <3> HIDE DEF out
    <3>2. QED
      BY <3>1, DetailFields
  <2>2. Len(t.columns) \in Nat /\ PartsOf(t) \in Nat /\ PartsOf(t) <= Len(t.columns) + 2
    BY <1>1, WholeTable
  <2>3. Len(<<>>) = 0
    OBVIOUS
  <2>4. m = 0 + (Len(t.columns) + 2)
    <3> HIDE DEF out
    <3>1. QED
      BY <2>1, <2>3 DEF Turns
  <2> HIDE DEF m
  <2> DEFINE c == Len(t.columns)
             p == PartsOf(t)
  <2>5. c \in Nat /\ p \in Nat /\ p <= c + 2 /\ m = 0 + (c + 2)
    BY <2>2, <2>4
  <2> HIDE DEF c, p
  <2>6. m \in Nat /\ m - 1 \in Nat /\ p \in Nat /\ p <= m /\ m # 0
    BY ONLY <2>5
  <2>7. QED
    BY <2>6 DEF p
<1> HIDE DEF m
<1>3. ASSUME NEW j \in 1 .. m, NEW u, NEW k \in Nat, IsCutTable(u, whole), PartsOf(u) \in Nat,
             k <= max => j # 1 /\ u.indexes = <<>> /\ DetailBytes(u, more) + 1 <= max,
             k <= max \/ PartsOf(u) <= m - (j - 1),
             j = 1 \/ u.indexes = <<>>
      PROVE  Turned(D(u, k), max) \in {D(q[1], q[2]) : q \in Left2(j)}
  <2>1. u \in DetailTables
    BY <1>3 DEF IsCutTable
  <2>2. CASE k <= max \/ PartsOf(u) = 0
    <3>1. Turned(D(u, k), max) = D(u, k)
      BY <1>3, <2>2, DetailTurn
    <3>2. u.indexes = <<>>
      BY <1>3, <2>1, <2>2, WholeTable
    <3>3. 0 <= m - j
      BY <1>2
    <3>4. k <= max \/ PartsOf(u) <= m - j
      BY <2>2, <3>3
    <3>5. <<u, k>> \in Left2(j) /\ <<u, k>>[1] = u /\ <<u, k>>[2] = k
      BY <1>3, <2>1, <3>2, <3>4 DEF LeftTables
    <3> HIDE DEF D, Left2
    <3>6. D(u, k) \in {D(q[1], q[2]) : q \in Left2(j)}
      BY <3>5
    <3>7. QED
      BY <3>1, <3>6
  <2>3. CASE ~(k <= max) /\ PartsOf(u) # 0
    <3>1. PICK s \in DetailTables, l \in Nat : /\ Turned(D(u, k), max) = D(s, l)
                              /\ IsCutTable(s, whole) /\ s.indexes = <<>>
                              /\ PartsOf(s) = PartsOf(u) - 1
                              /\ l = DetailBytes(s, more) + Width(k)
      BY <1>3, <2>3, DetailTurn
    <3>2. s \in DetailTables
      BY <3>1 DEF IsCutTable
    <3>3. DetailBytes(s, more) \in Nat /\ Width(k) \in Nat /\ 1 <= Width(k)
      BY <3>2, DetailSize
    <3>4. l <= max => DetailBytes(s, more) + 1 <= max
      <4> DEFINE b == DetailBytes(s, more)
                 w == Width(k)
      <4>1. b \in Nat /\ w \in Nat /\ 1 <= w /\ l = b + w /\ max \in Nat
        BY <3>1, <3>3
      <4> HIDE DEF b, w
      <4>2. l <= max => b + 1 <= max
        BY ONLY <4>1
      <4>3. QED
        BY <4>2 DEF b
    <3>5. PartsOf(s) <= m - j
      <4> DEFINE p == PartsOf(u)
                 q == PartsOf(s)
      <4>1. p \in Nat /\ q = p - 1 /\ p <= m - (j - 1) /\ m \in Nat /\ j \in Nat
        BY <1>2, <1>3, <2>3, <3>1
      <4> HIDE DEF p, q
      <4>2. q <= m - j
        BY ONLY <4>1
      <4>3. QED
        BY <4>2 DEF q
    <3>6. <<s, l>> \in Left2(j) /\ <<s, l>>[1] = s /\ <<s, l>>[2] = l
      BY <3>1, <3>2, <3>4, <3>5 DEF LeftTables
    <3> HIDE DEF D, Left2
    <3>7. D(s, l) \in {D(q[1], q[2]) : q \in Left2(j)}
      BY <3>6
    <3>8. QED
      BY <3>1, <3>7
  <2>4. QED
    BY <2>2, <2>3
<1>4. \A j \in 1 .. m : \A o \in sets[j - 1] : Turned(o, max) \in sets[j]
  <2> SUFFICES ASSUME NEW j \in 1 .. m, NEW o \in sets[j - 1]
               PROVE  Turned(o, max) \in sets[j]
    OBVIOUS
  <2>1. /\ sets[j] = {D(q[1], q[2]) : q \in Left2(j)}
        /\ sets[j - 1] = IF j = 1 THEN {out} ELSE {D(q[1], q[2]) : q \in Left2(j - 1)}
    <3>1. j \in 0 .. m /\ j - 1 \in 0 .. m /\ j # 0 /\ (j - 1 = 0 <=> j = 1)
      BY <1>2
    <3> HIDE DEF D, Left2, out
    <3>2. QED
      BY <3>1
  <2> HIDE DEF sets
  <2>2. CASE j = 1
    <3>1. PartsOf(t) <= m - (j - 1)
      BY <1>2, <2>2
    <3>2. Turned(D(t, n), max) \in {D(q[1], q[2]) : q \in Left2(j)}
      <4> HIDE DEF D, Left2
      <4>1. QED
        BY <1>2, <1>3, <2>2, <3>1
    <3>3. QED
      BY <2>1, <2>2, <3>2
  <2>3. CASE j # 1
    <3>1. PICK q \in Left2(j - 1) : o = D(q[1], q[2])
      <4> HIDE DEF D, Left2, out
      <4>1. QED
        BY <2>1, <2>3
    <3>2. /\ q[1] \in DetailTables /\ q[2] \in Nat /\ IsCutTable(q[1], whole)
          /\ q[1].indexes = <<>>
          /\ q[2] <= max => DetailBytes(q[1], more) + 1 <= max
          /\ q[2] <= max \/ PartsOf(q[1]) <= m - (j - 1)
      BY <3>1 DEF LeftTables
    <3>3. PartsOf(q[1]) \in Nat
      BY <3>2, WholeTable
    <3>4. Turned(D(q[1], q[2]), max) \in {D(p[1], p[2]) : p \in Left2(j)}
      <4> HIDE DEF D, Left2
      <4>1. QED
        BY <1>3, <2>3, <3>2, <3>3
    <3>5. QED
      BY <2>1, <3>1, <3>4
  <2>4. QED
    BY <2>2, <2>3
<1>5. out \in sets[0] /\ sets[m] = {D(q[1], q[2]) : q \in Left2(m)}
  <2>1. 0 \in 0 .. m /\ m \in 0 .. m
    BY <1>2
  <2> HIDE DEF D, Left2, out
  <2>2. QED
    BY <1>2, <2>1
<1>6. Trimmed(out, max) \in sets[m]
  <2>1. Turns(out) = m
    BY DEF m
  <2> HIDE DEF sets, out
  <2>2. QED
    BY ONLY <1>2, <1>4, <1>5, <2>1, TrimmedTurns
<1>7. PICK q \in Left2(m) : Trimmed(out, max) = D(q[1], q[2])
  <2> HIDE DEF D, Left2, out
  <2>1. QED
    BY <1>5, <1>6
<1>8. /\ q[1] \in DetailTables /\ q[2] \in Nat /\ IsCutTable(q[1], whole)
      /\ q[1].indexes = <<>>
      /\ q[2] <= max => DetailBytes(q[1], more) + 1 <= max
      /\ q[2] <= max \/ PartsOf(q[1]) <= m - m
  BY <1>7 DEF LeftTables
<1>9. q[2] <= max \/ PartsOf(q[1]) = 0
  <2>1. PartsOf(q[1]) \in Nat
    BY <1>8, WholeTable
  <2>2. QED
    BY <1>2, <1>8, <2>1
<1>10. QED
  <2> DEFINE u == q[1]
             k == q[2]
  <2>1. /\ u \in DetailTables /\ k \in Nat /\ Trimmed(out, max) = DetailAnswer(u, more, truncated, k)
        /\ IsCutTable(u, whole) /\ u.indexes = <<>>
        /\ k <= max => DetailBytes(u, more) + 1 <= max
        /\ k <= max \/ PartsOf(u) = 0
    BY <1>7, <1>8, <1>9
  <2> HIDE DEF u, k
  <2>2. QED
    BY <2>1

\* What a caller is told of a table
IsDetailOf(out, whole, max) ==
    \E u \in DetailTables, more \in BOOLEAN, truncated \in BOOLEAN, n \in Nat :
        /\ out = DetailAnswer(u, more, truncated, n)
        /\ IsCutTable(u, whole)
        /\ IF truncated THEN u.indexes = <<>> ELSE u = whole
        /\ DetailBytes(u, more) + 1 <= max \/ PartsOf(u) = 0

\* What finalize_output makes of a detail
LEMMA DetailFinalized ==
    ASSUME NEW w \in DetailTables, NEW max \in SchemaBudgets, NEW no, no = FALSE
    PROVE  IsDetailOf(Finalize(DetailAnswer(w, no, no, 0), max), w, max)
<1> DEFINE yes == TRUE
<1>1. max \in Nat /\ 0 \in Nat /\ yes \in BOOLEAN /\ no \in BOOLEAN
  BY BudgetIsNumber
<1>2. ~no /\ yes
  OBVIOUS
<1>3. IsCutTable(w, w)
  BY WholeTable
<1>4. ASSUME NEW u, IsCutTable(u, w), NEW more \in BOOLEAN, NEW truncated \in BOOLEAN, NEW n \in Nat
      PROVE  LET o == DetailAnswer(u, more, truncated, n)
                 k == DetailBytes(u, more) + Width(n)
             IN  /\ Measured(o) = DetailAnswer(u, more, truncated, k) /\ k \in Nat
                 /\ u \in DetailTables
                 /\ k <= max => DetailBytes(u, more) + 1 <= max
  <2> DEFINE o == DetailAnswer(u, more, truncated, n)
             k == DetailBytes(u, more) + Width(n)
  <2>1. u \in DetailTables
    BY <1>4 DEF IsCutTable
  <2>2. /\ DetailBytes(u, more) \in Nat /\ Width(n) \in Nat /\ 1 <= Width(n)
        /\ EncodedLen(o) = k
    BY <1>4, <2>1, DetailSize
  <2>3. Measured(o) = DetailAnswer(u, more, truncated, EncodedLen(o))
    <3>1. o = DetailAnswer(u, more, truncated, n)
      OBVIOUS
    <3> HIDE DEF o
    <3>2. QED
      BY <3>1, DetailFields
  <2>4. k \in Nat /\ (k <= max => DetailBytes(u, more) + 1 <= max)
    <3> DEFINE b == DetailBytes(u, more)
               x == Width(n)
    <3>1. b \in Nat /\ x \in Nat /\ 1 <= x /\ max \in Nat
      BY <1>1, <2>2
    <3> HIDE DEF b, x
    <3>2. b + x \in Nat /\ (b + x <= max => b + 1 <= max)
      BY ONLY <3>1
    <3>3. QED
      BY <3>2 DEF b, x
  <2> HIDE DEF o, k
  <2>5. Measured(o) = DetailAnswer(u, more, truncated, k)
    BY <2>2, <2>3
  <2>6. QED
    BY <2>1, <2>4, <2>5 DEF o, k
<1> DEFINE out == DetailAnswer(w, no, no, 0)
           whole == Measured(out)
           cut == Trimmed(WithTruncated(whole, yes), max)
           b == max < MaxSchemaBytes
           advised == Measured(WithMore(cut, b))
           left == Trimmed(WithMore(advised, no), max)
           plain == Measured(left)
<1>5. Finalize(out, max) = IF whole.returned <= max THEN whole
                           ELSE IF advised.returned <= max THEN advised ELSE plain
  <2> HIDE DEF out
  <2>1. QED
    BY DEF Finalize, WithTruncated, WithMore
<1>6. b \in BOOLEAN
  OBVIOUS
<1> HIDE DEF b
<1> DEFINE size == DetailBytes(w, no) + Width(0)
<1>7. /\ whole = DetailAnswer(w, no, no, size) /\ size \in Nat
      /\ size <= max => DetailBytes(w, no) + 1 <= max
  BY <1>1, <1>3, <1>4
<1> HIDE DEF size, out, whole, yes
<1>8. whole.returned = size
  BY <1>7, DetailFields
<1>9. ASSUME size <= max
      PROVE  IsDetailOf(whole, w, max)
  BY <1>1, <1>2, <1>3, <1>7, <1>9 DEF IsDetailOf
<1>10. ASSUME ~(size <= max)
       PROVE  (IF advised.returned <= max THEN IsDetailOf(advised, w, max)
               ELSE IsDetailOf(plain, w, max))
  <2>1. WithTruncated(whole, yes) = DetailAnswer(w, no, yes, size)
    BY <1>7, DetailSet
  <2>2. PICK u \in DetailTables, m \in Nat :
           /\ cut = DetailAnswer(u, no, yes, m) /\ IsCutTable(u, w) /\ u.indexes = <<>>
    BY <1>1, <1>3, <1>7, <1>10, <2>1, DetailTrimmed
  <2> HIDE DEF cut
  <2>3. WithMore(cut, b) = DetailAnswer(u, b, yes, m)
    <3>1. cut = DetailAnswer(u, no, yes, m)
      BY <2>2
    <3>2. QED
      BY ONLY <3>1, DetailSet
  <2> DEFINE k == DetailBytes(u, b) + Width(m)
  <2>4. /\ advised = DetailAnswer(u, b, yes, k) /\ k \in Nat
        /\ k <= max => DetailBytes(u, b) + 1 <= max
    BY <1>1, <1>4, <1>6, <2>2, <2>3
  <2> HIDE DEF k, advised
  <2>5. advised.returned = k
    BY <2>4, DetailFields
  <2>6. CASE k <= max
    <3>1. IsDetailOf(advised, w, max)
      BY <1>1, <1>2, <1>6, <2>2, <2>4, <2>6 DEF IsDetailOf
    <3>2. QED
      BY <2>5, <2>6, <3>1
  <2>7. CASE ~(k <= max)
    <3>1. WithMore(advised, no) = DetailAnswer(u, no, yes, k)
      BY <2>4, DetailSet
    <3>2. PICK v \in DetailTables, l \in Nat :
             /\ left = DetailAnswer(v, no, yes, l) /\ IsCutTable(v, w) /\ v.indexes = <<>>
             /\ l <= max => DetailBytes(v, no) + 1 <= max
             /\ l <= max \/ PartsOf(v) = 0
      BY <1>1, <2>2, <2>4, <2>7, <3>1, DetailTrimmed
    <3> HIDE DEF left
    <3> DEFINE x == DetailBytes(v, no) + Width(l)
    <3>3. plain = DetailAnswer(v, no, yes, x) /\ x \in Nat
      BY <1>1, <1>4, <3>2
    <3> HIDE DEF x, plain
    <3>4. DetailBytes(v, no) + 1 <= max \/ PartsOf(v) = 0
      BY <3>2
    <3>5. IsDetailOf(plain, w, max)
      BY <1>1, <1>2, <3>2, <3>3, <3>4 DEF IsDetailOf
    <3>6. QED
      BY <2>5, <2>7, <3>5
  <2>8. QED
    BY <2>6, <2>7
<1>11. QED
  <2> HIDE DEF advised, plain, IsDetailOf
  <2>1. IsDetailOf(Finalize(out, max), w, max)
    BY <1>5, <1>8, <1>9, <1>10
  <2>2. QED
    BY <2>1 DEF out

\* The names of a table's key or of an index are of its columns, unless a
\* column's name does not come back as it was.
LEMMA NamesOfColumns ==
    ASSUME NEW d, IsDefinition(d), NEW names \in Seq(Range(d.columns))
    PROVE  /\ Names(names) \in Lines
           /\ (\A c \in Range(d.columns) : Clean(c)) => Range(Names(names)) \subseteq Range(d.columns)
<1> DEFINE C == Range(d.columns)
<1>1. C \subseteq SqlName
  <2>1. d.columns \in Seq(SqlName)
    BY DEF IsDefinition
  <2>2. DOMAIN d.columns = 1 .. Len(d.columns) /\ \A i \in 1 .. Len(d.columns) : d.columns[i] \in SqlName
    BY <2>1, LenProperties, ElementOfSeq
  <2>3. QED
    BY <2>2 DEF Range
<1>2. names \in Seq(SqlName) /\ \A n \in 1 .. Len(names) : names[n] \in C
  <2> HIDE DEF C
  <2>1. names \in Seq(C)
    BY DEF C
  <2>2. QED
    BY <1>1, <2>1, SeqMonotonic, ElementOfSeq
<1>3. Names(names) \in Lines
  BY <1>2, NamesComeBack
<1>4. ASSUME \A c \in C : Clean(c)
      PROVE  Range(Names(names)) \subseteq C
  <2> DEFINE M == {names[n] : n \in 1 .. Len(names)}
             s == Names(names)
  <2>1. M \subseteq C /\ \A n \in 1 .. Len(names) : Clean(names[n])
    BY <1>2, <1>4
  <2>2. s \in Seq(M)
    BY <1>2, <2>1, NamesComeBack
  <2> HIDE DEF M, s, C
  <2>3. DOMAIN s = 1 .. Len(s) /\ \A i \in 1 .. Len(s) : s[i] \in M
    BY <2>2, LenProperties, ElementOfSeq
  <2>4. Range(s) \subseteq C
    BY <2>1, <2>3 DEF Range
  <2>5. QED
    BY <2>4 DEF s
<1>5. QED
  BY <1>3, <1>4

\* What was read of a table that did not change
IsRead(w, was) ==
    /\ w.key = Names(was.key)
    /\ \A i \in DOMAIN w.indexes : i \in DOMAIN was.indexes /\ w.indexes[i] = Names(was.indexes[i])

TellsTable(d) ==
    /\ IsDefinition(d.was) /\ d.max \in SchemaBudgets
    /\ \E w \in DetailTables : /\ w.columns = d.was.columns
                               /\ d.steady => IsRead(w, d.was)
                               /\ IsDetailOf(d.out, w, d.max)

\* What is known of a call for a table
IsTableCall(d, c) ==
    /\ d = [pc |-> d.pc, table |-> d.table, was |-> d.was, steady |-> d.steady,
            columns |-> d.columns, key |-> d.key, max |-> d.max, out |-> d.out]
    /\ d.pc \in {"idle", "key", "indexes", "not_found", "done"}
    /\ d.pc \in {"key", "indexes"} => /\ IsDefinition(d.was) /\ d.columns = d.was.columns
                                      /\ d.steady => d.table \in DOMAIN c /\ c[d.table] = d.was
    /\ d.pc = "indexes" => d.key \in Lines /\ (d.steady => d.key = Names(d.was.key))
    /\ d.pc = "done" => TellsTable(d)

\* A call that ended, or that has not begun
LEMMA NoTableCall ==
    ASSUME NEW c
    PROVE  IsTableCall(NoDetail, c)
<1>1. /\ NoDetail.pc = "idle"
      /\ NoDetail = [pc |-> NoDetail.pc, table |-> NoDetail.table, was |-> NoDetail.was,
                     steady |-> NoDetail.steady, columns |-> NoDetail.columns,
                     key |-> NoDetail.key, max |-> NoDetail.max, out |-> NoDetail.out]
  BY DEF NoDetail
<1> HIDE DEF NoDetail
<1>2. QED
  BY <1>1 DEF IsTableCall

\* The tables change: what is known of the table no longer holds.
LEMMA ChangeKeepsCall ==
    ASSUME IsTableCall(detail, catalog), Changed
    PROVE  IsTableCall(detail', catalog')
<1> DEFINE d == catalog'
           no == FALSE
           m == [pc |-> detail.pc, table |-> detail.table, was |-> detail.was, steady |-> no,
                 columns |-> detail.columns, key |-> detail.key, max |-> detail.max,
                 out |-> detail.out]
<1>1. detail' = [detail EXCEPT !.steady = no]
  BY DEF Changed
<1>2. ~no
  OBVIOUS
<1> HIDE DEF no, d
<1>3. [detail EXCEPT !.steady = no] = m
  <2> DEFINE a == detail.pc
             b == detail.table
             c == detail.was
             e == detail.columns
             f == detail.key
             g == detail.max
             h == detail.out
             s == detail.steady
  <2>1. detail = [pc |-> a, table |-> b, was |-> c, steady |-> s, columns |-> e, key |-> f,
                  max |-> g, out |-> h]
    BY DEF IsTableCall
  <2> HIDE DEF a, b, c, e, f, g, h, s
  <2>2. [detail EXCEPT !.steady = no] =
           [pc |-> a, table |-> b, was |-> c, steady |-> no, columns |-> e, key |-> f,
            max |-> g, out |-> h]
    BY <2>1
  <2>3. QED
    BY <2>2 DEF a, b, c, e, f, g, h
<1>4. /\ m.pc = detail.pc /\ m.table = detail.table /\ m.was = detail.was /\ m.steady = no
      /\ m.columns = detail.columns /\ m.key = detail.key /\ m.max = detail.max
      /\ m.out = detail.out
      /\ m = [pc |-> m.pc, table |-> m.table, was |-> m.was, steady |-> m.steady,
              columns |-> m.columns, key |-> m.key, max |-> m.max, out |-> m.out]
  OBVIOUS
<1>5. detail' = m
  BY ONLY <1>1, <1>3
<1> HIDE DEF m
<1>6. m.pc = "done" => TellsTable(m)
  BY <1>2, <1>4 DEF IsTableCall, TellsTable
<1>7. IsTableCall(m, d)
  BY <1>2, <1>4, <1>6 DEF IsTableCall
<1>8. QED
  BY <1>5, <1>7 DEF d

\* The columns and the kind are read.
LEMMA ColumnsBeginCall ==
    ASSUME IsCatalog(catalog), LoadColumns
    PROVE  IsTableCall(detail', catalog')
<1>1. PICK t \in {u \in DOMAIN catalog : Namable(u)} :
         detail' = [NoDetail EXCEPT !.pc = "key", !.table = t, !.was = catalog[t],
                                    !.columns = catalog[t].columns]
  BY ONLY LoadColumns, Zenon DEF LoadColumns
<1> DEFINE d == catalog[t]
           e == d.columns
           key == "key"
           m == [pc |-> key, table |-> t, was |-> d, steady |-> TRUE, columns |-> e,
                 key |-> <<>>, max |-> 0, out |-> NoAnswer]
<1>2. catalog' = catalog /\ IsDefinition(d)
  BY DEF LoadColumns, IsCatalog
<1>3. e = d.columns /\ key = "key"
  OBVIOUS
<1>4. detail' = m
  <2> DEFINE none == <<>>
             yes == TRUE
             idle == "idle"
             zero == 0
             empty == NoAnswer
             d1 == [NoDetail EXCEPT !.pc = key]
             d2 == [d1 EXCEPT !.table = t]
             d3 == [d2 EXCEPT !.was = d]
             d4 == [d3 EXCEPT !.columns = e]
  <2>1. NoDetail = [pc |-> idle, table |-> none, was |-> none, steady |-> yes, columns |-> none,
                    key |-> none, max |-> zero, out |-> empty]
    BY DEF NoDetail
  <2>2. detail' = [NoDetail EXCEPT !.pc = key, !.table = t, !.was = d, !.columns = e]
    BY <1>1
  <2>3. m = [pc |-> key, table |-> t, was |-> d, steady |-> yes, columns |-> e,
             key |-> none, max |-> zero, out |-> empty]
    OBVIOUS
  <2> HIDE DEF none, yes, idle, zero, empty, key, d, e, m
  <2>4. [NoDetail EXCEPT !.pc = key, !.table = t, !.was = d, !.columns = e] = d4
    OBVIOUS
  <2>5. d1 = [pc |-> key, table |-> none, was |-> none, steady |-> yes, columns |-> none,
              key |-> none, max |-> zero, out |-> empty]
    BY <2>1
  <2> HIDE DEF d1
  <2>6. d2 = [pc |-> key, table |-> t, was |-> none, steady |-> yes, columns |-> none,
              key |-> none, max |-> zero, out |-> empty]
    BY <2>5
  <2> HIDE DEF d2
  <2>7. d3 = [pc |-> key, table |-> t, was |-> d, steady |-> yes, columns |-> none,
              key |-> none, max |-> zero, out |-> empty]
    BY <2>6
  <2> HIDE DEF d3
  <2>8. d4 = [pc |-> key, table |-> t, was |-> d, steady |-> yes, columns |-> e,
              key |-> none, max |-> zero, out |-> empty]
    BY <2>7
  <2> HIDE DEF d4
  <2>9. QED
    BY <2>2, <2>3, <2>4, <2>8 DEF d1, d2, d3, d4
<1> HIDE DEF e
<1>5. /\ m.pc = key /\ m.table = t /\ m.was = d /\ m.columns = e
      /\ m = [pc |-> m.pc, table |-> m.table, was |-> m.was, steady |-> m.steady,
              columns |-> m.columns, key |-> m.key, max |-> m.max, out |-> m.out]
  OBVIOUS
<1> HIDE DEF m
<1>6. IsTableCall(m, catalog)
  BY <1>2, <1>3, <1>5 DEF IsTableCall
<1>7. QED
  BY <1>2, <1>4, <1>6

\* The key is read, of the table as it is by now.
LEMMA KeyKeepsCall ==
    ASSUME IsCatalog(catalog), IsTableCall(detail, catalog), LoadKey
    PROVE  IsTableCall(detail', catalog')
<1> DEFINE t == detail.table
           names == IF Exists THEN Names(catalog[t].key) ELSE <<>>
           pc == IF detail.columns = <<>> THEN "not_found" ELSE "indexes"
           m == [pc |-> pc, table |-> t, was |-> detail.was, steady |-> detail.steady,
                 columns |-> detail.columns, key |-> names, max |-> detail.max,
                 out |-> detail.out]
<1>1. catalog' = catalog /\ detail.pc = "key"
  BY DEF LoadKey
<1>2. detail' = [detail EXCEPT !.pc = pc, !.key = names]
  BY DEF LoadKey
<1>3. names \in Lines /\ (detail.steady => names = Names(detail.was.key))
  <2>1. <<>> \in Lines
    BY DEF Lines
  <2>2. ASSUME Exists
        PROVE  Names(catalog[t].key) \in Lines
    <3>1. IsDefinition(catalog[t])
      BY <2>2 DEF Exists, IsCatalog
    <3>2. catalog[t].key \in Seq(Range(catalog[t].columns))
      BY <3>1 DEF IsDefinition
    <3>3. QED
      BY <3>1, <3>2, NamesOfColumns
  <2>3. detail.steady => Exists /\ catalog[t] = detail.was
    BY <1>1 DEF IsTableCall, Exists
  <2> HIDE DEF t
  <2>4. QED
    BY <2>1, <2>2, <2>3
<1>4. pc \in {"not_found", "indexes"}
  OBVIOUS
<1> HIDE DEF names, pc
<1>5. [detail EXCEPT !.pc = pc, !.key = names] = m
  <2> DEFINE a == detail.pc
             c == detail.was
             e == detail.columns
             f == detail.key
             g == detail.max
             h == detail.out
             s == detail.steady
             d1 == [detail EXCEPT !.pc = pc]
             d2 == [d1 EXCEPT !.key = names]
  <2>1. detail = [pc |-> a, table |-> t, was |-> c, steady |-> s, columns |-> e, key |-> f,
                  max |-> g, out |-> h]
    BY DEF IsTableCall
  <2>2. [detail EXCEPT !.pc = pc, !.key = names] = d2
    OBVIOUS
  <2> HIDE DEF a, c, e, f, g, h, s, t
  <2>3. d1 = [pc |-> pc, table |-> t, was |-> c, steady |-> s, columns |-> e, key |-> f,
              max |-> g, out |-> h]
    BY <2>1
  <2> HIDE DEF d1
  <2>4. d2 = [pc |-> pc, table |-> t, was |-> c, steady |-> s, columns |-> e, key |-> names,
              max |-> g, out |-> h]
    BY <2>3
  <2>5. QED
    BY <2>2, <2>4 DEF c, e, g, h, s, d1
<1>6. detail' = m
  BY ONLY <1>2, <1>5
<1>7. /\ m.pc = pc /\ m.table = detail.table /\ m.was = detail.was /\ m.steady = detail.steady
      /\ m.columns = detail.columns /\ m.key = names
      /\ m = [pc |-> m.pc, table |-> m.table, was |-> m.was, steady |-> m.steady,
              columns |-> m.columns, key |-> m.key, max |-> m.max, out |-> m.out]
  OBVIOUS
<1> HIDE DEF m, t
<1>8. IsTableCall(m, catalog)
  BY <1>1, <1>3, <1>4, <1>7 DEF IsTableCall
<1>9. QED
  BY <1>1, <1>6, <1>8

\* The indexes are read, of the table as it is by now, and the answer is made.
LEMMA IndexesKeepCall ==
    ASSUME IsCatalog(catalog), IsTableCall(detail, catalog), LoadIndexes
    PROVE  IsTableCall(detail', catalog')
<1> DEFINE t == detail.table
           found(wanted) == IF wanted /\ Exists THEN catalog[t].indexes ELSE <<>>
           whole(wanted) == [columns |-> detail.columns, key |-> detail.key,
                             indexes |-> [i \in DOMAIN found(wanted) |-> Names(found(wanted)[i])]]
           told(wanted, max) == Finalize([NoAnswer EXCEPT !.table = <<whole(wanted)>>], max)
<1>1. catalog' = catalog /\ detail.pc = "indexes"
  BY DEF LoadIndexes
<1>2. PICK wanted \in BOOLEAN, max \in SchemaBudgets :
         detail' = [detail EXCEPT !.pc = "done", !.max = max, !.out = told(wanted, max)]
  BY ONLY LoadIndexes, Zenon DEF LoadIndexes
<1> DEFINE f == found(wanted)
           w == whole(wanted)
           out == told(wanted, max)
           done == "done"
           m == [pc |-> done, table |-> t, was |-> detail.was, steady |-> detail.steady,
                 columns |-> detail.columns, key |-> detail.key, max |-> max, out |-> out]
<1>3. /\ IsDefinition(detail.was) /\ detail.columns = detail.was.columns /\ detail.key \in Lines
      /\ detail.steady => /\ t \in DOMAIN catalog /\ catalog[t] = detail.was
                          /\ detail.key = Names(detail.was.key)
  BY <1>1 DEF IsTableCall
<1>4. /\ DOMAIN f = 1 .. Len(f) /\ Len(f) \in Nat
      /\ \A i \in DOMAIN f : Names(f[i]) \in Lines
      /\ f # <<>> => t \in DOMAIN catalog /\ f = catalog[t].indexes
  <2>1. CASE wanted /\ Exists
    <3> DEFINE d == catalog[t]
    <3>1. f = d.indexes /\ t \in DOMAIN catalog /\ IsDefinition(d)
      BY <2>1 DEF Exists, IsCatalog
    <3> HIDE DEF d, f, t
    <3>2. f \in Seq(Seq(Range(d.columns)))
      BY <3>1 DEF IsDefinition
    <3>3. DOMAIN f = 1 .. Len(f) /\ Len(f) \in Nat
          /\ \A i \in 1 .. Len(f) : f[i] \in Seq(Range(d.columns))
      BY <3>2, LenProperties, ElementOfSeq
    <3>4. \A i \in DOMAIN f : Names(f[i]) \in Lines
      BY <3>1, <3>3, NamesOfColumns
    <3>5. QED
      BY <3>1, <3>3, <3>4 DEF d
  <2>2. CASE ~(wanted /\ Exists)
    <3>1. f = <<>>
      BY <2>2
    <3>2. Len(<<>>) = 0 /\ DOMAIN <<>> = {} /\ 1 .. 0 = {}
      OBVIOUS
    <3> HIDE DEF f
    <3>3. QED
      BY <3>1, <3>2
  <2>3. QED
    BY <2>1, <2>2
<1>5. w \in DetailTables /\ w.columns = detail.was.columns /\ (detail.steady => IsRead(w, detail.was))
  <2> DEFINE indexes == [i \in DOMAIN f |-> Names(f[i])]
  <2>1. w = [columns |-> detail.columns, key |-> detail.key, indexes |-> indexes]
    OBVIOUS
  <2>2. detail.columns \in Lines
    <3>1. detail.columns \in Seq(SqlName)
      BY <1>3 DEF IsDefinition
    <3>2. SqlName \subseteq Seq(Nat)
      BY DEF SqlName
    <3>3. QED
      BY <3>1, <3>2, SeqMonotonic DEF Lines
  <2> HIDE DEF f
  <2>3. indexes \in Seq(Lines) /\ DOMAIN indexes = DOMAIN f /\ \A i \in DOMAIN f : indexes[i] = Names(f[i])
    <3>1. indexes \in [1 .. Len(f) -> Lines]
      BY <1>4
    <3> HIDE DEF indexes
    <3>2. indexes \in Seq(Lines)
      BY <1>4, <3>1
    <3>3. QED
      BY <3>2 DEF indexes
  <2>4. detail.steady => \A i \in DOMAIN f : i \in DOMAIN detail.was.indexes /\ f[i] = detail.was.indexes[i]
    <3>1. f = <<>> => DOMAIN f = {}
      OBVIOUS
    <3> HIDE DEF t
    <3>2. QED
      BY <1>3, <1>4, <3>1
  <2> HIDE DEF indexes, w
  <2>5. /\ w.columns = detail.columns /\ w.key = detail.key /\ w.indexes = indexes
        /\ w \in DetailTables
    BY <1>3, <2>1, <2>2, <2>3 DEF DetailTables
  <2>6. QED
    BY <1>3, <2>3, <2>4, <2>5 DEF IsRead
<1>6. out = Finalize([NoAnswer EXCEPT !.table = <<w>>], max)
  OBVIOUS
<1> HIDE DEF w
<1>7. IsDetailOf(out, w, max)
  <2> DEFINE no == FALSE
             zero == 0
             none == <<>>
             this == <<w>>
             empty == NoAnswer
             o == [NoAnswer EXCEPT !.table = this]
  <2>1. empty = [tables |-> none, table |-> none, page |-> none, truncated |-> no, more |-> no,
                 returned |-> zero]
    BY DEF NoAnswer
  <2>2. DetailAnswer(w, no, no, zero) =
           [tables |-> none, table |-> this, page |-> none, truncated |-> no, more |-> no,
            returned |-> zero]
    BY DEF DetailAnswer
  <2> HIDE DEF no, zero, none, this, empty
  <2>3. [empty EXCEPT !.table = this] = DetailAnswer(w, no, no, zero)
    BY <2>1, <2>2
  <2>4. o = DetailAnswer(w, no, no, zero)
    BY <2>3 DEF empty
  <2>5. out = Finalize(o, max)
    BY <1>6 DEF this
  <2> HIDE DEF o, out
  <2>6. no = FALSE /\ zero = 0
    BY DEF no, zero
  <2>7. IsDetailOf(Finalize(DetailAnswer(w, no, no, 0), max), w, max)
    BY <1>5, <2>6, DetailFinalized
  <2>8. QED
    BY <2>4, <2>5, <2>6, <2>7
<1> HIDE DEF out
<1>8. done = "done" /\ detail' = [detail EXCEPT !.pc = done, !.max = max, !.out = out]
  BY <1>2 DEF out
<1> HIDE DEF done
<1>9. [detail EXCEPT !.pc = done, !.max = max, !.out = out] = m
  <2> DEFINE a == detail.pc
             c == detail.was
             e == detail.columns
             k == detail.key
             g == detail.max
             h == detail.out
             s == detail.steady
             d1 == [detail EXCEPT !.pc = done]
             d2 == [d1 EXCEPT !.max = max]
             d3 == [d2 EXCEPT !.out = out]
  <2>1. detail = [pc |-> a, table |-> t, was |-> c, steady |-> s, columns |-> e, key |-> k,
                  max |-> g, out |-> h]
    BY DEF IsTableCall
  <2>2. [detail EXCEPT !.pc = done, !.max = max, !.out = out] = d3
    OBVIOUS
  <2> HIDE DEF a, c, e, k, g, h, s, t
  <2>3. d1 = [pc |-> done, table |-> t, was |-> c, steady |-> s, columns |-> e, key |-> k,
              max |-> g, out |-> h]
    BY <2>1
  <2> HIDE DEF d1
  <2>4. d2 = [pc |-> done, table |-> t, was |-> c, steady |-> s, columns |-> e, key |-> k,
              max |-> max, out |-> h]
    BY <2>3
  <2> HIDE DEF d2
  <2>5. d3 = [pc |-> done, table |-> t, was |-> c, steady |-> s, columns |-> e, key |-> k,
              max |-> max, out |-> out]
    BY <2>4
  <2>6. QED
    BY <2>2, <2>5 DEF c, e, k, s, d1, d2
<1>10. detail' = m
  BY ONLY <1>8, <1>9
<1>11. /\ m.pc = done /\ m.was = detail.was /\ m.steady = detail.steady /\ m.max = max
       /\ m.out = out
       /\ m = [pc |-> m.pc, table |-> m.table, was |-> m.was, steady |-> m.steady,
               columns |-> m.columns, key |-> m.key, max |-> m.max, out |-> m.out]
  OBVIOUS
<1> HIDE DEF m, t
<1>12. TellsTable(m)
  BY <1>3, <1>5, <1>7, <1>11 DEF TellsTable
<1>13. IsTableCall(m, catalog)
  BY <1>8, <1>11, <1>12 DEF IsTableCall
<1>14. QED
  BY <1>1, <1>10, <1>13

\* The call for a table always is what can be known of it.
DetailInv == IsTableCall(detail, catalog)

\* The inductive invariant of the call for a table
THEOREM DetailInvariant == ToolsSpec => []DetailInv
<1>1. ASSUME ToolsInit
      PROVE  DetailInv
  BY <1>1, NoTableCall DEF ToolsInit, DetailInv
<1>2. ASSUME ListInv, DetailInv, [ToolsNext]_toolsVars
      PROVE  DetailInv'
  <2>1. IsCatalog(catalog) /\ IsTableCall(detail, catalog)
    BY <1>2 DEF ListInv, DetailInv
  <2>2. CASE Changed
    BY <2>1, <2>2, ChangeKeepsCall DEF DetailInv
  <2>3. CASE LoadColumns
    BY <2>1, <2>3, ColumnsBeginCall DEF DetailInv
  <2>4. CASE LoadKey
    BY <2>1, <2>4, KeyKeepsCall DEF DetailInv
  <2>5. CASE LoadIndexes
    BY <2>1, <2>5, IndexesKeepCall DEF DetailInv
  <2>6. ASSUME detail' = detail \/ detail' = NoDetail, catalog' = catalog
        PROVE  DetailInv'
    BY <2>1, <2>6, NoTableCall DEF DetailInv
  <2>7. CASE BeginList
    BY <2>6, <2>7 DEF BeginList
  <2>8. CASE ReadPage
    BY <2>6, <2>8 DEF ReadPage
  <2>9. CASE GiveUp
    BY <2>6, <2>9 DEF GiveUp
  <2>10. CASE AskQuery
    BY <2>6, <2>10 DEF AskQuery
  <2>11. CASE AnswerQuery
    BY <2>6, <2>11 DEF AnswerQuery
  <2>12. CASE Return
    BY <2>6, <2>12 DEF Return
  <2>13. CASE UNCHANGED toolsVars
    BY <2>6, <2>13 DEF toolsVars
  <2>14. DefineTable \/ DropTable => Changed
    BY DEF DefineTable, DropTable
  <2>15. CASE RefuseCursor
    BY <2>6, <2>15 DEF RefuseCursor
  <2>16. QED
    BY <1>2, <2>2, <2>3, <2>4, <2>5, <2>7, <2>8, <2>9, <2>10, <2>11, <2>12, <2>13, <2>14, <2>15
       DEF ToolsNext
<1>3. QED
  BY <1>1, <1>2, ListInvariant, PTL DEF ToolsSpec

\* The detail of a table is within its budget or holds nothing but names; what
\* is not said to be cut is whole and what is cut goes from its end; and what
\* it names are columns it tells of.
THEOREM DetailIsTrue == ToolsSpec => []DetailIsOfTable
<1> DEFINE reply == detail.out
           u == reply.table[1]
           was == detail.was
           names == {u.key} \cup {u.indexes[i] : i \in DOMAIN u.indexes}
           named == UNION {{n[i] : i \in DOMAIN n} : n \in names}
           told == {u.columns[i] : i \in DOMAIN u.columns}
<1>1. ASSUME DetailInv, detail.pc = "done"
      PROVE  /\ EncodedLen(reply) < detail.max + NumberBytes \/ Bare(reply)
             /\ IsPrefix(u.columns, was.columns)
             /\ (u.key # <<>> \/ ~reply.truncated) => u.columns = was.columns
             /\ u.indexes # <<>> => ~reply.truncated
             /\ (detail.steady /\ \A n \in {was.columns[i] : i \in DOMAIN was.columns} : Clean(n))
                   => named \subseteq told
  <2>1. TellsTable(detail)
    BY <1>1 DEF DetailInv, IsTableCall
  <2>2. PICK w \in DetailTables : /\ w.columns = was.columns
                                  /\ detail.steady => IsRead(w, was)
                                  /\ IsDetailOf(reply, w, detail.max)
    BY <2>1 DEF TellsTable
  <2>3. PICK v \in DetailTables, more \in BOOLEAN, truncated \in BOOLEAN, n \in Nat :
           /\ reply = DetailAnswer(v, more, truncated, n)
           /\ IsCutTable(v, w)
           /\ IF truncated THEN v.indexes = <<>> ELSE v = w
           /\ DetailBytes(v, more) + 1 <= detail.max \/ PartsOf(v) = 0
    BY <2>2 DEF IsDetailOf
  <2>4. /\ u = v /\ reply.tables = <<>> /\ reply.table # <<>>
    BY <2>3, DetailFields
  <2>5. reply.truncated = truncated
    <3> HIDE DEF reply
    <3>1. QED
      BY <2>3 DEF DetailAnswer
  <2> HIDE DEF reply
  <2>6. EncodedLen(reply) < detail.max + NumberBytes \/ Bare(reply)
    <3>1. CASE PartsOf(v) = 0
      BY <2>4, <3>1, WholeTable DEF Bare
    <3>2. CASE DetailBytes(v, more) + 1 <= detail.max
      <4> DEFINE b == DetailBytes(v, more)
                 x == Width(n)
                 e == EncodedLen(reply)
                 max == detail.max
      <4>1. b \in Nat /\ x \in Nat /\ x <= NumberBytes /\ e = b + x
        BY <2>3, DetailSize
      <4>2. max \in Nat /\ NumberBytes \in Nat
        BY <2>1, BudgetIsNumber, SqlSchemaAssumption DEF TellsTable
      <4>3. b + 1 <= max
        BY <3>2
      <4> HIDE DEF b, x, e, max
      <4>4. e < max + NumberBytes
        BY ONLY <4>1, <4>2, <4>3
      <4>5. QED
        BY <4>4 DEF e, max
    <3>3. QED
      BY <2>3, <3>1, <3>2
  <2>7. IsPrefix(v.columns, was.columns)
    <3> DEFINE s == w.columns
               p == v.columns
    <3>1. PICK k \in 0 .. Len(s) : p = SubSeq(s, 1, k)
      BY <2>3 DEF IsCutTable
    <3>2. s \in Seq(Seq(Nat)) /\ Len(s) \in Nat
      <4>1. s \in Seq(Seq(Nat))
        BY DEF DetailTables, Lines
      <4>2. QED
        BY <4>1, LenProperties
    <3> HIDE DEF s, p
    <3>3. p \in Seq(Seq(Nat)) /\ Len(p) = k
      BY <3>1, <3>2, PageTables
    <3> DEFINE q == SubSeq(p, 1, k)
    <3>4. k \in 0 .. Len(p)
      BY <3>2, <3>3
    <3>5. q \in Seq(Seq(Nat)) /\ Len(q) = k /\ \A i \in 1 .. k : q[i] = p[i]
      BY <3>3, <3>4, PageTables
    <3> HIDE DEF q
    <3>6. q = p
      BY <3>3, <3>5, SeqEqual
    <3>7. Len(p) <= Len(s) /\ SubSeq(p, 1, Len(p)) = SubSeq(s, 1, Len(p))
      BY <3>1, <3>2, <3>3, <3>6 DEF q
    <3>8. QED
      BY <2>2, <3>7 DEF IsPrefix, p, s
  <2>8. v.key # <<>> \/ ~truncated => v.columns = was.columns
    BY <2>2, <2>3 DEF IsCutTable
  <2>9. v.indexes # <<>> => ~truncated
    BY <2>3
  <2>10. ASSUME detail.steady, \A c \in {was.columns[i] : i \in DOMAIN was.columns} : Clean(c),
                NEW ns \in {v.key} \cup {v.indexes[i] : i \in DOMAIN v.indexes}
         PROVE  Range(ns) \subseteq Range(v.columns)
    <3>1. /\ IsDefinition(was) /\ IsRead(w, was) /\ w.columns = was.columns
          /\ \A c \in Range(was.columns) : Clean(c)
      BY <2>1, <2>2, <2>10 DEF TellsTable, Range
    <3> HIDE DEF was
    <3>2. \A those \in Seq(Range(was.columns)) :
             Range(Names(those)) \subseteq Range(was.columns)
      BY <3>1, NamesOfColumns
    <3>3. CASE ns = v.key
      <4>1. CASE v.key = <<>>
        BY <3>3, <4>1 DEF Range
      <4>2. CASE v.key # <<>>
        <5>1. v.key = w.key /\ v.columns = w.columns
          BY <2>3, <4>2 DEF IsCutTable
        <5>2. was.key \in Seq(Range(was.columns)) /\ w.key = Names(was.key)
          BY <3>1 DEF IsDefinition, IsRead
        <5>3. QED
          BY <3>1, <3>2, <3>3, <5>1, <5>2
      <4>3. QED
        BY <4>1, <4>2
    <3>4. CASE ns \in {v.indexes[i] : i \in DOMAIN v.indexes}
      <4>1. PICK i \in DOMAIN v.indexes : ns = v.indexes[i]
        BY <3>4
      <4>2. v.indexes # <<>>
        <5>1. DOMAIN <<>> = {}
          OBVIOUS
        <5>2. QED
          BY <4>1, <5>1
      <4>3. v = w
        BY <2>3, <4>2 DEF IsCutTable
      <4>4. i \in DOMAIN was.indexes /\ ns = Names(was.indexes[i])
        BY <3>1, <4>1, <4>3 DEF IsRead
      <4>5. was.indexes[i] \in Seq(Range(was.columns))
        <5> DEFINE lists == Seq(Range(was.columns))
        <5>1. was.indexes \in Seq(lists)
          BY <3>1 DEF IsDefinition
        <5> HIDE DEF lists
        <5>2. i \in 1 .. Len(was.indexes)
          BY <4>4, <5>1, LenProperties
        <5>3. was.indexes[i] \in lists
          BY <5>1, <5>2, ElementOfSeq
        <5>4. QED
          BY <5>3 DEF lists
      <4>6. QED
        BY <3>1, <3>2, <4>3, <4>4, <4>5
    <3>5. QED
      BY <2>10, <3>3, <3>4
  <2>11. ASSUME detail.steady, \A c \in {was.columns[i] : i \in DOMAIN was.columns} : Clean(c)
         PROVE  named \subseteq told
    <3>1. \A ns \in names : Range(ns) \subseteq Range(u.columns)
      <4> HIDE DEF was
      <4>1. QED
        BY <2>4, <2>10, <2>11
    <3> HIDE DEF names, u
    <3>2. named = UNION {Range(ns) : ns \in names} /\ told = Range(u.columns)
      BY DEF Range
    <3>3. QED
      BY <3>1, <3>2
  <2> HIDE DEF named, told, u, was
  <2>12. QED
    BY <2>4, <2>5, <2>6, <2>7, <2>8, <2>9, <2>11
<1>2. DetailInv => DetailIsOfTable
  BY <1>1 DEF DetailIsOfTable
<1>3. QED
  BY <1>2, DetailInvariant, PTL
=============================================================================
