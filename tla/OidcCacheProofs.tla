--------------------------- MODULE OidcCacheProofs ---------------------------
(***************************************************************************)
(* Proofs about OidcCache, for any number of requests, keys and ticks.     *)
(*                                                                         *)
(* The gate makes the stretches between taking it and storing an answer    *)
(* exclusive (GateOK), so the attempt a request compares names one content *)
(* of the cache (AttemptNamesCache), and what the provider published when  *)
(* it was asked lies between what is cached and what is published now      *)
(* (KeysOK).                                                               *)
(***************************************************************************)
EXTENDS OidcCache, TLAPS

\* Keys k were published before keys l, or are the same.
NotAfter(k, l) == k.lo <= l.lo /\ k.hi <= l.hi

Gated == {"discover", "discovered", "fetch", "fetched"}

GateOK == \A b \in Browsers : pc[b] \in Gated <=> gate = b

\* What a request has by the time it is somewhere.
ShapeOf(b) ==
    /\ pc[b] \in {"gate", "discover", "discovered"} => observed[b] # Null
    /\ pc[b] \in {"exchange", "refresh", "fetch", "fetched", "userinfo"} => snap[b] # Null
    /\ pc[b] \in {"refresh", "fetch", "fetched"} => token[b] # Null
    /\ refreshed[b] # "no" => pc[b] \in {"userinfo", "done"} /\ snap[b] # Null
    /\ pc[b] # "done" => reply[b] = "none"
    /\ reply[b] = "bad_signature" => snap[b] # Null /\ token[b] # Null

\* How the attempts a request has seen compare with the present one.
AttemptOf(b) ==
    /\ observed[b] # Null => observed[b].attempt <= attempt
    /\ snap[b] # Null => snap[b].attempt <= attempt
    /\ refreshed[b] # "no" \/ reply[b] = "bad_signature" => snap[b].attempt < attempt
    /\ pc[b] \in {"fetch", "fetched"} => snap[b].attempt = attempt

\* How the keys a request has seen compare with those cached and published.
KeysOf(b) ==
    /\ (pc[b] \in {"discovered", "fetched"} /\ answer[b] # Null) =>
         /\ NotAfter(answer[b], published)
         /\ cached # Null => NotAfter(cached.keys, answer[b])
    /\ token[b] # Null => token[b] <= published.hi
    /\ (pc[b] = "fetched" /\ answer[b] # Null) => token[b] <= answer[b].hi
    /\ (reply[b] = "bad_signature" /\ refreshed[b] = "ok") => token[b] < published.lo

CachedOK == cached # Null => NotAfter(cached.keys, published)

SeenOf(b) ==
    /\ (observed[b] # Null /\ observed[b].attempt = attempt) => observed[b].cached = cached
    /\ (snap[b] # Null /\ snap[b].attempt = attempt) => snap[b].cached = cached

Mine(b) == ShapeOf(b) /\ AttemptOf(b) /\ KeysOf(b) /\ SeenOf(b)

IInv ==
    /\ TypeOK /\ GateOK /\ CachedOK
    /\ \A b \in Browsers : Mine(b)
    /\ OneRefreshPerAttempt

-----------------------------------------------------------------------------

LEMMA InitIInv == Init => IInv
<1> SUFFICES ASSUME Init PROVE IInv
  OBVIOUS
<1> USE DEF Init
<1>1. TypeOK
  BY OidcAssumption DEF TypeOK, Keys, PCs
<1>2. GateOK
  BY OidcAssumption DEF GateOK, Gated
<1>3. CachedOK /\ OneRefreshPerAttempt
  BY DEF CachedOK, OneRefreshPerAttempt
<1>4. ASSUME NEW b \in Browsers PROVE Mine(b)
  BY DEF Mine, ShapeOf, AttemptOf, KeysOf, SeenOf
<1> QED BY <1>1, <1>2, <1>3, <1>4 DEF IInv

\* What the request b does leaves the others as they are.
Unmoved(c) ==
    /\ pc'[c] = pc[c] /\ observed'[c] = observed[c] /\ snap'[c] = snap[c]
    /\ answer'[c] = answer[c] /\ token'[c] = token[c]
    /\ refreshed'[c] = refreshed[c] /\ reply'[c] = reply[c]

\* It changes the cache and the number of the last attempt only under the
\* gate, where no other is, and what others have seen is older then.
LEMMA OthersKeep ==
  ASSUME IInv, NEW b \in Browsers, NEW c \in Browsers, c # b, Unmoved(c),
         UNCHANGED published,
         UNCHANGED <<cached, attempt>> \/ (attempt' = attempt + 1 /\ gate = b)
  PROVE  Mine(c)'
<1> USE DEF IInv, Mine, Unmoved
<1>1. CASE UNCHANGED <<cached, attempt>>
  BY <1>1 DEF ShapeOf, AttemptOf, KeysOf, SeenOf, NotAfter
<1>2. CASE attempt' = attempt + 1 /\ gate = b
  <2>1. pc[c] \notin Gated
    BY <1>2 DEF GateOK
  <2>2. attempt \in Nat /\ observed[c] \in {Null} \cup Observed
        /\ snap[c] \in {Null} \cup [cached : CachedMetadata, attempt : Nat]
    BY DEF TypeOK
  <2>3. /\ observed'[c] # Null => observed'[c].attempt < attempt'
        /\ snap'[c] # Null => snap'[c].attempt < attempt'
    BY <1>2, <2>2 DEF AttemptOf, Observed
  <2>4. ShapeOf(c)' /\ SeenOf(c)'
    BY <2>2, <2>3, <1>2 DEF ShapeOf, SeenOf, Observed
  <2>5. AttemptOf(c)'
    BY <1>2, <2>1, <2>2, <2>3 DEF AttemptOf, ShapeOf, Gated, Observed
  <2>6. KeysOf(c)'
    BY <2>1 DEF KeysOf, Gated
  <2> QED BY <2>4, <2>5, <2>6
<1> QED BY <1>1, <1>2

-----------------------------------------------------------------------------
(* The provider *)

LEMMA ProviderStep ==
  ASSUME IInv, Rotate \/ Withdraw \/ Tick
  PROVE  IInv'
<1> USE DEF IInv
<1>1. published \in Keys /\ published' \in Keys /\ NotAfter(published, published')
      /\ now' \in 0 .. MaxNow
  BY OidcAssumption DEF TypeOK, Keys, NotAfter, Rotate, Withdraw, Tick
<1>2. UNCHANGED <<cached, attempt, gate, pc, kind, observed, snap, answer, token,
                  refreshed, reply>>
  BY DEF Rotate, Withdraw, Tick
<1>3. TypeOK'
  BY <1>1, <1>2 DEF TypeOK
<1>4. GateOK' /\ OneRefreshPerAttempt'
  BY <1>2 DEF GateOK, OneRefreshPerAttempt
<1>5. CachedOK'
  BY <1>1, <1>2, OidcAssumption DEF CachedOK, NotAfter, TypeOK, Keys, CachedMetadata
<1>6. ASSUME NEW b \in Browsers PROVE Mine(b)'
  <2>1. ShapeOf(b)' /\ AttemptOf(b)' /\ SeenOf(b)'
    BY <1>2 DEF Mine, ShapeOf, AttemptOf, SeenOf
  <2>2. answer[b] \in {Null} \cup Keys /\ token[b] \in {Null} \cup 0 .. MaxKey
    BY DEF TypeOK
  <2>3. KeysOf(b)'
    BY <1>1, <1>2, <2>2, OidcAssumption DEF Mine, ShapeOf, KeysOf, NotAfter, Keys
  <2> QED BY <2>1, <2>3 DEF Mine
<1> QED BY <1>3, <1>4, <1>5, <1>6

-----------------------------------------------------------------------------
(* metadata() *)

\* What is left of IInv' when a request b has taken a step that is typed and
\* keeps the gate, the cache and b itself in order.
LEMMA OneMoves ==
  ASSUME IInv, NEW b \in Browsers,
         \A c \in Browsers \ {b} : Unmoved(c),
         UNCHANGED published,
         UNCHANGED <<cached, attempt>> \/ (attempt' = attempt + 1 /\ gate = b),
         \/ refreshed'[b] = "no" \/ (refreshed'[b] = refreshed[b] /\ snap'[b] = snap[b])
         \/ snap'[b] # Null /\ snap'[b].attempt >= attempt,
         TypeOK', GateOK', CachedOK', Mine(b)'
  PROVE  IInv'
<1>1. \A c \in Browsers \ {b} : Mine(c)'
  BY OthersKeep
<1>2. OneRefreshPerAttempt'
  <2>1. CASE refreshed'[b] = "no" \/ (refreshed'[b] = refreshed[b] /\ snap'[b] = snap[b])
    BY <2>1 DEF OneRefreshPerAttempt, Unmoved, IInv
  <2>2. CASE snap'[b] # Null /\ snap'[b].attempt >= attempt
    <3>1. \A c \in Browsers \ {b} : refreshed[c] # "no" =>
            snap[c].attempt < attempt /\ snap[c].attempt \in Nat
      BY DEF IInv, Mine, AttemptOf, ShapeOf, TypeOK
    <3>2. snap'[b].attempt \in Nat /\ attempt \in Nat
      BY <2>2 DEF TypeOK, IInv
    <3> QED BY <2>2, <3>1, <3>2 DEF OneRefreshPerAttempt, Unmoved, IInv
  <2> QED BY <2>1, <2>2
<1> QED BY <1>1, <1>2 DEF IInv

\* A step in which nothing but pc and reply of b changes, and the gate.
LEMMA ArriveIInv ==
  ASSUME IInv, NEW b \in Browsers, Arrive(b)  PROVE IInv'
<1> USE DEF IInv
<1>1. PICK k \in {"login", "callback"} : kind' = [kind EXCEPT ![b] = k]
  BY DEF Arrive
<1>2. /\ pc[b] = "idle" /\ pc' = [pc EXCEPT ![b] = "read"]
      /\ UNCHANGED <<published, now, cached, attempt, gate, observed, snap, answer, token,
                     refreshed, reply>>
  BY DEF Arrive, GoTo, provider
<1>3. TypeOK'
  BY <1>1, <1>2 DEF TypeOK, PCs
<1>4. \A c \in Browsers \ {b} : Unmoved(c)
  BY <1>2 DEF Unmoved, TypeOK
<1>5. GateOK' /\ CachedOK'
  BY <1>2 DEF GateOK, Gated, CachedOK, TypeOK
<1>6. Mine(b)'
  BY <1>2 DEF Mine, ShapeOf, AttemptOf, KeysOf, SeenOf, TypeOK
<1> QED
  BY <1>2, <1>3, <1>4, <1>5, <1>6, OneMoves

\* The snapshot b takes of a cache c under attempt a.
LEMMA SnapshotTaken ==
  ASSUME IInv, NEW b \in Browsers, pc[b] # "done",
         NEW c \in {Null} \cup CachedMetadata, NEW a \in Nat, TakeSnapshot(b, c, a)
  PROVE  /\ snap' \in [Browsers -> {Null} \cup [cached : CachedMetadata, attempt : Nat]]
         /\ pc' \in [Browsers -> PCs] /\ pc'[b] \in {"exchange", "done"}
         /\ reply' \in [Browsers -> {"none", "ok", "error", "bad_signature", "cancelled"}]
         /\ reply'[b] # "bad_signature"
         /\ pc'[b] = "exchange" => snap'[b] # Null /\ reply'[b] = "none"
         /\ snap'[b] = snap[b] \/ snap'[b] = [cached |-> c, attempt |-> a]
         /\ \A d \in Browsers \ {b} :
              snap'[d] = snap[d] /\ pc'[d] = pc[d] /\ reply'[d] = reply[d]
<1> USE DEF IInv, TypeOK
<1>1. CASE c = Null
  BY <1>1 DEF TakeSnapshot, Answer, PCs
<1>2. CASE c # Null
  <2>1. [cached |-> c, attempt |-> a] \in [cached : CachedMetadata, attempt : Nat]
    BY <1>2
  <2>2. [cached |-> c, attempt |-> a] # Null
    BY <2>1, NullAssumption DEF Observed
  <2>3. snap' = [snap EXCEPT ![b] = [cached |-> c, attempt |-> a]]
    BY <1>2 DEF TakeSnapshot
  <2>4. reply[b] = "none"
    BY DEF Mine, ShapeOf
  <2> QED BY <1>2, <2>1, <2>2, <2>3, <2>4 DEF TakeSnapshot, Answer, GoTo, PCs
<1> QED BY <1>1, <1>2

LEMMA ReadCacheIInv ==
  ASSUME IInv, NEW b \in Browsers, ReadCache(b)  PROVE IInv'
<1> USE DEF IInv
<1> DEFINE seen == [cached |-> cached, attempt |-> attempt]
<1>1. /\ pc[b] = "read" /\ observed' = [observed EXCEPT ![b] = seen]
      /\ UNCHANGED <<published, now, cached, attempt, gate, kind, answer, token, refreshed>>
  BY DEF ReadCache, provider
<1>2. /\ cached \in {Null} \cup CachedMetadata /\ attempt \in Nat
      /\ refreshed[b] = "no" /\ reply[b] = "none"
  BY <1>1 DEF TypeOK, Mine, ShapeOf
<1>3. seen \in Observed /\ seen # Null
  BY <1>2, NullAssumption DEF Observed
<1>4. /\ snap' \in [Browsers -> {Null} \cup [cached : CachedMetadata, attempt : Nat]]
      /\ pc' \in [Browsers -> PCs] /\ pc'[b] \in {"gate", "exchange", "done"}
      /\ reply' \in [Browsers -> {"none", "ok", "error", "bad_signature", "cancelled"}]
      /\ reply'[b] # "bad_signature"
      /\ pc'[b] # "done" => reply'[b] = "none"
      /\ pc'[b] = "exchange" => snap'[b] # Null
      /\ snap'[b] = snap[b] \/ snap'[b] = seen
      /\ \A d \in Browsers \ {b} :
           snap'[d] = snap[d] /\ pc'[d] = pc[d] /\ reply'[d] = reply[d]
  <2>1. CASE Fresh(cached)
    <3>1. TakeSnapshot(b, cached, attempt)
      BY <2>1 DEF ReadCache
    <3> QED BY <1>1, <1>2, <3>1, SnapshotTaken
  <2>2. CASE ~Fresh(cached)
    BY <1>1, <1>2, <2>2 DEF ReadCache, GoTo, TypeOK, PCs
  <2> QED BY <2>1, <2>2
<1>5. TypeOK'
  BY <1>1, <1>3, <1>4 DEF TypeOK
<1>6. \A c \in Browsers \ {b} : Unmoved(c)
  BY <1>1, <1>4 DEF Unmoved, TypeOK
<1>7. GateOK' /\ CachedOK'
  BY <1>1, <1>4 DEF GateOK, Gated, CachedOK, TypeOK
<1>8. observed'[b] = seen
  BY <1>1 DEF TypeOK
<1>9. Mine(b)'
  <2>1. ShapeOf(b)'
    BY <1>1, <1>2, <1>3, <1>4, <1>8 DEF ShapeOf
  <2>2. AttemptOf(b)'
    BY <1>1, <1>2, <1>4, <1>8 DEF AttemptOf, Mine
  <2>3. KeysOf(b)'
    BY <1>1, <1>2, <1>4 DEF KeysOf, Mine
  <2>4. SeenOf(b)'
    BY <1>1, <1>4, <1>8 DEF SeenOf, Mine
  <2> QED BY <2>1, <2>2, <2>3, <2>4 DEF Mine
<1> QED
  BY <1>1, <1>2, <1>5, <1>6, <1>7, <1>9, OneMoves

LEMMA EnterGateIInv ==
  ASSUME IInv, NEW b \in Browsers, EnterGate(b)  PROVE IInv'
<1> USE DEF IInv
<1> DEFINE seen == [cached |-> cached, attempt |-> attempt]
<1>1. /\ pc[b] = "gate" /\ gate = Null
      /\ UNCHANGED <<published, now, cached, attempt, kind, observed, answer, token, refreshed>>
  BY DEF EnterGate, provider
<1>2. /\ cached \in {Null} \cup CachedMetadata /\ attempt \in Nat
      /\ refreshed[b] = "no" /\ reply[b] = "none" /\ observed[b] # Null
  BY <1>1 DEF TypeOK, Mine, ShapeOf
<1>3. /\ snap' \in [Browsers -> {Null} \cup [cached : CachedMetadata, attempt : Nat]]
      /\ pc' \in [Browsers -> PCs] /\ pc'[b] \in {"discover", "exchange", "done"}
      /\ reply' \in [Browsers -> {"none", "ok", "error", "bad_signature", "cancelled"}]
      /\ reply'[b] # "bad_signature"
      /\ pc'[b] # "done" => reply'[b] = "none"
      /\ pc'[b] = "exchange" => snap'[b] # Null
      /\ snap'[b] = snap[b] \/ snap'[b] = seen
      /\ gate' = IF pc'[b] = "discover" THEN b ELSE Null
      /\ \A d \in Browsers \ {b} :
           snap'[d] = snap[d] /\ pc'[d] = pc[d] /\ reply'[d] = reply[d]
  <2>1. CASE attempt # observed[b].attempt \/ Fresh(cached)
    <3>1. TakeSnapshot(b, cached, attempt) /\ gate' = Null
      BY <1>1, <2>1 DEF EnterGate
    <3> QED BY <1>1, <1>2, <3>1, SnapshotTaken
  <2>2. CASE ~(attempt # observed[b].attempt \/ Fresh(cached))
    BY <1>1, <1>2, <2>2 DEF EnterGate, GoTo, TypeOK, PCs
  <2> QED BY <2>1, <2>2
<1>4. TypeOK'
  BY <1>1, <1>3 DEF TypeOK
<1>5. \A c \in Browsers \ {b} : Unmoved(c)
  BY <1>1, <1>3 DEF Unmoved
<1>6. GateOK' /\ CachedOK'
  BY <1>1, <1>3, OidcAssumption DEF GateOK, Gated, CachedOK
<1>7. Mine(b)'
  <2>1. ShapeOf(b)'
    BY <1>1, <1>2, <1>3 DEF ShapeOf
  <2>2. AttemptOf(b)'
    BY <1>1, <1>2, <1>3 DEF AttemptOf, Mine
  <2>3. KeysOf(b)'
    BY <1>1, <1>2, <1>3 DEF KeysOf, Mine
  <2>4. SeenOf(b)'
    BY <1>1, <1>3 DEF SeenOf, Mine
  <2> QED BY <2>1, <2>2, <2>3, <2>4 DEF Mine
<1> QED
  BY <1>1, <1>2, <1>4, <1>5, <1>6, <1>7, OneMoves

\* The provider answers with what it publishes then, which is no older than
\* what is cached and no older than the key of a token it has signed.
LEMMA AskIInv ==
  ASSUME IInv, NEW b \in Browsers,
         Ask(b, "discover", "discovered") \/ Ask(b, "fetch", "fetched")
  PROVE  IInv'
<1> USE DEF IInv
<1>1. PICK a \in {Null, published} : answer' = [answer EXCEPT ![b] = a]
  BY DEF Ask
<1>2. /\ \/ pc[b] = "discover" /\ pc' = [pc EXCEPT ![b] = "discovered"]
         \/ pc[b] = "fetch" /\ pc' = [pc EXCEPT ![b] = "fetched"]
      /\ UNCHANGED <<published, now, cached, attempt, gate, kind, observed, snap, token,
                     refreshed, reply>>
  BY DEF Ask, GoTo, provider
<1>3. TypeOK'
  BY <1>1, <1>2 DEF TypeOK, PCs
<1>4. \A c \in Browsers \ {b} : Unmoved(c)
  BY <1>1, <1>2 DEF Unmoved, TypeOK
<1>5. GateOK' /\ CachedOK'
  BY <1>2 DEF GateOK, Gated, CachedOK, TypeOK
<1>6. /\ answer'[b] = a /\ pc'[b] \in {"discovered", "fetched"}
      /\ pc'[b] = "fetched" => pc[b] = "fetch"
  BY <1>1, <1>2 DEF TypeOK
<1>7. Mine(b)'
  <2>1. ShapeOf(b)'
    BY <1>2 DEF Mine, ShapeOf, TypeOK
  <2>2. AttemptOf(b)' /\ SeenOf(b)'
    BY <1>2 DEF Mine, AttemptOf, SeenOf, TypeOK
  <2>3. published \in Keys /\ NotAfter(published, published)
    BY OidcAssumption DEF TypeOK, Keys, NotAfter
  <2>4. /\ a # Null => a = published
        /\ token'[b] = token[b] /\ reply'[b] = "none"
        /\ pc'[b] = "fetched" => token[b] # Null /\ token[b] <= published.hi
    BY <1>1, <1>2, <1>6 DEF Mine, ShapeOf, KeysOf
  <2>5. KeysOf(b)'
    BY <1>2, <1>6, <2>3, <2>4 DEF Mine, KeysOf, CachedOK
  <2> QED BY <2>1, <2>2, <2>5 DEF Mine
<1> QED
  BY <1>2, <1>3, <1>4, <1>5, <1>7, OneMoves

LEMMA StoreDiscoveryIInv ==
  ASSUME IInv, NEW b \in Browsers, StoreDiscovery(b)  PROVE IInv'
<1> USE DEF IInv
<1> DEFINE c == IF answer[b] = Null THEN cached
                ELSE [keys |-> answer[b], fetched_at |-> now]
           seen == [cached |-> c, attempt |-> attempt + 1]
<1>1. /\ pc[b] = "discovered" /\ gate' = Null
      /\ attempt' = attempt + 1 /\ cached' = c
      /\ TakeSnapshot(b, c, attempt + 1)
      /\ UNCHANGED <<published, now, kind, observed, answer, token, refreshed>>
  BY DEF StoreDiscovery, provider
<1>2. /\ cached \in {Null} \cup CachedMetadata /\ attempt \in Nat /\ answer[b] \in {Null} \cup Keys
      /\ refreshed[b] = "no" /\ reply[b] = "none" /\ observed[b] # Null /\ gate = b
      /\ snap[b] \in {Null} \cup [cached : CachedMetadata, attempt : Nat]
      /\ observed[b] \in Observed
  BY <1>1 DEF TypeOK, Mine, ShapeOf, GateOK, Gated
<1>3. /\ c \in {Null} \cup CachedMetadata
      /\ answer[b] # Null => c # Null /\ c.keys = answer[b]
  BY <1>2, NullAssumption DEF CachedMetadata, TypeOK
<1>4. /\ snap' \in [Browsers -> {Null} \cup [cached : CachedMetadata, attempt : Nat]]
      /\ pc' \in [Browsers -> PCs] /\ pc'[b] \in {"exchange", "done"}
      /\ reply' \in [Browsers -> {"none", "ok", "error", "bad_signature", "cancelled"}]
      /\ reply'[b] # "bad_signature"
      /\ pc'[b] = "exchange" => snap'[b] # Null /\ reply'[b] = "none"
      /\ snap'[b] = snap[b] \/ snap'[b] = seen
      /\ \A d \in Browsers \ {b} :
           snap'[d] = snap[d] /\ pc'[d] = pc[d] /\ reply'[d] = reply[d]
  BY <1>1, <1>2, <1>3, SnapshotTaken
<1>5. TypeOK'
  BY <1>1, <1>2, <1>3, <1>4 DEF TypeOK
<1>6. \A d \in Browsers \ {b} : Unmoved(d)
  BY <1>1, <1>4 DEF Unmoved
<1>7. GateOK'
  BY <1>1, <1>2, <1>4, OidcAssumption DEF GateOK, Gated
<1>8. CachedOK'
  BY <1>1, <1>2, <1>3 DEF CachedOK, Mine, KeysOf
<1>9. Mine(b)'
  <2>1. ShapeOf(b)'
    BY <1>1, <1>2, <1>4 DEF ShapeOf
  <2>2. AttemptOf(b)'
    BY <1>1, <1>2, <1>4 DEF AttemptOf, Mine, Observed
  <2>3. KeysOf(b)'
    BY <1>1, <1>2, <1>4 DEF KeysOf, Mine
  <2>4. SeenOf(b)'
    BY <1>1, <1>2, <1>4 DEF SeenOf, Mine, AttemptOf, Observed
  <2> QED BY <2>1, <2>2, <2>3, <2>4 DEF Mine
<1> QED
  BY <1>1, <1>2, <1>5, <1>6, <1>7, <1>8, <1>9, OneMoves

-----------------------------------------------------------------------------
(* exchange_code_for_userinfo *)

\* A step that ends b or moves it on without the gate and changes but its
\* reply and its token.
LEMMA QuietStep ==
  ASSUME IInv, NEW b \in Browsers,
         UNCHANGED <<published, now, cached, attempt, kind, observed, snap, answer, refreshed>>,
         pc' \in [Browsers -> PCs], token' \in [Browsers -> {Null} \cup 0 .. MaxKey],
         reply' \in [Browsers -> {"none", "ok", "error", "bad_signature", "cancelled"}],
         pc'[b] \notin {"gate", "discover", "discovered", "fetched"},
         pc'[b] = "fetch" => snap[b].attempt = attempt,
         gate' = IF pc'[b] = "fetch" THEN b ELSE IF gate = b THEN Null ELSE gate,
         pc'[b] = "fetch" => gate = Null,
         \A d \in Browsers \ {b} :
           token'[d] = token[d] /\ pc'[d] = pc[d] /\ reply'[d] = reply[d],
         token'[b] # Null => token'[b] <= published.hi,
         reply'[b] = "bad_signature" =>
            /\ reply[b] = "bad_signature" \/ (refreshed[b] = "no" /\ snap[b].attempt < attempt)
            /\ token'[b] = token[b],
         ShapeOf(b)'
  PROVE  IInv'
<1> USE DEF IInv
<1>1. TypeOK'
  BY DEF TypeOK
<1>2. \A d \in Browsers \ {b} : Unmoved(d)
  BY DEF Unmoved
<1>3. GateOK' /\ CachedOK'
  BY OidcAssumption DEF GateOK, Gated, CachedOK
<1>4. AttemptOf(b)' /\ SeenOf(b)'
  BY DEF Mine, AttemptOf, SeenOf
<1>5. KeysOf(b)'
  BY DEF Mine, KeysOf
<1> QED
  BY <1>1, <1>2, <1>3, <1>4, <1>5, OneMoves DEF Mine

LEMMA ExchangeIInv ==
  ASSUME IInv, NEW b \in Browsers, Exchange(b)  PROVE IInv'
<1> USE DEF IInv
<1>1. /\ pc[b] = "exchange" /\ token' = [token EXCEPT ![b] = published.hi]
      /\ \E to \in {"userinfo", "refresh"} : pc' = [pc EXCEPT ![b] = to]
      /\ UNCHANGED <<published, now, cached, attempt, gate, kind, observed, snap, answer,
                     refreshed, reply>>
  BY DEF Exchange, GoTo, provider
<1>2. /\ published.hi \in 0 .. MaxKey /\ published.hi <= published.hi
      /\ published.hi # Null
  BY OidcAssumption, NullIsNoKey DEF TypeOK, Keys
<1>3. gate # b /\ snap[b] # Null /\ refreshed[b] = "no" /\ reply[b] = "none"
  BY <1>1 DEF GateOK, Gated, Mine, ShapeOf
<1>4. /\ pc' \in [Browsers -> PCs] /\ token' \in [Browsers -> {Null} \cup 0 .. MaxKey]
      /\ pc'[b] \in {"userinfo", "refresh"} /\ token'[b] = published.hi
      /\ \A d \in Browsers \ {b} : token'[d] = token[d] /\ pc'[d] = pc[d]
  BY <1>1, <1>2 DEF TypeOK, PCs
<1>5. ShapeOf(b)'
  BY <1>1, <1>2, <1>3, <1>4 DEF ShapeOf
<1> QED
  BY <1>1, <1>2, <1>3, <1>4, <1>5, QuietStep DEF TypeOK

\* What ends b without a signature being turned down.
LEMMA EndsIInv ==
  ASSUME IInv, NEW b \in Browsers, pc[b] # "done", NEW code \in {"ok", "error", "cancelled"},
         Answer(b, code),
         gate' = IF gate = b THEN Null ELSE gate,
         UNCHANGED <<published, now, cached, attempt, kind, observed, snap, answer, token,
                     refreshed>>
  PROVE  IInv'
<1> USE DEF IInv
<1>1. /\ pc' = [pc EXCEPT ![b] = "done"] /\ reply' = [reply EXCEPT ![b] = code]
  BY DEF Answer
<1>2. /\ pc' \in [Browsers -> PCs] /\ pc'[b] = "done" /\ reply'[b] = code
      /\ reply' \in [Browsers -> {"none", "ok", "error", "bad_signature", "cancelled"}]
      /\ \A d \in Browsers \ {b} : pc'[d] = pc[d] /\ reply'[d] = reply[d]
  BY <1>1 DEF TypeOK, PCs
<1>3. ShapeOf(b)'
  BY <1>2 DEF ShapeOf, Mine
<1> QED
  BY <1>2, <1>3, QuietStep DEF TypeOK, Mine, KeysOf

LEMMA ExchangeFailsIInv ==
  ASSUME IInv, NEW b \in Browsers, ExchangeFails(b)  PROVE IInv'
<1>1. gate # b
  BY DEF ExchangeFails, IInv, GateOK, Gated
<1> QED BY <1>1, EndsIInv DEF ExchangeFails, provider

LEMMA UserInfoIInv ==
  ASSUME IInv, NEW b \in Browsers, UserInfo(b)  PROVE IInv'
<1>1. gate # b
  BY DEF UserInfo, IInv, GateOK, Gated
<1> QED BY <1>1, EndsIInv DEF UserInfo, provider

LEMMA CancelIInv ==
  ASSUME IInv, NEW b \in Browsers, Cancel(b)  PROVE IInv'
BY EndsIInv DEF Cancel, provider

\* Under the gate either another lookup has ended, whose keys are used, or
\* the request keeps the gate for its own.
LEMMA RefreshKeysIInv ==
  ASSUME IInv, NEW b \in Browsers, RefreshKeys(b)  PROVE IInv'
<1> USE DEF IInv
<1>1. /\ pc[b] = "refresh" /\ gate = Null /\ refreshed[b] = "no" /\ reply[b] = "none"
      /\ snap[b] # Null /\ token[b] # Null
      /\ UNCHANGED <<published, now, cached, attempt, kind, observed, snap, answer, token,
                     refreshed>>
  BY DEF RefreshKeys, provider, Mine, ShapeOf
<1>2. snap[b].attempt \in Nat /\ attempt \in Nat /\ snap[b].attempt <= attempt
      /\ token[b] <= published.hi
  BY <1>1 DEF TypeOK, Mine, AttemptOf, KeysOf
<1>3. CASE attempt # snap[b].attempt
  <2>1. /\ gate' = Null
        /\ \/ Answer(b, "error") \/ Answer(b, "bad_signature") \/ GoTo(b, "userinfo")
    BY <1>1, <1>3 DEF RefreshKeys, Reverify
  <2>2. /\ pc' \in [Browsers -> PCs] /\ pc'[b] \in {"userinfo", "done"}
        /\ reply' \in [Browsers -> {"none", "ok", "error", "bad_signature", "cancelled"}]
        /\ pc'[b] = "userinfo" => reply'[b] = "none"
        /\ \A d \in Browsers \ {b} : pc'[d] = pc[d] /\ reply'[d] = reply[d]
    BY <1>1, <2>1 DEF Answer, GoTo, TypeOK, PCs
  <2>3. ShapeOf(b)'
    BY <1>1, <2>2 DEF ShapeOf
  <2>4. snap[b].attempt < attempt /\ gate # b
    BY <1>1, <1>2, <1>3, OidcAssumption
  <2> QED
    BY <1>1, <1>2, <2>1, <2>2, <2>3, <2>4, QuietStep DEF TypeOK
<1>4. CASE attempt = snap[b].attempt
  <2>1. gate' = b /\ pc' = [pc EXCEPT ![b] = "fetch"] /\ UNCHANGED reply
    BY <1>4 DEF RefreshKeys, GoTo
  <2>2. /\ pc' \in [Browsers -> PCs] /\ pc'[b] = "fetch"
        /\ \A d \in Browsers \ {b} : pc'[d] = pc[d]
    BY <2>1 DEF TypeOK, PCs
  <2>3. ShapeOf(b)'
    BY <1>1, <2>1, <2>2 DEF ShapeOf
  <2> QED
    BY <1>1, <1>2, <1>4, <2>1, <2>2, <2>3, QuietStep DEF TypeOK
<1> QED BY <1>3, <1>4

LEMMA StoreKeysIInv ==
  ASSUME IInv, NEW b \in Browsers, StoreKeys(b)  PROVE IInv'
<1> USE DEF IInv
<1> DEFINE c == [keys |-> answer[b], fetched_at |-> snap[b].cached.fetched_at]
<1>1. /\ pc[b] = "fetched" /\ gate = b /\ gate' = Null /\ attempt' = attempt + 1
      /\ refreshed[b] = "no" /\ reply[b] = "none" /\ snap[b] # Null /\ token[b] # Null
      /\ snap[b].attempt = attempt
      /\ UNCHANGED <<published, now, kind, observed, snap, answer, token>>
  BY DEF StoreKeys, provider, Mine, ShapeOf, AttemptOf, GateOK, Gated
<1>2. /\ snap[b] \in [cached : CachedMetadata, attempt : Nat] /\ attempt \in Nat
      /\ answer[b] \in {Null} \cup Keys /\ published \in Keys /\ token[b] \in 0 .. MaxKey
      /\ observed[b] \in {Null} \cup Observed
  BY <1>1 DEF TypeOK
<1>3. /\ pc' \in [Browsers -> PCs] /\ pc'[b] \in {"userinfo", "done"}
      /\ reply' \in [Browsers -> {"none", "ok", "error", "bad_signature", "cancelled"}]
      /\ pc'[b] = "userinfo" => reply'[b] = "none"
      /\ refreshed' \in [Browsers -> {"no", "ok", "failed"}] /\ refreshed'[b] # "no"
      /\ \/ cached' = cached /\ reply'[b] # "bad_signature"
         \/ /\ answer[b] # Null /\ cached' = c
            /\ reply'[b] = "bad_signature" => ~Verifies(token[b], answer[b])
      /\ \A d \in Browsers \ {b} :
           pc'[d] = pc[d] /\ reply'[d] = reply[d] /\ refreshed'[d] = refreshed[d]
  <2>1. CASE answer[b] # Null
    <3>1. /\ cached' = c /\ refreshed' = [refreshed EXCEPT ![b] = "ok"]
          /\ Reverify(b, answer[b])
      BY <2>1 DEF StoreKeys
    <3>2. CASE Verifies(token[b], answer[b])
      BY <1>1, <2>1, <3>1, <3>2 DEF Reverify, GoTo, TypeOK, PCs
    <3>3. CASE ~Verifies(token[b], answer[b])
      BY <1>1, <2>1, <3>1, <3>3 DEF Reverify, Answer, TypeOK, PCs
    <3> QED BY <3>2, <3>3
  <2>2. CASE answer[b] = Null
    BY <1>1, <2>2 DEF StoreKeys, Answer, TypeOK, PCs
  <2> QED BY <2>1, <2>2
<1>4. answer[b] # Null => c \in CachedMetadata /\ c # Null /\ c.keys = answer[b]
  BY <1>2, NullAssumption DEF CachedMetadata
<1>5. TypeOK'
  BY <1>1, <1>2, <1>3, <1>4 DEF TypeOK
<1>6. \A d \in Browsers \ {b} : Unmoved(d)
  BY <1>1, <1>3 DEF Unmoved
<1>7. GateOK'
  BY <1>1, <1>3, OidcAssumption DEF GateOK, Gated
<1>8. CachedOK'
  BY <1>1, <1>3, <1>4 DEF CachedOK, Mine, KeysOf
<1>9. Mine(b)'
  <2>1. ShapeOf(b)'
    BY <1>1, <1>3 DEF ShapeOf
  <2>2. AttemptOf(b)'
    BY <1>1, <1>2, <1>3 DEF AttemptOf, Mine, Observed
  <2>3. reply'[b] = "bad_signature" => token[b] < published.lo
    <3> SUFFICES ASSUME reply'[b] = "bad_signature" PROVE token[b] < published.lo
      OBVIOUS
    <3>1. answer[b] # Null /\ ~Verifies(token[b], answer[b])
      BY <1>3
    <3>2. token[b] <= answer[b].hi /\ answer[b].lo <= published.lo
      BY <1>1, <3>1 DEF Mine, KeysOf, NotAfter
    <3> QED BY <1>2, <3>1, <3>2, OidcAssumption DEF Verifies, Keys
  <2>4. KeysOf(b)'
    BY <1>1, <1>3, <2>3 DEF KeysOf, Mine
  <2>5. SeenOf(b)'
    BY <1>1, <1>2, <1>3 DEF SeenOf, Mine, AttemptOf, Observed
  <2> QED BY <2>1, <2>2, <2>4, <2>5 DEF Mine
<1>10. snap'[b] # Null /\ snap'[b].attempt >= attempt
  BY <1>1, <1>2
<1> QED
  BY <1>1, <1>5, <1>6, <1>7, <1>8, <1>9, <1>10, OneMoves

-----------------------------------------------------------------------------

LEMMA NextIInv == IInv /\ [Next]_vars => IInv'
<1> SUFFICES ASSUME IInv, [Next]_vars PROVE IInv'
  OBVIOUS
<1>1. CASE Rotate \/ Withdraw \/ Tick
  BY <1>1, ProviderStep
<1>2. ASSUME NEW b \in Browsers, Arrive(b) \/ Step(b) \/ Cancel(b) PROVE IInv'
  <2>1. CASE Discover(b) \/ FetchKeys(b)
    BY <2>1, AskIInv DEF Discover, FetchKeys
  <2>2. CASE ~(Discover(b) \/ FetchKeys(b))
    BY <1>2, <2>2, ArriveIInv, ReadCacheIInv, EnterGateIInv, StoreDiscoveryIInv, ExchangeIInv,
       ExchangeFailsIInv, RefreshKeysIInv, StoreKeysIInv, UserInfoIInv, CancelIInv DEF Step
  <2> QED BY <2>1, <2>2
<1>3. CASE UNCHANGED vars
  BY <1>3 DEF vars, IInv, TypeOK, GateOK, CachedOK, Mine, ShapeOf, AttemptOf, KeysOf, SeenOf,
     OneRefreshPerAttempt
<1> QED BY <1>1, <1>2, <1>3 DEF Next, Finished

\* The gate, the attempts and the order of keys hold together in every
\* reachable state.
THEOREM InductiveInvariant == Spec => []IInv
<1> QED BY InitIInv, NextIInv, PTL DEF Spec

\* Every variable has its type.
THEOREM TypeCorrect == Spec => []TypeOK
<1>1. IInv => TypeOK
  BY DEF IInv
<1> QED BY <1>1, InductiveInvariant, PTL

\* oidc.rs compares attempt numbers and nothing else: equal numbers mean that
\* the cache is what it was.
THEOREM AttemptsNameCache == Spec => []AttemptNamesCache
<1>1. IInv => AttemptNamesCache
  BY DEF IInv, Mine, SeenOf, AttemptNamesCache
<1> QED BY <1>1, InductiveInvariant, PTL

\* refresh_jwks asks the provider once for all callbacks that saw the same
\* attempt.
THEOREM RefreshesOnce == Spec => []OneRefreshPerAttempt
<1>1. IInv => OneRefreshPerAttempt
  BY DEF IInv
<1> QED BY <1>1, InductiveInvariant, PTL

\* exchange_code_for_userinfo turns a signature down only after a lookup it
\* had not seen, and by its own keys only if the token's key was withdrawn.
THEOREM RejectionsHaveCause == Spec => []RejectionHasCause
<1>1. IInv => RejectionHasCause
  <2> SUFFICES ASSUME IInv, NEW b \in Browsers, reply[b] = "bad_signature"
               PROVE  /\ attempt > snap[b].attempt
                      /\ refreshed[b] = "ok" => token[b] < published.lo
    BY DEF RejectionHasCause
  <2>1. snap[b] # Null /\ snap[b].attempt < attempt
    BY DEF IInv, Mine, ShapeOf, AttemptOf
  <2>2. snap[b].attempt \in Nat /\ attempt \in Nat
    BY <2>1 DEF IInv, TypeOK
  <2> QED BY <2>1, <2>2 DEF IInv, Mine, KeysOf
<1> QED BY <1>1, InductiveInvariant, PTL

-----------------------------------------------------------------------------
(* What a step may not do *)

LEMMA NoStepRollsBack ==
  ASSUME IInv, [Next]_vars, cached # Null
  PROVE  /\ cached' # Null
         /\ cached'.keys.lo >= cached.keys.lo
         /\ cached'.keys.hi >= cached.keys.hi
<1> USE DEF IInv
<1>1. cached \in CachedMetadata /\ cached.keys \in Keys
  BY DEF TypeOK, CachedMetadata
<1>2. CASE UNCHANGED cached
  BY <1>1, <1>2, OidcAssumption DEF Keys
<1>3. ASSUME NEW b \in Browsers, StoreDiscovery(b) \/ StoreKeys(b), ~UNCHANGED cached
      PROVE  /\ cached' # Null
             /\ cached'.keys.lo >= cached.keys.lo
             /\ cached'.keys.hi >= cached.keys.hi
  <2>1. answer[b] # Null /\ pc[b] \in {"discovered", "fetched"}
    BY <1>3 DEF StoreDiscovery, StoreKeys
  <2>2. NotAfter(cached.keys, answer[b]) /\ answer[b] \in Keys
    BY <2>1 DEF Mine, KeysOf, TypeOK
  <2>3. cached' \in CachedMetadata /\ cached'.keys = answer[b]
    <3>1. CASE StoreDiscovery(b)
      BY <2>1, <2>2, <3>1 DEF StoreDiscovery, CachedMetadata, TypeOK
    <3>2. CASE StoreKeys(b)
      <4>1. snap[b] \in [cached : CachedMetadata, attempt : Nat]
        BY <3>2 DEF StoreKeys, Mine, ShapeOf, TypeOK
      <4> QED BY <2>1, <2>2, <3>2, <4>1 DEF StoreKeys, CachedMetadata
    <3> QED BY <1>3, <3>1, <3>2
  <2> QED BY <1>1, <2>2, <2>3, OidcAssumption, NullAssumption DEF NotAfter, Keys
<1>4. [Next]_vars =>
        \/ UNCHANGED cached
        \/ \E b \in Browsers : (StoreDiscovery(b) \/ StoreKeys(b)) /\ ~UNCHANGED cached
  BY DEF Next, Step, Finished, vars, Rotate, Withdraw, Tick, Arrive, ReadCache, EnterGate,
     Discover, FetchKeys, Ask, Exchange, ExchangeFails, RefreshKeys, UserInfo, Cancel
<1> QED BY <1>2, <1>3, <1>4

LEMMA NoStepHandsOutStale ==
  ASSUME IInv, [Next]_vars, NEW b \in Browsers, snap'[b] # snap[b]
  PROVE  \/ now - snap'[b].cached.fetched_at <= Ttl
         \/ snap'[b].attempt # observed'[b].attempt
<1> USE DEF IInv
<1>1. PICK c \in Browsers : ReadCache(c) \/ EnterGate(c) \/ StoreDiscovery(c)
  BY DEF Next, Step, Finished, vars, Rotate, Withdraw, Tick, Arrive,
     Discover, FetchKeys, Ask, Exchange, ExchangeFails, RefreshKeys, StoreKeys, UserInfo, Cancel
<1>2. c = b
  BY <1>1 DEF ReadCache, EnterGate, StoreDiscovery, TakeSnapshot, TypeOK
<1>3. CASE ReadCache(b)
  <2>1. /\ Fresh(cached) /\ TakeSnapshot(b, cached, attempt)
    BY <1>3 DEF ReadCache
  <2>2. snap'[b].cached = cached
    BY <2>1 DEF TakeSnapshot, TypeOK
  <2> QED BY <2>1, <2>2 DEF Fresh
<1>4. CASE EnterGate(b)
  <2>1. /\ TakeSnapshot(b, cached, attempt) /\ observed' = observed
        /\ attempt # observed[b].attempt \/ Fresh(cached)
    BY <1>4 DEF EnterGate
  <2>2. snap'[b].cached = cached /\ snap'[b].attempt = attempt
    BY <2>1 DEF TakeSnapshot, TypeOK
  <2> QED BY <2>1, <2>2 DEF Fresh
<1>5. CASE StoreDiscovery(b)
  <2>1. snap'[b].attempt = attempt + 1 /\ observed' = observed
    BY <1>5 DEF StoreDiscovery, TakeSnapshot, TypeOK
  <2>2. observed[b] \in Observed /\ observed[b].attempt <= attempt /\ attempt \in Nat
    BY <1>5 DEF StoreDiscovery, Mine, ShapeOf, AttemptOf, TypeOK
  <2> QED BY <2>1, <2>2 DEF Observed
<1> QED BY <1>1, <1>2, <1>3, <1>4, <1>5

\* Cached signing keys are never replaced by older ones: discover and
\* refresh_jwks store what was asked for under the same hold of the gate.
THEOREM KeysNeverRollBack == Spec => NoKeyRollback
<1>1. IInv /\ [Next]_vars =>
        [cached # Null =>
           /\ cached' # Null
           /\ cached'.keys.lo >= cached.keys.lo
           /\ cached'.keys.hi >= cached.keys.hi]_vars
  BY NoStepRollsBack
<1> QED BY <1>1, InductiveInvariant, PTL DEF Spec, NoKeyRollback

\* metadata() hands out metadata past its TTL only after a lookup has ended
\* that the request had not seen when it came.
THEOREM StaleNeedsAttempt == Spec => StaleOnlyAfterAttempt
<1>1. IInv /\ [Next]_vars =>
        [\A b \in Browsers : snap'[b] # snap[b] =>
           \/ now - snap'[b].cached.fetched_at <= Ttl
           \/ snap'[b].attempt # observed'[b].attempt]_vars
  BY NoStepHandsOutStale
<1> QED BY <1>1, InductiveInvariant, PTL DEF Spec, StaleOnlyAfterAttempt

=============================================================================
