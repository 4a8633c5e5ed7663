---------------------- MODULE CredentialListingProofs -----------------------
(***************************************************************************)
(* Proofs about CredentialListing, for any number of readers, aliases,     *)
(* tags and changes and for pages of any size.                             *)
(*                                                                         *)
(* ListOK relates what a reader has gathered to the table as it is now:    *)
(* whatever matched all along still matches, and up to the cursor it is in *)
(* the list.  SummaryOK says how far each count may be from the total.     *)
(* A page is a prefix of what is past the cursor, in order (PageIsPrefix); *)
(* that there is such an order is shown without induction, by the number   *)
(* of smaller aliases as an alias's place (OrderExists).                   *)
(***************************************************************************)
EXTENDS CredentialListing, FiniteSetTheorems, TLAPS

Increasing(s) == \A i, j \in DOMAIN s : i < j => s[i] < s[j]

RowsOK(T) ==
    /\ T \in [Requests -> {Null} \cup Row]
    /\ IsFiniteSet({id \in Requests : T[id] # Null})

\* What has been read of a list agrees with the table T: an alias that
\* matched all along matches now and, up to the cursor, is listed; one that
\* matches now is among those that ever did.
ListOK(l, T) ==
    /\ Increasing(l.listed)
    /\ Range(l.listed) \subseteq l.ever
    /\ l.pc = "idle" => l.listed = <<>> /\ l.cursor = Null
    /\ l.pc = "asking" =>
         /\ l.owner \in Users
         /\ l.throughout \subseteq Matching(T, l.owner, l.tag)
         /\ Matching(T, l.owner, l.tag) \subseteq l.ever
         /\ \A i \in DOMAIN l.listed : l.cursor # Null /\ l.listed[i] <= l.cursor
    /\ l.pc # "refused" =>
         \A a \in l.throughout :
             (l.pc = "done" \/ (l.cursor # Null /\ a <= l.cursor)) => a \in Range(l.listed)

\* A count n of a summary is as far from its total as the registrations and
\* deletions in between explain.
Near(s, n) == n <= s.total + s.added /\ s.total <= n + s.removed

SummaryOK(s, T) ==
    /\ s.pc = "idle" => s.added = 0 /\ s.removed = 0
    /\ s.pc \in {"by_category", "tags"} => Near(s, Cardinality(ActiveOf(T, s.owner)))
    /\ s.pc \in {"tags", "done"} => Near(s, SumFunction(s.by_category))
    /\ s.pc = "done" => \A t \in Tags : s.tags[t] <= s.total + s.added

IInv ==
    /\ RowsOK(rows)
    /\ list \in [Readers -> ListState]
    /\ summary \in [Readers -> SummaryState]
    /\ \A r \in Readers : ListOK(list[r], rows) /\ SummaryOK(summary[r], rows)

-----------------------------------------------------------------------------
(* Order, sums and pages *)

\* A finite set of numbers can be put in order: the place of a number is the
\* number of those up to it.
LEMMA OrderExists ==
    ASSUME NEW S \in SUBSET Nat, IsFiniteSet(S)
    PROVE  \E s \in [1 .. Cardinality(S) -> S] : Increasing(s)
<1> DEFINE n == Cardinality(S)
           UpTo(x) == {y \in S : y <= x}
           rank == [x \in S |-> Cardinality(UpTo(x))]
<1>1. n \in Nat
  BY FS_CardinalityType
<1>2. ASSUME NEW x \in S
      PROVE  rank[x] \in 1 .. n
  <2>1. UpTo(x) \in SUBSET S /\ x \in UpTo(x)
    OBVIOUS
  <2>2. IsFiniteSet(UpTo(x)) /\ Cardinality(UpTo(x)) <= n
    BY <2>1, FS_Subset
  <2>3. Cardinality(UpTo(x)) \in Nat /\ Cardinality(UpTo(x)) # 0
    BY <2>1, <2>2, FS_CardinalityType, FS_EmptySet
  <2>4. QED
    BY <1>1, <2>2, <2>3
<1>3. ASSUME NEW x \in S, NEW y \in S, x < y
      PROVE  rank[x] < rank[y]
  <2>0. x \in Nat /\ y \in Nat
    OBVIOUS
  <2>1. UpTo(x) \in SUBSET UpTo(y)
    <3>1. ASSUME NEW z \in UpTo(x)
          PROVE  z \in UpTo(y)
      <4>1. z \in Nat /\ z \in S /\ z <= x
        OBVIOUS
      <4>2. z <= y
        BY ONLY <1>3, <2>0, <4>1
      <4>3. QED
        BY <4>1, <4>2
    <3>2. QED
      BY <3>1
  <2>6. y \in UpTo(y) /\ y \notin UpTo(x)
    BY <1>3, <2>0
  <2>2. IsFiniteSet(UpTo(y))
    <3>1. UpTo(y) \in SUBSET S
      OBVIOUS
    <3>2. QED
      BY <3>1, FS_Subset
  <2>3. /\ Cardinality(UpTo(x)) <= Cardinality(UpTo(y))
        /\ Cardinality(UpTo(x)) # Cardinality(UpTo(y))
    BY <2>1, <2>2, <2>6, FS_Subset
  <2>4. rank[x] \in 1 .. n /\ rank[y] \in 1 .. n
    BY <1>2
  <2>5. QED
    BY <1>1, <2>3, <2>4
<1> HIDE DEF rank
<1>4. rank \in [S -> 1 .. n]
  BY <1>2 DEF rank
<1>5. rank \in Injection(S, 1 .. n)
  <2>1. \A x, y \in S : rank[x] = rank[y] => x = y
    <3> SUFFICES ASSUME NEW x \in S, NEW y \in S, x # y
                 PROVE  rank[x] # rank[y]
      OBVIOUS
    <3>1. x < y \/ y < x
      OBVIOUS
    <3>2. rank[x] \in 1 .. n /\ rank[y] \in 1 .. n
      BY <1>2
    <3>3. QED
      BY <1>1, <1>3, <3>1, <3>2
  <2>2. QED
    BY <1>4, <2>1 DEF Injection, IsInjective
<1>6. IsFiniteSet(1 .. n) /\ Cardinality(1 .. n) = n
  BY <1>1, FS_Interval
<1>7. rank \in Surjection(S, 1 .. n)
  BY <1>5, <1>6, FS_Injection
<1>8. \A i \in 1 .. n : \E x \in S : rank[x] = i
  BY <1>7 DEF Surjection
<1> DEFINE s == [i \in 1 .. n |-> CHOOSE x \in S : rank[x] = i]
<1>9. \A i \in 1 .. n : s[i] \in S /\ rank[s[i]] = i
  BY <1>8
<1>10. s \in [1 .. n -> S]
  BY <1>9
<1> HIDE DEF s
<1>11. ASSUME NEW i \in 1 .. n, NEW j \in 1 .. n, i < j
       PROVE  s[i] < s[j]
  <2>3. i # j /\ ~(j < i)
    BY <1>1, <1>11
  <2>0. /\ s[i] \in S /\ rank[s[i]] = i
        /\ s[j] \in S /\ rank[s[j]] = j
    BY <1>9
  <2>1. s[i] \in Nat /\ s[j] \in Nat /\ s[i] # s[j]
    BY <2>0, <2>3
  <2>2. ~(s[j] < s[i])
    BY <1>3, <2>0, <2>3
  <2>4. QED
    BY <2>1, <2>2
<1>12. QED
  BY <1>10, <1>11 DEF Increasing

\* What ORDER BY makes of the aliases that match: all of them, in order.
LEMMA InOrderIsOrder ==
    ASSUME NEW S \in SUBSET Nat, IsFiniteSet(S)
    PROVE  /\ Cardinality(S) \in Nat
           /\ InOrder(S) \in [1 .. Cardinality(S) -> S]
           /\ Increasing(InOrder(S))
           /\ \A x \in S : \E i \in 1 .. Cardinality(S) : InOrder(S)[i] = x
<1> DEFINE n == Cardinality(S)
           s == InOrder(S)
<1>1. n \in Nat
  BY FS_CardinalityType
<1>2. s \in [1 .. n -> S] /\ Increasing(s)
  BY OrderExists DEF InOrder, Increasing
<1> HIDE DEF s
<1>3. s \in Injection(1 .. n, S)
  <2>1. \A i, j \in 1 .. n : s[i] = s[j] => i = j
    <3> SUFFICES ASSUME NEW i \in 1 .. n, NEW j \in 1 .. n, i # j
                 PROVE  s[i] # s[j]
      OBVIOUS
    <3>1. s[i] \in Nat /\ s[j] \in Nat
      BY <1>2
    <3>2. s[i] < s[j] \/ s[j] < s[i]
      BY <1>1, <1>2 DEF Increasing
    <3>3. QED
      BY <3>1, <3>2
  <2>2. QED
    BY <1>2, <2>1 DEF Injection, IsInjective
<1>4. Cardinality(1 .. n) = n
  BY <1>1, FS_Interval
<1>5. s \in Surjection(1 .. n, S)
  BY <1>3, <1>4, FS_Injection
<1>6. \A x \in S : \E i \in 1 .. n : s[i] = x
  BY <1>5 DEF Surjection
<1>7. QED
  BY <1>1, <1>2, <1>6 DEF s

\* The sum over the categories is the sum of its two terms.
LEMMA SumOfCategories ==
    ASSUME NEW f \in [Categories -> Nat]
    PROVE  SumFunction(f) = (IF "http" \in Categories THEN f["http"] ELSE 0)
                              + (IF "sql" \in Categories THEN f["sql"] ELSE 0)
<1> DEFINE Pick(s) == CHOOSE x \in s : TRUE
           Sums(it) == [s \in SUBSET Categories |->
                          IF s = {} THEN 0 ELSE f[Pick(s)] + it[s \ {Pick(s)}]]
           g == [s \in SUBSET Categories |->
                   (IF "http" \in s THEN f["http"] ELSE 0) + (IF "sql" \in s THEN f["sql"] ELSE 0)]
           iter == CHOOSE it : it = Sums(it)
<1>1. \A s \in SUBSET Categories : s # {} => Pick(s) \in s
  OBVIOUS
<1> HIDE DEF Pick
<1>2. ASSUME NEW s \in SUBSET Categories
      PROVE  g[s] = IF s = {} THEN 0 ELSE f[Pick(s)] + g[s \ {Pick(s)}]
  <2>1. CASE s = {}
    BY <2>1
  <2>2. CASE s # {} /\ Pick(s) = "http"
    <3>1. "http" \in s /\ f["http"] \in Nat
      BY <1>1, <2>2
    <3>2. g[s \ {"http"}] = IF "sql" \in s THEN f["sql"] ELSE 0
      OBVIOUS
    <3>3. "sql" \in s => f["sql"] \in Nat
      OBVIOUS
    <3>4. QED
      BY <2>2, <3>1, <3>2, <3>3
  <2>3. CASE s # {} /\ Pick(s) = "sql"
    <3>1. "sql" \in s /\ f["sql"] \in Nat
      BY <1>1, <2>3
    <3>2. g[s \ {"sql"}] = IF "http" \in s THEN f["http"] ELSE 0
      OBVIOUS
    <3>3. "http" \in s => f["http"] \in Nat
      OBVIOUS
    <3>4. QED
      BY <2>3, <3>1, <3>2, <3>3
  <2>4. QED
    BY <1>1, <2>1, <2>2, <2>3, CategoriesAssumption
<1>3. iter = Sums(iter)
  <2>1. g = [s \in SUBSET Categories |-> g[s]]
    OBVIOUS
  <2> HIDE DEF g
  <2>2. g = Sums(g)
    BY <1>2, <2>1
  <2> HIDE DEF Sums
  <2>3. QED
    BY <2>2
<1>4. SumFunction(f) = iter[Categories]
  BY DEF SumFunction, SumFunctionOnSet, FoldFunctionOnSet, MapThenFoldSet, Pick
<1> HIDE DEF iter
<1>5. \A s \in SUBSET Categories :
        iter[s] = IF s = {} THEN 0 ELSE f[Pick(s)] + iter[s \ {Pick(s)}]
  BY <1>3
<1>6. iter[{}] = 0
  BY <1>5
<1>7. \A c \in Categories : iter[{c}] = f[c]
  <2> SUFFICES ASSUME NEW c \in Categories
               PROVE  iter[{c}] = f[c]
    OBVIOUS
  <2>1. Pick({c}) = c /\ {c} \ {c} = {}
    BY <1>1
  <2>2. QED
    BY <1>5, <1>6, <2>1
<1>8. CASE Categories = {}
  BY <1>4, <1>6, <1>8
<1>9. CASE Categories = {"http"}
  BY <1>4, <1>7, <1>9
<1>10. CASE Categories = {"sql"}
  BY <1>4, <1>7, <1>10
<1>11. CASE Categories = {"http", "sql"}
  <2>1. iter[Categories] = f[Pick(Categories)] + iter[Categories \ {Pick(Categories)}]
    BY <1>5, <1>11
  <2>2. /\ Categories \ {"http"} = {"sql"} /\ Categories \ {"sql"} = {"http"}
        /\ f["http"] \in Nat /\ f["sql"] \in Nat
        /\ Pick(Categories) \in {"http", "sql"}
    BY <1>1, <1>11
  <2>3. iter[{"http"}] = f["http"] /\ iter[{"sql"}] = f["sql"]
    BY <1>7, <1>11
  <2>4. iter[Categories] = f["http"] + f["sql"]
    <3>1. CASE Pick(Categories) = "http"
      <4>1. iter[Categories] = f["http"] + iter[{"sql"}]
        BY <2>1, <2>2, <3>1
      <4>2. QED
        BY <2>3, <4>1
    <3>2. CASE Pick(Categories) = "sql"
      <4>1. iter[Categories] = f["sql"] + iter[{"http"}]
        BY <2>1, <2>2, <3>2
      <4>2. QED
        BY <2>2, <2>3, <4>1
    <3>3. QED
      BY <2>2, <3>1, <3>2
  <2>5. QED
    BY <1>4, <1>11, <2>4
<1>12. QED
  BY <1>8, <1>9, <1>10, <1>11, CategoriesAssumption

\* What list_page does with the rows a SELECT gives it.
LEMMA PageIsPrefix ==
    ASSUME NEW S \in SUBSET Aliases, IsFiniteSet(S), NEW limit \in Nat \ {0}
    PROVE  LET fetched == Fetched(S, limit + 1)
               next    == NextCursor(fetched, limit)
               page    == SubSeq(fetched, 1, Min({Len(fetched), limit}))
           IN  \E m \in Nat :
                 /\ page \in [1 .. m -> S] /\ page \in Seq(S) /\ Len(page) = m
                 /\ Increasing(page)
                 /\ next = Null => \A x \in S : \E i \in 1 .. m : page[i] = x
                 /\ next # Null =>
                      /\ next \in S /\ \A i \in 1 .. m : page[i] <= next
                      /\ \A x \in S : x <= next => \E i \in 1 .. m : page[i] = x
<1> DEFINE n == Cardinality(S)
           s == InOrder(S)
           k == IF n <= limit THEN n ELSE limit + 1
           m == IF n <= limit THEN n ELSE limit
           fetched == Fetched(S, limit + 1)
           next == NextCursor(fetched, limit)
           page == SubSeq(fetched, 1, Min({Len(fetched), limit}))
<1>1. S \in SUBSET Nat /\ \A x \in S : x # Null
  BY ListingAssumption
<1>2. /\ n \in Nat /\ s \in [1 .. n -> S] /\ Increasing(s)
      /\ \A x \in S : \E i \in 1 .. n : s[i] = x
  BY <1>1, InOrderIsOrder
<1> HIDE DEF s, n
<1>3. \A a, b \in Nat : Min({a, b}) = IF a <= b THEN a ELSE b
  <2> SUFFICES ASSUME NEW a \in Nat, NEW b \in Nat
               PROVE  Min({a, b}) = IF a <= b THEN a ELSE b
    OBVIOUS
  <2> DEFINE c == CHOOSE x \in {a, b} : \A y \in {a, b} : x <= y
  <2>1. \E x \in {a, b} : \A y \in {a, b} : x <= y
    OBVIOUS
  <2>2. c \in {a, b} /\ c <= a /\ c <= b
    BY <2>1
  <2>3. Min({a, b}) = c
    BY DEF Min
  <2> HIDE DEF c
  <2>4. QED
    BY <2>2, <2>3
<1>4. Len(s) = n
  BY <1>2
<1>5. k \in Nat /\ m \in Nat /\ k <= n /\ m <= k /\ m <= n
  BY <1>2
<1>6. fetched = SubSeq(s, 1, k)
  BY <1>2, <1>3, <1>4 DEF Fetched, s
<1>7. fetched = [i \in 1 .. k |-> s[i]] /\ Len(fetched) = k
  BY <1>2, <1>5, <1>6
<1> HIDE DEF fetched
<1>8. page = [i \in 1 .. m |-> s[i]]
  BY <1>2, <1>3, <1>5, <1>7
<1>9. next = IF n <= limit THEN Null ELSE s[limit]
  BY <1>2, <1>7 DEF NextCursor
<1> HIDE DEF page, next
<1>10. page \in [1 .. m -> S] /\ page \in Seq(S) /\ Len(page) = m
  BY <1>2, <1>5, <1>8
<1>11. Increasing(page)
  BY <1>2, <1>5, <1>8 DEF Increasing
<1>12. ASSUME next = Null
       PROVE  \A x \in S : \E i \in 1 .. m : page[i] = x
  <2>1. limit < n => s[limit] \in S
    BY <1>2
  <2>2. n <= limit /\ m = n
    <3>1. ASSUME limit < n
          PROVE  FALSE
      <4>1. next = s[limit]
        BY <1>2, <1>9, <3>1
      <4>2. s[limit] # Null
        BY <1>1, <2>1, <3>1
      <4>3. QED
        BY <1>12, <4>1, <4>2
    <3>2. QED
      BY <1>2, <3>1
  <2>3. QED
    BY <1>2, <1>8, <2>2
<1>13. ASSUME next # Null
       PROVE  /\ next \in S /\ \A i \in 1 .. m : page[i] <= next
              /\ \A x \in S : x <= next => \E i \in 1 .. m : page[i] = x
  <2>1. limit < n /\ m = limit /\ next = s[limit] /\ next \in S
    BY <1>2, <1>9, <1>13
  <2>2. ASSUME NEW i \in 1 .. m
        PROVE  page[i] <= next
    <3>0. i \in 1 .. n
      BY <1>2, <1>5
    <3>1. page[i] = s[i] /\ s[i] \in Nat /\ next \in Nat
      BY <1>1, <1>2, <1>8, <2>1, <3>0
    <3>2. i < limit => s[i] < s[limit]
      BY <1>2, <2>1 DEF Increasing
    <3>3. i = limit \/ i < limit
      BY <2>1
    <3>4. QED
      BY <2>1, <3>1, <3>2, <3>3
  <2>3. ASSUME NEW x \in S, x <= next
        PROVE  \E i \in 1 .. m : page[i] = x
    <3>1. PICK i \in 1 .. n : s[i] = x
      BY <1>2
    <3>2. x \in Nat /\ next \in Nat
      BY <1>1, <2>1
    <3>3. ~(limit < i)
      BY <1>2, <2>1, <2>3, <3>1, <3>2 DEF Increasing
    <3>4. i \in 1 .. m
      BY <1>2, <2>1, <3>3
    <3>5. QED
      BY <1>8, <3>1, <3>4
  <2>4. QED
    BY <2>1, <2>2, <2>3
<1>14. QED
  BY <1>5, <1>10, <1>11, <1>12, <1>13 DEF page, next, fetched

-----------------------------------------------------------------------------
(* The table *)

\* The active credentials of an owner are finitely many rows.
LEMMA ActiveFinite ==
    ASSUME NEW T, RowsOK(T), NEW u
    PROVE  /\ IsFiniteSet(ActiveOf(T, u))
           /\ Cardinality(ActiveOf(T, u)) \in Nat
           /\ \A id \in ActiveOf(T, u) :
                id \in Requests /\ T[id] \in Row /\ T[id].owner = u
<1>1. ActiveOf(T, u) \in SUBSET {id \in Requests : T[id] # Null}
  BY DEF ActiveOf, Active
<1>2. IsFiniteSet(ActiveOf(T, u))
  BY <1>1, FS_Subset DEF RowsOK
<1>3. QED
  BY <1>2, FS_CardinalityType DEF ActiveOf, Active, RowsOK

\* Those of a tag are no more than those of no tag.
LEMMA TaggedFinite ==
    ASSUME NEW T, RowsOK(T), NEW u, NEW tag
    PROVE  /\ Tagged(T, ActiveOf(T, u), tag) \subseteq ActiveOf(T, u)
           /\ IsFiniteSet(Tagged(T, ActiveOf(T, u), tag))
           /\ Cardinality(Tagged(T, ActiveOf(T, u), tag)) \in Nat
           /\ Cardinality(Tagged(T, ActiveOf(T, u), tag)) <= Cardinality(ActiveOf(T, u))
<1>1. Tagged(T, ActiveOf(T, u), tag) \in SUBSET ActiveOf(T, u)
  BY DEF Tagged
<1>2. QED
  BY <1>1, ActiveFinite, FS_Subset, FS_CardinalityType

\* So finitely many aliases match a list's filters.
LEMMA MatchingType ==
    ASSUME NEW T, RowsOK(T), NEW u, NEW tag
    PROVE  /\ Matching(T, u, tag) \in SUBSET Aliases
           /\ IsFiniteSet(Matching(T, u, tag))
<1> DEFINE S == Tagged(T, ActiveOf(T, u), tag)
           f == [id \in S |-> T[id].alias]
<1>1. \A id \in S : T[id] \in Row
  BY ActiveFinite, TaggedFinite
<1>2. Matching(T, u, tag) \in SUBSET Aliases
  BY <1>1 DEF Matching, Row
<1>3. f \in Surjection(S, Matching(T, u, tag))
  BY DEF Surjection, Matching
<1>4. QED
  BY <1>2, <1>3, TaggedFinite, FS_Surjection

\* One category and the other are all there is, so that the counts by
\* category are the parts of one whole.
LEMMA CategoriesAddUp ==
    ASSUME RowsOK(rows), NEW u
    PROVE  /\ CountByCategory(u) \in [Categories -> Nat]
           /\ SumFunction(CountByCategory(u)) = Cardinality(ActiveOf(rows, u))
<1> DEFINE A == ActiveOf(rows, u)
           Of(c) == {id \in A : rows[id].category = c}
<1>1. IsFiniteSet(A) /\ \A id \in A : rows[id].category \in Categories
  BY ActiveFinite DEF Row
<1>2. ASSUME NEW c
      PROVE  IsFiniteSet(Of(c)) /\ Cardinality(Of(c)) \in Nat
  <2>1. Of(c) \in SUBSET A
    OBVIOUS
  <2>2. QED
    BY <1>1, <2>1, FS_Subset, FS_CardinalityType
<1>3. CountByCategory(u) \in [Categories -> Nat]
  BY <1>2 DEF CountByCategory
<1>4. \A c \in Categories : CountByCategory(u)[c] = Cardinality(Of(c))
  BY DEF CountByCategory
<1>5. \A c \in {"http", "sql"} : c \notin Categories => Cardinality(Of(c)) = 0
  <2> SUFFICES ASSUME NEW c \in {"http", "sql"}, c \notin Categories
               PROVE  Cardinality(Of(c)) = 0
    OBVIOUS
  <2>1. Of(c) = {}
    BY <1>1
  <2>2. QED
    BY <2>1, FS_EmptySet
<1>6. SumFunction(CountByCategory(u)) = Cardinality(Of("http")) + Cardinality(Of("sql"))
  <2>1. Cardinality(Of("http")) \in Nat /\ Cardinality(Of("sql")) \in Nat
    BY <1>2
  <2> HIDE DEF Of
  <2>2. QED
    <3> DEFINE f == CountByCategory(u)
    <3>1. /\ "http" \in Categories => f["http"] = Cardinality(Of("http"))
          /\ "sql" \in Categories => f["sql"] = Cardinality(Of("sql"))
          /\ "http" \notin Categories => Cardinality(Of("http")) = 0
          /\ "sql" \notin Categories => Cardinality(Of("sql")) = 0
      BY <1>4, <1>5
    <3>2. f \in [Categories -> Nat]
      BY <1>3
    <3> HIDE DEF f
    <3>3. SumFunction(f) = (IF "http" \in Categories THEN f["http"] ELSE 0)
                             + (IF "sql" \in Categories THEN f["sql"] ELSE 0)
      BY <3>2, SumOfCategories
    <3>4. SumFunction(f) = Cardinality(Of("http")) + Cardinality(Of("sql"))
      BY <2>1, <3>1, <3>3
    <3>5. QED
      BY <3>4 DEF f
<1>7. Of("http") \cup Of("sql") = A /\ Of("http") \cap Of("sql") = {}
  BY <1>1, CategoriesAssumption
<1>8. Cardinality(A) = Cardinality(Of("http")) + Cardinality(Of("sql"))
  <2>1. /\ IsFiniteSet(Of("http")) /\ IsFiniteSet(Of("sql"))
        /\ Cardinality(Of("http")) \in Nat /\ Cardinality(Of("sql")) \in Nat
    BY <1>2
  <2>2. Cardinality(Of("http") \cap Of("sql")) = 0
    BY <1>7, FS_EmptySet
  <2> DEFINE X == Of("http")
             Y == Of("sql")
  <2>3. IsFiniteSet(X) /\ IsFiniteSet(Y) /\ Cardinality(X \cap Y) = 0
    BY <2>1, <2>2
  <2>4. Cardinality(X) \in Nat /\ Cardinality(Y) \in Nat /\ A = X \cup Y
    BY <1>7, <2>1
  <2> HIDE DEF X, Y, A
  <2>5. Cardinality(X \cup Y) = Cardinality(X) + Cardinality(Y) - Cardinality(X \cap Y)
    BY <2>3, FS_Union
  <2>6. Cardinality(A) = Cardinality(X) + Cardinality(Y)
    BY <2>3, <2>4, <2>5
  <2>7. QED
    BY <2>6 DEF X, Y, A
<1>9. QED
  BY <1>3, <1>6, <1>8

\* A change of the store writes one row.
LEMMA LedgerWritesRow ==
    ASSUME RowsOK(rows), Ledger!Next
    PROVE  RowsOK(rows')
<1>1. Ledger!Row = Row
  BY DEF Ledger!Row, Row
<1>2. \E id \in Requests, row \in Row : rows' = [rows EXCEPT ![id] = row]
  <2>1. PICK u \in Users, a \in Aliases, id \in Requests :
          \/ Ledger!Register(u, a, id)
          \/ \E request \in Requests, changed \in SUBSET (Fields \cup {"policy"}) :
               Ledger!Update(u, a, id, request, changed)
          \/ \E request \in Requests : Ledger!Delete(u, a, id, request)
    BY DEF Ledger!Next
  <2>2. CASE Ledger!Register(u, a, id)
    BY <1>1, <2>2 DEF Ledger!Register
  <2>3. id \in Ledger!ActiveIds(rows, u, a) => rows[id] \in Row
    BY DEF Ledger!ActiveIds, Ledger!Active, RowsOK
  <2>4. CASE \E request \in Requests, changed \in SUBSET (Fields \cup {"policy"}) :
               Ledger!Update(u, a, id, request, changed)
    <3>1. PICK policy \in SUBSET Headers, meta \in [Fields -> Values] :
            rows' = [rows EXCEPT ![id] = [@ EXCEPT !.policy = policy, !.meta = meta]]
      BY <2>4 DEF Ledger!Update
    <3>2. rows[id] \in Row
      BY <2>3, <2>4 DEF Ledger!Update
    <3> DEFINE row == [rows[id] EXCEPT !.policy = policy, !.meta = meta]
    <3>3. row \in Row
      BY <3>2 DEF Row
    <3>4. rows' = [rows EXCEPT ![id] = row]
      BY <3>1
    <3> HIDE DEF row
    <3>5. QED
      BY <3>3, <3>4
  <2>5. CASE \E request \in Requests : Ledger!Delete(u, a, id, request)
    <3>1. rows[id] \in Row /\ rows' = [rows EXCEPT ![id] = Ledger!DeletedRow(rows[id])]
      BY <2>3, <2>5 DEF Ledger!Delete
    <3> DEFINE row == [rows[id] EXCEPT !.secret = Null, !.deleted = TRUE]
    <3>2. row \in Row
      BY <3>1 DEF Row
    <3>3. rows' = [rows EXCEPT ![id] = row]
      BY <3>1 DEF Ledger!DeletedRow
    <3> HIDE DEF row
    <3>4. QED
      BY <3>2, <3>3
  <2>6. QED
    BY <2>1, <2>2, <2>4, <2>5
<1>3. PICK id \in Requests, row \in Row : rows' = [rows EXCEPT ![id] = row]
  BY <1>2
<1> DEFINE Used(T) == {i \in Requests : T[i] # Null}
<1>4. rows' \in [Requests -> {Null} \cup Row]
  BY <1>3 DEF RowsOK
<1>5. Used(rows') \in SUBSET (Used(rows) \cup {id})
  BY <1>3 DEF RowsOK
<1>6. IsFiniteSet(Used(rows) \cup {id})
  <2>1. IsFiniteSet(Used(rows))
    BY DEF RowsOK
  <2> HIDE DEF Used
  <2>2. QED
    BY <2>1, FS_AddElement
<1>7. IsFiniteSet(Used(rows'))
  BY <1>5, <1>6, FS_Subset
<1>8. QED
  BY <1>4, <1>7 DEF RowsOK

-----------------------------------------------------------------------------
(* credential_list *)

\* The entries of two sequences put one behind the other
LEMMA Concatenated ==
    ASSUME NEW X, NEW s \in Seq(X), NEW t \in Seq(X)
    PROVE  /\ s \o t \in Seq(X)
           /\ DOMAIN (s \o t) = 1 .. (Len(s) + Len(t))
           /\ Len(s) \in Nat /\ Len(t) \in Nat
           /\ \A i \in 1 .. Len(s) : (s \o t)[i] = s[i]
           /\ \A i \in 1 .. Len(t) : (s \o t)[Len(s) + i] = t[i]
           /\ \A i \in 1 .. (Len(s) + Len(t)) :
                \/ i \in 1 .. Len(s) /\ (s \o t)[i] = s[i]
                \/ i - Len(s) \in 1 .. Len(t) /\ (s \o t)[i] = t[i - Len(s)]
           /\ Range(s \o t) = Range(s) \cup Range(t)
<1>1. Len(s) \in Nat /\ Len(t) \in Nat /\ DOMAIN s = 1 .. Len(s) /\ DOMAIN t = 1 .. Len(t)
  OBVIOUS
<1>2. s \o t \in Seq(X) /\ DOMAIN (s \o t) = 1 .. (Len(s) + Len(t))
  BY <1>1
<1>3. \A i \in 1 .. Len(s) : (s \o t)[i] = s[i]
  BY <1>1
<1>4. \A i \in 1 .. Len(t) : (s \o t)[Len(s) + i] = t[i]
  BY <1>1
<1>5. \A i \in 1 .. (Len(s) + Len(t)) :
        \/ i \in 1 .. Len(s) /\ (s \o t)[i] = s[i]
        \/ i - Len(s) \in 1 .. Len(t) /\ (s \o t)[i] = t[i - Len(s)]
  BY <1>1
<1>6. Range(s \o t) \subseteq Range(s) \cup Range(t)
  BY <1>1, <1>2, <1>5 DEF Range
<1>7. Range(s) \subseteq Range(s \o t)
  BY <1>1, <1>2, <1>3 DEF Range
<1>8. Range(t) \subseteq Range(s \o t)
  <2>1. \A i \in 1 .. Len(t) : Len(s) + i \in 1 .. (Len(s) + Len(t))
    BY <1>1
  <2>2. QED
    BY <1>1, <1>2, <1>4, <2>1 DEF Range
<1>9. QED
  BY <1>1, <1>2, <1>3, <1>4, <1>5, <1>6, <1>7, <1>8

\* The first page is asked for: what matches is all there is to know.
LEMMA BeginKeeps ==
    ASSUME NEW T, RowsOK(T), NEW l \in ListState, ListOK(l, T), l.pc = "idle",
           NEW u \in Users, NEW tag \in {Null} \cup Tags
    PROVE  LET M == Matching(T, u, tag)
               m == [l EXCEPT !.pc = "asking", !.owner = u, !.tag = tag,
                              !.throughout = M, !.ever = M]
           IN  m \in ListState /\ ListOK(m, T)
<1> DEFINE M == Matching(T, u, tag)
           m == [l EXCEPT !.pc = "asking", !.owner = u, !.tag = tag,
                          !.throughout = M, !.ever = M]
<1>1. M \in SUBSET Aliases
  BY MatchingType
<1> HIDE DEF M
<1>2. m \in ListState
  BY <1>1 DEF ListState
<1>3. /\ m.pc = "asking" /\ m.owner = u /\ m.tag = tag /\ m.cursor = Null
      /\ m.listed = <<>> /\ m.throughout = M /\ m.ever = M
  BY DEF ListState, ListOK
<1> HIDE DEF m
<1>4. Range(m.listed) = {} /\ DOMAIN m.listed = {}
  BY <1>3 DEF Range
<1>5. ListOK(m, T)
  BY <1>3, <1>4 DEF ListOK, Increasing, M
<1>6. QED
  BY <1>2, <1>5 DEF m, M

\* Whatever limit its caller gives, a page goes on where the one before
\* ended and leaves out nothing before its own end.
LEMMA PageKeeps ==
    ASSUME NEW T, RowsOK(T), NEW l \in ListState, ListOK(l, T), l.pc = "asking",
           NEW limit \in 1 .. MaxListLimit
    PROVE  LET past    == Past(Matching(T, l.owner, l.tag), l.cursor)
               fetched == Fetched(past, RepoLimit(limit + 1))
               next    == NextCursor(fetched, limit)
               page    == SubSeq(fetched, 1, Min({Len(fetched), limit}))
               m       == [l EXCEPT !.listed = @ \o page, !.cursor = next,
                                    !.pc = IF next = Null THEN "done" ELSE "asking"]
           IN  m \in ListState /\ ListOK(m, T)
<1> DEFINE M == Matching(T, l.owner, l.tag)
           past == Past(M, l.cursor)
           fetched == Fetched(past, limit + 1)
           next == NextCursor(fetched, limit)
           page == SubSeq(fetched, 1, Min({Len(fetched), limit}))
           m == [l EXCEPT !.listed = @ \o page, !.cursor = next,
                          !.pc = IF next = Null THEN "done" ELSE "asking"]
<1>1. RepoLimit(limit + 1) = limit + 1
  <2> DEFINE c == CHOOSE x \in {limit + 1, MaxListLimit + 1} :
                    \A y \in {limit + 1, MaxListLimit + 1} : x <= y
  <2>1. MaxListLimit \in Nat /\ limit \in Nat /\ limit <= MaxListLimit
    BY ListingAssumption
  <2>2. limit + 1 \in Nat /\ MaxListLimit + 1 \in Nat /\ limit + 1 <= MaxListLimit + 1
    BY <2>1
  <2>3. c = limit + 1
    BY <2>2
  <2>4. Min({limit + 1, MaxListLimit + 1}) = c
    BY DEF Min
  <2> HIDE DEF c
  <2>5. QED
    BY <2>1, <2>3, <2>4 DEF RepoLimit
<1>2. M \in SUBSET Aliases /\ IsFiniteSet(M) /\ M \subseteq l.ever /\ l.throughout \subseteq M
  BY MatchingType DEF ListOK
<1> HIDE DEF M
<1>3. past \in SUBSET Aliases /\ IsFiniteSet(past) /\ past \in SUBSET M
  <2>1. past \in SUBSET M
    BY DEF Past
  <2>2. QED
    BY <1>2, <2>1, FS_Subset
<1>4. /\ \A x \in past : l.cursor = Null \/ x > l.cursor
      /\ \A x \in M : l.cursor # Null => x \in past \/ ~(x > l.cursor)
      /\ l.cursor = Null => past = M
  BY DEF Past
<1> HIDE DEF past
<1>5. limit \in Nat \ {0}
  BY ListingAssumption
<1>6. PICK k \in Nat :
        /\ page \in [1 .. k -> past] /\ page \in Seq(past) /\ Len(page) = k
        /\ Increasing(page)
        /\ next = Null => \A x \in past : \E i \in 1 .. k : page[i] = x
        /\ next # Null =>
             /\ next \in past /\ \A i \in 1 .. k : page[i] <= next
             /\ \A x \in past : x <= next => \E i \in 1 .. k : page[i] = x
  BY <1>3, <1>5, PageIsPrefix
<1> HIDE DEF next, page, fetched
<1> DEFINE cat == l.listed \o page
<1>7. l.listed \in Seq(Aliases) /\ page \in Seq(Aliases)
  BY <1>3, <1>6 DEF ListState
<1>8. /\ cat \in Seq(Aliases)
      /\ DOMAIN cat = 1 .. (Len(l.listed) + k)
      /\ Len(l.listed) \in Nat /\ DOMAIN l.listed = 1 .. Len(l.listed)
      /\ \A i \in 1 .. (Len(l.listed) + k) :
           \/ i \in 1 .. Len(l.listed) /\ cat[i] = l.listed[i]
           \/ i - Len(l.listed) \in 1 .. k /\ cat[i] = page[i - Len(l.listed)]
      /\ Range(cat) = Range(l.listed) \cup Range(page)
  <2>1. Len(page) = k
    BY <1>6
  <2>2. /\ cat \in Seq(Aliases)
        /\ DOMAIN cat = 1 .. (Len(l.listed) + Len(page))
        /\ Len(l.listed) \in Nat
        /\ \A i \in 1 .. (Len(l.listed) + Len(page)) :
             \/ i \in 1 .. Len(l.listed) /\ cat[i] = l.listed[i]
             \/ i - Len(l.listed) \in 1 .. Len(page) /\ cat[i] = page[i - Len(l.listed)]
        /\ Range(cat) = Range(l.listed) \cup Range(page)
    BY ONLY <1>7, Concatenated
  <2>3. DOMAIN l.listed = 1 .. Len(l.listed)
    BY <1>7
  <2> HIDE DEF cat
  <2>4. QED
    BY <2>1, <2>2, <2>3
<1>9. Range(page) \subseteq past /\ \A i \in 1 .. k : page[i] \in Range(page)
  BY <1>6 DEF Range
<1> HIDE DEF cat
<1>10. Aliases \subseteq Nat \ {0} /\ \A n \in Aliases : n # Null
  BY ListingAssumption
<1>11. /\ Increasing(l.listed) /\ Range(l.listed) \subseteq l.ever /\ l.owner \in Users
       /\ \A i \in DOMAIN l.listed : l.cursor # Null /\ l.listed[i] <= l.cursor
       /\ \A a \in l.throughout :
            (l.cursor # Null /\ a <= l.cursor) => a \in Range(l.listed)
       /\ l.cursor \in {Null} \cup Aliases
  BY DEF ListOK, ListState
<1>12. Increasing(cat)
  <2> SUFFICES ASSUME NEW i \in 1 .. (Len(l.listed) + k), NEW j \in 1 .. (Len(l.listed) + k),
                      i < j
               PROVE  cat[i] < cat[j]
    BY <1>8 DEF Increasing
  <2>1. CASE j \in 1 .. Len(l.listed) /\ cat[j] = l.listed[j]
    <3>1. i \in 1 .. Len(l.listed) /\ cat[i] = l.listed[i]
      BY <1>8, <2>1
    <3>2. QED
      BY <1>8, <1>11, <2>1, <3>1 DEF Increasing
  <2>2. CASE j - Len(l.listed) \in 1 .. k /\ cat[j] = page[j - Len(l.listed)]
    <3>1. CASE i \in 1 .. Len(l.listed) /\ cat[i] = l.listed[i]
      <4>1. l.cursor # Null /\ l.listed[i] <= l.cursor /\ l.listed[i] \in Aliases
        BY <1>7, <1>8, <1>11, <3>1
      <4>2. cat[j] \in past /\ cat[j] > l.cursor
        BY <1>4, <1>6, <2>2, <4>1
      <4>3. cat[i] \in Nat /\ cat[j] \in Nat /\ l.cursor \in Nat
        BY <1>3, <1>10, <1>11, <3>1, <4>1, <4>2
      <4>4. QED
        BY <3>1, <4>1, <4>2, <4>3
    <3>2. CASE i - Len(l.listed) \in 1 .. k /\ cat[i] = page[i - Len(l.listed)]
      <4>1. i - Len(l.listed) < j - Len(l.listed)
        BY <1>8
      <4>2. QED
        BY <1>6, <2>2, <3>2, <4>1 DEF Increasing
    <3>3. QED
      BY <1>8, <3>1, <3>2
  <2>3. QED
    BY <1>8, <2>1, <2>2
<1>13. \A i \in DOMAIN cat : next # Null => cat[i] <= next
  <2> SUFFICES ASSUME NEW i \in 1 .. (Len(l.listed) + k), next # Null
               PROVE  cat[i] <= next
    BY <1>8
  <2>1. CASE i \in 1 .. Len(l.listed) /\ cat[i] = l.listed[i]
    <3>1. l.cursor # Null /\ l.listed[i] <= l.cursor /\ l.listed[i] \in Aliases
      BY <1>7, <1>8, <1>11, <2>1
    <3>2. next \in past /\ next > l.cursor
      BY <1>4, <1>6, <3>1
    <3>3. cat[i] \in Nat /\ next \in Nat /\ l.cursor \in Nat
      BY <1>3, <1>10, <1>11, <2>1, <3>1, <3>2
    <3>4. QED
      BY <2>1, <3>1, <3>2, <3>3
  <2>2. CASE i - Len(l.listed) \in 1 .. k /\ cat[i] = page[i - Len(l.listed)]
    BY <1>6, <2>2
  <2>3. QED
    BY <1>8, <2>1, <2>2
<1>14. \A a \in l.throughout : (next = Null \/ a <= next) => a \in Range(cat)
  <2> SUFFICES ASSUME NEW a \in l.throughout, next = Null \/ a <= next
               PROVE  a \in Range(cat)
    OBVIOUS
  <2>1. a \in M /\ a \in Nat
    BY <1>2, <1>10
  <2>2. CASE a \in past
    <3>1. a \in Range(page)
      BY <1>6, <1>9, <2>2
    <3>2. QED
      BY <1>8, <3>1
  <2>3. CASE a \notin past
    <3>1. l.cursor # Null /\ ~(a > l.cursor)
      BY <1>4, <2>1, <2>3
    <3>2. l.cursor \in Nat
      BY <1>10, <1>11, <3>1
    <3>3. a <= l.cursor
      BY <2>1, <3>1, <3>2
    <3>4. QED
      BY <1>8, <1>11, <3>1, <3>3
  <2>4. QED
    BY <2>2, <2>3
<1>15. next \in {Null} \cup Aliases
  BY <1>3, <1>6
<1>16. /\ m.pc = (IF next = Null THEN "done" ELSE "asking") /\ m.owner = l.owner
       /\ m.tag = l.tag /\ m.cursor = next /\ m.listed = cat
       /\ m.throughout = l.throughout /\ m.ever = l.ever
       /\ m \in ListState
  BY <1>8, <1>15 DEF ListState, cat
<1> HIDE DEF m
<1>17. Range(cat) \subseteq l.ever
  BY <1>2, <1>3, <1>8, <1>9, <1>11
<1>18. m.pc # "idle" /\ (m.pc = "asking" => next # Null) /\ (m.pc = "done" => next = Null)
  BY <1>16
<1>19. m.pc = "asking" =>
         /\ m.owner \in Users
         /\ m.throughout \subseteq Matching(T, m.owner, m.tag)
         /\ Matching(T, m.owner, m.tag) \subseteq m.ever
         /\ \A i \in DOMAIN m.listed : m.cursor # Null /\ m.listed[i] <= m.cursor
  BY <1>2, <1>11, <1>13, <1>16, <1>18 DEF M
<1>20. \A a \in m.throughout :
         (m.pc = "done" \/ (m.cursor # Null /\ a <= m.cursor)) => a \in Range(m.listed)
  BY <1>14, <1>16, <1>18
<1>21. ListOK(m, T)
  BY <1>12, <1>16, <1>17, <1>18, <1>19, <1>20 DEF ListOK
<1>22. m \in ListState
  BY <1>16
<1>23. QED
  BY <1>1, <1>21, <1>22 DEF m, page, next, fetched, past, M

\* A page that is refused leaves what was listed.
LEMMA RefusedKeeps ==
    ASSUME NEW T, NEW l \in ListState, ListOK(l, T)
    PROVE  LET m == [l EXCEPT !.pc = "refused"] IN m \in ListState /\ ListOK(m, T)
<1> DEFINE m == [l EXCEPT !.pc = "refused"]
<1>1. /\ m \in ListState /\ m.pc = "refused" /\ m.listed = l.listed /\ m.ever = l.ever
  BY DEF ListState
<1> HIDE DEF m
<1>2. ListOK(m, T)
  BY <1>1 DEF ListOK
<1>3. QED
  BY <1>1, <1>2 DEF m

\* A change of the table narrows what matched throughout and widens what ever
\* matched.
LEMMA ChangeKeepsList ==
    ASSUME NEW T, RowsOK(T), NEW U, RowsOK(U), NEW l \in ListState, ListOK(l, T)
    PROVE  LET now == IF l.owner = Null THEN {} ELSE Matching(U, l.owner, l.tag)
               m   == IF l.pc = "asking"
                      THEN [l EXCEPT !.throughout = @ \cap now, !.ever = @ \cup now]
                      ELSE l
           IN  m \in ListState /\ ListOK(m, U)
<1> DEFINE now == IF l.owner = Null THEN {} ELSE Matching(U, l.owner, l.tag)
           m == [l EXCEPT !.throughout = @ \cap now, !.ever = @ \cup now]
<1>1. CASE l.pc # "asking"
  BY <1>1 DEF ListOK
<1>2. CASE l.pc = "asking"
  <2>1. l.owner \in Users /\ now = Matching(U, l.owner, l.tag) /\ now \in SUBSET Aliases
    BY <1>2, ListingAssumption, MatchingType DEF ListOK
  <2> HIDE DEF now
  <2>2. /\ m \in ListState /\ m.pc = l.pc /\ m.owner = l.owner /\ m.tag = l.tag
        /\ m.cursor = l.cursor /\ m.listed = l.listed
        /\ m.throughout = l.throughout \cap now /\ m.ever = l.ever \cup now
    BY <2>1 DEF ListState
  <2> HIDE DEF m
  <2>3. ListOK(m, U)
    BY <1>2, <2>1, <2>2 DEF ListOK
  <2>4. QED
    BY <1>2, <2>2, <2>3 DEF m, now
<1>3. QED
  BY <1>1, <1>2

-----------------------------------------------------------------------------
(* credential_summary *)

\* The first count is the total itself.
LEMMA TotalKeeps ==
    ASSUME NEW T, RowsOK(T), NEW s \in SummaryState, SummaryOK(s, T), s.pc = "idle",
           NEW u \in Users
    PROVE  LET m == [s EXCEPT !.pc = "by_category", !.owner = u,
                              !.total = Cardinality(ActiveOf(T, u))]
           IN  m \in SummaryState /\ SummaryOK(m, T)
<1> DEFINE n == Cardinality(ActiveOf(T, u))
           m == [s EXCEPT !.pc = "by_category", !.owner = u, !.total = n]
<1>1. n \in Nat
  BY ActiveFinite
<1> HIDE DEF n
<1>2. /\ m \in SummaryState /\ m.pc = "by_category" /\ m.owner = u /\ m.total = n
      /\ m.added = 0 /\ m.removed = 0
  BY <1>1 DEF SummaryState, SummaryOK
<1> HIDE DEF m
<1>3. Near(m, Cardinality(ActiveOf(T, m.owner)))
  BY <1>1, <1>2 DEF Near, n
<1>4. SummaryOK(m, T)
  BY <1>2, <1>3 DEF SummaryOK
<1>5. QED
  BY <1>2, <1>4 DEF m, n

\* The parts are counted of the table as it is then, and add up to as much.
LEMMA ByCategoryKeeps ==
    ASSUME RowsOK(rows), NEW s \in SummaryState, SummaryOK(s, rows), s.pc = "by_category"
    PROVE  LET m == [s EXCEPT !.pc = "tags", !.by_category = CountByCategory(s.owner)]
           IN  m \in SummaryState /\ SummaryOK(m, rows)
<1> DEFINE parts == CountByCategory(s.owner)
           m == [s EXCEPT !.pc = "tags", !.by_category = parts]
<1>1. /\ parts \in [Categories -> Nat]
      /\ SumFunction(parts) = Cardinality(ActiveOf(rows, s.owner))
  BY CategoriesAddUp
<1> HIDE DEF parts
<1>2. /\ m \in SummaryState /\ m.pc = "tags" /\ m.owner = s.owner /\ m.total = s.total
      /\ m.added = s.added /\ m.removed = s.removed /\ m.by_category = parts
  BY <1>1 DEF SummaryState
<1> HIDE DEF m
<1>3. Near(m, Cardinality(ActiveOf(rows, m.owner)))
  BY <1>2 DEF SummaryOK, Near
<1>4. Near(m, SumFunction(m.by_category))
  BY <1>1, <1>2, <1>3
<1>5. SummaryOK(m, rows)
  BY <1>2, <1>3, <1>4 DEF SummaryOK
<1>6. QED
  BY <1>2, <1>5 DEF m, parts

\* The credentials of a tag are among those counted by category.
LEMMA ByTagKeeps ==
    ASSUME RowsOK(rows), NEW s \in SummaryState, SummaryOK(s, rows), s.pc = "tags"
    PROVE  LET m == [s EXCEPT !.pc = "done", !.tags = CountTags(s.owner)]
           IN  m \in SummaryState /\ SummaryOK(m, rows)
<1> DEFINE n == Cardinality(ActiveOf(rows, s.owner))
           m == [s EXCEPT !.pc = "done", !.tags = CountTags(s.owner)]
<1>1. /\ n \in Nat /\ CountTags(s.owner) \in [Tags -> Nat]
      /\ \A t \in Tags : CountTags(s.owner)[t] <= n
  BY ActiveFinite, TaggedFinite DEF CountTags
<1>2. /\ m \in SummaryState /\ m.pc = "done" /\ m.total = s.total
      /\ m.added = s.added /\ m.removed = s.removed /\ m.by_category = s.by_category
      /\ m.tags = CountTags(s.owner)
  BY <1>1 DEF SummaryState
<1> HIDE DEF m
<1>3. n <= s.total + s.added
  BY DEF SummaryOK, Near
<1>4. s.total \in Nat /\ s.added \in Nat
  BY DEF SummaryState
<1> HIDE DEF n
<1>5. \A t \in Tags : m.tags[t] <= m.total + m.added
  <2> SUFFICES ASSUME NEW t \in Tags
               PROVE  CountTags(s.owner)[t] <= s.total + s.added
    BY <1>2
  <2>1. CountTags(s.owner)[t] \in Nat /\ CountTags(s.owner)[t] <= n
    BY <1>1
  <2>2. QED
    BY <1>1, <1>3, <1>4, <2>1
<1>6. Near(m, SumFunction(m.by_category))
  BY <1>2 DEF SummaryOK, Near
<1>7. SummaryOK(m, rows)
  BY <1>2, <1>5, <1>6 DEF SummaryOK
<1>8. QED
  BY <1>2, <1>7 DEF m

\* What a change adds and removes moves the count by no more than that.
LEMMA DifferenceBounds ==
    ASSUME NEW A, NEW B, IsFiniteSet(A), IsFiniteSet(B)
    PROVE  /\ Cardinality(A) \in Nat /\ Cardinality(B) \in Nat
           /\ Cardinality(B \ A) \in Nat
           /\ Cardinality(B) <= Cardinality(A) + Cardinality(B \ A)
<1>1. /\ Cardinality(A) \in Nat /\ Cardinality(B) \in Nat
      /\ IsFiniteSet(B \ A) /\ Cardinality(B \ A) = Cardinality(B) - Cardinality(B \cap A)
  BY FS_CardinalityType, FS_Difference
<1>2. Cardinality(B \ A) \in Nat
  BY <1>1, FS_CardinalityType
<1>3. B \cap A \in SUBSET A
  OBVIOUS
<1>4. /\ IsFiniteSet(B \cap A) /\ Cardinality(B \cap A) <= Cardinality(A)
  BY <1>3, FS_Subset
<1>5. Cardinality(B \cap A) \in Nat
  BY <1>4, FS_CardinalityType
<1>6. QED
  BY <1>1, <1>2, <1>4, <1>5

\* What a change adds to the active credentials it adds to the record of it.
LEMMA ChangeKeepsSummary ==
    ASSUME NEW T, RowsOK(T), NEW U, RowsOK(U), NEW s \in SummaryState, SummaryOK(s, T)
    PROVE  LET before == ActiveOf(T, s.owner)
               after  == ActiveOf(U, s.owner)
               m      == IF s.pc \in {"by_category", "tags"}
                         THEN [s EXCEPT !.added = @ + Cardinality(after \ before),
                                        !.removed = @ + Cardinality(before \ after)]
                         ELSE s
           IN  m \in SummaryState /\ SummaryOK(m, U)
<1> DEFINE before == ActiveOf(T, s.owner)
           after == ActiveOf(U, s.owner)
           new == Cardinality(after \ before)
           gone == Cardinality(before \ after)
           m == [s EXCEPT !.added = @ + new, !.removed = @ + gone]
<1>1. CASE s.pc \notin {"by_category", "tags"}
  BY <1>1 DEF SummaryOK
<1>2. CASE s.pc \in {"by_category", "tags"}
  <2>1. IsFiniteSet(before) /\ IsFiniteSet(after)
    BY ActiveFinite
  <2>2. /\ Cardinality(before) \in Nat /\ Cardinality(after) \in Nat
        /\ new \in Nat /\ gone \in Nat
        /\ Cardinality(after) <= Cardinality(before) + new
        /\ Cardinality(before) <= Cardinality(after) + gone
    BY <2>1, DifferenceBounds
  <2> DEFINE b == Cardinality(before)
             a == Cardinality(after)
  <2>3. Near(s, b)
    BY <1>2 DEF SummaryOK
  <2>4. a \in Nat /\ b \in Nat /\ a <= b + new /\ b <= a + gone
    BY <2>2
  <2>5. s.total \in Nat /\ s.added \in Nat /\ s.removed \in Nat
    BY DEF SummaryState
  <2> HIDE DEF new, gone
  <2>6. /\ m \in SummaryState /\ m.pc = s.pc /\ m.owner = s.owner /\ m.total = s.total
        /\ m.added = s.added + new /\ m.removed = s.removed + gone
        /\ m.by_category = s.by_category
    <3>1. s.added + new \in Nat /\ s.removed + gone \in Nat
      BY <2>2, <2>5
    <3>2. m = [s EXCEPT !.added = s.added + new, !.removed = s.removed + gone]
      BY DEF SummaryState
    <3>3. QED
      BY <3>1, <3>2 DEF SummaryState
  <2> HIDE DEF m, a, b
  <2>7. Near(m, a)
    BY <2>2, <2>3, <2>4, <2>5, <2>6 DEF Near
  <2>8. s.pc = "tags" => Near(m, SumFunction(m.by_category))
    <3>1. SUFFICES ASSUME s.pc = "tags"
                   PROVE  Near(m, SumFunction(s.by_category))
      BY <2>6
    <3>2. SumFunction(s.by_category) \in Nat
      <4>1. s.by_category \in [Categories -> Nat]
        BY DEF SummaryState
      <4>2. QED
        BY <4>1, SumOfCategories
    <3>3. Near(s, SumFunction(s.by_category))
      BY <3>1 DEF SummaryOK
    <3>4. QED
      BY <2>2, <2>5, <2>6, <3>2, <3>3 DEF Near
  <2>9. SummaryOK(m, U)
    BY <1>2, <2>6, <2>7, <2>8 DEF SummaryOK, a
  <2>10. QED
    BY <1>2, <2>6, <2>9 DEF m, new, gone
<1>3. QED
  BY <1>1, <1>2

-----------------------------------------------------------------------------
(* The theorems *)

\* Before anything is read
LEMMA InitIInv == Init => IInv
<1> SUFFICES ASSUME Init
             PROVE  IInv
  OBVIOUS
<1>1. RowsOK(rows)
  <2>1. {id \in Requests : rows[id] # Null} = {}
    BY DEF Init, Ledger!Init
  <2>2. QED
    BY <2>1, FS_EmptySet DEF Init, Ledger!Init, RowsOK
<1>2. list \in [Readers -> ListState]
  BY DEF Init, ListState
<1>3. summary \in [Readers -> SummaryState]
  BY DEF Init, SummaryState
<1>4. ASSUME NEW r \in Readers
      PROVE  ListOK(list[r], rows) /\ SummaryOK(summary[r], rows)
  <2>1. /\ list[r].pc = "idle" /\ list[r].listed = <<>> /\ list[r].throughout = {}
        /\ list[r].cursor = Null /\ Range(list[r].listed) = {}
    BY DEF Init, Range
  <2>2. ListOK(list[r], rows)
    BY <2>1 DEF ListOK, Increasing
  <2>3. SummaryOK(summary[r], rows)
    BY DEF Init, SummaryOK
  <2>4. QED
    BY <2>2, <2>3
<1>5. QED
  BY <1>1, <1>2, <1>3, <1>4 DEF IInv

\* One step per action, each by the lemma about the record it rewrites.
LEMMA IInvStep ==
    ASSUME IInv, [Next]_vars
    PROVE  IInv'
<1>1. /\ RowsOK(rows)
      /\ list \in [Readers -> ListState] /\ summary \in [Readers -> SummaryState]
      /\ \A r \in Readers : ListOK(list[r], rows) /\ SummaryOK(summary[r], rows)
  BY DEF IInv
<1>2. ASSUME NEW r \in Readers, NEW l \in ListState, ListOK(l, rows),
             list' = [list EXCEPT ![r] = l], rows' = rows, summary' = summary
      PROVE  IInv'
  BY <1>1, <1>2 DEF IInv
<1>3. ASSUME NEW r \in Readers, NEW s \in SummaryState, SummaryOK(s, rows),
             summary' = [summary EXCEPT ![r] = s], rows' = rows, list' = list
      PROVE  IInv'
  BY <1>1, <1>3 DEF IInv
<1>4. ASSUME NEW r \in Readers, Begin(r)
      PROVE  IInv'
  <2>1. PICK u \in Users, tag \in {Null} \cup Tags :
          list' = [list EXCEPT ![r] =
             [@ EXCEPT !.pc = "asking", !.owner = u, !.tag = tag,
                       !.throughout = Matching(rows, u, tag), !.ever = Matching(rows, u, tag)]]
    BY <1>4 DEF Begin
  <2> DEFINE m == [list[r] EXCEPT !.pc = "asking", !.owner = u, !.tag = tag,
                       !.throughout = Matching(rows, u, tag), !.ever = Matching(rows, u, tag)]
  <2>2. list[r] \in ListState /\ list[r].pc = "idle" /\ ListOK(list[r], rows)
    BY <1>1, <1>4 DEF Begin, Idle
  <2>3. m \in ListState /\ ListOK(m, rows)
    BY <1>1, <2>2, BeginKeeps
  <2>4. list' = [list EXCEPT ![r] = m] /\ rows' = rows /\ summary' = summary
    BY <1>4, <2>1 DEF Begin
  <2> HIDE DEF m
  <2>5. QED
    BY <1>2, <2>3, <2>4
<1>5. ASSUME NEW r \in Readers, Page(r)
      PROVE  IInv'
  <2>1. /\ list[r] \in ListState /\ list[r].pc = "asking" /\ ListOK(list[r], rows)
        /\ rows' = rows /\ summary' = summary
    BY <1>1, <1>5 DEF Page
  <2> DEFINE Past1 == Past(Matching(rows, list[r].owner, list[r].tag), list[r].cursor)
             Fetched1(limit) == Fetched(Past1, RepoLimit(limit + 1))
             Next1(limit) == NextCursor(Fetched1(limit), limit)
             Page1(limit) == SubSeq(Fetched1(limit), 1, Min({Len(Fetched1(limit)), limit}))
             Read(limit) == [list[r] EXCEPT !.listed = @ \o Page1(limit), !.cursor = Next1(limit),
                                !.pc = IF Next1(limit) = Null THEN "done" ELSE "asking"]
             refused == [list[r] EXCEPT !.pc = "refused"]
  <2>2. PICK asked \in {Null} \cup 0 .. MaxListLimit + 1 :
          list' = IF ~ValidLimit(asked) THEN [list EXCEPT ![r] = refused]
                  ELSE [list EXCEPT ![r] = Read(PageLimit(asked))]
    <3>1. PICK asked \in {Null} \cup 0 .. MaxListLimit + 1 :
          LET limit   == PageLimit(asked)
              past    == Past(Matching(rows, list[r].owner, list[r].tag), list[r].cursor)
              fetched == Fetched(past, RepoLimit(limit + 1))
              next    == NextCursor(fetched, limit)
              page    == SubSeq(fetched, 1, Min({Len(fetched), limit}))
          IN  list' =
                IF ~ValidLimit(asked) THEN [list EXCEPT ![r].pc = "refused"]
                ELSE [list EXCEPT ![r] =
                        [@ EXCEPT !.listed = list[r].listed \o page, !.cursor = next,
                                  !.pc = IF next = Null THEN "done" ELSE "asking"]]
      BY <1>5 DEF Page
    <3>2. [list EXCEPT ![r].pc = "refused"] = [list EXCEPT ![r] = refused]
      BY <1>1
    <3>3. [list EXCEPT ![r] =
             [@ EXCEPT !.listed = list[r].listed \o Page1(PageLimit(asked)),
                       !.cursor = Next1(PageLimit(asked)),
                       !.pc = IF Next1(PageLimit(asked)) = Null THEN "done" ELSE "asking"]]
            = [list EXCEPT ![r] = Read(PageLimit(asked))]
      BY <1>1
    <3>4. QED
      BY <3>1, <3>2, <3>3
  <2>3. CASE ~ValidLimit(asked)
    <3>1. refused \in ListState /\ ListOK(refused, rows)
      BY <2>1, RefusedKeeps
    <3>2. list' = [list EXCEPT ![r] = refused]
      BY <2>2, <2>3
    <3> HIDE DEF refused
    <3>3. QED
      BY <1>2, <2>1, <3>1, <3>2
  <2>4. CASE ValidLimit(asked)
    <3>1. PageLimit(asked) \in 1 .. MaxListLimit
      BY <2>4, ListingAssumption DEF ValidLimit, PageLimit
    <3>2. Read(PageLimit(asked)) \in ListState /\ ListOK(Read(PageLimit(asked)), rows)
      BY <1>1, <2>1, <3>1, PageKeeps
    <3>3. list' = [list EXCEPT ![r] = Read(PageLimit(asked))]
      BY <2>2, <2>4
    <3> HIDE DEF Read
    <3>4. QED
      BY <1>2, <2>1, <3>2, <3>3
  <2>5. QED
    BY <2>3, <2>4
<1>6. ASSUME NEW r \in Readers, Total(r)
      PROVE  IInv'
  <2>1. PICK u \in Users : summary' = [summary EXCEPT ![r] =
             [@ EXCEPT !.pc = "by_category", !.owner = u,
                       !.total = Cardinality(ActiveOf(rows, u))]]
    BY <1>6 DEF Total
  <2> DEFINE m == [summary[r] EXCEPT !.pc = "by_category", !.owner = u,
                       !.total = Cardinality(ActiveOf(rows, u))]
  <2>2. summary[r] \in SummaryState /\ summary[r].pc = "idle" /\ SummaryOK(summary[r], rows)
    BY <1>1, <1>6 DEF Total, Idle
  <2>3. m \in SummaryState /\ SummaryOK(m, rows)
    BY <1>1, <2>2, TotalKeeps
  <2>4. summary' = [summary EXCEPT ![r] = m] /\ rows' = rows /\ list' = list
    BY <1>6, <2>1 DEF Total
  <2> HIDE DEF m
  <2>5. QED
    BY <1>3, <2>3, <2>4
<1>7. ASSUME NEW r \in Readers, ByCategory(r)
      PROVE  IInv'
  <2> DEFINE m == [summary[r] EXCEPT !.pc = "tags",
                                     !.by_category = CountByCategory(summary[r].owner)]
  <2>1. /\ summary[r] \in SummaryState /\ summary[r].pc = "by_category"
        /\ SummaryOK(summary[r], rows)
    BY <1>1, <1>7 DEF ByCategory
  <2>2. m \in SummaryState /\ SummaryOK(m, rows)
    BY <1>1, <2>1, ByCategoryKeeps
  <2>3. summary' = [summary EXCEPT ![r] = m] /\ rows' = rows /\ list' = list
    BY <1>7 DEF ByCategory
  <2> HIDE DEF m
  <2>4. QED
    BY <1>3, <2>2, <2>3
<1>8. ASSUME NEW r \in Readers, ByTag(r)
      PROVE  IInv'
  <2> DEFINE m == [summary[r] EXCEPT !.pc = "done", !.tags = CountTags(summary[r].owner)]
  <2>1. summary[r] \in SummaryState /\ summary[r].pc = "tags" /\ SummaryOK(summary[r], rows)
    BY <1>1, <1>8 DEF ByTag
  <2>2. m \in SummaryState /\ SummaryOK(m, rows)
    BY <1>1, <2>1, ByTagKeeps
  <2>3. summary' = [summary EXCEPT ![r] = m] /\ rows' = rows /\ list' = list
    BY <1>8 DEF ByTag
  <2> HIDE DEF m
  <2>4. QED
    BY <1>3, <2>2, <2>3
<1>9. ASSUME Change
      PROVE  IInv'
  <2>1. RowsOK(rows')
    BY <1>1, <1>9, LedgerWritesRow DEF Change
  <2> DEFINE Now(r) == IF list[r].owner = Null THEN {}
                       ELSE Matching(rows', list[r].owner, list[r].tag)
             L(r) == IF list[r].pc = "asking"
                     THEN [list[r] EXCEPT !.throughout = @ \cap Now(r), !.ever = @ \cup Now(r)]
                     ELSE list[r]
             Before(r) == ActiveOf(rows, summary[r].owner)
             After(r) == ActiveOf(rows', summary[r].owner)
             S(r) == IF summary[r].pc \in {"by_category", "tags"}
                     THEN [summary[r] EXCEPT !.added = @ + Cardinality(After(r) \ Before(r)),
                                             !.removed = @ + Cardinality(Before(r) \ After(r))]
                     ELSE summary[r]
  <2>2. ASSUME NEW r \in Readers
        PROVE  /\ L(r) \in ListState /\ ListOK(L(r), rows')
               /\ S(r) \in SummaryState /\ SummaryOK(S(r), rows')
    <3>1. /\ list[r] \in ListState /\ ListOK(list[r], rows)
          /\ summary[r] \in SummaryState /\ SummaryOK(summary[r], rows)
      BY <1>1
    <3>2. L(r) \in ListState /\ ListOK(L(r), rows')
      BY ONLY <1>1, <2>1, <3>1, ChangeKeepsList
    <3>3. S(r) \in SummaryState /\ SummaryOK(S(r), rows')
      BY ONLY <1>1, <2>1, <3>1, ChangeKeepsSummary
    <3>4. QED
      BY <3>2, <3>3
  <2>3. list' = [r \in Readers |-> L(r)] /\ summary' = [r \in Readers |-> S(r)]
    BY <1>9 DEF Change
  <2> HIDE DEF L, S
  <2>4. QED
    BY <2>1, <2>2, <2>3 DEF IInv
<1>10. CASE UNCHANGED vars
  BY <1>1, <1>10 DEF vars, IInv
<1>11. QED
  BY <1>4, <1>5, <1>6, <1>7, <1>8, <1>9, <1>10 DEF Next, Finished

\* What readers have gathered agrees with the table between any two SELECTs,
\* however many readers, changes, aliases and pages there are.
THEOREM InductiveInvariant == Spec => []IInv
<1>1. ASSUME IInv, [Next]_vars
      PROVE  IInv'
  BY <1>1, IInvStep
<1>2. QED
  BY <1>1, InitIInv, PTL DEF Spec

\* A list read page by page misses no credential that matched all along,
\* repeats none and shows none that never matched.
THEOREM ListsAreComplete == Spec => []ListingIsComplete
<1>1. IInv => ListingIsComplete
  <2> SUFFICES ASSUME IInv, NEW r \in Readers
               PROVE  LET listed == list[r].listed
                          due    == IF list[r].pc = "done" THEN list[r].throughout
                                    ELSE {a \in list[r].throughout :
                                            list[r].cursor # Null /\ a <= list[r].cursor}
                      IN  /\ \A i, j \in DOMAIN listed : i < j => listed[i] < listed[j]
                          /\ list[r].pc # "refused" => due \subseteq Range(listed)
                          /\ Range(listed) \subseteq list[r].ever
    BY DEF ListingIsComplete
  <2>1. ListOK(list[r], rows)
    BY DEF IInv
  <2>2. QED
    BY <2>1 DEF ListOK, Increasing
<1>2. QED
  BY <1>1, InductiveInvariant, PTL

\* The parts of a summary add up to its total but for what was registered and
\* deleted between its SELECTs.
THEOREM SummariesAddUp == Spec => []SummaryAddsUp
<1>1. IInv => SummaryAddsUp
  <2> SUFFICES ASSUME IInv, NEW r \in Readers, summary[r].pc = "done"
               PROVE  LET sum == SumFunction(summary[r].by_category)
                      IN  /\ sum <= summary[r].total + summary[r].added
                          /\ summary[r].total <= sum + summary[r].removed
                          /\ \A t \in Tags :
                               summary[r].tags[t] <= summary[r].total + summary[r].added
    BY DEF SummaryAddsUp
  <2>1. SummaryOK(summary[r], rows)
    BY DEF IInv
  <2>2. QED
    BY <2>1 DEF SummaryOK, Near
<1>2. QED
  BY <1>1, InductiveInvariant, PTL
=============================================================================
