-------------------------- MODULE AdmissionProofs --------------------------
(***************************************************************************)
(* Proofs about Admission, for any words, registrations, calls, answers    *)
(* and master keys.                                                        *)
(*                                                                         *)
(* Stored ties the one row of credentials to the registration it was made  *)
(* from; RoundTrip reads the row back.  With the two, each call is a       *)
(* matter of what it was asked with and of what the registrant wrote:      *)
(* HttpSent and SqlSent compare what is sent with the registration, and    *)
(* the ...Fits lemmas follow every text of a call into its rows.           *)
(* The ...Shown lemmas follow the words of a call the other way: a row     *)
(* repeats only words that may be shown, and no word handed over in        *)
(* confidence is one of those (ApartAssumption).                           *)
(***************************************************************************)
EXTENDS Admission, SequenceTheorems, WellFoundedInduction, TLAPS

\* Normalizing and storing a registration.

\* A registration of either tool, as one record
Uniform(reg) ==
    reg = [category |-> reg.category, provider |-> reg.provider, alias |-> reg.alias,
           origin |-> reg.origin, base |-> reg.base, url |-> reg.url,
           sslmode |-> reg.sslmode, secret |-> reg.secret, description |-> reg.description,
           env |-> reg.env, tags |-> reg.tags, policy |-> reg.policy,
           private |-> reg.private, insecure |-> reg.insecure, ca |-> reg.ca]

\* Normalizing a registration (normalize_register_input) goes field by field.
LEMMA NormalFields ==
    ASSUME NEW reg, Uniform(reg)
    PROVE  NormalRegister(reg) =
             [category |-> reg.category,
              provider |-> IF reg.category = "sql" THEN Default(Trim(reg.provider), "postgres")
                           ELSE Trim(reg.provider),
              alias |-> Trim(reg.alias),
              origin |-> NormalOrigin(reg.origin),
              base |-> IF reg.category = "http" THEN NormalBasePath(reg.base) ELSE reg.base,
              url |-> Trim(reg.url), sslmode |-> reg.sslmode,
              secret |-> NormalSecret(reg.secret, reg.category),
              description |-> Trim(reg.description),
              env |-> Default(Trim(reg.env), "dev"),
              tags |-> NormalTags(reg.tags),
              policy |-> NormalPolicy(reg.policy, reg.category),
              private |-> reg.private, insecure |-> reg.insecure,
              ca |-> Trim(reg.ca)]
<1> DEFINE n == NormalRegister(reg)
           D == {"category", "provider", "alias", "origin", "base", "url", "sslmode", "secret",
                 "description", "env", "tags", "policy", "private", "insecure", "ca"}
<1>1. DOMAIN reg = D
  BY DEF Uniform
<1>2. DOMAIN n = D /\ n = [f \in D |-> n[f]]
  BY <1>1 DEF NormalRegister
<1>3. /\ n.category = reg.category
      /\ n.provider = IF reg.category = "sql" THEN Default(Trim(reg.provider), "postgres")
                      ELSE Trim(reg.provider)
      /\ n.alias = Trim(reg.alias)
      /\ n.origin = NormalOrigin(reg.origin)
      /\ n.base = (IF reg.category = "http" THEN NormalBasePath(reg.base) ELSE reg.base)
      /\ n.url = Trim(reg.url)
      /\ n.sslmode = reg.sslmode
  BY <1>1 DEF NormalRegister
<1>4. /\ n.secret = NormalSecret(reg.secret, reg.category)
      /\ n.description = Trim(reg.description)
      /\ n.env = Default(Trim(reg.env), "dev")
      /\ n.tags = NormalTags(reg.tags)
      /\ n.policy = NormalPolicy(reg.policy, reg.category)
      /\ n.private = reg.private
      /\ n.insecure = reg.insecure
      /\ n.ca = Trim(reg.ca)
  BY <1>1 DEF NormalRegister
<1> HIDE DEF n
<1>5. QED
  BY <1>2, <1>3, <1>4 DEF n

\* An HTTP registration becomes a whole NewCredential.
LEMMA FromHttpUniform ==
    ASSUME NEW in
    PROVE  Uniform(FromHttp(in)) /\ FromHttp(in).category = "http"
  BY DEF Uniform, FromHttp

\* A SQL registration becomes a whole NewCredential.
LEMMA FromSqlUniform ==
    ASSUME NEW in
    PROVE  Uniform(FromSql(in)) /\ FromSql(in).category = "sql"
  BY DEF Uniform, FromSql

\* A policy is read back from its JSON as it was: what is left out when it is
\* empty or zero (skip_serializing_if) is what a missing key decodes to.
LEMMA PolicyRoundTrip ==
    ASSUME NEW policy \in PolicySet
    PROVE  DecodedPolicy(PolicyJson(policy)) = policy
<1> DEFINE F == DOMAIN NoPolicy
<1>1. F = {"methods", "prefixes", "deniedKeys", "headers", "metadata", "explain", "analyze",
           "deniedFunctions", "maxRows", "maxBytes", "timeout"}
  BY DEF NoPolicy
<1>2. DOMAIN policy = F /\ policy = [f \in F |-> policy[f]]
  BY <1>1 DEF PolicySet
<1> HIDE DEF F
<1>3. ASSUME NEW f \in F
      PROVE  DecodedPolicy(PolicyJson(policy))[f] = policy[f]
  BY <1>2 DEF DecodedPolicy, PolicyJson, F
<1>4. DecodedPolicy(PolicyJson(policy)) = [f \in F |-> DecodedPolicy(PolicyJson(policy))[f]]
  BY DEF DecodedPolicy, F
<1>5. QED
  BY <1>2, <1>3, <1>4

-----------------------------------------------------------------------------

\* Trimming, lower-casing and cutting the slash of an origin keep a text's word
\* and only take oddities away.
LEMMA TextTypes ==
    ASSUME NEW t \in TextSet
    PROVE  /\ Trim(t) \in TextSet /\ Trim(t).word = t.word /\ Trim(t).odd = t.odd \ {"pad"}
           /\ Fold(t) \in TextSet /\ Fold(t).word = t.word
           /\ Fold(t).odd = t.odd \ {"case", "title"}
           /\ NormalOrigin(t) \in TextSet /\ NormalOrigin(t).word = t.word
           /\ NormalOrigin(t).odd = t.odd \ {"pad", "slash"}
  BY DEF TextSet, Oddities, Trim, Fold, NormalOrigin

\* A canonical header name is the same name, trimmed and in title case.
LEMMA HeaderTypes ==
    ASSUME NEW t \in TextSet
    PROVE  /\ CanonicalHeader(t) \in TextSet /\ CanonicalHeader(t).word = t.word
           /\ CanonicalHeader(t).odd = (t.odd \ {"pad", "case"}) \cup {"title"}
<1> DEFINE f == Fold(Trim(t))
<1>1. f \in TextSet /\ f.word = t.word /\ f.odd = t.odd \ {"pad", "case", "title"}
  BY TextTypes
<1> HIDE DEF f
<1>2. QED
  <2>1. CanonicalHeader(t) = [f EXCEPT !.odd = @ \cup {"title"}]
    BY DEF CanonicalHeader, f
  <2>2. "title" \in Oddities
    BY DEF Oddities
  <2>3. /\ CanonicalHeader(t) \in TextSet /\ CanonicalHeader(t).word = f.word
        /\ CanonicalHeader(t).odd = f.odd \cup {"title"}
    BY <1>1, <2>1, <2>2 DEF TextSet
  <2>4. QED
    BY <1>1, <2>3

\* A word of the code's own is a text without an oddity.
LEMMA PlainType ==
    ASSUME NEW w \in Words
    PROVE  Plain(w) \in TextSet /\ Plain(w).word = w /\ Plain(w).odd = {}
  BY DEF Plain, Text, TextSet

\* A default takes the place of an empty text and leaves any other.
LEMMA DefaultType ==
    ASSUME NEW t \in TextSet, NEW w \in Words
    PROVE  Default(t, w) \in TextSet
  BY PlainType DEF Default

\* Of the positions of a path's named segments one is the last.
LEMMA LastNamed ==
    ASSUME NEW w \in Seq(Words), NEW named \in SUBSET (DOMAIN w), named # {}
    PROVE  \E i \in named : \A j \in named : j <= i
<1> DEFINE T == {Len(w) - i : i \in named}
<1>1. /\ Len(w) \in Nat /\ DOMAIN w = 1 .. Len(w)
  OBVIOUS
<1>2. T \subseteq Nat /\ T # {}
  BY <1>1
<1>3. IsWellFoundedOn(OpToRel(<, Nat), Nat)
  BY NatLessThanWellFounded
<1>4. \E x \in T : \A y \in T : ~(<<y, x>> \in OpToRel(<, Nat))
  BY <1>2, <1>3, WFMin
<1>5. PICK i \in named : \A y \in T : ~(<<y, Len(w) - i>> \in OpToRel(<, Nat))
  BY <1>4
<1>6. ASSUME NEW j \in named
      PROVE  j <= i
  <2>1. Len(w) - j \in T /\ Len(w) - j \in Nat /\ Len(w) - i \in Nat /\ i \in Nat /\ j \in Nat
    BY <1>1
  <2>2. ~(Len(w) - j < Len(w) - i)
    BY <1>5, <2>1 DEF OpToRel
  <2>3. QED
    BY <1>1, <2>1, <2>2
<1>7. QED
  BY <1>6

\* What is left of a path without its tail begins the path, and has no tail.
LEMMA WithoutTailFacts ==
    ASSUME NEW w \in Seq(Words)
    PROVE  /\ WithoutTail(w) \in Seq(Words)
           /\ WithoutTail(WithoutTail(w)) = WithoutTail(w)
<1> DEFINE Named(p) == {i \in DOMAIN p : p[i] # ""}
           Last(p) == CHOOSE i \in Named(p) : \A j \in Named(p) : j <= i
<1>1. \A p : WithoutTail(p) = IF Named(p) = {} THEN <<>> ELSE SubSeq(p, 1, Last(p))
  BY DEF WithoutTail
<1>0. \A p : Named(p) \subseteq DOMAIN p /\ \A i \in DOMAIN p : (i \in Named(p)) <=> (p[i] # "")
  OBVIOUS
<1> HIDE DEF Named, Last
<1>2. CASE Named(w) = {}
  <2>1. WithoutTail(w) = <<>>
    BY <1>1, <1>2
  <2>2. Named(<<>>) = {}
    BY DEF Named
  <2>3. WithoutTail(<<>>) = <<>>
    BY <1>1, <2>2
  <2>4. <<>> \in Seq(Words)
    OBVIOUS
  <2>5. QED
    BY <2>1, <2>3, <2>4
<1>3. CASE Named(w) # {}
  <2> DEFINE n == Last(w)
             s == SubSeq(w, 1, n)
  <2>1. n \in Named(w) /\ \A j \in Named(w) : j <= n
    <3>1. Named(w) \in SUBSET (DOMAIN w)
      BY <1>0
    <3>2. \E i \in Named(w) : \A j \in Named(w) : j <= i
      BY <1>3, <3>1, LastNamed
    <3>3. QED
      BY <3>2 DEF Last
  <2>2. n \in 1 .. Len(w) /\ DOMAIN w = 1 .. Len(w) /\ Len(w) \in Nat
    <3>1. DOMAIN w = 1 .. Len(w) /\ Len(w) \in Nat
      OBVIOUS
    <3>2. QED
      BY <1>0, <2>1, <3>1
  <2> HIDE DEF n
  <2>3. /\ s \in Seq(Words) /\ Len(s) = n /\ \A i \in 1 .. n : s[i] = w[i]
    BY <2>2, SubSeqProperties
  <2>4. DOMAIN s = 1 .. n
    BY <2>3
  <2> HIDE DEF s
  <2>5. Named(s) = Named(w)
    <3>1. ASSUME NEW i \in Named(s)
          PROVE  i \in Named(w)
      <4>1. i \in 1 .. n /\ s[i] # ""
        BY <2>4 DEF Named
      <4>2. i \in 1 .. Len(w) /\ w[i] # ""
        <5>1. s[i] = w[i]
          BY <2>3, <4>1
        <5>2. i \in 1 .. Len(w)
          <6>1. i \in 1 .. n
            BY <4>1
          <6>2. n \in 1 .. Len(w) /\ Len(w) \in Nat
            BY <2>2
          <6>3. QED
            BY ONLY <6>1, <6>2
        <5>3. QED
          BY <4>1, <5>1, <5>2
      <4>3. QED
        BY <2>2, <4>2 DEF Named
    <3>2. ASSUME NEW i \in Named(w)
          PROVE  i \in Named(s)
      <4>1. i \in 1 .. Len(w) /\ w[i] # "" /\ i <= n
        BY <2>1, <2>2 DEF Named
      <4>2. i \in 1 .. n /\ s[i] # ""
        <5>1. i \in 1 .. n
          <6>1. i \in 1 .. Len(w) /\ i <= n
            BY <4>1
          <6>2. n \in 1 .. Len(w) /\ Len(w) \in Nat
            BY <2>2
          <6>3. QED
            BY ONLY <6>1, <6>2
        <5>2. s[i] = w[i]
          BY <2>3, <5>1
        <5>3. QED
          BY <4>1, <5>1, <5>2
      <4>3. QED
        BY <2>4, <4>2 DEF Named
    <3>3. QED
      BY <3>1, <3>2
  <2>6. Last(s) = n
    BY <2>5 DEF n, Last
  <2>7. WithoutTail(w) = s
    BY <1>1, <1>3 DEF n, s
  <2>8. WithoutTail(s) = SubSeq(s, 1, n)
    BY <1>1, <1>3, <2>5, <2>6
  <2>9. SubSeq(s, 1, n) = s
    BY <2>3, SubSeqFull
  <2>10. QED
    BY <2>3, <2>7, <2>8, <2>9
<1>4. QED
  BY <1>2, <1>3

-----------------------------------------------------------------------------

\* Headers of a secret
HeaderSet == [name : TextSet, value : TextSet]

\* What a registration is once it is normalized
Normalized(n) ==
    /\ Uniform(n) /\ n.policy \in PolicySet
    /\ IsEmpty(n.ca) => n.ca = NoText
    /\ \/ /\ n.category = "http"
          /\ n.url = NoText /\ n.sslmode = "none" /\ n.secret \in Seq(HeaderSet)
       \/ /\ n.category = "sql"
          /\ n.origin = NoText /\ n.base = Text(<<>>, {}) /\ n.ca = NoText
          /\ n.secret \in [username : TextSet, password : TextSet]

\* Two texts of the same word and oddities are one.
LEMMA SameText ==
    ASSUME NEW t \in TextSet, NEW u \in TextSet, t.word = u.word, t.odd = u.odd
    PROVE  t = u
  BY DEF TextSet

\* A list of one element of S is a list over S.
LEMMA OneElement ==
    ASSUME NEW S, NEW x \in S
    PROVE  <<x>> \in Seq(S)
  OBVIOUS

\* The missing text is a text, and normalizing leaves it.
LEMMA NoTextFacts ==
    /\ NoText \in TextSet /\ NoText.word = "" /\ NoText.odd = {}
    /\ Trim(NoText) = NoText /\ NormalOrigin(NoText) = NoText
<1>1. NoText = [word |-> "", odd |-> {}] /\ "" \in Words
  BY WordsAssumption DEF NoText, Plain, Text
<1>2. NoText \in TextSet /\ NoText.word = "" /\ NoText.odd = {}
  BY <1>1 DEF TextSet
<1>3. Trim(NoText) = NoText
  <2> DEFINE o == Trim(NoText)
  <2>1. o \in TextSet /\ o.word = NoText.word /\ o.odd = NoText.odd \ {"pad"}
    BY <1>2, TextTypes
  <2>2. o.odd = NoText.odd
    BY <1>2, <2>1
  <2>3. QED
    BY <1>2, <2>1, <2>2, SameText
<1>4. NormalOrigin(NoText) = NoText
  <2> DEFINE o == NormalOrigin(NoText)
  <2>1. o \in TextSet /\ o.word = NoText.word /\ o.odd = NoText.odd \ {"pad", "slash"}
    BY <1>2, TextTypes
  <2>2. o.odd = NoText.odd
    BY <1>2, <2>1
  <2>3. QED
    BY <1>2, <2>1, <2>2, SameText
<1>5. QED
  BY <1>2, <1>3, <1>4

\* A normalized policy is a policy: its lists are folded, trimmed and given
\* their defaults, its denied keys and its limits are left alone.
LEMMA NormalPolicyType ==
    ASSUME NEW policy \in PolicySet, NEW category \in {"http", "sql"}
    PROVE  LET p == NormalPolicy(policy, category)
           IN  /\ p \in PolicySet
               /\ \A f \in {"deniedKeys", "maxRows", "maxBytes", "timeout"} : p[f] = policy[f]
               /\ category = "http" =>
                    /\ p.methods = {Fold(Trim(m)) : m \in OrDefault(policy.methods, Plain("GET"))}
                    /\ p.prefixes = OrDefault(policy.prefixes, Text(Root, {}))
                    /\ p.headers = {CanonicalHeader(h) : h \in policy.headers}
<1> DEFINE p == NormalPolicy(policy, category)
           M == {Fold(Trim(m)) : m \in OrDefault(policy.methods, Plain("GET"))}
           P == OrDefault(policy.prefixes, Text(Root, {}))
           H == {CanonicalHeader(h) : h \in policy.headers}
           D == {Fold(Trim(f)) : f \in policy.deniedFunctions}
<1>1. M \in SUBSET TextSet
  <2>1. Plain("GET") \in TextSet
    BY WordsAssumption, PlainType
  <2>2. OrDefault(policy.methods, Plain("GET")) \in SUBSET TextSet
    BY <2>1 DEF OrDefault, PolicySet
  <2>3. QED
    BY <2>2, TextTypes
<1>2. P \in SUBSET PathSet
  <2>1. Root \in Seq(Words)
    <3>1. "" \in Words
      BY WordsAssumption
    <3>2. QED
      BY <3>1, OneElement DEF Root
  <2>2. Text(Root, {}) \in PathSet
    BY <2>1 DEF Text, PathSet
  <2>3. QED
    BY <2>2 DEF OrDefault, PolicySet
<1>3. H \in SUBSET TextSet
  <2>1. policy.headers \in SUBSET TextSet
    BY DEF PolicySet
  <2>2. QED
    BY <2>1, HeaderTypes
<1>4. D \in SUBSET TextSet
  <2>1. policy.deniedFunctions \in SUBSET TextSet
    BY DEF PolicySet
  <2>2. QED
    BY <2>1, TextTypes
<1>5. CASE category = "http"
  <2>1. p = [policy EXCEPT !.methods = M, !.prefixes = P, !.headers = H]
    BY <1>5 DEF NormalPolicy
  <2> HIDE DEF p, M, P, H, D
  <2>2. /\ p \in PolicySet /\ p.methods = M /\ p.prefixes = P /\ p.headers = H
        /\ p.deniedKeys = policy.deniedKeys /\ p.maxRows = policy.maxRows
        /\ p.maxBytes = policy.maxBytes /\ p.timeout = policy.timeout
    BY <1>1, <1>2, <1>3, <2>1 DEF PolicySet
  <2>3. QED
    BY <2>2 DEF p, M, P, H
<1>6. CASE category = "sql"
  <2>1. p = [policy EXCEPT !.deniedFunctions = D]
    BY <1>6 DEF NormalPolicy
  <2> HIDE DEF p, M, P, H, D
  <2>2. /\ p \in PolicySet
        /\ p.deniedKeys = policy.deniedKeys /\ p.maxRows = policy.maxRows
        /\ p.maxBytes = policy.maxBytes /\ p.timeout = policy.timeout
    BY <1>4, <2>1 DEF PolicySet
  <2>3. QED
    BY <1>6, <2>2 DEF p
<1>7. QED
  BY <1>5, <1>6

\* Normalizing a secret canonicalizes each header's name and keeps each value
\* in its place.
LEMMA NormalSecretType ==
    ASSUME NEW secret \in Seq(HeaderSet)
    PROVE  LET s == NormalSecret(secret, "http")
           IN  /\ s \in Seq(HeaderSet) /\ DOMAIN s = DOMAIN secret
               /\ \A i \in DOMAIN secret :
                    /\ s[i].name = CanonicalHeader(secret[i].name)
                    /\ s[i].value = secret[i].value
<1> DEFINE s == NormalSecret(secret, "http")
<1>1. s = [i \in DOMAIN secret |-> [secret[i] EXCEPT !.name = CanonicalHeader(secret[i].name)]]
  BY DEF NormalSecret
<1>2. Len(secret) \in Nat /\ DOMAIN secret = 1 .. Len(secret)
  OBVIOUS
<1>3. ASSUME NEW i \in DOMAIN secret
      PROVE  /\ s[i] \in HeaderSet /\ s[i].name = CanonicalHeader(secret[i].name)
             /\ s[i].value = secret[i].value
  <2>1. secret[i] \in HeaderSet
    BY <1>2
  <2>2. CanonicalHeader(secret[i].name) \in TextSet
    BY <2>1, HeaderTypes DEF HeaderSet
  <2>3. QED
    BY <1>1, <2>1, <2>2 DEF HeaderSet
<1> HIDE DEF s
<1>4. s \in [1 .. Len(secret) -> HeaderSet]
  BY <1>1, <1>2, <1>3
<1>5. s \in Seq(HeaderSet)
  BY <1>2, <1>4
<1>6. QED
  BY <1>1, <1>3, <1>5 DEF s

-----------------------------------------------------------------------------

\* A SQL registration is normalized as Normalized says.
LEMMA NormalizedSql ==
    ASSUME NEW in \in SqlRegistration
    PROVE  Normalized(NormalRegister(FromSql(in)))
<1> DEFINE reg == FromSql(in)
           n == NormalRegister(reg)
<1>1. Uniform(reg) /\ reg.category = "sql"
  BY FromSqlUniform
<1>2. /\ reg.origin = NoText /\ reg.base = Text(<<>>, {}) /\ reg.ca = NoText
      /\ reg.policy = in.policy /\ reg.secret = in.secret
  BY DEF FromSql
<1>3. in.policy \in PolicySet /\ in.secret \in [username : TextSet, password : TextSet]
  BY DEF SqlRegistration
<1> HIDE DEF reg
<1>4. /\ Uniform(n) /\ n.category = "sql" /\ n.origin = NormalOrigin(reg.origin)
      /\ n.base = reg.base /\ n.ca = Trim(reg.ca)
      /\ n.policy = NormalPolicy(reg.policy, reg.category)
      /\ n.secret = NormalSecret(reg.secret, reg.category)
  BY <1>1, NormalFields DEF Uniform
<1>5. /\ n.origin = NoText /\ n.base = Text(<<>>, {}) /\ n.ca = NoText
      /\ n.policy = NormalPolicy(in.policy, "sql")
  BY <1>1, <1>2, <1>4, NoTextFacts
<1>6. n.secret = in.secret
  BY <1>1, <1>2, <1>4 DEF NormalSecret
<1>7. n.policy \in PolicySet
  BY <1>3, <1>5, NormalPolicyType
<1> HIDE DEF n
<1>10. Normalized(n)
  BY <1>3, <1>4, <1>5, <1>6, <1>7 DEF Normalized
<1>11. QED
  BY <1>10 DEF n, reg

\* An HTTP registration is normalized as Normalized says.
LEMMA NormalizedHttp ==
    ASSUME NEW in \in HttpRegistration
    PROVE  Normalized(NormalRegister(FromHttp(in)))
<1> DEFINE reg == FromHttp(in)
           n == NormalRegister(reg)
<1>1. Uniform(reg) /\ reg.category = "http"
  BY FromHttpUniform
<1>2. /\ reg.url = NoText /\ reg.sslmode = "none" /\ reg.policy = in.policy
      /\ reg.secret = in.secret
  BY DEF FromHttp
<1>3. in.policy \in PolicySet /\ in.secret \in Seq(HeaderSet)
  BY DEF HttpRegistration, HeaderSet
<1> HIDE DEF reg
<1>4. /\ Uniform(n) /\ n.category = "http" /\ n.url = Trim(reg.url) /\ n.sslmode = reg.sslmode
      /\ n.policy = NormalPolicy(reg.policy, reg.category)
      /\ n.secret = NormalSecret(reg.secret, reg.category)
  BY <1>1, NormalFields DEF Uniform
<1>5. n.url = NoText /\ n.sslmode = "none" /\ n.policy = NormalPolicy(in.policy, "http")
      /\ n.secret = NormalSecret(in.secret, "http")
  BY <1>1, <1>2, <1>4, NoTextFacts
<1>6. n.policy \in PolicySet
  BY <1>3, <1>5, NormalPolicyType
<1>7. n.secret \in Seq(HeaderSet)
  BY <1>3, <1>5, NormalSecretType
<1>10. IsEmpty(n.ca) => n.ca = NoText
  <2>1. n.ca = Trim(in.ca)
    BY <1>1, NormalFields DEF reg, FromHttp
  <2>2. in.ca \in TextSet /\ (IsEmpty(in.ca) => in.ca.odd \subseteq {"pad"})
    BY DEF HttpRegistration, OptionalSet
  <2>3. n.ca \in TextSet /\ n.ca.word = in.ca.word /\ n.ca.odd = in.ca.odd \ {"pad"}
    BY <2>1, <2>2, TextTypes
  <2>4. CASE IsEmpty(n.ca)
    <3>1. n.ca.word = "" /\ n.ca.odd = {}
      BY <2>2, <2>3, <2>4 DEF IsEmpty
    <3>2. QED
      BY <2>3, <3>1, NoTextFacts, SameText
  <2>5. QED
    BY <2>4
<1> HIDE DEF n
<1>8. Normalized(n)
  BY <1>4, <1>5, <1>6, <1>7, <1>10 DEF Normalized
<1>9. QED
  BY <1>8 DEF n, reg

\* What is written is read back: the row's columns and policy make the same
\* credential (into_credential), and the sealed secret opens to what was sealed,
\* since the row's own columns make up the same additional data.
LEMMA RoundTrip ==
    ASSUME NEW n, Normalized(n), NEW k
    PROVE  /\ Credential(Row(n, k)) = Registered(n)
           /\ OpenSecret(Row(n, k)) = n.secret
<1> DEFINE r == Row(n, k)
           c == Credential(r)
<1>1. /\ r.category = n.category /\ r.provider = n.provider /\ r.alias = n.alias
      /\ r.target = TargetColumns(n) /\ r.secret[1].json = SecretJson(n)
      /\ r.description = n.description /\ r.env = n.env /\ r.tags = n.tags
      /\ r.policy = PolicyJson(n.policy) /\ r.private = n.private /\ r.insecure = n.insecure
      /\ r.ca = IF IsEmpty(n.ca) THEN <<>> ELSE <<n.ca>>
  BY DEF Row, Seal
<1> HIDE DEF r
<1>2. OpenSecret(r) = n.secret
  <2>1. CASE n.category = "http"
    <3> DEFINE s == n.secret
    <3>1. s \in Seq(HeaderSet)
      BY <2>1 DEF Normalized
    <3>2. OpenSecret(r) = [i \in DOMAIN s |-> [name |-> s[i].name, value |-> s[i].value]]
      BY <1>1, <2>1 DEF OpenSecret, SecretJson
    <3>3. ASSUME NEW i \in DOMAIN s
          PROVE  [name |-> s[i].name, value |-> s[i].value] = s[i]
      <4>1. s[i] \in HeaderSet
        BY <3>1
      <4>2. QED
        BY <4>1 DEF HeaderSet
    <3>4. s = [i \in DOMAIN s |-> s[i]]
      BY <3>1
    <3> HIDE DEF s
    <3>5. OpenSecret(r) = s
      BY <3>2, <3>3, <3>4
    <3>6. QED
      BY <3>5 DEF s
  <2>2. CASE n.category = "sql"
    <3>1. n.secret \in [username : TextSet, password : TextSet]
      BY <2>2 DEF Normalized
    <3>2. OpenSecret(r) = [username |-> n.secret.username, password |-> n.secret.password]
      BY <1>1, <2>2 DEF OpenSecret, SecretJson
    <3>3. QED
      BY <3>1, <3>2
  <2>3. QED
    BY <2>1, <2>2 DEF Normalized
<1>3. DecodedPolicy(r.policy) = n.policy
  BY <1>1, PolicyRoundTrip DEF Normalized
<1> DEFINE D == {"category", "provider", "alias", "origin", "base", "url", "sslmode",
                 "description", "env", "tags", "policy", "private", "insecure", "ca"}
<1>4. Registered(n) = [f \in D |-> n[f]]
  <2>1. DOMAIN n \ {"secret"} = D
    BY DEF Normalized, Uniform
  <2>2. QED
    BY <2>1 DEF Registered
<1>5. c = [f \in D |-> c[f]]
  BY DEF Credential
<1>6. /\ c.category = n.category /\ c.provider = n.provider /\ c.alias = n.alias
      /\ c.description = n.description /\ c.env = n.env /\ c.tags = n.tags
      /\ c.policy = n.policy /\ c.private = n.private /\ c.insecure = n.insecure
  BY <1>1, <1>3 DEF Credential
<1>7. c.origin = n.origin /\ c.base = n.base /\ c.url = n.url /\ c.sslmode = n.sslmode
  BY <1>1 DEF Credential, TargetColumns, Normalized
<1>8. c.ca = n.ca
  <2>1. c.ca = IF r.ca = <<>> THEN NoText ELSE r.ca[1]
    BY DEF Credential
  <2>2. QED
    BY <1>1, <2>1 DEF Normalized
<1> HIDE DEF c
<1>9. c = Registered(n)
  BY <1>4, <1>5, <1>6, <1>7, <1>8
<1>10. QED
  BY <1>2, <1>9 DEF c, r

-----------------------------------------------------------------------------

\* A registration that validate_register_input lets through passes the CHECKs
\* of the table credentials.
LEMMA ValidFits ==
    ASSUME NEW n, Normalized(n), ValidRegister(n), NEW k
    PROVE  RowFits(Row(n, k))
<1>1. /\ Row(n, k).category = n.category /\ Row(n, k).target = TargetColumns(n)
      /\ Row(n, k).secret # <<>> /\ Row(n, k).ca = IF IsEmpty(n.ca) THEN <<>> ELSE <<n.ca>>
  BY DEF Row
<1>2. CASE n.category = "http"
  <2>1. ~IsEmpty(n.origin) /\ n.base.word # <<>> /\ "relative" \notin n.base.odd
    BY <1>2 DEF ValidRegister, ValidOrigin, ValidStoredPath, ValidPath
  <2>2. QED
    BY <1>1, <1>2, <2>1 DEF RowFits, TargetColumns
<1>3. CASE n.category = "sql"
  <2>1. ~IsEmpty(n.url) /\ IsEmpty(n.ca)
    BY <1>3, NoTextFacts DEF ValidRegister, ValidDatabaseUrl, Normalized, IsEmpty
  <2>2. QED
    BY <1>1, <1>3, <2>1 DEF RowFits, TargetColumns
<1>4. QED
  BY <1>2, <1>3 DEF Normalized

\* What of a valid registration Postgres may refuse
HasNul(n) ==
    "nul" \in n.description.odd \cup n.origin.odd \cup n.url.odd
                  \cup UNION {k.odd : k \in n.policy.deniedKeys}

\* Of a valid policy only a denied query key can hold a NUL.
LEMMA PolicyNul ==
    ASSUME NEW policy \in PolicySet, NEW category \in {"http", "sql"},
           ValidPolicy(policy, category)
    PROVE  /\ \A t \in PolicyTexts(PolicyJson(policy)) :
                 "nul" \in t.odd => t \in policy.deniedKeys
           /\ "prefixes" \in DOMAIN PolicyJson(policy) =>
                 \A p \in PolicyJson(policy).prefixes : "nul" \notin p.odd
<1> DEFINE json == PolicyJson(policy)
<1>1. \A f \in DOMAIN json : json[f] = policy[f]
  BY DEF PolicyJson
<1>2. ASSUME NEW t \in PolicyTexts(json), "nul" \in t.odd
      PROVE  t \in policy.deniedKeys
  <2>1. PICK f \in DOMAIN json \cap {"methods", "deniedKeys", "headers", "deniedFunctions"} :
              t \in json[f]
    BY <1>2 DEF PolicyTexts
  <2>2. t \in policy[f]
    BY <1>1, <2>1
  <2>3. CASE category = "http"
    <3>1. f # "methods" /\ f # "headers"
      BY <1>2, <2>2, <2>3 DEF ValidPolicy, ValidToken
    <3>2. f # "deniedFunctions"
      BY <2>2, <2>3 DEF ValidPolicy, SqlFields, HttpFields, NoPolicy
    <3>3. QED
      BY <2>1, <2>2, <3>1, <3>2
  <2>4. CASE category = "sql"
    <3>1. f \notin HttpFields
      BY <2>2, <2>4 DEF ValidPolicy
    <3>2. f # "deniedFunctions"
      BY <1>2, <2>2, <2>4 DEF ValidPolicy
    <3>3. QED
      BY <2>1, <3>1, <3>2 DEF HttpFields
  <2>5. QED
    BY <2>3, <2>4
<1>3. ASSUME "prefixes" \in DOMAIN json, NEW p \in json.prefixes
      PROVE  "nul" \notin p.odd
  <2>1. p \in policy.prefixes
    BY <1>1, <1>3
  <2>2. category = "http"
    BY <2>1 DEF ValidPolicy, HttpFields
  <2>3. QED
    BY <2>1, <2>2 DEF ValidPolicy, ValidStoredPath
<1>4. QED
  BY <1>2, <1>3

\* A valid registration that Postgres refuses for a NUL holds it in its
\* description, its origin or URL, or a denied query key.
LEMMA ValidNul ==
    ASSUME NEW n, Normalized(n), ValidRegister(n), NEW k, HoldsNul(Row(n, k))
    PROVE  HasNul(n)
<1> DEFINE r == Row(n, k)
<1>1. /\ r.provider = n.provider /\ r.alias = n.alias /\ r.target = TargetColumns(n)
      /\ r.description = n.description /\ r.env = n.env /\ r.tags = n.tags
      /\ r.policy = PolicyJson(n.policy)
  BY DEF Row
<1>2. n.policy \in PolicySet /\ n.category \in {"http", "sql"}
  BY DEF Normalized
<1>3. /\ n.provider.odd = {} /\ n.alias.odd = {} /\ n.env.odd = {}
      /\ \A t \in n.tags : t.odd = {}
      /\ ValidPolicy(n.policy, n.category)
  BY DEF ValidRegister, ValidCommon, MatchesPattern
<1> HIDE DEF r
<1>4. CASE \E t \in StoredTexts(r) : "nul" \in t.odd
  <2>1. PICK t \in StoredTexts(r) : "nul" \in t.odd
    BY <1>4
  <2>2. CASE t \in PolicyTexts(r.policy)
    <3>1. t \in n.policy.deniedKeys
      BY <1>1, <1>2, <1>3, <2>1, <2>2, PolicyNul
    <3>2. QED
      BY <2>1, <3>1 DEF HasNul
  <2>3. CASE t \in {r.provider, r.alias, r.description, r.env} \cup r.tags
    <3>1. t = n.description
      BY <1>1, <1>3, <2>1, <2>3
    <3>2. QED
      BY <2>1, <3>1 DEF HasNul
  <2>4. CASE t \in {r.target.origin[i] : i \in DOMAIN r.target.origin}
    <3>1. t = n.origin
      BY <1>1, <2>4 DEF TargetColumns
    <3>2. QED
      BY <2>1, <3>1 DEF HasNul
  <2>5. CASE t \in {r.target.url[i].text : i \in DOMAIN r.target.url}
    <3>1. t = n.url
      BY <1>1, <2>5 DEF TargetColumns
    <3>2. QED
      BY <2>1, <3>1 DEF HasNul
  <2>6. QED
    BY <2>1, <2>2, <2>3, <2>4, <2>5 DEF StoredTexts
<1>5. CASE \E p \in StoredPaths(r) : "nul" \in p.odd
  <2>1. PICK p \in StoredPaths(r) : "nul" \in p.odd
    BY <1>5
  <2>2. ~(/\ "prefixes" \in DOMAIN r.policy /\ p \in r.policy.prefixes)
    BY <1>1, <1>2, <1>3, <2>1, PolicyNul
  <2>3. p \in {r.target.base[i] : i \in DOMAIN r.target.base}
    BY <2>1, <2>2 DEF StoredPaths
  <2>4. n.category = "http" /\ p = n.base
    BY <1>1, <2>3 DEF TargetColumns
  <2>5. "nul" \notin p.odd
    BY <2>4 DEF ValidRegister, ValidStoredPath
  <2>6. QED
    BY <2>1, <2>5
<1>6. QED
  BY <1>4, <1>5 DEF HoldsNul, r

-----------------------------------------------------------------------------

\* Registrations as the tools hand them over
Written ==
    {FromHttp(in) : in \in HttpRegistrations} \cup {FromSql(in) : in \in SqlRegistrations}

\* What Postgres makes of a registration's row
StoredRow(reg, k) ==
    LET new == Row(NormalRegister(reg), k)
    IN  IF RowFits(new) /\ ~HoldsNul(new) THEN <<new>> ELSE <<>>

\* The row is what a valid registration was made into, under the master key of
\* its time, unless the table refused it.
Stored ==
    \/ given = <<>> /\ row = <<>>
    \/ \E reg \in Written, k \in Keys :
          /\ given = <<reg>> /\ ValidRegister(NormalRegister(reg))
          /\ row = StoredRow(reg, k)

\* Every registration that is written is normalized.
LEMMA WrittenNormalized ==
    ASSUME NEW reg \in Written
    PROVE  Normalized(NormalRegister(reg))
<1>1. CASE reg \in {FromHttp(in) : in \in HttpRegistrations}
  <2>1. PICK in \in HttpRegistrations : reg = FromHttp(in)
    BY <1>1
  <2>2. in \in HttpRegistration
    BY InputsAssumption
  <2>3. QED
    BY <2>1, <2>2, NormalizedHttp
<1>2. CASE reg \in {FromSql(in) : in \in SqlRegistrations}
  <2>1. PICK in \in SqlRegistrations : reg = FromSql(in)
    BY <1>2
  <2>2. in \in SqlRegistration
    BY InputsAssumption
  <2>3. QED
    BY <2>1, <2>2, NormalizedSql
<1>3. QED
  BY <1>1, <1>2 DEF Written

\* A call and a return leave the registration and its row alone.
LEMMA OthersKeepRow ==
    ASSUME CallApi \/ CallQuery \/ CallSchema \/ Return
    PROVE  UNCHANGED <<key, given, row>>
  BY DEF CallApi, CallQuery, CallSchema, Return, Called

\* The inductive invariant: what AcceptedIsStored, SentIsGranted and
\* RecordsAreKept say of later calls follows from what the row was made of.
IInv == key \in Keys /\ Stored

\* A registration that is accepted keeps the invariant.
LEMMA AcceptStores ==
    ASSUME IInv, NEW reg \in Written, given' = <<reg>>, Accept(NormalRegister(reg))
    PROVE  IInv'
<1>1. /\ ValidRegister(NormalRegister(reg)) /\ row' = StoredRow(reg, key)
      /\ key' = key /\ key \in Keys
  BY DEF Accept, StoredRow, IInv
<1>2. QED
  BY <1>1 DEF IInv, Stored

\* Every step keeps the invariant: only a registration touches the row, a restart
\* only the master key.
LEMMA StoredStep ==
    ASSUME IInv, [Next]_vars
    PROVE  IInv'
<1>1. CASE RegisterHttp
  <2>1. PICK in \in HttpRegistrations :
              given' = <<FromHttp(in)>> /\ Accept(NormalRegister(FromHttp(in)))
    BY <1>1 DEF RegisterHttp
  <2>2. FromHttp(in) \in Written
    BY DEF Written
  <2>3. QED
    BY <2>1, <2>2, AcceptStores
<1>2. CASE RegisterSql
  <2>1. PICK in \in SqlRegistrations :
              given' = <<FromSql(in)>> /\ Accept(NormalRegister(FromSql(in)))
    BY <1>2 DEF RegisterSql
  <2>2. FromSql(in) \in Written
    BY DEF Written
  <2>3. QED
    BY <2>1, <2>2, AcceptStores
<1>3. CASE Restart
  BY <1>3 DEF Restart, IInv, Stored
<1>4. CASE CallApi \/ CallQuery \/ CallSchema \/ Return
  BY <1>4, OthersKeepRow DEF IInv, Stored
<1>5. CASE UNCHANGED vars
  BY <1>5 DEF vars, IInv, Stored
<1>6. QED
  BY <1>1, <1>2, <1>3, <1>4, <1>5 DEF Next

\* In every state the row of credentials is what validating, normalizing, sealing
\* and writing the accepted registration made of it, under the master key of that
\* time (register.rs, insert_credential), whatever has been called and however
\* often the process restarted with another key since.
THEOREM StoredAlways == Spec => []IInv
<1>1. Init => IInv
  BY DEF Init, IInv, Stored
<1>2. IInv /\ [Next]_vars => IInv'
  BY StoredStep
<1>3. QED
  BY <1>1, <1>2, PTL DEF Spec

\* AcceptedIsStored always holds: what a valid registration says is what
\* into_credential and open_http_headers or open_sql read back from its row, or
\* there is no row because of a NUL that validate_register_input lets through.
THEOREM RegistrationsAreKept == Spec => []AcceptedIsStored
<1>1. ASSUME IInv
      PROVE  AcceptedIsStored
  <2> SUFFICES ASSUME given # <<>>
               PROVE  AcceptedIsStored
    BY DEF AcceptedIsStored
  <2>1. PICK reg \in Written, k \in Keys :
          /\ given = <<reg>> /\ ValidRegister(NormalRegister(reg))
          /\ row = StoredRow(reg, k)
    BY <1>1 DEF IInv, Stored
  <2> DEFINE n == NormalRegister(reg)
  <2>2. given[1] = reg
    BY <2>1
  <2>3. Normalized(n)
    BY WrittenNormalized
  <2>4. CASE row = <<>>
    <3>1. ~RowFits(Row(n, k)) \/ HoldsNul(Row(n, k))
      BY <2>1, <2>4 DEF StoredRow
    <3>2. HasNul(n)
      BY <2>1, <2>3, <3>1, ValidFits, ValidNul
    <3>3. QED
      BY <2>2, <2>4, <3>2 DEF AcceptedIsStored, HasNul
  <2>5. CASE row # <<>>
    <3>1. row[1] = Row(n, k)
      BY <2>1, <2>5 DEF StoredRow
    <3>2. Credential(row[1]) = Registered(n) /\ OpenSecret(row[1]) = n.secret
      BY <2>3, <3>1, RoundTrip
    <3>3. QED
      BY <2>2, <2>5, <3>2 DEF AcceptedIsStored
  <2>6. QED
    BY <2>4, <2>5
<1>2. QED
  BY <1>1, StoredAlways, PTL

-----------------------------------------------------------------------------
\* What is sent is granted.

\* What is written has the fields of its tool.
LEMMA WrittenTypes ==
    ASSUME NEW reg \in Written
    PROVE  /\ Uniform(reg) /\ reg.category \in {"http", "sql"} /\ reg.policy \in PolicySet
           /\ reg.category = "http" =>
                reg.origin \in TextSet /\ reg.base \in PathSet /\ reg.secret \in Seq(HeaderSet)
           /\ reg.category = "sql" => reg.url \in TextSet
<1>1. CASE reg \in {FromHttp(in) : in \in HttpRegistrations}
  <2>1. PICK in \in HttpRegistrations : reg = FromHttp(in)
    BY <1>1
  <2>2. in \in HttpRegistration
    BY InputsAssumption
  <2>3. Uniform(reg) /\ reg.category = "http"
    BY <2>1, FromHttpUniform
  <2>4. /\ reg.policy = in.policy /\ reg.origin = in.origin /\ reg.base = in.base
        /\ reg.secret = in.secret
    BY <2>1 DEF FromHttp
  <2>5. QED
    BY <2>2, <2>3, <2>4 DEF HttpRegistration, HeaderSet
<1>2. CASE reg \in {FromSql(in) : in \in SqlRegistrations}
  <2>1. PICK in \in SqlRegistrations : reg = FromSql(in)
    BY <1>2
  <2>2. in \in SqlRegistration
    BY InputsAssumption
  <2>3. Uniform(reg) /\ reg.category = "sql"
    BY <2>1, FromSqlUniform
  <2>4. reg.policy = in.policy /\ reg.url = in.url
    BY <2>1 DEF FromSql
  <2>5. QED
    BY <2>2, <2>3, <2>4 DEF SqlRegistration
<1>3. QED
  BY <1>1, <1>2 DEF Written

\* A written registration's fields after normalizing.
LEMMA WrittenNormal ==
    ASSUME NEW reg \in Written
    PROVE  LET n == NormalRegister(reg)
           IN  /\ n.category = reg.category /\ n.sslmode = reg.sslmode
               /\ n.private = reg.private /\ n.insecure = reg.insecure
               /\ n.origin = NormalOrigin(reg.origin) /\ n.url = Trim(reg.url)
               /\ reg.category = "http" => n.base = NormalBasePath(reg.base)
               /\ n.policy = NormalPolicy(reg.policy, reg.category)
               /\ n.secret = NormalSecret(reg.secret, reg.category)
<1>1. Uniform(reg)
  BY WrittenTypes
<1>2. QED
  BY <1>1, NormalFields

\* No denied key of a stored policy holds a NUL.
LEMMA StoredKeys ==
    ASSUME NEW n, n.policy \in PolicySet, NEW k, ~HoldsNul(Row(n, k))
    PROVE  \A d \in n.policy.deniedKeys : "nul" \notin d.odd
<1> SUFFICES ASSUME NEW d \in n.policy.deniedKeys
             PROVE  "nul" \notin d.odd
  OBVIOUS
<1>1. "deniedKeys" \in DOMAIN n.policy /\ n.policy.deniedKeys # NoPolicy.deniedKeys
  BY DEF NoPolicy, PolicySet
<1>2. /\ "deniedKeys" \in DOMAIN PolicyJson(n.policy)
      /\ PolicyJson(n.policy).deniedKeys = n.policy.deniedKeys
  BY <1>1 DEF PolicyJson
<1>3. d \in PolicyTexts(PolicyJson(n.policy))
  BY <1>2 DEF PolicyTexts
<1>4. d \in StoredTexts(Row(n, k))
  BY <1>3 DEF StoredTexts, Row
<1>5. QED
  BY <1>4 DEF HoldsNul

\* A normalized call keeps the method, path, body and alias it was given, up to
\* trimming.
LEMMA NormalApiFields ==
    ASSUME NEW in, TypedApi(in), NEW normal \in NormalApi(in)
    PROVE  /\ normal.method = NormalMethod(in.method) /\ normal.path = Trim(in.path)
           /\ normal.body = in.body /\ normal.alias = Trim(in.alias)
           /\ normal.query \in NormalQueries(in) /\ normal.headers \in NormalHeaders(in)
<1>1. PICK query \in NormalQueries(in), headers \in NormalHeaders(in) :
            normal = NormalCall(in, query, headers)
  BY DEF NormalApi
<1>2. DOMAIN in = {"alias", "purpose", "method", "path", "query", "headers", "body",
                   "contentType", "jsonpath", "table", "maxBytes"}
  BY DEF TypedApi
<1>3. /\ normal.method = NormalMethod(in.method) /\ normal.path = Trim(in.path)
      /\ normal.body = in.body /\ normal.alias = Trim(in.alias)
      /\ normal.query = query /\ normal.headers = headers
  BY <1>1, <1>2 DEF NormalCall
<1>4. QED
  BY <1>3

\* An element of a list over S is in S.
LEMMA ElementIn ==
    ASSUME NEW S, NEW s \in Seq(S), NEW i \in DOMAIN s
    PROVE  s[i] \in S
  OBVIOUS

\* The base path of a normalized registration begins every path that is sent.
LEMMA NormalBase ==
    ASSUME NEW p \in PathSet
    PROVE  WithoutTail(NormalBasePath(p).word) = WithoutTail(p.word)
<1>1. p.word \in Seq(Words)
  BY DEF PathSet
<1>2. CASE p.word \in {<<>>, Root}
  <2>1. NormalBasePath(p).word = Root
    BY <1>2 DEF NormalBasePath, Text
  <2>2. WithoutTail(Root) = <<>> /\ WithoutTail(<<>>) = <<>>
    <3>5. Root \in Seq({""})
      BY OneElement DEF Root
    <3>1. \A i \in DOMAIN Root : Root[i] = ""
      <4>1. ASSUME NEW i \in DOMAIN Root
            PROVE  Root[i] \in {""}
        BY <3>5, ElementIn
      <4>2. QED
        BY <4>1
    <3>2. {i \in DOMAIN Root : Root[i] # ""} = {}
      BY <3>1
    <3>3. {i \in DOMAIN <<>> : <<>>[i] # ""} = {}
      OBVIOUS
    <3>4. QED
      BY <3>2, <3>3 DEF WithoutTail
  <2>3. QED
    BY <1>2, <2>1, <2>2
<1>3. CASE p.word \notin {<<>>, Root}
  <2>1. NormalBasePath(p) = [Trim(p) EXCEPT !.word = WithoutTail(@)]
    BY <1>3 DEF NormalBasePath
  <2>2. Trim(p).word = p.word /\ "word" \in DOMAIN Trim(p)
    BY DEF Trim, PathSet
  <2>3. NormalBasePath(p).word = WithoutTail(p.word)
    BY <2>1, <2>2
  <2>4. QED
    BY <1>1, <2>3, WithoutTailFacts
<1>4. QED
  BY <1>2, <1>3

\* A path that is joined to a base splits into the two again.
LEMMA JoinFacts ==
    ASSUME NEW base \in Seq(Words), NEW path \in Seq(Words)
    PROVE  /\ SubSeq(base \o path, 1, Len(base)) = base
           /\ SubSeq(base \o path, Len(base) + 1, Len(base \o path)) = path
<1>1. Len(base) \in Nat /\ Len(path) \in Nat /\ Len(base \o path) = Len(base) + Len(path)
  BY ConcatProperties
<1>2. SubSeq(base \o path, 1, Len(base)) = base
  <2>1. CASE Len(base) = 0
    BY <1>1, <2>1, SubSeqEmpty
  <2>2. CASE Len(base) > 0
    <3>1. 1 \in 1 .. Len(base) /\ Len(base) \in 1 .. Len(base)
      BY <1>1, <2>2
    <3>2. SubSeq(base \o path, 1, Len(base)) = SubSeq(base, 1, Len(base))
      BY <3>1, SubSeqOfConcat1
    <3>3. QED
      BY <3>2, SubSeqFull
  <2>3. QED
    BY <1>1, <2>1, <2>2
<1>3. SubSeq(base \o path, Len(base) + 1, Len(base \o path)) = path
  <2>1. CASE Len(path) = 0
    <3>1. path = <<>> /\ Len(base \o path) < Len(base) + 1
      BY <1>1, <2>1
    <3>2. QED
      BY <1>1, <3>1, SubSeqEmpty
  <2>2. CASE Len(path) > 0
    <3> DEFINE f == Len(base) + 1
               l == Len(base) + Len(path)
    <3>1. /\ f \in Len(base) + 1 .. Len(base) + Len(path)
          /\ l \in Len(base) + 1 .. Len(base) + Len(path)
          /\ f - Len(base) = 1 /\ l - Len(base) = Len(path)
      BY <1>1, <2>2
    <3> HIDE DEF f, l
    <3>2. SubSeq(base \o path, f, l) = SubSeq(path, f - Len(base), l - Len(base))
      BY <3>1, SubSeqOfConcat2
    <3>3. SubSeq(base \o path, f, l) = path
      BY <3>1, <3>2, SubSeqFull
    <3>4. QED
      BY <1>1, <3>3 DEF f, l
  <2>3. QED
    BY <1>1, <2>1, <2>2
<1>4. QED
  BY <1>2, <1>3

-----------------------------------------------------------------------------

\* A row that is there is of a valid registration, reads back as it, and none of
\* its denied keys holds a NUL.
LEMMA StoredReads ==
    ASSUME Stored, row # <<>>
    PROVE  \E reg \in Written :
              LET n == NormalRegister(reg)
              IN  /\ given = <<reg>> /\ Normalized(n) /\ ValidRegister(n)
                  /\ Credential(row[1]) = Registered(n) /\ OpenSecret(row[1]) = n.secret
                  /\ row[1].category = n.category /\ row[1].alias = n.alias
                  /\ \A d \in n.policy.deniedKeys : "nul" \notin d.odd
<1>1. PICK reg \in Written, k \in Keys :
          /\ given = <<reg>> /\ ValidRegister(NormalRegister(reg))
          /\ row = StoredRow(reg, k)
  BY DEF Stored
<1> DEFINE n == NormalRegister(reg)
<1>2. row = <<Row(n, k)>> /\ ~HoldsNul(Row(n, k))
  BY <1>1 DEF StoredRow
<1>3. Normalized(n)
  BY WrittenNormalized
<1> HIDE DEF n
<1>4. row[1] = Row(n, k)
  BY <1>2
<1>5. Row(n, k).category = n.category /\ Row(n, k).alias = n.alias
  BY DEF Row
<1>6. Credential(row[1]) = Registered(n) /\ OpenSecret(row[1]) = n.secret
  BY <1>3, <1>4, RoundTrip
<1>7. \A d \in n.policy.deniedKeys : "nul" \notin d.odd
  BY <1>2, <1>3, StoredKeys DEF Normalized
<1>8. QED
  BY <1>1, <1>3, <1>4, <1>5, <1>6, <1>7 DEF n

-----------------------------------------------------------------------------
\* Origin and base path of a stored credential are those written.
LEMMA GrantedTarget ==
    ASSUME NEW reg \in Written, reg.category = "http"
    PROVE  /\ NormalRegister(reg).origin.word = reg.origin.word
           /\ WithoutTail(NormalRegister(reg).base.word) = WithoutTail(reg.base.word)
           /\ WithoutTail(reg.base.word) \in Seq(Words)
<1>1. reg.origin \in TextSet /\ reg.base \in PathSet
  BY WrittenTypes
<1>2. /\ NormalRegister(reg).origin = NormalOrigin(reg.origin)
      /\ NormalRegister(reg).base = NormalBasePath(reg.base)
  BY WrittenNormal
<1>3. reg.base.word \in Seq(Words)
  BY <1>1 DEF PathSet
<1>4. QED
  BY <1>1, <1>2, <1>3, TextTypes, NormalBase, WithoutTailFacts

\* The lists of a stored HTTP policy are those written, up to trimming, folding
\* and defaults.
LEMMA WrittenPolicy ==
    ASSUME NEW reg \in Written, reg.category = "http"
    PROVE  LET p == NormalRegister(reg).policy
           IN  /\ p.methods = {Fold(Trim(m)) : m \in OrDefault(reg.policy.methods, Plain("GET"))}
               /\ p.prefixes = OrDefault(reg.policy.prefixes, Text(Root, {}))
               /\ p.headers = {CanonicalHeader(h) : h \in reg.policy.headers}
               /\ p.deniedKeys = reg.policy.deniedKeys
<1>1. reg.policy \in PolicySet /\ NormalRegister(reg).policy = NormalPolicy(reg.policy, "http")
  BY WrittenTypes, WrittenNormal
<1>2. QED
  BY <1>1, NormalPolicyType

\* A call's method is a text once it is normalized.
LEMMA CalledMethod ==
    ASSUME NEW t \in TextSet
    PROVE  NormalMethod(t) \in TextSet
<1>1. Fold(Trim(t)) \in TextSet
  BY TextTypes
<1>2. "GET" \in Words
  BY WordsAssumption
<1>3. QED
  BY <1>1, <1>2, DefaultType DEF NormalMethod

\* A method that the stored policy allows is one that was written.
LEMMA GrantedMethod ==
    ASSUME NEW reg \in Written, reg.category = "http",
           NEW method \in TextSet,
           ContainsFold(NormalRegister(reg).policy.methods, method)
    PROVE  \E m \in OrDefault(reg.policy.methods, Plain("GET")) : m.word = method.word
<1> DEFINE M == OrDefault(reg.policy.methods, Plain("GET"))
<1>1. PICK item \in {Fold(Trim(m)) : m \in M} : Fold(item) = Fold(method)
  BY WrittenPolicy DEF ContainsFold
<1>2. M \subseteq TextSet
  <2>1. Plain("GET") \in TextSet
    BY WordsAssumption, PlainType
  <2>2. reg.policy.methods \subseteq TextSet
    BY WrittenTypes DEF PolicySet
  <2>3. QED
    BY <2>1, <2>2 DEF OrDefault
<1> HIDE DEF M
<1>3. PICK m \in M : item = Fold(Trim(m))
  BY <1>1
<1>4. Trim(m) \in TextSet /\ Trim(m).word = m.word
  BY <1>2, TextTypes
<1>5. item \in TextSet /\ item.word = m.word
  BY <1>3, <1>4, TextTypes
<1>6. m.word = method.word
  <2>1. Fold(item).word = item.word /\ Fold(method).word = method.word
    BY <1>5, TextTypes
  <2>2. QED
    BY <1>1, <1>5, <2>1
<1>7. QED
  BY <1>6 DEF M

\* A query key that escapes a denied key of the same word does so because the
\* denied key has a blank or a line break around it, which no query key keeps.
LEMMA GrantedKey ==
    ASSUME NEW o \in NameSet, ValidName(Trim(o)), NEW d \in FreeSet,
           Fold(d) # Fold(Trim(o)), d.word = Trim(o).word, "nul" \notin d.odd
    PROVE  d.odd \cap {"pad", "crlf"} # {}
<1>1. NameSet \subseteq TextSet /\ FreeSet \subseteq TextSet
  BY DEF NameSet, FreeSet, TextSet, Oddities
<1>2. o \in TextSet /\ d \in TextSet
  BY <1>1
<1>3. Trim(o) \in TextSet /\ Trim(o).odd \subseteq {"case"}
  <2>1. Trim(o) \in TextSet /\ Trim(o).odd = o.odd \ {"pad"}
    BY <1>2, TextTypes
  <2>2. o.odd \subseteq {"pad", "case", "crlf", "nul", "short", "long"}
    BY DEF NameSet
  <2>3. Trim(o).odd \cap {"crlf", "short", "long"} = {} /\ "nul" \notin Trim(o).odd
    BY DEF ValidName, ValidBounded
  <2>4. QED
    BY <2>1, <2>2, <2>3
<1>4. SUFFICES ASSUME d.odd \cap {"pad", "crlf"} = {}
               PROVE  FALSE
  OBVIOUS
<1>5. d.odd \subseteq {"case"}
  BY <1>4 DEF FreeSet
<1>6. /\ Fold(d) \in TextSet /\ Fold(Trim(o)) \in TextSet
      /\ Fold(d).word = Fold(Trim(o)).word
      /\ Fold(d).odd = {} /\ Fold(Trim(o)).odd = {}
  <2>1. /\ Fold(d) \in TextSet /\ Fold(d).word = d.word
        /\ Fold(d).odd = d.odd \ {"case", "title"}
    BY <1>2, TextTypes
  <2>2. /\ Fold(Trim(o)) \in TextSet /\ Fold(Trim(o)).word = Trim(o).word
        /\ Fold(Trim(o)).odd = Trim(o).odd \ {"case", "title"}
    BY <1>3, TextTypes
  <2>3. QED
    BY <1>3, <1>5, <2>1, <2>2
<1>7. Fold(d).odd = Fold(Trim(o)).odd
  BY <1>6
<1>8. QED
  BY <1>6, <1>7, SameText

\* What two maps make together
LEMMA UnionOfMaps ==
    ASSUME NEW f, NEW g
    PROVE  /\ DOMAIN (f ++ g) = DOMAIN f \cup DOMAIN g
           /\ \A k \in DOMAIN f : (f ++ g)[k] = f[k]
           /\ \A k \in DOMAIN g \ DOMAIN f : (f ++ g)[k] = g[k]
  BY DEF ++

-----------------------------------------------------------------------------

\* The headers of a secret by their folded names
SealedHeaders(secret) ==
    [n \in {Fold(secret[i].name) : i \in DOMAIN secret} |->
        secret[CHOOSE i \in DOMAIN secret : Fold(secret[i].name) = n].value]

\* A sealed header is sent with the value it was sealed with: names that differ
\* only in case are refused at registration, so none overwrites another.
LEMMA SealedFacts ==
    ASSUME NEW secret \in Seq(HeaderSet), ValidHttpSecret(secret), NEW i \in DOMAIN secret
    PROVE  SealedHeaders(secret)[Fold(secret[i].name)] = secret[i].value
<1> DEFINE nm == Fold(secret[i].name)
           c == CHOOSE j \in DOMAIN secret : Fold(secret[j].name) = nm
<1>1. SealedHeaders(secret)[nm] = secret[c].value
  BY DEF SealedHeaders
<1>2. c \in DOMAIN secret /\ Fold(secret[c].name) = nm
  OBVIOUS
<1>3. ASSUME NEW a \in DOMAIN secret, NEW b \in DOMAIN secret,
             Fold(secret[a].name) = Fold(secret[b].name)
      PROVE  ~(a < b)
  <2>1. SUFFICES ASSUME a < b
                 PROVE  FALSE
    OBVIOUS
  <2>2. DOMAIN secret = 1 .. Len(secret) /\ Len(secret) \in Nat
    OBVIOUS
  <2>3. a \in 1 .. b - 1
    <3>1. a \in 1 .. Len(secret) /\ b \in 1 .. Len(secret)
      BY <2>2
    <3>2. QED
      BY ONLY <2>1, <2>2, <3>1
  <2>4. QED
    BY <1>3, <2>3 DEF ValidHttpSecret
<1> HIDE DEF c, nm
<1>4. c = i
  <2>1. ~(c < i) /\ ~(i < c)
    BY <1>2, <1>3 DEF nm
  <2>2. c \in Nat /\ i \in Nat
    BY <1>2
  <2>3. QED
    BY <2>1, <2>2
<1>5. QED
  BY <1>1, <1>4 DEF nm

\* The headers on the wire are the sealed ones, the caller's and Accept; where
\* two meet, the sealed one wins.
LEMMA WireFacts ==
    ASSUME NEW in, NEW secret
    PROVE  LET h == WireHeaders(in, secret)
               S == {Fold(secret[i].name) : i \in DOMAIN secret}
           IN  /\ S \subseteq DOMAIN h
               /\ \A n \in S : h[n] = SealedHeaders(secret)[n]
               /\ \A n \in DOMAIN h \ S :
                     (n \in DOMAIN in.headers /\ h[n] = in.headers[n]) \/ n = Plain("accept")
<1> DEFINE s == SealedHeaders(secret)
           a == [n \in {Plain("accept")} |-> Plain("json")]
           b == s ++ in.headers
           h == WireHeaders(in, secret)
           S == {Fold(secret[i].name) : i \in DOMAIN secret}
<1>1. h = b ++ a
  BY DEF WireHeaders, SealedHeaders
<1>2. DOMAIN s = S /\ DOMAIN a = {Plain("accept")}
  BY DEF SealedHeaders
<1> HIDE DEF s, a, h, S
<1>3. /\ DOMAIN b = S \cup DOMAIN in.headers
      /\ \A k \in S : b[k] = s[k]
      /\ \A k \in DOMAIN in.headers \ S : b[k] = in.headers[k]
  BY <1>2, UnionOfMaps
<1> HIDE DEF b
<1>4. /\ DOMAIN h = DOMAIN b \cup {Plain("accept")}
      /\ \A k \in DOMAIN b : h[k] = b[k]
  BY <1>1, <1>2, UnionOfMaps
<1>5. /\ S \subseteq DOMAIN h
      /\ \A n \in S : h[n] = s[n]
      /\ \A n \in DOMAIN h \ S :
            (n \in DOMAIN in.headers /\ h[n] = in.headers[n]) \/ n = Plain("accept")
  BY <1>3, <1>4
<1>6. QED
  BY <1>5 DEF h, s, S

\* The sealed headers are those written, under canonical names.
LEMMA WrittenSecret ==
    ASSUME NEW reg \in Written, reg.category = "http"
    PROVE  LET s == NormalRegister(reg).secret
           IN  /\ s \in Seq(HeaderSet) /\ DOMAIN s = DOMAIN reg.secret
               /\ \A i \in DOMAIN reg.secret :
                     /\ Fold(s[i].name).word = reg.secret[i].name.word
                     /\ s[i].value = reg.secret[i].value
<1> DEFINE s == NormalRegister(reg).secret
<1>1. s = NormalSecret(reg.secret, "http") /\ reg.secret \in Seq(HeaderSet)
  BY WrittenTypes, WrittenNormal
<1>2. /\ s \in Seq(HeaderSet) /\ DOMAIN s = DOMAIN reg.secret
      /\ \A i \in DOMAIN reg.secret :
            s[i].name = CanonicalHeader(reg.secret[i].name) /\ s[i].value = reg.secret[i].value
  BY <1>1, NormalSecretType
<1> HIDE DEF s
<1>3. ASSUME NEW i \in DOMAIN reg.secret
      PROVE  Fold(s[i].name).word = reg.secret[i].name.word
  <2>1. reg.secret[i] \in HeaderSet
    BY <1>1, ElementIn
  <2>2. reg.secret[i].name \in TextSet
    BY <2>1 DEF HeaderSet
  <2>3. s[i].name \in TextSet /\ s[i].name.word = reg.secret[i].name.word
    BY <1>2, <2>2, HeaderTypes
  <2>4. QED
    BY <2>3, TextTypes
<1>4. QED
  BY <1>2, <1>3 DEF s

\* Every header that was sealed goes out with its value.
LEMMA GrantedSecrets ==
    ASSUME NEW reg \in Written, reg.category = "http", NEW in,
           ValidHttpSecret(NormalRegister(reg).secret), NEW i \in DOMAIN reg.secret
    PROVE  LET h == WireHeaders(in, NormalRegister(reg).secret)
               n == Fold(NormalRegister(reg).secret[i].name)
           IN  n \in DOMAIN h /\ n.word = reg.secret[i].name.word /\ h[n] = reg.secret[i].value
<1> DEFINE s == NormalRegister(reg).secret
           h == WireHeaders(in, s)
           nm == Fold(s[i].name)
<1>1. /\ s \in Seq(HeaderSet) /\ i \in DOMAIN s /\ nm.word = reg.secret[i].name.word
      /\ s[i].value = reg.secret[i].value
  BY WrittenSecret
<1> HIDE DEF s
<1>2. SealedHeaders(s)[nm] = s[i].value
  BY <1>1, SealedFacts DEF s
<1>3. nm \in {Fold(s[j].name) : j \in DOMAIN s}
  BY <1>1
<1>4. nm \in DOMAIN h /\ h[nm] = SealedHeaders(s)[nm]
  BY <1>3, WireFacts
<1> HIDE DEF h, nm
<1>5. nm \in DOMAIN h /\ nm.word = reg.secret[i].name.word /\ h[nm] = reg.secret[i].value
  BY <1>1, <1>2, <1>4
<1>6. QED
  BY <1>5 DEF h, s, nm

\* A header on the wire that was not sealed is Accept or one the caller gave and
\* the policy allows.
LEMMA GrantedHeaders ==
    ASSUME NEW reg \in Written, reg.category = "http",
           NEW in, TypedApi(in), NEW normal \in NormalApi(in),
           \A n \in DOMAIN normal.headers : ContainsFold(NormalRegister(reg).policy.headers, n),
           NEW n \in DOMAIN WireHeaders(normal, NormalRegister(reg).secret),
           n.word \notin {reg.secret[i].name.word : i \in DOMAIN reg.secret}
    PROVE  \/ n.word = "accept"
           \/ \E h \in reg.policy.headers, o \in DOMAIN in.headers :
                 /\ h.word = n.word /\ o.word = n.word
                 /\ WireHeaders(normal, NormalRegister(reg).secret)[n] = in.headers[o]
<1> DEFINE s == NormalRegister(reg).secret
           wh == WireHeaders(normal, s)
<1>1. DOMAIN s = DOMAIN reg.secret
      /\ \A i \in DOMAIN reg.secret : Fold(s[i].name).word = reg.secret[i].name.word
  BY WrittenSecret
<1> HIDE DEF s
<1>2. n \notin {Fold(s[i].name) : i \in DOMAIN s}
  BY <1>1
<1>3. (n \in DOMAIN normal.headers /\ wh[n] = normal.headers[n]) \/ n = Plain("accept")
  BY <1>2, WireFacts DEF s
<1> HIDE DEF wh
<1>4. CASE n = Plain("accept")
  BY <1>4 DEF Plain, Text
<1>5. CASE n \in DOMAIN normal.headers /\ wh[n] = normal.headers[n]
  <2> DEFINE to == [k \in DOMAIN in.headers |-> HeaderName(k)]
  <2>1. normal.headers \in Rekeyed(in.headers, to)
    BY NormalApiFields DEF NormalHeaders
  <2> HIDE DEF to
  <2>2. PICK o \in DOMAIN in.headers : to[o] = n /\ normal.headers[n] = in.headers[o]
    <3>1. \A x \in DOMAIN normal.headers :
             \E k \in DOMAIN in.headers : to[k] = x /\ normal.headers[x] = in.headers[k]
      BY <2>1 DEF Rekeyed
    <3>2. n \in DOMAIN normal.headers
      BY <1>5
    <3>3. QED
      BY ONLY <3>1, <3>2
  <2>3. n = Fold(Trim(o)) /\ o \in TextSet
    <3>1. o \in TextSet
      <4>1. MapOf(in.headers, TextSet)
        BY DEF TypedApi
      <4>2. QED
        BY <4>1 DEF MapOf
    <3>2. n = HeaderName(o)
      BY <2>2 DEF to
    <3>3. QED
      BY <3>1, <3>2 DEF HeaderName
  <2>4. Trim(o) \in TextSet /\ Trim(o).word = o.word
    BY <2>3, TextTypes
  <2>5. n \in TextSet /\ n.word = o.word
    BY <2>3, <2>4, TextTypes
  <2>6. PICK item \in {CanonicalHeader(h) : h \in reg.policy.headers} : Fold(item) = Fold(n)
    BY <1>5, WrittenPolicy DEF ContainsFold
  <2>7. PICK h \in reg.policy.headers : item = CanonicalHeader(h)
    BY <2>6
  <2>8. h \in TextSet
    BY WrittenTypes DEF PolicySet
  <2>9. item \in TextSet /\ item.word = h.word
    BY <2>7, <2>8, HeaderTypes
  <2>10. h.word = n.word
    <3>1. Fold(item).word = item.word /\ Fold(n).word = n.word
      BY <2>5, <2>9, TextTypes
    <3>2. QED
      BY <2>6, <2>9, <3>1
  <2>11. wh[n] = in.headers[o]
    BY <1>5, <2>2
  <2>12. QED
    BY <2>5, <2>10, <2>11 DEF wh, s
<1>6. QED
  BY <1>3, <1>4, <1>5

-----------------------------------------------------------------------------

\* The fields that a call reads of a stored credential.
LEMMA RegisteredFields ==
    ASSUME NEW n, Normalized(n)
    PROVE  LET c == Registered(n)
           IN  /\ c.category = n.category /\ c.alias = n.alias /\ c.origin = n.origin
               /\ c.base = n.base /\ c.url = n.url /\ c.sslmode = n.sslmode
               /\ c.provider = n.provider /\ c.env = n.env
               /\ c.policy = n.policy /\ c.private = n.private /\ c.insecure = n.insecure
<1>1. DOMAIN n = {"category", "provider", "alias", "origin", "base", "url", "sslmode", "secret",
                  "description", "env", "tags", "policy", "private", "insecure", "ca"}
  BY DEF Normalized, Uniform
<1>2. QED
  BY <1>1 DEF Registered

\* A call that validate_policy_boundary lets pass has an allowed method, path
\* and headers, and no denied query key.
LEMMA NotDenied ==
    ASSUME NEW policy, NEW in, ApiDenial(policy, in) = "none"
    PROVE  /\ ContainsFold(policy.methods, in.method)
           /\ \E p \in policy.prefixes : MatchesPrefix(in.path.word, p.word)
           /\ \A k \in DOMAIN in.query : ~ContainsFold(policy.deniedKeys, k)
           /\ \A n \in DOMAIN in.headers : ContainsFold(policy.headers, n)
  BY DEF ApiDenial

\* A body is only sent with a method other than GET, and with a content type.
LEMMA GrantedBody ==
    ASSUME NEW in, TypedApi(in), ValidApi(in), NEW normal \in NormalApi(in),
           normal.method # Plain("GET"), normal.body # <<>>
    PROVE  normal.method.word # "GET" /\ ContentType(normal) # <<>>
<1>1. normal.method = NormalMethod(in.method) /\ in.method \in TextSet
  BY NormalApiFields DEF TypedApi
<1>2. normal.method \in TextSet /\ normal.method.odd = {}
  BY <1>1, CalledMethod DEF ValidApi
<1>3. Plain("GET") \in TextSet /\ Plain("GET").word = "GET" /\ Plain("GET").odd = {}
  BY WordsAssumption, PlainType
<1>4. normal.method.word # "GET"
  BY <1>2, <1>3, SameText
<1>5. ContentType(normal) # <<>>
  BY DEF ContentType
<1>6. QED
  BY <1>4, <1>5

\* A path below a base path, both as the URL library reads them, is sent as it
\* is joined.
LEMMA WrittenPathsJoin ==
    ASSUME NEW base \in Seq(Words), NEW path \in Seq(Words), AsWritten(base), AsWritten(path)
    PROVE  SetPath(WithoutTail(base) \o path) = WithoutTail(base) \o path
<1> DEFINE above == WithoutTail(base)
<1>1. above \in Seq(Words) /\ \A i \in DOMAIN above : i \in DOMAIN base /\ above[i] = base[i]
  <2> DEFINE named == {i \in DOMAIN base : base[i] # ""}
  <2>1. above = <<>> \/ \E n \in named : above = SubSeq(base, 1, n)
    <3>1. named # {} => \E i \in named : \A j \in named : j <= i
      BY LastNamed
    <3>2. QED
      BY <3>1 DEF WithoutTail
  <2>2. ASSUME NEW n \in named, above = SubSeq(base, 1, n)
        PROVE  above \in Seq(Words) /\ \A i \in DOMAIN above : i \in DOMAIN base /\ above[i] = base[i]
    <3>1. n \in 1 .. Len(base) /\ Len(base) \in Nat /\ DOMAIN base = 1 .. Len(base)
      <4>1. \A i \in named : i \in DOMAIN base
        OBVIOUS
      <4> HIDE DEF above, named
      <4>2. QED
        BY <4>1
    <3> HIDE DEF above, named
    <3>2. /\ above \in Seq(Words) /\ Len(above) = n /\ \A i \in 1 .. n : above[i] = base[i]
      BY <2>2, <3>1, SubSeqProperties
    <3>3. DOMAIN above = 1 .. n
      BY <3>2
    <3>4. QED
      BY <3>1, <3>2, <3>3
  <2> HIDE DEF above
  <2>3. above = <<>> => above \in Seq(Words) /\ DOMAIN above = {}
    OBVIOUS
  <2>4. QED
    BY <2>1, <2>2, <2>3
<1> HIDE DEF above
<1>2. ASSUME NEW i \in DOMAIN (above \o path)
      PROVE  (above \o path)[i] \notin DOMAIN Readings
  <2>1. CASE i \in DOMAIN above
    BY <1>1, <2>1 DEF AsWritten
  <2>2. CASE i \notin DOMAIN above
    <3>1. i - Len(above) \in DOMAIN path /\ (above \o path)[i] = path[i - Len(above)]
      BY <1>1, <2>2
    <3>2. QED
      BY <3>1 DEF AsWritten
  <2>3. QED
    BY <2>1, <2>2
<1>3. AsWritten(above \o path)
  BY <1>2 DEF AsWritten
<1>4. QED
  BY <1>3 DEF SetPath, above

\* The request that execute builds from a call within the policy is granted by
\* the registration.
LEMMA HttpSent ==
    ASSUME NEW reg \in Written, reg.category = "http",
           Normalized(NormalRegister(reg)), ValidRegister(NormalRegister(reg)),
           \A d \in NormalRegister(reg).policy.deniedKeys : "nul" \notin d.odd,
           NEW in, TypedApi(in), ValidApi(in), NEW normal \in NormalApi(in),
           ApiDenial(NormalRegister(reg).policy, normal) = "none"
    PROVE  HttpGranted(HttpRequest(normal, Registered(NormalRegister(reg)),
                                   NormalRegister(reg).secret),
                       reg, in)
<1> DEFINE n == NormalRegister(reg)
           q == HttpRequest(normal, Registered(n), n.secret)
           base == WithoutTail(reg.base.word)
           path == normal.path.word
<1>1. n.category = "http" /\ Registered(n).origin = n.origin /\ Registered(n).base = n.base
  BY WrittenNormal, RegisteredFields
<1>2. /\ normal.method = NormalMethod(in.method) /\ normal.path = Trim(in.path)
      /\ normal.query \in NormalQueries(in)
  BY NormalApiFields
<1>3. /\ ContainsFold(n.policy.methods, normal.method)
      /\ \E p \in n.policy.prefixes : MatchesPrefix(path, p.word)
      /\ \A k \in DOMAIN normal.query : ~ContainsFold(n.policy.deniedKeys, k)
      /\ \A h \in DOMAIN normal.headers : ContainsFold(n.policy.headers, h)
  BY NotDenied
<1>4. path \in Seq(Words)
  BY <1>2 DEF TypedApi, PathSet, Trim
<1>5. /\ q.origin = n.origin /\ q.path = SetPath(WithoutTail(n.base.word) \o path)
      /\ q.query = normal.query /\ q.headers = WireHeaders(normal, n.secret)
      /\ q.contentType = ContentType(normal) /\ q.method = normal.method
      /\ q.body = IF normal.method = Plain("GET") THEN <<>> ELSE normal.body
  BY <1>1 DEF HttpRequest, JoinBasePath
<1>6. /\ n.origin.word = reg.origin.word /\ WithoutTail(n.base.word) = base
      /\ base \in Seq(Words)
  BY GrantedTarget
<1> HIDE DEF n, q, base, path
<1>7. q.origin.word = reg.origin.word
  BY <1>5, <1>6
<1>8. ASSUME AsWritten(reg.base.word), AsWritten(in.path.word)
      PROVE  /\ SubSeq(q.path, 1, Len(base)) = base
             /\ SubSeq(q.path, Len(base) + 1, Len(q.path)) = path
  <2>1. reg.base.word \in Seq(Words) /\ path = in.path.word
    BY <1>2, WrittenTypes DEF PathSet, Trim, TypedApi, path
  <2>2. SetPath(base \o path) = base \o path
    BY <1>4, <1>8, <2>1, WrittenPathsJoin DEF base
  <2>3. q.path = base \o path
    BY <1>5, <1>6, <2>2
  <2>4. QED
    BY <1>4, <1>6, <2>3, JoinFacts
<1>9. \E p \in OrDefault(reg.policy.prefixes, Text(Root, {})) : MatchesPrefix(path, p.word)
  BY <1>3, WrittenPolicy DEF n
<1>10. \E m \in OrDefault(reg.policy.methods, Plain("GET")) : m.word = q.method.word
  <2>1. in.method \in TextSet
    BY DEF TypedApi
  <2>2. normal.method \in TextSet
    BY <1>2, <2>1, CalledMethod
  <2>3. QED
    BY <1>3, <1>5, <2>2, GrantedMethod DEF n
<1>11. ASSUME NEW k \in DOMAIN q.query, NEW d \in reg.policy.deniedKeys, d.word = k.word
       PROVE  d.odd \cap {"pad", "crlf"} # {}
  <2>1. n.policy.deniedKeys = reg.policy.deniedKeys
    BY WrittenPolicy DEF n
  <2>2. "nul" \notin d.odd /\ Fold(d) # Fold(k)
    BY <1>3, <1>5, <1>11, <2>1 DEF n, ContainsFold
  <2>3. PICK o \in DOMAIN in.query : k = Trim(o)
    <3>1. normal.query \in Rekeyed(in.query, [o \in DOMAIN in.query |-> Trim(o)])
      BY <1>2 DEF NormalQueries
    <3> DEFINE to == [o \in DOMAIN in.query |-> Trim(o)]
    <3> HIDE DEF to
    <3>2. DOMAIN normal.query = {to[o] : o \in DOMAIN in.query}
      BY <3>1 DEF Rekeyed, to
    <3>3. PICK o \in DOMAIN in.query : k = to[o]
      BY <1>5, <1>11, <3>2
    <3>4. QED
      BY <3>3 DEF to
  <2>4. o \in NameSet
    <3>1. MapOf(in.query, NameSet)
      BY DEF TypedApi
    <3>2. QED
      BY <3>1 DEF MapOf
  <2>5. ValidName(Trim(o))
    BY DEF ValidApi, ValidQuery
  <2>6. d \in FreeSet
    BY WrittenTypes DEF PolicySet
  <2>7. QED
    BY <1>11, <2>2, <2>3, <2>4, <2>5, <2>6, GrantedKey
<1>12. ASSUME NEW i \in DOMAIN reg.secret
       PROVE  \E h \in DOMAIN q.headers :
                 h.word = reg.secret[i].name.word /\ q.headers[h] = reg.secret[i].value
  <2>1. ValidHttpSecret(n.secret)
    BY <1>1 DEF ValidRegister, n
  <2> DEFINE h == Fold(n.secret[i].name)
  <2>2. /\ h \in DOMAIN WireHeaders(normal, n.secret) /\ h.word = reg.secret[i].name.word
        /\ WireHeaders(normal, n.secret)[h] = reg.secret[i].value
    BY <2>1, GrantedSecrets DEF n
  <2>3. QED
    BY <1>5, <2>2
<1>13. ASSUME NEW h \in DOMAIN q.headers,
              h.word \notin {reg.secret[i].name.word : i \in DOMAIN reg.secret}
       PROVE  \/ h.word = "accept"
              \/ \E p \in reg.policy.headers, o \in DOMAIN in.headers :
                    p.word = h.word /\ o.word = h.word /\ q.headers[h] = in.headers[o]
  <2>1. h \in DOMAIN WireHeaders(normal, NormalRegister(reg).secret)
    BY <1>5, <1>13 DEF n
  <2>2. \A x \in DOMAIN normal.headers : ContainsFold(NormalRegister(reg).policy.headers, x)
    BY <1>3 DEF n
  <2>3. \/ h.word = "accept"
        \/ \E p \in reg.policy.headers, o \in DOMAIN in.headers :
              /\ p.word = h.word /\ o.word = h.word
              /\ WireHeaders(normal, NormalRegister(reg).secret)[h] = in.headers[o]
    BY <1>13, <2>1, <2>2, GrantedHeaders
  <2>4. QED
    BY <1>5, <2>3 DEF n
<1>14. ASSUME q.body # <<>>
       PROVE  q.method.word # "GET" /\ q.contentType # <<>>
  <2>1. normal.method # Plain("GET") /\ normal.body # <<>>
    BY <1>5, <1>14
  <2>2. normal.method.word # "GET" /\ ContentType(normal) # <<>>
    BY <2>1, GrantedBody
  <2>3. QED
    BY <1>5, <2>2
<1>15. HttpGranted(q, reg, in)
  <2>1. AsWritten(reg.base.word) /\ AsWritten(in.path.word) =>
            /\ SubSeq(q.path, 1, Len(base)) = base
            /\ \E p \in OrDefault(reg.policy.prefixes, Text(Root, {})) :
                  MatchesPrefix(SubSeq(q.path, Len(base) + 1, Len(q.path)), p.word)
    BY <1>8, <1>9
  <2>2. \A k \in DOMAIN q.query, d \in reg.policy.deniedKeys :
            d.word = k.word => d.odd \cap {"pad", "crlf"} # {}
    BY <1>11
  <2>3. QED
    BY <1>7, <1>10, <1>12, <1>13, <1>14, <2>1, <2>2 DEF HttpGranted, base
<1>16. QED
  BY <1>15 DEF q, n

-----------------------------------------------------------------------------

\* A missing option takes the default.
LEMMA GivenType ==
    ASSUME NEW S, NEW o \in OptionSet(S), NEW d \in S
    PROVE  Given(o, d) \in S
<1>1. CASE o = <<>>
  BY <1>1 DEF Given
<1>2. CASE o # <<>>
  <2>1. o \in Seq(S)
    BY DEF OptionSet
  <2>2. 1 \in DOMAIN o
    BY <1>2, <2>1
  <2>3. o[1] \in S
    BY <2>1, <2>2, ElementIn
  <2>4. QED
    BY <1>2, <2>3 DEF Given
<1>3. QED
  BY <1>1, <1>2

\* The session that a SQL tool opens is granted by the registration.
LEMMA SqlSent ==
    ASSUME NEW reg \in Written, reg.category = "sql",
           Normalized(NormalRegister(reg)), ValidRegister(NormalRegister(reg)),
           NEW normal, NEW rows, NEW bytes,
           LET policy == NormalRegister(reg).policy
           IN  /\ policy.maxRows > 0 => rows <= policy.maxRows
               /\ policy.maxBytes > 0 => bytes <= policy.maxBytes
               /\ policy.timeout > 0 => normal.timeout <= policy.timeout
    PROVE  SqlGranted(SqlSession(normal, Registered(NormalRegister(reg)),
                                 NormalRegister(reg).secret)
                        ++ [rows |-> rows, bytes |-> bytes],
                      reg)
<1> DEFINE n == NormalRegister(reg)
           s == SqlSession(normal, Registered(n), n.secret)
           b == [rows |-> rows, bytes |-> bytes]
           q == s ++ b
<1>1. /\ Registered(n).url = n.url /\ Registered(n).sslmode = n.sslmode
      /\ Registered(n).private = n.private /\ Registered(n).insecure = n.insecure
  BY RegisteredFields
<1>2. /\ DOMAIN s = {"url", "sslmode", "private", "insecure", "username", "password",
                     "database", "timeout"}
      /\ s.url = n.url /\ s.sslmode = n.sslmode
      /\ s.username = n.secret.username /\ s.password = n.secret.password
      /\ s.timeout = normal.timeout
  BY <1>1 DEF SqlSession
<1>3. DOMAIN b = {"rows", "bytes"} /\ b.rows = rows /\ b.bytes = bytes
  OBVIOUS
<1>4. /\ n.category = "sql" /\ n.url = Trim(reg.url) /\ n.sslmode = reg.sslmode
      /\ n.private = reg.private /\ n.insecure = reg.insecure
      /\ n.secret = NormalSecret(reg.secret, "sql") /\ n.policy = NormalPolicy(reg.policy, "sql")
  BY WrittenNormal
<1>5. reg.url \in TextSet /\ reg.policy \in PolicySet
  BY WrittenTypes
<1>6. ValidDatabaseUrl(n.url, n.sslmode, n.private, n.insecure)
  BY <1>4 DEF ValidRegister, n
<1>7. /\ n.policy.maxRows = reg.policy.maxRows /\ n.policy.maxBytes = reg.policy.maxBytes
      /\ n.policy.timeout = reg.policy.timeout
  BY <1>4, <1>5, NormalPolicyType
<1>8. n.url.word = reg.url.word
  BY <1>4, <1>5, TextTypes
<1>9. n.secret = reg.secret
  BY <1>4 DEF NormalSecret
<1>10. /\ n.policy.maxRows > 0 => rows <= n.policy.maxRows
       /\ n.policy.maxBytes > 0 => bytes <= n.policy.maxBytes
       /\ n.policy.timeout > 0 => normal.timeout <= n.policy.timeout
  OBVIOUS
<1> HIDE DEF n, s, b
<1>11. /\ q.url = n.url /\ q.sslmode = n.sslmode
       /\ q.username = n.secret.username /\ q.password = n.secret.password
       /\ q.timeout = normal.timeout /\ q.rows = rows /\ q.bytes = bytes
  <2>1. /\ \A f \in DOMAIN s : q[f] = s[f]
        /\ \A f \in DOMAIN b \ DOMAIN s : q[f] = b[f]
    BY UnionOfMaps
  <2> HIDE DEF q
  <2>2. QED
    BY <1>2, <1>3, <2>1
<1> HIDE DEF q
<1>12. q.sslmode = "require" \/ (reg.private /\ reg.insecure)
  BY <1>4, <1>6, <1>11 DEF ValidDatabaseUrl
<1>13. SqlGranted(q, reg)
  BY <1>7, <1>8, <1>9, <1>10, <1>11, <1>12 DEF SqlGranted
<1>14. QED
  BY <1>13 DEF q, s, b, n

\* The budgets of a sql_query that is not denied are within the policy's limits.
LEMMA QueryWithin ==
    ASSUME NEW in \in QueryInput, NEW policy \in PolicySet,
           ~QueryDenied(policy, NormalQueryInput(in))
    PROVE  LET normal == NormalQueryInput(in)
           IN  /\ policy.maxRows > 0 => normal.maxRows <= policy.maxRows
               /\ policy.maxBytes > 0 => normal.maxBytes <= policy.maxBytes
               /\ policy.timeout > 0 => normal.timeout <= policy.timeout
<1> DEFINE normal == NormalQueryInput(in)
<1>1. /\ normal.maxRows = Given(in.maxRows, 100)
      /\ normal.maxBytes = Given(in.maxBytes, 64 * 1024)
      /\ normal.timeout = Given(in.timeout, 3000)
  BY DEF NormalQueryInput, QueryInput
<1>2. /\ Given(in.maxRows, 100) \in Int /\ Given(in.maxBytes, 64 * 1024) \in Nat
      /\ Given(in.timeout, 3000) \in Nat
  <2>1. in.maxRows \in OptionSet(Int) /\ in.maxBytes \in OptionSet(Nat)
        /\ in.timeout \in OptionSet(Nat)
    BY DEF QueryInput
  <2>2. 100 \in Int /\ 64 * 1024 \in Nat /\ 3000 \in Nat
    OBVIOUS
  <2>3. QED
    BY <2>1, <2>2, GivenType
<1> HIDE DEF normal
<1>3. /\ ~Exceeds(normal.maxRows, policy.maxRows)
      /\ ~Exceeds(normal.maxBytes, policy.maxBytes)
      /\ ~Exceeds(normal.timeout, policy.timeout)
  BY DEF QueryDenied, normal
<1>4. policy.maxRows \in Nat /\ policy.maxBytes \in Nat /\ policy.timeout \in Nat
  BY DEF PolicySet
<1>5. /\ policy.maxRows > 0 => normal.maxRows <= policy.maxRows
      /\ policy.maxBytes > 0 => normal.maxBytes <= policy.maxBytes
      /\ policy.timeout > 0 => normal.timeout <= policy.timeout
  BY <1>1, <1>2, <1>3, <1>4 DEF Exceeds
<1>6. QED
  BY <1>5 DEF normal

\* The budgets of a sql_schema that is not denied are within the policy's limits.
LEMMA SchemaWithin ==
    ASSUME NEW in \in SchemaInput, NEW policy \in PolicySet,
           ~SchemaDenied(policy, NormalSchemaInput(in))
    PROVE  LET normal == NormalSchemaInput(in)
               rows == IF normal.mode.word = "tables" THEN normal.limit ELSE 0
           IN  /\ policy.maxRows > 0 => rows <= policy.maxRows
               /\ policy.maxBytes > 0 => normal.maxBytes <= policy.maxBytes
               /\ policy.timeout > 0 => normal.timeout <= policy.timeout
<1> DEFINE normal == NormalSchemaInput(in)
           rows == IF normal.mode.word = "tables" THEN normal.limit ELSE 0
<1>1. /\ normal.limit = Given(in.limit, 50)
      /\ normal.maxBytes = Given(in.maxBytes, 64 * 1024)
      /\ normal.timeout = Given(in.timeout, 3000)
  BY DEF NormalSchemaInput, SchemaInput
<1>2. /\ Given(in.limit, 50) \in Int /\ Given(in.maxBytes, 64 * 1024) \in Nat
      /\ Given(in.timeout, 3000) \in Nat
  <2>1. in.limit \in OptionSet(Int) /\ in.maxBytes \in OptionSet(Nat)
        /\ in.timeout \in OptionSet(Nat)
    BY DEF SchemaInput
  <2>2. 50 \in Int /\ 64 * 1024 \in Nat /\ 3000 \in Nat
    OBVIOUS
  <2>3. QED
    BY <2>1, <2>2, GivenType
<1> HIDE DEF normal
<1>3. /\ normal.mode.word = "tables" => ~Exceeds(normal.limit, policy.maxRows)
      /\ ~Exceeds(normal.maxBytes, policy.maxBytes)
      /\ ~Exceeds(normal.timeout, policy.timeout)
  BY DEF SchemaDenied, normal
<1>4. policy.maxRows \in Nat /\ policy.maxBytes \in Nat /\ policy.timeout \in Nat
  BY DEF PolicySet
<1>5. /\ policy.maxRows > 0 => rows <= policy.maxRows
      /\ policy.maxBytes > 0 => normal.maxBytes <= policy.maxBytes
      /\ policy.timeout > 0 => normal.timeout <= policy.timeout
  BY <1>1, <1>2, <1>3, <1>4 DEF Exceeds
<1>6. QED
  BY <1>5 DEF normal

-----------------------------------------------------------------------------

\* What api_call sends is granted.
LEMMA SendApiGranted ==
    ASSUME IInv, CallApi, wire' # <<>>
    PROVE  SentIsGranted'
<1>1. PICK in \in ApiInputs :
        /\ Called("api_call", in)
        /\ \/ RefuseApi(in)
           \/ /\ ValidApi(in)
              /\ \E normal \in NormalApi(in) : FindFails(normal) \/ StopApi(normal) \/ SendApi(normal)
  BY DEF CallApi
<1>2. /\ asked'[1].tool = "api_call" /\ asked'[1].in = in /\ given' = given
  BY <1>1 DEF Called
<1>3. ~RefuseApi(in)
  BY DEF RefuseApi
<1>4. PICK normal \in NormalApi(in) : SendApi(normal)
  BY <1>1, <1>3 DEF FindFails, StopApi
<1>5. ValidApi(in) /\ TypedApi(in)
  BY <1>1, <1>3, InputsAssumption
<1>6. /\ ApiVerdict(normal).outcome = "send"
      /\ wire' = <<HttpRequest(normal, Credential(row[1]), OpenSecret(row[1]))>>
  BY <1>4 DEF SendApi
<1>7. /\ row # <<>> /\ Credential(row[1]).category = "http"
      /\ ApiDenial(Credential(row[1]).policy, normal) = "none"
  BY <1>6 DEF ApiVerdict, Finds, Denied, Failed
<1>8. PICK reg \in Written :
              LET n == NormalRegister(reg)
              IN  /\ given = <<reg>> /\ Normalized(n) /\ ValidRegister(n)
                  /\ Credential(row[1]) = Registered(n) /\ OpenSecret(row[1]) = n.secret
                  /\ row[1].category = n.category /\ row[1].alias = n.alias
                  /\ \A d \in n.policy.deniedKeys : "nul" \notin d.odd
  BY <1>7, StoredReads DEF IInv
<1> DEFINE n == NormalRegister(reg)
<1>9. /\ Registered(n).category = n.category /\ Registered(n).policy = n.policy
      /\ n.category = reg.category
  BY <1>8, RegisteredFields, WrittenNormal
<1>10. reg.category = "http" /\ ApiDenial(n.policy, normal) = "none"
  BY <1>7, <1>8, <1>9
<1>11. HttpGranted(HttpRequest(normal, Registered(n), n.secret), reg, in)
  BY <1>5, <1>8, <1>10, HttpSent
<1>12. wire'[1] = HttpRequest(normal, Registered(n), n.secret) /\ given'[1] = reg
  BY <1>2, <1>6, <1>8
<1> HIDE DEF n
<1>13. HttpGranted(wire'[1], given'[1], in)
  BY <1>11, <1>12
<1>14. QED
  BY <1>2, <1>13 DEF SentIsGranted

\* What sql_query sends is granted.
LEMMA SendQueryGranted ==
    ASSUME IInv, CallQuery, wire' # <<>>
    PROVE  SentIsGranted'
<1>1. PICK in \in QueryInputs :
        /\ Called("sql_query", in)
        /\ \/ RefuseQuery(in)
           \/ /\ ValidQueryInput(in)
              /\ \/ FindFails(NormalQueryInput(in)) \/ StopQuery(NormalQueryInput(in))
                 \/ SendQuery(NormalQueryInput(in))
  BY DEF CallQuery
<1> DEFINE normal == NormalQueryInput(in)
<1>2. /\ asked'[1].tool = "sql_query" /\ asked'[1].in = in /\ given' = given
      /\ in \in QueryInput
  BY <1>1, InputsAssumption DEF Called
<1>3. SendQuery(normal)
  BY <1>1 DEF RefuseQuery, FindFails, StopQuery
<1> HIDE DEF normal
<1>4. /\ QueryVerdict(normal).outcome = "send"
      /\ wire' = <<SqlSession(normal, Credential(row[1]), OpenSecret(row[1]))
                     ++ [rows |-> normal.maxRows, bytes |-> normal.maxBytes]>>
  BY <1>3 DEF SendQuery
<1>5. /\ row # <<>> /\ row[1].category = "sql"
      /\ ~QueryDenied(Credential(row[1]).policy, normal)
  BY <1>4 DEF QueryVerdict, SqlVerdict, Finds, Denied, Failed
<1>6. PICK reg \in Written :
              LET n == NormalRegister(reg)
              IN  /\ given = <<reg>> /\ Normalized(n) /\ ValidRegister(n)
                  /\ Credential(row[1]) = Registered(n) /\ OpenSecret(row[1]) = n.secret
                  /\ row[1].category = n.category /\ row[1].alias = n.alias
                  /\ \A d \in n.policy.deniedKeys : "nul" \notin d.odd
  BY <1>5, StoredReads DEF IInv
<1> DEFINE n == NormalRegister(reg)
<1>7. Registered(n).policy = n.policy /\ n.category = reg.category /\ n.policy \in PolicySet
  BY <1>6, RegisteredFields, WrittenNormal DEF Normalized
<1>8. reg.category = "sql" /\ ~QueryDenied(n.policy, normal)
  BY <1>5, <1>6, <1>7
<1> HIDE DEF n
<1>9. /\ n.policy.maxRows > 0 => normal.maxRows <= n.policy.maxRows
      /\ n.policy.maxBytes > 0 => normal.maxBytes <= n.policy.maxBytes
      /\ n.policy.timeout > 0 => normal.timeout <= n.policy.timeout
  BY <1>2, <1>7, <1>8, QueryWithin DEF normal
<1>10. SqlGranted(SqlSession(normal, Registered(n), n.secret)
                    ++ [rows |-> normal.maxRows, bytes |-> normal.maxBytes], reg)
  BY <1>6, <1>8, <1>9, SqlSent DEF n
<1>11. /\ wire'[1] = SqlSession(normal, Registered(n), n.secret)
                       ++ [rows |-> normal.maxRows, bytes |-> normal.maxBytes]
       /\ given'[1] = reg
  BY <1>2, <1>4, <1>6 DEF n
<1>12. SqlGranted(wire'[1], given'[1])
  BY <1>10, <1>11
<1>13. QED
  BY <1>2, <1>12 DEF SentIsGranted

\* What sql_schema sends is granted.
LEMMA SendSchemaGranted ==
    ASSUME IInv, CallSchema, wire' # <<>>
    PROVE  SentIsGranted'
<1>1. PICK in \in SchemaInputs :
        /\ Called("sql_schema", in)
        /\ \/ RefuseSchema(in)
           \/ /\ ValidSchemaInput(in)
              /\ \/ FindFails(NormalSchemaInput(in)) \/ StopSchema(NormalSchemaInput(in))
                 \/ SendSchema(NormalSchemaInput(in))
  BY DEF CallSchema
<1> DEFINE normal == NormalSchemaInput(in)
           rows == IF normal.mode.word = "tables" THEN normal.limit ELSE 0
<1>2. /\ asked'[1].tool = "sql_schema" /\ asked'[1].in = in /\ given' = given
      /\ in \in SchemaInput
  BY <1>1, InputsAssumption DEF Called
<1>3. SendSchema(normal)
  BY <1>1 DEF RefuseSchema, FindFails, StopSchema
<1> HIDE DEF normal
<1>4. /\ SchemaVerdict(normal).outcome = "send"
      /\ wire' = <<SqlSession(normal, Credential(row[1]), OpenSecret(row[1]))
                     ++ [rows |-> rows, bytes |-> normal.maxBytes]>>
  BY <1>3 DEF SendSchema
<1>5. /\ row # <<>> /\ row[1].category = "sql"
      /\ ~SchemaDenied(Credential(row[1]).policy, normal)
  BY <1>4 DEF SchemaVerdict, SqlVerdict, Finds, Denied, Failed
<1>6. PICK reg \in Written :
              LET n == NormalRegister(reg)
              IN  /\ given = <<reg>> /\ Normalized(n) /\ ValidRegister(n)
                  /\ Credential(row[1]) = Registered(n) /\ OpenSecret(row[1]) = n.secret
                  /\ row[1].category = n.category /\ row[1].alias = n.alias
                  /\ \A d \in n.policy.deniedKeys : "nul" \notin d.odd
  BY <1>5, StoredReads DEF IInv
<1> DEFINE n == NormalRegister(reg)
<1>7. Registered(n).policy = n.policy /\ n.category = reg.category /\ n.policy \in PolicySet
  BY <1>6, RegisteredFields, WrittenNormal DEF Normalized
<1>8. reg.category = "sql" /\ ~SchemaDenied(n.policy, normal)
  BY <1>5, <1>6, <1>7
<1> HIDE DEF n
<1>9. /\ n.policy.maxRows > 0 => rows <= n.policy.maxRows
      /\ n.policy.maxBytes > 0 => normal.maxBytes <= n.policy.maxBytes
      /\ n.policy.timeout > 0 => normal.timeout <= n.policy.timeout
  BY <1>2, <1>7, <1>8, SchemaWithin DEF normal
<1> HIDE DEF rows
<1>10. SqlGranted(SqlSession(normal, Registered(n), n.secret)
                    ++ [rows |-> rows, bytes |-> normal.maxBytes], reg)
  BY <1>6, <1>8, <1>9, SqlSent DEF n
<1>11. /\ wire'[1] = SqlSession(normal, Registered(n), n.secret)
                       ++ [rows |-> rows, bytes |-> normal.maxBytes]
       /\ given'[1] = reg
  BY <1>2, <1>4, <1>6 DEF n
<1>12. SqlGranted(wire'[1], given'[1])
  BY <1>10, <1>11
<1>13. QED
  BY <1>2, <1>12 DEF SentIsGranted

\* SentIsGranted always holds: what leaves for a target in a call goes to the
\* origin, base path or database that was registered, within the methods, path
\* prefixes, query keys, headers and limits the registrant wrote, with the headers
\* or the login that were sealed; nothing of it is the caller's choice alone
\* (validate_policy_boundary, join_base_path, the header merge of execute).  Of
\* base path and prefixes it is said where Url::set_path leaves the segments of
\* the base path and of the call's path as they are written.
THEOREM RequestsAreGranted == Spec => []SentIsGranted
<1>1. Init => SentIsGranted
  BY DEF Init, SentIsGranted
<1>2. ASSUME IInv, SentIsGranted, [Next]_vars
      PROVE  SentIsGranted'
  <2>1. CASE wire' = <<>>
    BY <2>1 DEF SentIsGranted
  <2>2. CASE wire' # <<>>
    <3>1. CASE RegisterHttp \/ RegisterSql \/ Restart \/ Return
      BY <2>2, <3>1 DEF RegisterHttp, RegisterSql, Accept, Restart, Return, NoCall
    <3>2. CASE CallApi
      BY <2>2, <3>2, <1>2, SendApiGranted
    <3>3. CASE CallQuery
      BY <2>2, <3>3, <1>2, SendQueryGranted
    <3>4. CASE CallSchema
      BY <2>2, <3>4, <1>2, SendSchemaGranted
    <3>5. CASE UNCHANGED vars
      BY <1>2, <3>5 DEF vars, SentIsGranted
    <3>6. QED
      BY <1>2, <3>1, <3>2, <3>3, <3>4, <3>5 DEF Next
  <2>3. QED
    BY <2>1, <2>2
<1>3. QED
  BY <1>1, <1>2, StoredAlways, PTL DEF Spec

-----------------------------------------------------------------------------
\* What a call leaves behind is kept: api_call.

\* A detail without a NUL
Clean(detail) ==
    \A k \in DOMAIN detail \ (Numbers \cup {"query_sha256"}) : NoNul(detail[k])

\* Two clean details make a clean one.
LEMMA CleanUnion ==
    ASSUME NEW f, NEW g, Clean(f), Clean(g)
    PROVE  Clean(f ++ g)
<1>1. ASSUME NEW k \in DOMAIN (f ++ g) \ (Numbers \cup {"query_sha256"})
      PROVE  NoNul((f ++ g)[k])
  <2>1. CASE k \in DOMAIN f
    <3>1. (f ++ g)[k] = f[k]
      BY <2>1 DEF ++
    <3>2. QED
      BY <1>1, <2>1, <3>1 DEF Clean
  <2>2. CASE k \notin DOMAIN f
    <3>1. k \in DOMAIN g /\ (f ++ g)[k] = g[k]
      BY <1>1, <2>2 DEF ++
    <3>2. QED
      BY <1>1, <3>1 DEF Clean
  <2>3. QED
    BY <2>1, <2>2
<1>2. QED
  BY <1>1 DEF Clean

\* The empty detail is clean.
LEMMA CleanEmpty == Clean(<<>>)
  BY DEF Clean

\* A detail of one key is clean when its texts are.
LEMMA CleanKey ==
    ASSUME NEW k, NEW texts, NoNul(texts)
    PROVE  Clean(NonEmpty(k, texts))
<1>1. CASE texts = {}
  BY <1>1, CleanEmpty DEF NonEmpty
<1>2. CASE texts # {}
  BY <1>2 DEF NonEmpty, Clean
<1>3. QED
  BY <1>1, <1>2

\* A purpose as a row may hold it
FitPurpose(purpose) ==
    \A t \in TextsOf(purpose) : t.odd \cap {"short", "long", "crlf", "nul"} = {}

\* An audit row passes the CHECKs of audit_logs when its alias, purpose and
\* detail hold no NUL.
LEMMA AuditRowFits ==
    ASSUME NEW tool, NEW channel \in Channels, NEW result, result.outcome \in Outcomes,
           NEW alias, "nul" \notin alias.odd, NEW purpose, FitPurpose(purpose),
           NEW detail, Clean(detail)
    PROVE  AuditFits(AuditRow(tool, channel, result, alias, purpose, detail))
<1> DEFINE r == AuditRow(tool, channel, result, alias, purpose, detail)
<1>1. /\ r.channel = channel /\ r.outcome = result.outcome /\ r.severity = Severity(result.outcome)
      /\ r.key = alias /\ r.purpose = purpose /\ r.detail = detail
  BY DEF AuditRow
<1> HIDE DEF r
<1>2. r.severity \in {"info", "warning"}
  BY <1>1 DEF Severity
<1>3. NoNul(DetailTexts(detail)) /\ NoNul(PathTexts(detail))
  <2>1. \A k \in {"request_path", "table"} : k \notin Numbers \cup {"query_sha256"}
    BY DEF Numbers
  <2>2. QED
    BY <2>1 DEF Clean, NoNul, DetailTexts, PathTexts
<1>4. NoNul(AuditTexts(r)) /\ PurposeFits(r)
  BY <1>1, <1>3 DEF NoNul, AuditTexts, FitPurpose, PurposeFits
<1>5. AuditFits(r)
  BY <1>1, <1>2, <1>3, <1>4 DEF AuditFits, Channels
<1>6. QED
  BY <1>5 DEF r

\* A result's reason is of the code's own words.
LEMMA CleanReason ==
    ASSUME NEW result
    PROVE  Clean(ReasonDetail(result))
<1>1. "nul" \notin Plain(result.kind).odd
  BY DEF Plain, Text
<1>2. QED
  BY <1>1, CleanEmpty DEF ReasonDetail, Clean, NoNul

\* A row may be without a purpose.
LEMMA EmptyPurpose == FitPurpose(<<>>)
  BY DEF FitPurpose, TextsOf

\* What of a credential a row may say
FitSnapshot(snapshot) ==
    \/ snapshot = <<>>
    \/ /\ snapshot # <<>>
       /\ DOMAIN snapshot[1] = {"alias", "category", "provider", "env"}
       /\ snapshot[1].alias.odd = {} /\ snapshot[1].provider.odd = {} /\ snapshot[1].env.odd = {}

\* What a detail says of a credential is clean.
LEMMA CleanCredential ==
    ASSUME NEW snapshot, FitSnapshot(snapshot)
    PROVE  Clean(CredentialDetail(snapshot))
<1>1. CASE snapshot = <<>>
  BY <1>1, CleanEmpty DEF CredentialDetail
<1>2. CASE snapshot # <<>>
  BY <1>2 DEF CredentialDetail, Clean, NoNul, FitSnapshot
<1>3. QED
  BY <1>1, <1>2

\* What a recorder knows of the stored credential was in a Postgres row, so it
\* holds no NUL.
LEMMA SnapshotFits ==
    ASSUME IInv, NEW in
    PROVE  FitSnapshot(SnapshotOf(in))
<1>1. CASE ~Finds(in)
  BY <1>1 DEF SnapshotOf, FitSnapshot
<1>2. CASE Finds(in)
  <2> DEFINE c == Credential(row[1])
  <2>1. row # <<>>
    BY <1>2 DEF Finds
  <2>2. PICK reg \in Written :
              LET n == NormalRegister(reg)
              IN  /\ given = <<reg>> /\ Normalized(n) /\ ValidRegister(n)
                  /\ Credential(row[1]) = Registered(n) /\ OpenSecret(row[1]) = n.secret
                  /\ row[1].category = n.category /\ row[1].alias = n.alias
                  /\ \A d \in n.policy.deniedKeys : "nul" \notin d.odd
    BY <2>1, StoredReads DEF IInv
  <2> DEFINE n == NormalRegister(reg)
  <2>3. c.alias = n.alias /\ c.provider = n.provider /\ c.env = n.env
    BY <2>2, RegisteredFields
  <2>4. n.alias.odd = {} /\ n.provider.odd = {} /\ n.env.odd = {}
    BY <2>2 DEF ValidRegister, ValidCommon, MatchesPattern
  <2> HIDE DEF c, n
  <2>5. SnapshotOf(in) = <<Snapshot(c)>>
    BY <1>2 DEF SnapshotOf, c
  <2>6. SnapshotOf(in) # <<>> /\ SnapshotOf(in)[1] = Snapshot(c)
    BY <2>5
  <2>7. QED
    BY <2>3, <2>4, <2>6 DEF FitSnapshot, Snapshot
<1>3. QED
  BY <1>1, <1>2

\* The columns that both history tables share (history_credential_fields) hold
\* no NUL, and the others are the recorder's.
LEMMA HistoryColumns ==
    ASSUME NEW channel \in Channels, NEW snapshot, FitSnapshot(snapshot),
           NEW alias, "nul" \notin alias.odd, NEW rest,
           NEW h, h = HistoryCredential(channel, snapshot, alias) ++ rest
    PROVE  /\ h.channel \in {"api", "mcp"}
           /\ "nul" \notin h.alias.odd /\ "nul" \notin h.provider.odd /\ "nul" \notin h.env.odd
           /\ \A k \in DOMAIN rest \ {"channel", "alias", "category", "provider", "env"} :
                 h[k] = rest[k]
<1> DEFINE a == [channel |-> HistoryChannel(channel)]
           b == IF snapshot # <<>> THEN snapshot[1]
                ELSE [alias |-> alias, category |-> "", provider |-> NoText, env |-> NoText]
           c == a ++ b
<1>1. /\ DOMAIN a = {"channel"} /\ a.channel \in {"api", "mcp"}
  BY DEF HistoryChannel
<1>2. /\ DOMAIN b = {"alias", "category", "provider", "env"}
      /\ "nul" \notin b.alias.odd /\ "nul" \notin b.provider.odd /\ "nul" \notin b.env.odd
  <2>1. CASE snapshot = <<>>
    BY <2>1, NoTextFacts
  <2>2. CASE snapshot # <<>>
    BY <2>2 DEF FitSnapshot
  <2>3. QED
    BY <2>1, <2>2
<1>3. h = c ++ rest
  BY DEF HistoryCredential
<1> HIDE DEF a, b
<1>4. /\ DOMAIN c = {"channel", "alias", "category", "provider", "env"}
      /\ c.channel = a.channel /\ c.alias = b.alias /\ c.provider = b.provider /\ c.env = b.env
  <2>1. /\ DOMAIN c = DOMAIN a \cup DOMAIN b
        /\ \A k \in DOMAIN a : c[k] = a[k]
        /\ \A k \in DOMAIN b \ DOMAIN a : c[k] = b[k]
    BY UnionOfMaps
  <2> HIDE DEF c
  <2>2. QED
    BY <1>1, <1>2, <2>1
<1> HIDE DEF c
<1>5. /\ \A k \in DOMAIN c : h[k] = c[k]
      /\ \A k \in DOMAIN rest \ DOMAIN c : h[k] = rest[k]
  <2>1. /\ \A k \in DOMAIN c : (c ++ rest)[k] = c[k]
        /\ \A k \in DOMAIN rest \ DOMAIN c : (c ++ rest)[k] = rest[k]
    BY DEF ++
  <2>2. QED
    BY <1>3, <2>1
<1>6. h.channel = c.channel /\ h.alias = c.alias /\ h.provider = c.provider /\ h.env = c.env
  BY <1>4, <1>5
<1>7. QED
  BY <1>1, <1>2, <1>4, <1>5, <1>6

-----------------------------------------------------------------------------

\* A missing budget takes the default.
LEMMA GivenIn ==
    ASSUME NEW o \in OptionSet(Nat), NEW d \in Nat
    PROVE  Given(o, d) \in Nat
  BY GivenType

\* A valid purpose fits its column once it is trimmed.
LEMMA NormalPurpose ==
    ASSUME NEW t \in TextSet, ValidPurpose(t), "nul" \notin t.odd
    PROVE  FitPurpose(<<Trim(t)>>)
<1>1. t.odd \cap {"crlf", "short", "long"} = {}
  BY DEF ValidPurpose, ValidBounded
<1>2. Trim(t).odd \subseteq t.odd
  BY TextTypes
<1>3. TextsOf(<<Trim(t)>>) = {Trim(t)}
  BY DEF TextsOf
<1>4. QED
  BY <1>1, <1>2, <1>3 DEF FitPurpose

\* Trimming brings no NUL in.
LEMMA TrimNul ==
    ASSUME NEW t \in TextSet, "nul" \notin t.odd
    PROVE  "nul" \notin Trim(t).odd
  BY TextTypes

\* No valid JSONPath holds a NUL.
LEMMA JsonPathNul ==
    ASSUME NEW paths, ValidJsonPaths(paths), NEW i \in DOMAIN paths
    PROVE  "nul" \notin paths[i].odd
  BY DEF ValidJsonPaths

\* No name and no path of a valid table projection holds a NUL.
LEMMA TableNul ==
    ASSUME NEW table, table.base \in TextSet, MapOf(table.columns, NameSet), ValidTable(table)
    PROVE  LET t == NormalTable(table)
           IN  NoNul(DOMAIN t.columns) /\ NoNul(Paths(t))
<1> DEFINE names == DOMAIN table.columns
           t == NormalTable(table)
           New == {Trim(o) : o \in names}
           Old(n) == CHOOSE o \in names : Trim(o) = n
<1>1. /\ t.base = Trim(table.base)
      /\ t.columns = [n \in New |-> Trim(table.columns[Old(n)])]
  BY DEF NormalTable
<1>2. \A p \in {table.base} \cup {table.columns[n] : n \in names} : "nul" \notin p.odd
  <2>1. ASSUME NEW p \in {table.base} \cup {table.columns[n] : n \in names}
        PROVE  "nul" \notin p.odd
    <3>1. ValidJsonPaths(<<p>>)
      BY DEF ValidTable
    <3>2. 1 \in DOMAIN <<p>> /\ <<p>>[1] = p
      OBVIOUS
    <3>3. QED
      BY <3>1, <3>2, JsonPathNul
  <2>2. QED
    BY <2>1
<1>3. \A n \in names : table.columns[n] \in TextSet
  BY DEF MapOf
<1>4. ASSUME NEW n \in New
      PROVE  "nul" \notin n.odd /\ Old(n) \in names
  <2>1. PICK o \in names : n = Trim(o)
    OBVIOUS
  <2>2. ValidName(Trim(o))
    BY DEF ValidTable
  <2>3. QED
    BY <2>1, <2>2 DEF ValidName
<1> HIDE DEF t, New, Old
<1>5. DOMAIN t.columns = New
  BY <1>1
<1>6. "nul" \notin t.base.odd
  BY <1>1, <1>2, TrimNul
<1>7. ASSUME NEW n \in New
      PROVE  "nul" \notin t.columns[n].odd
  <2> DEFINE old == table.columns[Old(n)]
  <2>1. old \in TextSet /\ "nul" \notin old.odd
    BY <1>2, <1>3, <1>4
  <2>2. t.columns[n] = Trim(old)
    BY <1>1
  <2> HIDE DEF old
  <2>3. QED
    BY <2>1, <2>2, TrimNul
<1>8. NoNul(DOMAIN t.columns) /\ NoNul(Paths(t))
  BY <1>4, <1>5, <1>6, <1>7 DEF NoNul, Paths
<1>9. QED
  BY <1>8 DEF t

\* A normalized call's projections, budget and purpose.
LEMMA NormalLists ==
    ASSUME NEW in, TypedApi(in), NEW normal \in NormalApi(in)
    PROVE  /\ normal.jsonpath = [i \in DOMAIN in.jsonpath |-> Trim(in.jsonpath[i])]
           /\ normal.table = [i \in DOMAIN in.table |-> NormalTable(in.table[i])]
           /\ normal.maxBytes = Given(in.maxBytes, 4096)
           /\ normal.purpose = Trim(in.purpose)
<1>1. PICK query \in NormalQueries(in), headers \in NormalHeaders(in) :
            normal = NormalCall(in, query, headers)
  BY DEF NormalApi
<1>2. DOMAIN in = {"alias", "purpose", "method", "path", "query", "headers", "body",
                   "contentType", "jsonpath", "table", "maxBytes"}
  BY DEF TypedApi
<1>3. QED
  BY <1>1, <1>2 DEF NormalCall

\* What rows may say of a call's own words
ApiWordsFit(in) ==
    /\ "nul" \notin in.alias.odd
    /\ FitPurpose(<<in.purpose>>)
    /\ in.method.word \in Methods /\ "nul" \notin in.method.odd
    /\ "nul" \notin in.path.odd
    /\ NoNul(DOMAIN in.query) /\ NoNul(DOMAIN in.headers) /\ NoNul(TextsOf(in.jsonpath))
    /\ in.table # <<>> => NoNul(DOMAIN in.table[1].columns) /\ NoNul(Paths(in.table[1]))
    /\ in.maxBytes \in Nat

\* A valid api_call with no NUL in its alias, purpose and path hands its
\* recorder words that rows take: normalize_input has refused every other NUL.
LEMMA NormalApiFits ==
    ASSUME NEW in, TypedApi(in), ValidApi(in), NEW normal \in NormalApi(in),
           "nul" \notin in.alias.odd \cup in.purpose.odd \cup in.path.odd
    PROVE  ApiWordsFit(normal)
<1>1. /\ normal.method = NormalMethod(in.method) /\ normal.path = Trim(in.path)
      /\ normal.alias = Trim(in.alias)
      /\ normal.query \in NormalQueries(in) /\ normal.headers \in NormalHeaders(in)
  BY NormalApiFields
<1>2. /\ normal.jsonpath = [i \in DOMAIN in.jsonpath |-> Trim(in.jsonpath[i])]
      /\ normal.table = [i \in DOMAIN in.table |-> NormalTable(in.table[i])]
      /\ normal.maxBytes = Given(in.maxBytes, 4096)
      /\ normal.purpose = Trim(in.purpose)
  BY NormalLists
<1>3. /\ in.alias \in TextSet /\ in.purpose \in TextSet /\ in.path \in PathSet
      /\ in.jsonpath \in Seq(TextSet) /\ in.maxBytes \in OptionSet(Nat)
  BY DEF TypedApi
<1>4. "nul" \notin normal.alias.odd
  BY <1>1, <1>3, TrimNul
<1>5. FitPurpose(<<normal.purpose>>)
  BY <1>2, <1>3, NormalPurpose DEF ValidApi
<1>6. normal.method.word \in Methods /\ "nul" \notin normal.method.odd
  BY <1>1 DEF ValidApi
<1>7. "nul" \notin normal.path.odd
  BY <1>1, <1>3 DEF Trim, PathSet
<1>8. NoNul(DOMAIN normal.query)
  <2>1. \A k \in DOMAIN in.query : "nul" \notin Trim(k).odd
    BY DEF ValidApi, ValidQuery, ValidName
  <2> DEFINE to == [k \in DOMAIN in.query |-> Trim(k)]
  <2>2. normal.query \in Rekeyed(in.query, to)
    BY <1>1 DEF NormalQueries
  <2>3. \A k \in DOMAIN in.query : "nul" \notin to[k].odd
    BY <2>1
  <2> HIDE DEF to
  <2>4. DOMAIN normal.query = {to[k] : k \in DOMAIN in.query}
    BY <2>2 DEF Rekeyed
  <2>5. QED
    BY <2>3, <2>4 DEF NoNul
<1>9. NoNul(DOMAIN normal.headers)
  <2>1. ASSUME NEW k \in DOMAIN in.headers
        PROVE  "nul" \notin HeaderName(k).odd
    <3>1. k \in TextSet
      <4>1. MapOf(in.headers, TextSet)
        BY DEF TypedApi
      <4>2. QED
        BY <4>1 DEF MapOf
    <3>2. "nul" \notin k.odd
      BY DEF ValidApi, ValidHeaders, ValidToken
    <3>3. Trim(k) \in TextSet /\ "nul" \notin Trim(k).odd
      BY <3>1, <3>2, TextTypes
    <3>4. QED
      BY <3>3, TextTypes DEF HeaderName
  <2> DEFINE to == [k \in DOMAIN in.headers |-> HeaderName(k)]
  <2>2. normal.headers \in Rekeyed(in.headers, to)
    BY <1>1 DEF NormalHeaders
  <2>3. \A k \in DOMAIN in.headers : "nul" \notin to[k].odd
    BY <2>1
  <2> HIDE DEF to
  <2>4. DOMAIN normal.headers = {to[k] : k \in DOMAIN in.headers}
    BY <2>2 DEF Rekeyed
  <2>5. QED
    BY <2>3, <2>4 DEF NoNul
<1>10. NoNul(TextsOf(normal.jsonpath))
  <2>1. ValidJsonPaths(in.jsonpath)
    BY DEF ValidApi
  <2>2. ASSUME NEW i \in DOMAIN in.jsonpath
        PROVE  "nul" \notin Trim(in.jsonpath[i]).odd
    <3>1. in.jsonpath[i] \in TextSet
      BY <1>3, ElementIn
    <3>2. "nul" \notin in.jsonpath[i].odd
      BY <2>1, JsonPathNul
    <3>3. QED
      BY <3>1, <3>2, TrimNul
  <2>3. QED
    BY <1>2, <2>2 DEF NoNul, TextsOf
<1>11. ASSUME normal.table # <<>>
       PROVE  NoNul(DOMAIN normal.table[1].columns) /\ NoNul(Paths(normal.table[1]))
  <2>1. in.table # <<>>
    BY <1>2, <1>11
  <2>2. /\ in.table = <<[base |-> in.table[1].base, columns |-> in.table[1].columns]>>
        /\ in.table[1].base \in TextSet /\ MapOf(in.table[1].columns, NameSet)
    BY <2>1 DEF TypedApi
  <2>3. ValidTable(in.table[1])
    BY <2>1 DEF ValidApi
  <2>4. 1 \in DOMAIN in.table
    BY <2>2
  <2>5. normal.table[1] = NormalTable(in.table[1])
    BY <1>2, <2>4
  <2>6. QED
    BY <2>2, <2>3, <2>5, TableNul
<1>12. normal.maxBytes \in Nat
  BY <1>2, <1>3, GivenIn
<1>13. QED
  BY <1>4, <1>5, <1>6, <1>7, <1>8, <1>9, <1>10, <1>11, <1>12 DEF ApiWordsFit

\* The audit detail of an api_call holds no NUL.
LEMMA ApiDetailClean ==
    ASSUME NEW in, ApiWordsFit(in), NEW snapshot, FitSnapshot(snapshot), NEW result
    PROVE  Clean(ApiDetail(in, snapshot, result))
<1> DEFINE a == [method |-> {in.method}, request_path |-> {in.path}, purpose |-> {in.purpose}]
           b == NonEmpty("query_keys", DOMAIN in.query)
           c == NonEmpty("request_header_keys", DOMAIN in.headers)
           d == NonEmpty("jsonpath", TextsOf(in.jsonpath))
           e == IF in.table = <<>> THEN <<>>
                ELSE [projection |-> DOMAIN in.table[1].columns \cup Paths(in.table[1])]
           f == CredentialDetail(snapshot)
           g == ReasonDetail(result)
<1>1. Clean(a)
  <2>1. "nul" \notin in.purpose.odd
    BY DEF ApiWordsFit, FitPurpose, TextsOf
  <2>2. QED
    BY <2>1 DEF ApiWordsFit, Clean, NoNul
<1>2. Clean(b) /\ Clean(c) /\ Clean(d)
  BY CleanKey DEF ApiWordsFit
<1>3. Clean(e)
  <2>1. CASE in.table = <<>>
    BY <2>1, CleanEmpty
  <2>2. CASE in.table # <<>>
    BY <2>2 DEF ApiWordsFit, Clean, NoNul
  <2>3. QED
    BY <2>1, <2>2
<1>4. Clean(f) /\ Clean(g)
  BY CleanCredential, CleanReason
<1>5. ApiDetail(in, snapshot, result) = a ++ b ++ c ++ d ++ e ++ f ++ g
  BY DEF ApiDetail
<1> HIDE DEF a, b, c, d, e, f, g
<1>6. Clean(a ++ b ++ c ++ d)
  BY <1>1, <1>2, CleanUnion
<1>7. Clean(a ++ b ++ c ++ d ++ e ++ f ++ g)
  BY <1>3, <1>4, <1>6, CleanUnion
<1>8. QED
  BY <1>5, <1>7

\* The audit row of an api_call is taken.
LEMMA ApiAuditFits ==
    ASSUME NEW channel \in Channels, NEW in, ApiWordsFit(in),
           NEW snapshot, FitSnapshot(snapshot), NEW result, result.outcome \in Outcomes
    PROVE  AuditFits(ApiAudit(channel, in, snapshot, result))
<1> DEFINE alias == IF snapshot = <<>> THEN in.alias ELSE snapshot[1].alias
<1>1. "nul" \notin alias.odd
  BY DEF FitSnapshot, ApiWordsFit
<1>2. FitPurpose(<<in.purpose>>)
  BY DEF ApiWordsFit
<1>3. Clean(ApiDetail(in, snapshot, result))
  BY ApiDetailClean
<1> HIDE DEF alias
<1>4. AuditFits(AuditRow("api.call", channel, result, alias, <<in.purpose>>,
                         ApiDetail(in, snapshot, result)))
  BY <1>1, <1>2, <1>3, AuditRowFits
<1>5. QED
  BY <1>4 DEF ApiAudit, alias

-----------------------------------------------------------------------------

\* A count that is cut to i32 is no negative number.
LEMMA SaturatedNat ==
    ASSUME NEW n \in Nat
    PROVE  Saturated(n) \in Nat
  BY OutputsAssumption DEF Saturated

\* A result without an answer leaves the columns of an answer empty.
LEMMA NoOutput ==
    ASSUME NEW result, result.output = <<>>, NEW field
    PROVE  OfOutput(result, field) = <<>>
  BY DEF OfOutput

\* A purpose that fits passes its CHECK and holds no NUL.
LEMMA PurposeFitsRow ==
    ASSUME NEW row0, FitPurpose(row0.purpose)
    PROVE  PurposeFits(row0) /\ NoNul(TextsOf(row0.purpose))
  BY DEF FitPurpose, PurposeFits, NoNul

\* The api_call_history row of a call that got no answer is taken.
LEMMA ApiHistoryFit ==
    ASSUME NEW channel \in Channels, NEW in, ApiWordsFit(in),
           NEW snapshot, FitSnapshot(snapshot),
           NEW result, result.outcome \in Outcomes, result.output = <<>>, result.quotes = {}
    PROVE  ApiHistoryFits(ApiHistory(channel, in, snapshot, result))
<1> DEFINE rest == [method |-> in.method.word, path |-> in.path, queryKeys |-> DOMAIN in.query,
                    headerKeys |-> DOMAIN in.headers, projection |-> ProjectionKeys(in),
                    maxBytes |-> Saturated(in.maxBytes), purpose |-> <<in.purpose>>,
                    outcome |-> result.outcome, status |-> OfOutput(result, "status"),
                    original |-> OfOutput(result, "original"),
                    returned |-> OfOutput(result, "returned"),
                    truncated |-> Truncated(result), kind |-> result.kind,
                    message |-> {SafeMessage(t) : t \in result.quotes}]
           h == ApiHistory(channel, in, snapshot, result)
           F == {"method", "path", "queryKeys", "headerKeys", "projection", "maxBytes", "purpose",
                 "outcome", "status", "original", "returned", "truncated", "kind", "message"}
<1>1. /\ DOMAIN rest = F
      /\ rest.method = in.method.word /\ rest.path = in.path /\ rest.queryKeys = DOMAIN in.query
      /\ rest.headerKeys = DOMAIN in.headers /\ rest.projection = ProjectionKeys(in)
      /\ rest.maxBytes = Saturated(in.maxBytes) /\ rest.purpose = <<in.purpose>>
      /\ rest.outcome = result.outcome
  OBVIOUS
<1>2. rest.status = <<>> /\ rest.original = <<>> /\ rest.returned = <<>> /\ rest.message = {}
  BY NoOutput
<1>3. h = HistoryCredential(channel, snapshot, in.alias) ++ rest
  BY DEF ApiHistory
<1>4. "nul" \notin in.alias.odd
  BY DEF ApiWordsFit
<1> HIDE DEF rest, h
<1>5. /\ h.channel \in {"api", "mcp"}
      /\ "nul" \notin h.alias.odd /\ "nul" \notin h.provider.odd /\ "nul" \notin h.env.odd
      /\ \A k \in DOMAIN rest \ {"channel", "alias", "category", "provider", "env"} :
            h[k] = rest[k]
  BY <1>3, <1>4, HistoryColumns
<1>6. \A k \in F : h[k] = rest[k]
  BY <1>1, <1>5
<1> HIDE DEF F
<1>7. /\ h.method = in.method.word /\ h.path = in.path /\ h.queryKeys = DOMAIN in.query
      /\ h.headerKeys = DOMAIN in.headers /\ h.projection = ProjectionKeys(in)
      /\ h.maxBytes = Saturated(in.maxBytes) /\ h.purpose = <<in.purpose>>
      /\ h.outcome = result.outcome
  BY <1>1, <1>6 DEF F
<1>8. h.status = <<>> /\ h.original = <<>> /\ h.returned = <<>> /\ h.message = {}
  BY <1>2, <1>6 DEF F
<1>9. PurposeFits(h) /\ NoNul(TextsOf(h.purpose))
  BY <1>7, PurposeFitsRow DEF ApiWordsFit
<1>10. h.projection.json = "array" /\ NoNul(h.projection.texts)
  BY <1>7 DEF ProjectionKeys, ApiWordsFit
<1>11. NoNul(h.queryKeys) /\ NoNul(h.headerKeys)
  BY <1>7 DEF ApiWordsFit
<1>12. h.maxBytes >= 0
  <2>1. h.maxBytes \in Nat
    BY <1>7, SaturatedNat DEF ApiWordsFit
  <2>2. QED
    BY <2>1
<1>13. NoNul(ApiHistoryTexts(h)) /\ "nul" \notin h.path.odd
  BY <1>5, <1>7, <1>8, <1>9, <1>10, <1>11 DEF NoNul, ApiHistoryTexts, ApiWordsFit
<1>14. Natural(h.original) /\ Natural(h.returned) /\ (\A i \in DOMAIN h.status : FALSE)
  BY <1>8 DEF Natural
<1>15. h.method \in Methods \cup {""}
  BY <1>7 DEF ApiWordsFit
<1>16. ApiHistoryFits(h)
  BY <1>5, <1>7, <1>9, <1>10, <1>12, <1>13, <1>14, <1>15 DEF ApiHistoryFits
<1>17. QED
  BY <1>16 DEF h

\* What a call leaves behind is kept
KeptRows == audit' # <<>> /\ (lost' # {} => lost' = {"history"} /\ audit'[1].outcome = "ok")

\* The recorder of api_call loses at most the history row of an answer.
LEMMA RecordApiKept ==
    ASSUME IInv, NEW in, ApiWordsFit(in), NEW result, result.outcome \in Outcomes,
           result.outcome = "ok" \/ (result.output = <<>> /\ result.quotes = {}),
           RecordApi(in, result)
    PROVE  KeptRows
<1>1. PICK channel \in Channels :
        StoreApi(ApiAudit(channel, in, SnapshotOf(in), result),
                 ApiHistory(channel, in, SnapshotOf(in), result))
  BY DEF RecordApi
<1> DEFINE a == ApiAudit(channel, in, SnapshotOf(in), result)
           h == ApiHistory(channel, in, SnapshotOf(in), result)
<1>2. FitSnapshot(SnapshotOf(in))
  BY SnapshotFits
<1>3. AuditFits(a)
  BY <1>2, ApiAuditFits
<1>4. ApiHistoryFits(h) \/ result.outcome = "ok"
  BY <1>2, ApiHistoryFit
<1>5. a.outcome = result.outcome
  BY DEF ApiAudit, AuditRow
<1> HIDE DEF a, h
<1>6. /\ audit' = <<a>>
      /\ lost' = {} \cup IF ApiHistoryFits(h) THEN {} ELSE {"history"}
  BY <1>1, <1>3 DEF StoreApi, Keep, LostOf, a, h
<1>7. QED
  BY <1>4, <1>5, <1>6 DEF KeptRows

\* The audit row of a refused input is taken.
LEMMA RefusedAuditFits ==
    ASSUME NEW tool, NEW channel \in Channels, NEW alias \in TextSet, "nul" \notin alias.odd,
           NEW result, result.outcome = "denied"
    PROVE  AuditFits(DenialRow(tool, channel, SafeMessage(alias), result))
<1>1. "nul" \notin SafeMessage(alias).odd
  BY DEF SafeMessage, TextSet
<1>2. result.outcome \in Outcomes
  BY DEF Outcomes
<1>3. Clean(ReasonDetail(result)) /\ FitPurpose(<<>>)
  BY CleanReason, EmptyPurpose
<1>4. QED
  BY <1>1, <1>2, <1>3, AuditRowFits DEF DenialRow

\* A refused input is denied, and what its reason quotes holds no NUL once
\* safe_message has cut it.
LEMMA BadInputFacts ==
    ASSUME NEW paths \in SUBSET TextSet, NEW result \in BadInput(paths)
    PROVE  /\ result.outcome = "denied"
           /\ NoNul({SafeMessage(t) : t \in result.quotes})
<1> DEFINE Q == {q \in paths : ~IsEmpty(q) /\ q.odd \cap {"relative", "foreign"} # {}}
<1>1. CASE result = Denied("bad_input")
  BY <1>1 DEF Denied, NoNul
<1>2. CASE result \in {[Denied("bad_input") EXCEPT !.quotes = {Escaped(p)}] : p \in Q}
  <2>1. PICK p \in Q : result = [Denied("bad_input") EXCEPT !.quotes = {Escaped(p)}]
    BY <1>2
  <2>2. result.outcome = "denied" /\ result.quotes = {Escaped(p)}
    BY <2>1 DEF Denied
  <2>3. p \in TextSet
    OBVIOUS
  <2>4. "nul" \notin SafeMessage(Escaped(p)).odd
    <3>1. Escaped(p).odd = p.odd \ {"pad", "nul", "crlf"} /\ Escaped(p) \in TextSet
      BY <2>3 DEF Escaped, TextSet
    <3>2. SafeMessage(Escaped(p)).odd = Escaped(p).odd \ {"crlf", "long"}
      BY <3>1 DEF SafeMessage, TextSet
    <3>3. QED
      BY <3>1, <3>2
  <2>5. QED
    BY <2>2, <2>4 DEF NoNul
<1>3. QED
  BY <1>1, <1>2 DEF BadInput

\* The api_call_history row of a refused input is taken.
LEMMA RefusedApiHistoryFits ==
    ASSUME NEW channel \in Channels, NEW alias \in TextSet, "nul" \notin alias.odd,
           NEW result, NoNul({SafeMessage(t) : t \in result.quotes})
    PROVE  ApiHistoryFits(ApiDenialHistory(channel, SafeMessage(alias), result))
<1> DEFINE rest == [method |-> "", path |-> Text(<<>>, {}), queryKeys |-> {}, headerKeys |-> {},
                    projection |-> [json |-> "array", texts |-> {}], maxBytes |-> 0,
                    purpose |-> <<>>, outcome |-> "denied", status |-> <<>>, original |-> <<>>,
                    returned |-> <<>>, truncated |-> FALSE, kind |-> result.kind,
                    message |-> {SafeMessage(t) : t \in result.quotes}]
           h == ApiDenialHistory(channel, SafeMessage(alias), result)
           F == {"method", "path", "queryKeys", "headerKeys", "projection", "maxBytes", "purpose",
                 "outcome", "status", "original", "returned", "truncated", "kind", "message"}
<1>1. /\ DOMAIN rest = F
      /\ rest.method = "" /\ rest.path = Text(<<>>, {}) /\ rest.queryKeys = {}
      /\ rest.headerKeys = {} /\ rest.projection = [json |-> "array", texts |-> {}]
      /\ rest.maxBytes = 0 /\ rest.purpose = <<>> /\ rest.outcome = "denied"
      /\ rest.status = <<>> /\ rest.original = <<>> /\ rest.returned = <<>>
      /\ NoNul(rest.message)
  OBVIOUS
<1>2. "nul" \notin SafeMessage(alias).odd
  BY DEF SafeMessage, TextSet
<1>3. h = HistoryCredential(channel, <<>>, SafeMessage(alias)) ++ rest
  BY DEF ApiDenialHistory
<1>4. FitSnapshot(<<>>)
  BY DEF FitSnapshot
<1> HIDE DEF rest, h
<1>5. /\ h.channel \in {"api", "mcp"}
      /\ "nul" \notin h.alias.odd /\ "nul" \notin h.provider.odd /\ "nul" \notin h.env.odd
      /\ \A k \in DOMAIN rest \ {"channel", "alias", "category", "provider", "env"} :
            h[k] = rest[k]
  BY <1>2, <1>3, <1>4, HistoryColumns
<1>6. \A k \in F : h[k] = rest[k]
  BY <1>1, <1>5
<1> HIDE DEF F
<1>7. /\ h.method = "" /\ h.queryKeys = {} /\ h.headerKeys = {} /\ h.maxBytes = 0
      /\ h.outcome = "denied"
  BY <1>1, <1>6 DEF F
<1>13. h.status = <<>> /\ h.original = <<>> /\ h.returned = <<>> /\ h.purpose = <<>>
  BY <1>1, <1>6 DEF F
<1>14. NoNul(h.message)
  BY <1>1, <1>6 DEF F
<1>15. h.projection.json = "array" /\ h.projection.texts = {}
  <2>1. h.projection = [json |-> "array", texts |-> {}]
    BY <1>1, <1>6 DEF F
  <2>2. QED
    BY <2>1
<1>8. PurposeFits(h) /\ NoNul(TextsOf(h.purpose))
  BY <1>13, EmptyPurpose, PurposeFitsRow
<1>9. "nul" \notin h.path.odd
  <2>1. h.path = Text(<<>>, {})
    BY <1>1, <1>6 DEF F
  <2>2. QED
    BY <2>1 DEF Text
<1>10. NoNul(ApiHistoryTexts(h))
  BY <1>5, <1>7, <1>8, <1>14, <1>15 DEF NoNul, ApiHistoryTexts
<1>11. Natural(h.original) /\ Natural(h.returned) /\ (\A i \in DOMAIN h.status : FALSE)
  BY <1>13 DEF Natural
<1>12. ApiHistoryFits(h)
  <2>1. h.maxBytes >= 0
    <3>1. h.maxBytes = 0
      BY <1>7
    <3>2. QED
      BY ONLY <3>1
  <2>2. h.method \in Methods \cup {""} /\ h.outcome \in Outcomes
    BY <1>7 DEF Outcomes
  <2>3. QED
    BY <1>5, <1>8, <1>9, <1>10, <1>11, <1>15, <2>1, <2>2 DEF ApiHistoryFits
<1>16. QED
  BY <1>12 DEF h

\* After every api_call RecordsAreKept holds.
LEMMA CallApiKept ==
    ASSUME IInv, CallApi
    PROVE  RecordsAreKept'
<1>1. PICK in \in ApiInputs :
        /\ Called("api_call", in)
        /\ \/ RefuseApi(in)
           \/ /\ ValidApi(in)
              /\ \E normal \in NormalApi(in) : FindFails(normal) \/ StopApi(normal) \/ SendApi(normal)
  BY DEF CallApi
<1>2. asked'[1].tool = "api_call" /\ asked'[1].in = in /\ TypedApi(in)
  BY <1>1, InputsAssumption DEF Called
<1>3. ASSUME "nul" \notin in.alias.odd \cup in.purpose.odd \cup in.path.odd
      PROVE  KeptRows
  <2>1. in.alias \in TextSet
    BY <1>2 DEF TypedApi
  <2>2. CASE RefuseApi(in)
    <3> DEFINE paths == TextsOf(in.jsonpath) \cup UNION {Paths(t) : t \in TextsOf(in.table)}
    <3>1. PICK channel \in Channels, result \in BadInput(paths) :
              StoreApi(DenialRow("api.call", channel, SafeMessage(in.alias), result),
                       ApiDenialHistory(channel, SafeMessage(in.alias), result))
      BY <2>2 DEF RefuseApi
    <3>2. paths \in SUBSET TextSet
      <4>1. TextsOf(in.jsonpath) \subseteq TextSet
        <5>1. in.jsonpath \in Seq(TextSet)
          BY <1>2 DEF TypedApi
        <5>2. QED
          BY <5>1, ElementIn DEF TextsOf
      <4>2. ASSUME NEW t \in TextsOf(in.table)
            PROVE  Paths(t) \subseteq TextSet
        <5>1. in.table # <<>>
          BY DEF TextsOf
        <5>2. /\ in.table = <<[base |-> in.table[1].base, columns |-> in.table[1].columns]>>
              /\ in.table[1].base \in TextSet /\ MapOf(in.table[1].columns, NameSet)
          BY <1>2, <5>1 DEF TypedApi
        <5>3. t = in.table[1]
          <6>1. DOMAIN in.table = {1}
            BY <5>2
          <6>2. QED
            BY <6>1 DEF TextsOf
        <5>4. \A n \in DOMAIN t.columns : t.columns[n] \in TextSet
          BY <5>2, <5>3 DEF MapOf
        <5>5. QED
          BY <5>2, <5>3, <5>4 DEF Paths
      <4>3. QED
        BY <4>1, <4>2
    <3> HIDE DEF paths
    <3>3. result.outcome = "denied" /\ NoNul({SafeMessage(t) : t \in result.quotes})
      BY <3>2, BadInputFacts
    <3>4. AuditFits(DenialRow("api.call", channel, SafeMessage(in.alias), result))
      BY <1>3, <2>1, <3>3, RefusedAuditFits
    <3>5. ApiHistoryFits(ApiDenialHistory(channel, SafeMessage(in.alias), result))
      BY <1>3, <2>1, <3>3, RefusedApiHistoryFits
    <3>6. QED
      BY <3>1, <3>4, <3>5 DEF StoreApi, Keep, LostOf, KeptRows
  <2>3. CASE ~RefuseApi(in)
    <3>1. PICK normal \in NormalApi(in) :
              FindFails(normal) \/ StopApi(normal) \/ SendApi(normal)
      BY <1>1, <2>3
    <3>2. ValidApi(in) /\ ApiWordsFit(normal)
      BY <1>1, <1>2, <1>3, <2>3, NormalApiFits
    <3>3. ~FindFails(normal)
      BY <3>2 DEF FindFails, ApiWordsFit
    <3>4. CASE StopApi(normal)
      <4> DEFINE v == ApiVerdict(normal)
      <4>1. RecordApi(normal, v) /\ v.outcome # "send"
        BY <3>4 DEF StopApi
      <4>2. v.outcome \in Outcomes /\ v.output = <<>> /\ v.quotes = {}
        BY <4>1 DEF ApiVerdict, Denied, Failed, Outcomes
      <4> HIDE DEF v
      <4>3. QED
        BY <3>2, <4>1, <4>2, RecordApiKept
    <3>5. CASE SendApi(normal)
      <4>1. PICK result : /\ RecordApi(normal, result)
                          /\ \/ \E o : result = Answered(o)
                             \/ \E k : result = Failed(k)
        BY <3>5 DEF SendApi
      <4>2. /\ result.outcome \in Outcomes
            /\ result.outcome = "ok" \/ (result.output = <<>> /\ result.quotes = {})
        BY <4>1 DEF Answered, Failed, Outcomes
      <4>3. QED
        BY <3>2, <4>1, <4>2, RecordApiKept
    <3>6. QED
      BY <3>1, <3>3, <3>4, <3>5
  <2>4. QED
    BY <2>2, <2>3
<1>4. QED
  BY <1>2, <1>3 DEF RecordsAreKept, AskedNul, KeptRows

-----------------------------------------------------------------------------
\* sql_query.

\* No valid database name holds a NUL.
LEMMA DatabaseNul ==
    ASSUME NEW database \in OptionSet(TextSet), ValidDatabase(database)
    PROVE  NoNul(TextsOf(NormalDatabase(database)))
<1>1. CASE database = <<>> \/ IsEmpty(database[1])
  BY <1>1 DEF NormalDatabase, NoNul, TextsOf
<1>2. CASE database # <<>> /\ ~IsEmpty(database[1])
  <2>1. database \in Seq(TextSet)
    BY DEF OptionSet
  <2>2. 1 \in DOMAIN database
    BY <1>2, <2>1
  <2>3. database[1] \in TextSet /\ "nul" \notin database[1].odd
    BY <1>2, <2>1, <2>2, ElementIn DEF ValidDatabase
  <2>4. NormalDatabase(database) = <<Trim(database[1])>>
    BY <1>2 DEF NormalDatabase
  <2>5. TextsOf(NormalDatabase(database)) = {Trim(database[1])}
    BY <2>4 DEF TextsOf
  <2>6. QED
    BY <2>3, <2>5, TrimNul DEF NoNul
<1>3. QED
  BY <1>1, <1>2

\* What rows may say of a query's own words
QueryWordsFit(in) ==
    /\ "nul" \notin in.alias.odd
    /\ FitPurpose(<<in.purpose>>)
    /\ NoNul(TextsOf(in.database))
    /\ Len(in.params) \in Nat /\ in.maxRows \in Nat /\ in.maxBytes \in Nat /\ in.timeout \in Nat

\* A valid sql_query with no NUL in its alias and purpose hands its recorder
\* words that rows take.
LEMMA NormalQueryFits ==
    ASSUME NEW in \in QueryInput, ValidQueryInput(in),
           "nul" \notin in.alias.odd \cup in.purpose.odd
    PROVE  QueryWordsFit(NormalQueryInput(in))
<1> DEFINE normal == NormalQueryInput(in)
<1>1. /\ normal.alias = Trim(in.alias) /\ normal.purpose = Trim(in.purpose)
      /\ normal.database = NormalDatabase(in.database) /\ normal.params = in.params
      /\ normal.maxRows = Given(in.maxRows, 100)
      /\ normal.maxBytes = Given(in.maxBytes, 64 * 1024)
      /\ normal.timeout = Given(in.timeout, 3000)
  BY DEF NormalQueryInput, QueryInput
<1>2. /\ in.alias \in TextSet /\ in.purpose \in TextSet /\ in.database \in OptionSet(TextSet)
      /\ in.params \in Seq(TextSet) /\ in.maxRows \in OptionSet(Int)
      /\ in.maxBytes \in OptionSet(Nat) /\ in.timeout \in OptionSet(Nat)
  BY DEF QueryInput
<1>3. Given(in.maxRows, 100) \in Nat
  <2>1. Given(in.maxRows, 100) \in Int
    BY <1>2, GivenType
  <2>2. 1 <= Given(in.maxRows, 100)
    BY DEF ValidQueryInput, InRange
  <2>3. QED
    BY <2>1, <2>2
<1>4. Given(in.maxBytes, 64 * 1024) \in Nat /\ Given(in.timeout, 3000) \in Nat
  <2>1. 64 * 1024 \in Nat /\ 3000 \in Nat
    OBVIOUS
  <2>2. QED
    BY <1>2, <2>1, GivenType
<1>5. Len(in.params) \in Nat
  BY <1>2
<1>6. NoNul(TextsOf(NormalDatabase(in.database)))
  BY <1>2, DatabaseNul DEF ValidQueryInput
<1>7. FitPurpose(<<Trim(in.purpose)>>)
  BY <1>2, NormalPurpose DEF ValidQueryInput
<1>8. "nul" \notin Trim(in.alias).odd
  BY <1>2, TrimNul
<1> HIDE DEF normal
<1>9. QueryWordsFit(normal)
  BY <1>1, <1>3, <1>4, <1>5, <1>6, <1>7, <1>8 DEF QueryWordsFit
<1>10. QED
  BY <1>9 DEF normal

\* An answer, or none, whose columns hold no NUL
FitOutput(output) ==
    \/ output = <<>>
    \/ \E o \in QueryOutputs : output = <<o>>

\* The columns and counts of an answer.
LEMMA OutputFacts ==
    ASSUME NEW output, FitOutput(output)
    PROVE  /\ \A i \in DOMAIN output : /\ NoNul(output[i].columns)
                                       /\ output[i].rows \in Nat /\ output[i].returned \in Nat
           /\ output # <<>> => 1 \in DOMAIN output
<1>1. CASE output = <<>>
  BY <1>1
<1>2. CASE \E o \in QueryOutputs : output = <<o>>
  <2>1. PICK o \in QueryOutputs : output = <<o>>
    BY <1>2
  <2>2. o.rows \in Nat /\ o.returned \in Nat /\ NoNul(o.columns)
    BY OutputsAssumption DEF NoNul
  <2>3. DOMAIN output = {1} /\ output[1] = o
    BY <2>1
  <2>4. QED
    BY <2>2, <2>3
<1>3. QED
  BY <1>1, <1>2 DEF FitOutput

\* The audit row of a sql_query is taken.
LEMMA QueryAuditFits ==
    ASSUME NEW channel \in Channels, NEW in, QueryWordsFit(in),
           NEW snapshot, FitSnapshot(snapshot),
           NEW result, result.outcome \in Outcomes, FitOutput(result.output)
    PROVE  AuditFits(QueryAudit(channel, in, snapshot, result))
<1> DEFINE alias == IF snapshot = <<>> THEN in.alias ELSE snapshot[1].alias
           a == [query_sha256 |-> Sha256(in.query), purpose |-> {in.purpose},
                 params_count |-> Len(in.params), max_rows |-> in.maxRows,
                 max_bytes |-> in.maxBytes, timeout_ms |-> in.timeout]
           b == DatabaseDetail(in)
           c == CredentialDetail(snapshot)
           d == ReasonDetail(result)
           e == IF result.output = <<>> THEN <<>>
                ELSE [result_columns |-> result.output[1].columns]
<1>1. "nul" \notin alias.odd
  BY DEF FitSnapshot, QueryWordsFit
<1>2. Clean(a)
  <2>1. "nul" \notin in.purpose.odd
    BY DEF QueryWordsFit, FitPurpose, TextsOf
  <2>2. DOMAIN a \ (Numbers \cup {"query_sha256"}) = {"purpose"}
    BY DEF Numbers
  <2>3. NoNul(a["purpose"])
    BY <2>1 DEF NoNul
  <2> HIDE DEF a
  <2>4. QED
    BY <2>2, <2>3 DEF Clean
<1>3. Clean(b)
  BY CleanKey DEF DatabaseDetail, QueryWordsFit
<1>4. Clean(c) /\ Clean(d)
  BY CleanCredential, CleanReason
<1>5. Clean(e)
  <2>1. CASE result.output = <<>>
    BY <2>1, CleanEmpty
  <2>2. CASE result.output # <<>>
    <3>1. NoNul(result.output[1].columns)
      BY <2>2, OutputFacts
    <3>2. QED
      BY <2>2, <3>1 DEF Clean
  <2>3. QED
    BY <2>1, <2>2
<1>6. QueryDetail(in, snapshot, result) = a ++ b ++ c ++ d ++ e
  BY DEF QueryDetail
<1>7. FitPurpose(<<in.purpose>>)
  BY DEF QueryWordsFit
<1> HIDE DEF alias, a, b, c, d, e
<1>8. Clean(a ++ b ++ c ++ d ++ e)
  BY <1>2, <1>3, <1>4, <1>5, CleanUnion
<1>9. AuditFits(AuditRow("sql.query", channel, result, alias, <<in.purpose>>,
                         QueryDetail(in, snapshot, result)))
  BY <1>1, <1>6, <1>7, <1>8, AuditRowFits
<1>10. QED
  BY <1>9 DEF QueryAudit, alias

\* The counts of an answer pass the CHECKs of sql_query_history.
LEMMA NaturalOf ==
    ASSUME NEW result, FitOutput(result.output)
    PROVE  Natural(OfOutput(result, "rows")) /\ Natural(OfOutput(result, "returned"))
<1>1. \A i \in DOMAIN result.output :
          result.output[i].rows \in Nat /\ result.output[i].returned \in Nat
  BY OutputFacts
<1>2. \A n \in Nat : Saturated(n) >= 0
  BY OutputsAssumption DEF Saturated
<1>3. \A i \in DOMAIN result.output :
          Saturated(result.output[i].rows) >= 0 /\ Saturated(result.output[i].returned) >= 0
  BY <1>1, <1>2
<1>4. QED
  BY <1>3 DEF Natural, OfOutput

\* The sql_query_history row of a sql_query is taken.
LEMMA QueryHistoryFit ==
    ASSUME NEW channel \in Channels, NEW in, QueryWordsFit(in),
           NEW snapshot, FitSnapshot(snapshot),
           NEW result, result.outcome \in Outcomes, FitOutput(result.output), result.quotes = {}
    PROVE  QueryHistoryFits(QueryHistory(channel, in, snapshot, result))
<1> DEFINE columns == UNION {result.output[i].columns : i \in DOMAIN result.output}
           rest == [sha256 |-> <<Sha256(in.query)>>, paramsCount |-> Saturated(Len(in.params)),
                    maxRows |-> in.maxRows, maxBytes |-> Saturated(in.maxBytes),
                    timeout |-> Saturated(in.timeout), purpose |-> <<in.purpose>>,
                    outcome |-> result.outcome, rowCount |-> OfOutput(result, "rows"),
                    returned |-> OfOutput(result, "returned"), truncated |-> Truncated(result),
                    columns |-> columns,
                    kind |-> result.kind, message |-> {SafeMessage(t) : t \in result.quotes}]
           h == QueryHistory(channel, in, snapshot, result)
           F == {"sha256", "paramsCount", "maxRows", "maxBytes", "timeout", "purpose", "outcome",
                 "rowCount", "returned", "truncated", "columns", "kind", "message"}
<1>1. /\ DOMAIN rest = F
      /\ rest.paramsCount = Saturated(Len(in.params)) /\ rest.maxRows = in.maxRows
      /\ rest.maxBytes = Saturated(in.maxBytes) /\ rest.timeout = Saturated(in.timeout)
      /\ rest.purpose = <<in.purpose>> /\ rest.outcome = result.outcome
      /\ rest.rowCount = OfOutput(result, "rows") /\ rest.returned = OfOutput(result, "returned")
      /\ rest.columns = columns
  OBVIOUS
<1>2. rest.message = {}
  OBVIOUS
<1>3. h = HistoryCredential(channel, snapshot, in.alias) ++ rest
  BY DEF QueryHistory
<1>4. "nul" \notin in.alias.odd
  BY DEF QueryWordsFit
<1> HIDE DEF rest, h, columns
<1>5. /\ h.channel \in {"api", "mcp"}
      /\ "nul" \notin h.alias.odd /\ "nul" \notin h.provider.odd /\ "nul" \notin h.env.odd
      /\ \A k \in DOMAIN rest \ {"channel", "alias", "category", "provider", "env"} :
            h[k] = rest[k]
  BY <1>3, <1>4, HistoryColumns
<1>6. \A k \in F : h[k] = rest[k]
  BY <1>1, <1>5
<1> HIDE DEF F
<1>7. /\ h.paramsCount = Saturated(Len(in.params)) /\ h.maxRows = in.maxRows
      /\ h.maxBytes = Saturated(in.maxBytes) /\ h.timeout = Saturated(in.timeout)
  BY <1>1, <1>6 DEF F
<1>8. h.purpose = <<in.purpose>> /\ h.outcome = result.outcome /\ h.message = {}
  BY <1>1, <1>2, <1>6 DEF F
<1>9. h.rowCount = OfOutput(result, "rows") /\ h.returned = OfOutput(result, "returned")
  BY <1>1, <1>6 DEF F
<1>10. h.columns = columns
  BY <1>1, <1>6 DEF F
<1>11. h.paramsCount \in Nat /\ h.maxRows \in Nat /\ h.maxBytes \in Nat /\ h.timeout \in Nat
  BY <1>7, SaturatedNat DEF QueryWordsFit
<1>12. h.paramsCount >= 0 /\ h.maxRows >= 0 /\ h.maxBytes >= 0 /\ h.timeout >= 0
  BY <1>11
<1>13. PurposeFits(h) /\ NoNul(TextsOf(h.purpose))
  BY <1>8, PurposeFitsRow DEF QueryWordsFit
<1>14. NoNul(h.columns)
  <2>1. \A i \in DOMAIN result.output : NoNul(result.output[i].columns)
    BY OutputFacts
  <2>2. QED
    BY <1>10, <2>1 DEF NoNul, columns
<1>15. NoNul(QueryHistoryTexts(h))
  BY <1>5, <1>8, <1>13, <1>14 DEF NoNul, QueryHistoryTexts
<1>16. Natural(h.rowCount) /\ Natural(h.returned)
  BY <1>9, NaturalOf
<1>17. QueryHistoryFits(h)
  BY <1>5, <1>8, <1>12, <1>13, <1>15, <1>16 DEF QueryHistoryFits
<1>18. QED
  BY <1>17 DEF h

\* The sql_query_history row of a refused input is taken.
LEMMA RefusedQueryHistoryFits ==
    ASSUME NEW channel \in Channels, NEW alias \in TextSet, "nul" \notin alias.odd,
           NEW result, NoNul({SafeMessage(t) : t \in result.quotes})
    PROVE  QueryHistoryFits(QueryDenialHistory(channel, SafeMessage(alias), result))
<1> DEFINE rest == [sha256 |-> <<>>, paramsCount |-> 0, maxRows |-> 0, maxBytes |-> 0,
                    timeout |-> 0, purpose |-> <<>>, outcome |-> "denied", rowCount |-> <<>>,
                    returned |-> <<>>, truncated |-> FALSE, columns |-> {},
                    kind |-> result.kind, message |-> {SafeMessage(t) : t \in result.quotes}]
           h == QueryDenialHistory(channel, SafeMessage(alias), result)
           F == {"sha256", "paramsCount", "maxRows", "maxBytes", "timeout", "purpose", "outcome",
                 "rowCount", "returned", "truncated", "columns", "kind", "message"}
<1>1. /\ DOMAIN rest = F
      /\ rest.paramsCount = 0 /\ rest.maxRows = 0 /\ rest.maxBytes = 0 /\ rest.timeout = 0
      /\ rest.outcome = "denied"
  OBVIOUS
<1>2. rest.purpose = <<>> /\ rest.rowCount = <<>> /\ rest.returned = <<>>
  OBVIOUS
<1>3. rest.columns = {} /\ NoNul(rest.message)
  OBVIOUS
<1>4. "nul" \notin SafeMessage(alias).odd
  BY DEF SafeMessage, TextSet
<1>5. h = HistoryCredential(channel, <<>>, SafeMessage(alias)) ++ rest
  BY DEF QueryDenialHistory
<1>6. FitSnapshot(<<>>)
  BY DEF FitSnapshot
<1> HIDE DEF rest, h
<1>7. /\ h.channel \in {"api", "mcp"}
      /\ "nul" \notin h.alias.odd /\ "nul" \notin h.provider.odd /\ "nul" \notin h.env.odd
      /\ \A k \in DOMAIN rest \ {"channel", "alias", "category", "provider", "env"} :
            h[k] = rest[k]
  BY <1>4, <1>5, <1>6, HistoryColumns
<1>8. \A k \in F : h[k] = rest[k]
  BY <1>1, <1>7
<1> HIDE DEF F
<1>9. h.paramsCount = 0 /\ h.maxRows = 0 /\ h.maxBytes = 0 /\ h.timeout = 0
  BY <1>1, <1>8 DEF F
<1>10. h.paramsCount >= 0 /\ h.maxRows >= 0 /\ h.maxBytes >= 0 /\ h.timeout >= 0
  BY ONLY <1>9
<1>11. h.purpose = <<>> /\ h.rowCount = <<>> /\ h.returned = <<>>
  BY <1>2, <1>8 DEF F
<1>12. h.columns = {} /\ NoNul(h.message)
  BY <1>3, <1>8 DEF F
<1>13. h.outcome \in Outcomes
  BY <1>1, <1>8 DEF F, Outcomes
<1>14. PurposeFits(h) /\ NoNul(TextsOf(h.purpose))
  BY <1>11, EmptyPurpose, PurposeFitsRow
<1>15. NoNul(QueryHistoryTexts(h))
  BY <1>7, <1>12, <1>14 DEF NoNul, QueryHistoryTexts
<1>16. Natural(h.rowCount) /\ Natural(h.returned)
  BY <1>11 DEF Natural
<1>17. QueryHistoryFits(h)
  BY <1>7, <1>10, <1>13, <1>14, <1>15, <1>16 DEF QueryHistoryFits
<1>18. QED
  BY <1>17 DEF h

\* No row of a call is lost.
NoneLost == audit' # <<>> /\ lost' = {}

\* The recorder of sql_query loses no row.
LEMMA RecordQueryKept ==
    ASSUME IInv, NEW in, QueryWordsFit(in), NEW result, result.outcome \in Outcomes,
           FitOutput(result.output), result.quotes = {}, RecordQuery(in, result)
    PROVE  NoneLost
<1>1. PICK channel \in Channels :
        StoreQuery(QueryAudit(channel, in, SnapshotOf(in), result),
                   QueryHistory(channel, in, SnapshotOf(in), result))
  BY DEF RecordQuery
<1>2. FitSnapshot(SnapshotOf(in))
  BY SnapshotFits
<1>3. AuditFits(QueryAudit(channel, in, SnapshotOf(in), result))
  BY <1>2, QueryAuditFits
<1>4. QueryHistoryFits(QueryHistory(channel, in, SnapshotOf(in), result))
  BY <1>2, QueryHistoryFit
<1>5. QED
  BY <1>1, <1>3, <1>4 DEF StoreQuery, Keep, LostOf, NoneLost

\* A SQL call that is not sent ends without an answer.
LEMMA SqlVerdictFacts ==
    ASSUME NEW in, NEW denied, SqlVerdict(in, denied).outcome # "send"
    PROVE  /\ SqlVerdict(in, denied).outcome \in Outcomes
           /\ SqlVerdict(in, denied).output = <<>> /\ SqlVerdict(in, denied).quotes = {}
  BY DEF SqlVerdict, Denied, Failed, Outcomes

\* After every sql_query RecordsAreKept holds.
LEMMA CallQueryKept ==
    ASSUME IInv, CallQuery
    PROVE  RecordsAreKept'
<1>1. PICK in \in QueryInputs :
        /\ Called("sql_query", in)
        /\ \/ RefuseQuery(in)
           \/ /\ ValidQueryInput(in)
              /\ \/ FindFails(NormalQueryInput(in)) \/ StopQuery(NormalQueryInput(in))
                 \/ SendQuery(NormalQueryInput(in))
  BY DEF CallQuery
<1>2. asked'[1].tool = "sql_query" /\ asked'[1].in = in /\ in \in QueryInput
  BY <1>1, InputsAssumption DEF Called
<1>3. ASSUME "nul" \notin in.alias.odd \cup in.purpose.odd
      PROVE  NoneLost
  <2>1. in.alias \in TextSet /\ in.jsonpath \in Seq(TextSet)
    BY <1>2 DEF QueryInput
  <2>2. CASE RefuseQuery(in)
    <3>1. PICK channel \in Channels, result \in BadInput(TextsOf(in.jsonpath)) :
              StoreQuery(DenialRow("sql.query", channel, SafeMessage(in.alias), result),
                         QueryDenialHistory(channel, SafeMessage(in.alias), result))
      BY <2>2 DEF RefuseQuery
    <3>2. TextsOf(in.jsonpath) \in SUBSET TextSet
      BY <2>1, ElementIn DEF TextsOf
    <3>3. result.outcome = "denied" /\ NoNul({SafeMessage(t) : t \in result.quotes})
      BY <3>2, BadInputFacts
    <3>4. AuditFits(DenialRow("sql.query", channel, SafeMessage(in.alias), result))
      BY <1>3, <2>1, <3>3, RefusedAuditFits
    <3>5. QueryHistoryFits(QueryDenialHistory(channel, SafeMessage(in.alias), result))
      BY <1>3, <2>1, <3>3, RefusedQueryHistoryFits
    <3>6. QED
      BY <3>1, <3>4, <3>5 DEF StoreQuery, Keep, LostOf, NoneLost
  <2>3. CASE ~RefuseQuery(in)
    <3> DEFINE normal == NormalQueryInput(in)
    <3>1. FindFails(normal) \/ StopQuery(normal) \/ SendQuery(normal)
      BY <1>1, <2>3
    <3>2. QueryWordsFit(normal)
      BY <1>1, <1>2, <1>3, <2>3, NormalQueryFits
    <3> HIDE DEF normal
    <3>3. ~FindFails(normal)
      BY <3>2 DEF FindFails, QueryWordsFit
    <3>4. CASE StopQuery(normal)
      <4> DEFINE v == QueryVerdict(normal)
      <4>1. RecordQuery(normal, v) /\ v.outcome # "send"
        BY <3>4 DEF StopQuery
      <4>2. v.outcome \in Outcomes /\ v.output = <<>> /\ v.quotes = {}
        BY <4>1, SqlVerdictFacts DEF QueryVerdict
      <4> HIDE DEF v
      <4>3. FitOutput(v.output)
        BY <4>2 DEF FitOutput
      <4>4. QED
        BY <3>2, <4>1, <4>2, <4>3, RecordQueryKept
    <3>5. CASE SendQuery(normal)
      <4>1. PICK result : /\ RecordQuery(normal, result)
                          /\ \/ \E o \in QueryOutputs : result = Answered(o)
                             \/ \E k \in SqlFailures : result = Failed(k)
        BY <3>5 DEF SendQuery
      <4>2. result.outcome \in Outcomes /\ FitOutput(result.output) /\ result.quotes = {}
        BY <4>1 DEF Answered, Failed, Outcomes, FitOutput
      <4>3. QED
        BY <3>2, <4>1, <4>2, RecordQueryKept
    <3>6. QED
      BY <3>1, <3>3, <3>4, <3>5
  <2>4. QED
    BY <2>2, <2>3
<1>4. ASSUME ~AskedNul'
      PROVE  "nul" \notin in.alias.odd \cup in.purpose.odd
  BY <1>2, <1>4 DEF AskedNul
<1>5. QED
  BY <1>3, <1>4 DEF RecordsAreKept, NoneLost

-----------------------------------------------------------------------------
\* sql_schema.

\* What rows may say of a listing's own words
SchemaWordsFit(in) ==
    /\ "nul" \notin in.alias.odd
    /\ FitPurpose(<<in.purpose>>)
    /\ "nul" \notin in.mode.odd /\ "nul" \notin in.namespace.odd /\ "nul" \notin in.table.odd
    /\ NoNul(TextsOf(in.database))

\* A valid sql_schema with no NUL in its alias, purpose and, unless it is about
\* one table, its namespace and table hands its recorder words that rows take.
LEMMA NormalSchemaFits ==
    ASSUME NEW in \in SchemaInput, ValidSchemaInput(in),
           "nul" \notin in.alias.odd \cup in.purpose.odd,
           NormalMode(in.mode).word # "table" => "nul" \notin in.namespace.odd \cup in.table.odd
    PROVE  SchemaWordsFit(NormalSchemaInput(in))
<1> DEFINE normal == NormalSchemaInput(in)
<1>1. /\ normal.alias = Trim(in.alias) /\ normal.purpose = Trim(in.purpose)
      /\ normal.database = NormalDatabase(in.database) /\ normal.mode = NormalMode(in.mode)
      /\ normal.namespace = SchemaTarget(in).namespace /\ normal.table = SchemaTarget(in).table
  BY DEF NormalSchemaInput, SchemaInput
<1>2. /\ in.alias \in TextSet /\ in.purpose \in TextSet /\ in.database \in OptionSet(TextSet)
      /\ in.namespace \in TextSet /\ in.table \in PathSet
  BY DEF SchemaInput
<1>3. NoNul(TextsOf(NormalDatabase(in.database)))
  BY <1>2, DatabaseNul DEF ValidSchemaInput
<1>4. FitPurpose(<<Trim(in.purpose)>>)
  BY <1>2, NormalPurpose DEF ValidSchemaInput
<1>5. "nul" \notin Trim(in.alias).odd
  BY <1>2, TrimNul
<1>6. "nul" \notin NormalMode(in.mode).odd
  BY DEF ValidSchemaInput
<1>7. "nul" \notin SchemaTarget(in).namespace.odd /\ "nul" \notin SchemaTarget(in).table.odd
  <2>1. CASE NormalMode(in.mode).word = "table"
    BY <2>1 DEF ValidSchemaInput, ValidIdentifier
  <2>2. CASE NormalMode(in.mode).word # "table"
    <3>1. SchemaTarget(in).namespace = Trim(in.namespace) /\ SchemaTarget(in).table = Trim(in.table)
      BY <2>2 DEF SchemaTarget
    <3>2. "nul" \notin Trim(in.namespace).odd
      BY <1>2, <2>2, TrimNul
    <3>3. "nul" \notin Trim(in.table).odd
      BY <1>2, <2>2 DEF Trim, PathSet
    <3>4. QED
      BY <3>1, <3>2, <3>3
  <2>3. QED
    BY <2>1, <2>2
<1> HIDE DEF normal
<1>8. SchemaWordsFit(normal)
  BY <1>1, <1>3, <1>4, <1>5, <1>6, <1>7 DEF SchemaWordsFit
<1>9. QED
  BY <1>8 DEF normal

\* The audit row of a sql_schema is taken.
LEMMA SchemaAuditFits ==
    ASSUME NEW in, SchemaWordsFit(in), NEW snapshot, FitSnapshot(snapshot),
           NEW result, result.outcome \in Outcomes
    PROVE  AuditFits(SchemaAudit("mcp", in, snapshot, result))
<1> DEFINE alias == IF snapshot = <<>> THEN in.alias ELSE snapshot[1].alias
           a == [mode |-> {in.mode}, namespace |-> {in.namespace}, table |-> {in.table},
                 purpose |-> {in.purpose}, limit |-> in.limit, max_bytes |-> in.maxBytes,
                 timeout_ms |-> in.timeout]
           b == DatabaseDetail(in)
           c == CredentialDetail(snapshot)
           d == ReasonDetail(result)
<1>1. "nul" \notin alias.odd
  BY DEF FitSnapshot, SchemaWordsFit
<1>2. Clean(a)
  <2>1. "nul" \notin in.purpose.odd
    BY DEF SchemaWordsFit, FitPurpose, TextsOf
  <2>2. DOMAIN a \ (Numbers \cup {"query_sha256"}) = {"mode", "namespace", "table", "purpose"}
    BY DEF Numbers
  <2>3. /\ NoNul(a["mode"]) /\ NoNul(a["namespace"]) /\ NoNul(a["table"])
        /\ NoNul(a["purpose"])
    BY <2>1 DEF NoNul, SchemaWordsFit
  <2> HIDE DEF a
  <2>4. QED
    BY <2>2, <2>3 DEF Clean
<1>3. Clean(b)
  BY CleanKey DEF DatabaseDetail, SchemaWordsFit
<1>4. Clean(c) /\ Clean(d)
  BY CleanCredential, CleanReason
<1>5. SchemaDetail(in, snapshot, result) = a ++ b ++ c ++ d
  BY DEF SchemaDetail
<1>6. FitPurpose(<<in.purpose>>) /\ "mcp" \in Channels
  BY DEF SchemaWordsFit, Channels
<1> HIDE DEF alias, a, b, c, d
<1>7. Clean(a ++ b ++ c ++ d)
  BY <1>2, <1>3, <1>4, CleanUnion
<1>8. AuditFits(AuditRow("sql.schema", "mcp", result, alias, <<in.purpose>>,
                         SchemaDetail(in, snapshot, result)))
  BY <1>1, <1>5, <1>6, <1>7, AuditRowFits
<1>9. QED
  BY <1>8 DEF SchemaAudit, alias

\* The recorder of sql_schema loses no row.
LEMMA RecordSchemaKept ==
    ASSUME IInv, NEW in, SchemaWordsFit(in), NEW result, result.outcome \in Outcomes,
           RecordSchema(in, result)
    PROVE  NoneLost
<1>1. FitSnapshot(SnapshotOf(in))
  BY SnapshotFits
<1>2. AuditFits(SchemaAudit("mcp", in, SnapshotOf(in), result))
  BY <1>1, SchemaAuditFits
<1>3. QED
  BY <1>2 DEF RecordSchema, StoreSchema, Keep, LostOf, NoneLost

\* After every sql_schema RecordsAreKept holds.
LEMMA CallSchemaKept ==
    ASSUME IInv, CallSchema
    PROVE  RecordsAreKept'
<1>1. PICK in \in SchemaInputs :
        /\ Called("sql_schema", in)
        /\ \/ RefuseSchema(in)
           \/ /\ ValidSchemaInput(in)
              /\ \/ FindFails(NormalSchemaInput(in)) \/ StopSchema(NormalSchemaInput(in))
                 \/ SendSchema(NormalSchemaInput(in))
  BY DEF CallSchema
<1>2. asked'[1].tool = "sql_schema" /\ asked'[1].in = in /\ in \in SchemaInput
  BY <1>1, InputsAssumption DEF Called
<1>3. ASSUME "nul" \notin in.alias.odd \cup in.purpose.odd,
             NormalMode(in.mode).word # "table" =>
                "nul" \notin in.namespace.odd \cup in.table.odd
      PROVE  NoneLost
  <2>1. in.alias \in TextSet
    BY <1>2 DEF SchemaInput
  <2>2. CASE RefuseSchema(in)
    <3>1. Denied("bad_input").outcome = "denied" /\ "mcp" \in Channels
      BY DEF Denied, Channels
    <3>2. AuditFits(DenialRow("sql.schema", "mcp", SafeMessage(in.alias), Denied("bad_input")))
      BY <1>3, <2>1, <3>1, RefusedAuditFits
    <3>3. QED
      BY <2>2, <3>2 DEF RefuseSchema, StoreSchema, Keep, LostOf, NoneLost
  <2>3. CASE ~RefuseSchema(in)
    <3> DEFINE normal == NormalSchemaInput(in)
    <3>1. FindFails(normal) \/ StopSchema(normal) \/ SendSchema(normal)
      BY <1>1, <2>3
    <3>2. SchemaWordsFit(normal)
      BY <1>1, <1>2, <1>3, <2>3, NormalSchemaFits
    <3> HIDE DEF normal
    <3>3. ~FindFails(normal)
      BY <3>2 DEF FindFails, SchemaWordsFit
    <3>4. CASE StopSchema(normal)
      <4> DEFINE v == SchemaVerdict(normal)
      <4>1. RecordSchema(normal, v) /\ v.outcome # "send"
        BY <3>4 DEF StopSchema
      <4>2. v.outcome \in Outcomes
        BY <4>1, SqlVerdictFacts DEF SchemaVerdict
      <4> HIDE DEF v
      <4>3. QED
        BY <3>2, <4>1, <4>2, RecordSchemaKept
    <3>5. CASE SendSchema(normal)
      <4>1. PICK result : /\ RecordSchema(normal, result)
                          /\ \/ \E o \in QueryOutputs : result = Answered(o)
                             \/ result = Failed("schema_lookup_failed")
        BY <3>5 DEF SendSchema
      <4>2. result.outcome \in Outcomes
        BY <4>1 DEF Answered, Failed, Outcomes
      <4>3. QED
        BY <3>2, <4>1, <4>2, RecordSchemaKept
    <3>6. QED
      BY <3>1, <3>3, <3>4, <3>5
  <2>4. QED
    BY <2>2, <2>3
<1>4. ASSUME ~AskedNul'
      PROVE  /\ "nul" \notin in.alias.odd \cup in.purpose.odd
             /\ NormalMode(in.mode).word # "table" =>
                   "nul" \notin in.namespace.odd \cup in.table.odd
  BY <1>2, <1>4 DEF AskedNul
<1>5. QED
  BY <1>3, <1>4 DEF RecordsAreKept, NoneLost

\* RecordsAreKept always holds: every call that ends, refused, failed or answered,
\* has left its audit row and its history row (the recorders' record and
\* record_pre_input_denial), but for a NUL in the words the code does not check
\* and an HTTP status above 599.
THEOREM CallsAreRecorded == Spec => []RecordsAreKept
<1>1. Init => RecordsAreKept
  BY DEF Init, RecordsAreKept
<1>2. ASSUME IInv, RecordsAreKept, [Next]_vars
      PROVE  RecordsAreKept'
  <2>1. CASE RegisterHttp \/ RegisterSql \/ Restart \/ Return
    <3>1. asked' = <<>>
      BY <2>1 DEF RegisterHttp, RegisterSql, Accept, Restart, Return, NoCall
    <3>2. QED
      BY <3>1 DEF RecordsAreKept
  <2>2. CASE CallApi
    BY <1>2, <2>2, CallApiKept
  <2>3. CASE CallQuery
    BY <1>2, <2>3, CallQueryKept
  <2>4. CASE CallSchema
    BY <1>2, <2>4, CallSchemaKept
  <2>5. CASE UNCHANGED vars
    BY <1>2, <2>5 DEF vars, RecordsAreKept, AskedNul
  <2>6. QED
    BY <1>2, <2>1, <2>2, <2>3, <2>4, <2>5 DEF Next
<1>3. QED
  BY <1>1, <1>2, StoredAlways, PTL DEF Spec

-----------------------------------------------------------------------------
\* No row holds anything confidential.

\* Every text of these says what may be shown.
AllShown(texts) == \A t \in texts : t.word \in Shown

\* No word of the code is confidential.
LEMMA CodeIsShown ==
    /\ CodeWords \subseteq Shown
    /\ {"", "postgres", "dev", "GET", "tables", "public"} \subseteq Shown
<1>1. CodeWords \subseteq Shown
  BY DEF Shown
<1>2. {"", "postgres", "dev", "GET", "tables", "public"} \subseteq CodeWords
  BY DEF CodeWords
<1>3. QED
  BY <1>1, <1>2

\* Trimming, lower-casing, cutting and escaping keep a text's word.
LEMMA SameWord ==
    ASSUME NEW t \in TextSet
    PROVE  /\ Trim(t).word = t.word /\ HeaderName(t).word = t.word
           /\ NormalMethod(t).word \in {t.word, "GET"} /\ NormalMode(t).word \in {t.word, "tables"}
           /\ SafeMessage(t).word = t.word /\ Escaped(t).word = t.word /\ Escaped(t) \in TextSet
<1>1. Trim(t) \in TextSet /\ Trim(t).word = t.word
  BY TextTypes
<1>2. Fold(Trim(t)).word = t.word
  BY <1>1, TextTypes
<1>3. SafeMessage(t).word = t.word /\ Escaped(t).word = t.word /\ Escaped(t) \in TextSet
  BY DEF SafeMessage, Escaped, TextSet
<1>4. Plain("GET").word = "GET" /\ Plain("tables").word = "tables"
  BY DEF Plain, Text
<1>5. NormalMethod(t).word \in {t.word, "GET"} /\ NormalMode(t).word \in {t.word, "tables"}
  BY <1>2, <1>4 DEF NormalMethod, NormalMode, Default
<1>6. QED
  BY <1>1, <1>2, <1>3, <1>5 DEF HeaderName

\* A detail that shows only what may be shown
ShownDetail(detail) ==
    \A k \in DOMAIN detail \ (Numbers \cup {"query_sha256", "request_path", "table"}) :
        AllShown(detail[k])

\* Two such details make one.
LEMMA ShownUnion ==
    ASSUME NEW f, NEW g, ShownDetail(f), ShownDetail(g)
    PROVE  ShownDetail(f ++ g)
<1>1. ASSUME NEW k \in DOMAIN (f ++ g) \ (Numbers \cup {"query_sha256", "request_path", "table"})
      PROVE  AllShown((f ++ g)[k])
  <2>1. CASE k \in DOMAIN f
    <3>1. (f ++ g)[k] = f[k]
      BY <2>1 DEF ++
    <3>2. QED
      BY <1>1, <2>1, <3>1 DEF ShownDetail
  <2>2. CASE k \notin DOMAIN f
    <3>1. k \in DOMAIN g /\ (f ++ g)[k] = g[k]
      BY <1>1, <2>2 DEF ++
    <3>2. QED
      BY <1>1, <3>1 DEF ShownDetail
  <2>3. QED
    BY <2>1, <2>2
<1>2. QED
  BY <1>1 DEF ShownDetail

\* A detail of one key is such a detail when its texts are.
LEMMA ShownKey ==
    ASSUME NEW k, NEW texts, AllShown(texts)
    PROVE  ShownDetail(NonEmpty(k, texts)) /\ ShownDetail(<<>>)
<1>1. ShownDetail(<<>>)
  BY DEF ShownDetail
<1>2. CASE texts = {}
  BY <1>1, <1>2 DEF NonEmpty
<1>3. CASE texts # {}
  BY <1>1, <1>3 DEF NonEmpty, ShownDetail
<1>4. QED
  BY <1>2, <1>3, <1>1

\* A result's reason is a word of the code.
LEMMA ShownReason ==
    ASSUME NEW result, result.kind \in Shown \cup {"none"}
    PROVE  ShownDetail(ReasonDetail(result))
<1>1. Plain(result.kind).word = result.kind
  BY DEF Plain, Text
<1> DEFINE texts == {Plain(result.kind)}
<1>2. result.kind # "none" => AllShown(texts)
  BY <1>1 DEF AllShown
<1>3. /\ ReasonDetail(result) \in {<<>>, [denial_reason |-> texts], [error_kind |-> texts]}
      /\ result.kind = "none" => ReasonDetail(result) = <<>>
  BY DEF ReasonDetail
<1> HIDE DEF texts
<1>4. /\ ShownDetail(<<>>)
      /\ AllShown(texts) => /\ ShownDetail([denial_reason |-> texts])
                           /\ ShownDetail([error_kind |-> texts])
  BY DEF ShownDetail
<1>5. QED
  BY <1>2, <1>3, <1>4

\* What of a credential a row may show
ShownSnapshot(snapshot) ==
    \/ snapshot = <<>>
    \/ /\ snapshot # <<>>
       /\ DOMAIN snapshot[1] = {"alias", "category", "provider", "env"}
       /\ AllShown({snapshot[1].alias, snapshot[1].provider, snapshot[1].env})

\* What a detail says of a credential is its provider and its environment.
LEMMA ShownCredential ==
    ASSUME NEW snapshot, ShownSnapshot(snapshot)
    PROVE  ShownDetail(CredentialDetail(snapshot))
<1>1. CASE snapshot = <<>>
  BY <1>1 DEF CredentialDetail, ShownDetail
<1>2. CASE snapshot # <<>>
  BY <1>2 DEF CredentialDetail, ShownDetail, AllShown, ShownSnapshot
<1>3. QED
  BY <1>1, <1>2

\* The names of a written registration may be shown.
LEMMA WrittenShown ==
    ASSUME NEW reg \in Written
    PROVE  LET n == NormalRegister(reg) IN AllShown({n.alias, n.provider, n.env})
<1> DEFINE n == NormalRegister(reg)
<1>1. PICK in \in HttpRegistrations \cup SqlRegistrations :
            /\ reg.alias = in.alias /\ reg.provider = in.provider /\ reg.env = in.env
            /\ {in.alias, in.provider, in.env} \subseteq TextSet
            /\ Uniform(reg)
  <2>1. CASE reg \in {FromHttp(in) : in \in HttpRegistrations}
    <3>1. PICK in \in HttpRegistrations : reg = FromHttp(in)
      BY <2>1
    <3>2. in \in HttpRegistration
      BY InputsAssumption
    <3>3. {in.alias, in.provider, in.env} \subseteq TextSet
      BY <3>2 DEF HttpRegistration
    <3>4. reg.alias = in.alias /\ reg.provider = in.provider /\ reg.env = in.env
      BY <3>1 DEF FromHttp
    <3>5. QED
      BY <3>1, <3>3, <3>4, FromHttpUniform
  <2>2. CASE reg \in {FromSql(in) : in \in SqlRegistrations}
    <3>1. PICK in \in SqlRegistrations : reg = FromSql(in)
      BY <2>2
    <3>2. in \in SqlRegistration
      BY InputsAssumption
    <3>3. {in.alias, in.provider, in.env} \subseteq TextSet
      BY <3>2 DEF SqlRegistration
    <3>4. reg.alias = in.alias /\ reg.provider = in.provider /\ reg.env = in.env
      BY <3>1 DEF FromSql
    <3>5. QED
      BY <3>1, <3>3, <3>4, FromSqlUniform
  <2>3. QED
    BY <2>1, <2>2 DEF Written
<1>2. {in.alias.word, in.provider.word, in.env.word} \subseteq Shown
  <2>1. WordsOf({in.provider, in.alias, in.env}) \subseteq Shown
    BY DEF Shown
  <2>2. QED
    BY <2>1 DEF WordsOf
<1>3. /\ n.alias = Trim(reg.alias) /\ n.env = Default(Trim(reg.env), "dev")
      /\ n.provider \in {Default(Trim(reg.provider), "postgres"), Trim(reg.provider)}
  BY <1>1, NormalFields
<1> HIDE DEF n
<1>4. /\ Trim(reg.alias).word \in Shown /\ Trim(reg.env).word \in Shown
      /\ Trim(reg.provider).word \in Shown
  BY <1>1, <1>2, SameWord
<1>5. Plain("dev").word \in Shown /\ Plain("postgres").word \in Shown
  BY CodeIsShown DEF Plain, Text
<1>6. n.alias.word \in Shown /\ n.env.word \in Shown /\ n.provider.word \in Shown
  BY <1>3, <1>4, <1>5 DEF Default
<1>7. AllShown({n.alias, n.provider, n.env})
  BY <1>6 DEF AllShown
<1>8. QED
  BY <1>7 DEF n

\* What a recorder knows of the stored credential are its names.
LEMMA SnapshotShown ==
    ASSUME IInv, NEW in
    PROVE  ShownSnapshot(SnapshotOf(in))
<1>1. CASE ~Finds(in)
  BY <1>1 DEF SnapshotOf, ShownSnapshot
<1>2. CASE Finds(in)
  <2> DEFINE c == Credential(row[1])
  <2>1. row # <<>>
    BY <1>2 DEF Finds
  <2>2. PICK reg \in Written :
              LET n == NormalRegister(reg)
              IN  /\ given = <<reg>> /\ Normalized(n) /\ ValidRegister(n)
                  /\ Credential(row[1]) = Registered(n) /\ OpenSecret(row[1]) = n.secret
                  /\ row[1].category = n.category /\ row[1].alias = n.alias
                  /\ \A d \in n.policy.deniedKeys : "nul" \notin d.odd
    BY <2>1, StoredReads DEF IInv
  <2> DEFINE n == NormalRegister(reg)
  <2>3. c.alias = n.alias /\ c.provider = n.provider /\ c.env = n.env
    BY <2>2, RegisteredFields
  <2>4. AllShown({n.alias, n.provider, n.env})
    BY WrittenShown
  <2> HIDE DEF c, n
  <2>5. SnapshotOf(in) = <<Snapshot(c)>>
    BY <1>2 DEF SnapshotOf, c
  <2>6. SnapshotOf(in) # <<>> /\ SnapshotOf(in)[1] = Snapshot(c)
    BY <2>5
  <2>7. QED
    BY <2>3, <2>4, <2>6 DEF ShownSnapshot, Snapshot, AllShown
<1>3. QED
  BY <1>1, <1>2

\* The columns that both history tables share show names, and the others are
\* the recorder's.
LEMMA ShownColumns ==
    ASSUME NEW channel, NEW snapshot, ShownSnapshot(snapshot),
           NEW alias, alias.word \in Shown, NEW rest,
           NEW h, h = HistoryCredential(channel, snapshot, alias) ++ rest
    PROVE  /\ h.alias.word \in Shown /\ h.provider.word \in Shown /\ h.env.word \in Shown
           /\ \A k \in DOMAIN rest \ {"channel", "alias", "category", "provider", "env"} :
                 h[k] = rest[k]
<1> DEFINE a == [channel |-> HistoryChannel(channel)]
           b == IF snapshot # <<>> THEN snapshot[1]
                ELSE [alias |-> alias, category |-> "", provider |-> NoText, env |-> NoText]
           c == a ++ b
<1>1. DOMAIN a = {"channel"}
  OBVIOUS
<1>2. /\ DOMAIN b = {"alias", "category", "provider", "env"}
      /\ b.alias.word \in Shown /\ b.provider.word \in Shown /\ b.env.word \in Shown
  <2>1. CASE snapshot = <<>>
    BY <2>1, NoTextFacts, CodeIsShown
  <2>2. CASE snapshot # <<>>
    BY <2>2 DEF ShownSnapshot, AllShown
  <2>3. QED
    BY <2>1, <2>2
<1>3. h = c ++ rest
  BY DEF HistoryCredential
<1> HIDE DEF a, b
<1>4. /\ DOMAIN c = {"channel", "alias", "category", "provider", "env"}
      /\ c.alias = b.alias /\ c.provider = b.provider /\ c.env = b.env
  <2>1. /\ DOMAIN c = DOMAIN a \cup DOMAIN b
        /\ \A k \in DOMAIN b \ DOMAIN a : c[k] = b[k]
    BY UnionOfMaps
  <2> HIDE DEF c
  <2>2. QED
    BY <1>1, <1>2, <2>1
<1> HIDE DEF c
<1>5. /\ \A k \in DOMAIN c : h[k] = c[k]
      /\ \A k \in DOMAIN rest \ DOMAIN c : h[k] = rest[k]
  <2>1. /\ \A k \in DOMAIN c : (c ++ rest)[k] = c[k]
        /\ \A k \in DOMAIN rest \ DOMAIN c : (c ++ rest)[k] = rest[k]
    BY DEF ++
  <2>2. QED
    BY <1>3, <2>1
<1>6. h.alias = c.alias /\ h.provider = c.provider /\ h.env = c.env
  BY <1>4, <1>5
<1>7. QED
  BY <1>2, <1>4, <1>5, <1>6

\* The audit row of any tool shows its alias, its purpose and its detail.
LEMMA AuditShown ==
    ASSUME NEW tool, NEW channel, NEW result, NEW alias, alias.word \in Shown,
           NEW purpose, AllShown(TextsOf(purpose)), NEW detail, ShownDetail(detail)
    PROVE  AllShown(AuditTexts(AuditRow(tool, channel, result, alias, purpose, detail)))
<1> DEFINE r == AuditRow(tool, channel, result, alias, purpose, detail)
<1>1. r.key = alias /\ r.purpose = purpose /\ r.detail = detail
  BY DEF AuditRow
<1> HIDE DEF r
<1>2. AllShown(DetailTexts(detail))
  BY DEF ShownDetail, AllShown, DetailTexts
<1>3. AllShown(AuditTexts(r))
  BY <1>1, <1>2 DEF AllShown, AuditTexts
<1>4. QED
  BY <1>3 DEF r

\* A result that a row may tell of
ShownResult(result) ==
    /\ result.kind \in Shown \cup {"none"}
    /\ AllShown({SafeMessage(t) : t \in result.quotes})

\* A result that quotes nothing tells of its kind alone.
LEMMA UnquotedShown ==
    ASSUME NEW result, result.quotes = {}, result.kind \in CodeWords \cup {"none"}
    PROVE  ShownResult(result)
  BY CodeIsShown DEF ShownResult, AllShown

\* A refused input tells of a path that the input names.
LEMMA BadInputShown ==
    ASSUME NEW paths \in SUBSET TextSet, AllShown(paths), NEW result \in BadInput(paths)
    PROVE  ShownResult(result)
<1> DEFINE Q == {q \in paths : ~IsEmpty(q) /\ q.odd \cap {"relative", "foreign"} # {}}
<1>1. "bad_input" \in Shown
  BY CodeIsShown DEF CodeWords
<1>2. Denied("bad_input").kind = "bad_input" /\ Denied("bad_input").quotes = {}
  BY DEF Denied
<1>3. CASE result = Denied("bad_input")
  BY <1>1, <1>2, <1>3 DEF ShownResult, AllShown
<1>4. CASE result \in {[Denied("bad_input") EXCEPT !.quotes = {Escaped(p)}] : p \in Q}
  <2>1. PICK p \in Q : result = [Denied("bad_input") EXCEPT !.quotes = {Escaped(p)}]
    BY <1>4
  <2>2. result.kind = "bad_input" /\ result.quotes = {Escaped(p)}
    BY <2>1 DEF Denied
  <2>3. Escaped(p) \in TextSet /\ Escaped(p).word = p.word /\ p.word \in Shown
    BY SameWord DEF AllShown
  <2>4. SafeMessage(Escaped(p)).word \in Shown
    BY <2>3, SameWord
  <2>5. QED
    BY <1>1, <2>2, <2>4 DEF ShownResult, AllShown
<1>5. QED
  BY <1>3, <1>4 DEF BadInput

\* The rows of a refused input show its alias and its reason.
LEMMA RefusedShown ==
    ASSUME NEW tool, NEW channel, NEW alias \in TextSet, alias.word \in Shown,
           NEW result, ShownResult(result)
    PROVE  /\ AllShown(AuditTexts(DenialRow(tool, channel, SafeMessage(alias), result)))
           /\ AllShown(ApiHistoryTexts(ApiDenialHistory(channel, SafeMessage(alias), result)))
           /\ AllShown(QueryHistoryTexts(QueryDenialHistory(channel, SafeMessage(alias), result)))
<1>1. SafeMessage(alias).word \in Shown
  BY SameWord
<1>2. ShownDetail(ReasonDetail(result)) /\ AllShown(TextsOf(<<>>)) /\ ShownSnapshot(<<>>)
  BY ShownReason DEF ShownResult, AllShown, TextsOf, ShownSnapshot
<1>3. AllShown(AuditTexts(DenialRow(tool, channel, SafeMessage(alias), result)))
  BY <1>1, <1>2, AuditShown DEF DenialRow
<1>4. AllShown(ApiHistoryTexts(ApiDenialHistory(channel, SafeMessage(alias), result)))
  <2> DEFINE rest == [method |-> "", path |-> Text(<<>>, {}), queryKeys |-> {}, headerKeys |-> {},
                      projection |-> [json |-> "array", texts |-> {}], maxBytes |-> 0,
                      purpose |-> <<>>, outcome |-> "denied", status |-> <<>>,
                      original |-> <<>>, returned |-> <<>>, truncated |-> FALSE,
                      kind |-> result.kind, message |-> {SafeMessage(t) : t \in result.quotes}]
             F == {"queryKeys", "headerKeys", "projection", "purpose", "message"}
             h == ApiDenialHistory(channel, SafeMessage(alias), result)
  <2>1. /\ F \subseteq DOMAIN rest /\ rest.queryKeys = {} /\ rest.headerKeys = {}
        /\ rest.projection = [json |-> "array", texts |-> {}] /\ rest.purpose = <<>>
        /\ rest.message = {SafeMessage(t) : t \in result.quotes}
    OBVIOUS
  <2>2. h = HistoryCredential(channel, <<>>, SafeMessage(alias)) ++ rest
    BY DEF ApiDenialHistory
  <2> HIDE DEF rest, h
  <2>3. /\ h.alias.word \in Shown /\ h.provider.word \in Shown /\ h.env.word \in Shown
        /\ \A k \in DOMAIN rest \ {"channel", "alias", "category", "provider", "env"} :
              h[k] = rest[k]
    BY <1>1, <1>2, <2>2, ShownColumns
  <2>4. \A k \in F : h[k] = rest[k]
    BY <2>1, <2>3
  <2> DEFINE M == {SafeMessage(t) : t \in result.quotes}
  <2>8. rest.message = M
    BY <2>1
  <2> HIDE DEF M
  <2>5. /\ h.queryKeys = {} /\ h.headerKeys = {} /\ h.projection.texts = {} /\ h.purpose = <<>>
        /\ h.message = M
    <3>1. h.projection = [json |-> "array", texts |-> {}]
      BY <2>1, <2>4
    <3>2. /\ h.queryKeys = {} /\ h.headerKeys = {} /\ h.purpose = <<>> /\ h.message = M
      BY <2>1, <2>4, <2>8
    <3>3. QED
      BY <3>1, <3>2
  <2>9. AllShown(M)
    BY DEF M, ShownResult
  <2>6. AllShown(ApiHistoryTexts(h))
    BY <1>2, <2>3, <2>5, <2>9 DEF AllShown, ApiHistoryTexts
  <2>7. QED
    BY <2>6 DEF h
<1>5. AllShown(QueryHistoryTexts(QueryDenialHistory(channel, SafeMessage(alias), result)))
  <2> DEFINE rest == [sha256 |-> <<>>, paramsCount |-> 0, maxRows |-> 0, maxBytes |-> 0,
                      timeout |-> 0, purpose |-> <<>>, outcome |-> "denied", rowCount |-> <<>>,
                      returned |-> <<>>, truncated |-> FALSE, columns |-> {},
                      kind |-> result.kind, message |-> {SafeMessage(t) : t \in result.quotes}]
             F == {"purpose", "columns", "message"}
             h == QueryDenialHistory(channel, SafeMessage(alias), result)
  <2>1. /\ F \subseteq DOMAIN rest /\ rest.columns = {} /\ rest.purpose = <<>>
        /\ rest.message = {SafeMessage(t) : t \in result.quotes}
    OBVIOUS
  <2>2. h = HistoryCredential(channel, <<>>, SafeMessage(alias)) ++ rest
    BY DEF QueryDenialHistory
  <2> HIDE DEF rest, h
  <2>3. /\ h.alias.word \in Shown /\ h.provider.word \in Shown /\ h.env.word \in Shown
        /\ \A k \in DOMAIN rest \ {"channel", "alias", "category", "provider", "env"} :
              h[k] = rest[k]
    BY <1>1, <1>2, <2>2, ShownColumns
  <2>4. \A k \in F : h[k] = rest[k]
    BY <2>1, <2>3
  <2> DEFINE M == {SafeMessage(t) : t \in result.quotes}
  <2>8. rest.message = M
    BY <2>1
  <2> HIDE DEF M
  <2>5. h.columns = {} /\ h.purpose = <<>> /\ h.message = M
    BY <2>1, <2>4, <2>8
  <2>9. AllShown(M)
    BY DEF M, ShownResult
  <2>6. AllShown(QueryHistoryTexts(h))
    BY <1>2, <2>3, <2>5, <2>9 DEF AllShown, QueryHistoryTexts
  <2>7. QED
    BY <2>6 DEF h
<1>6. QED
  BY <1>3, <1>4, <1>5

-----------------------------------------------------------------------------
\* api_call

\* What rows show of a call's own words
ApiShown(in) ==
    /\ AllShown({in.alias, in.purpose, in.method})
    /\ AllShown(DOMAIN in.query) /\ AllShown(DOMAIN in.headers) /\ AllShown(TextsOf(in.jsonpath))
    /\ in.table # <<>> => AllShown(DOMAIN in.table[1].columns) /\ AllShown(Paths(in.table[1]))

\* What an input names may be shown.
LEMMA NamedShown ==
    ASSUME NEW in \in ApiInputs
    PROVE  ApiShown(in) /\ AllShown(UNION {Paths(t) : t \in TextsOf(in.table)})
<1> DEFINE T == {in.alias, in.purpose, in.method} \cup DOMAIN in.query \cup DOMAIN in.headers
                    \cup TextsOf(in.jsonpath)
                    \cup UNION {DOMAIN t.columns \cup Paths(t) : t \in TextsOf(in.table)}
<1>1. WordsOf(T) \subseteq Shown
  <2>1. NamedIn("api_call", in) \subseteq Shown
    BY DEF Shown
  <2>2. QED
    BY <2>1 DEF NamedIn
<1>2. AllShown(T)
  <2> HIDE DEF T
  <2>1. QED
    BY <1>1 DEF AllShown, WordsOf
<1>3. in.table # <<>> => in.table[1] \in TextsOf(in.table)
  <2>1. ASSUME in.table # <<>>
        PROVE  1 \in DOMAIN in.table
    <3>1. in.table = <<[base |-> in.table[1].base, columns |-> in.table[1].columns]>>
      BY <2>1, InputsAssumption DEF TypedApi
    <3>2. QED
      BY <3>1
  <2>2. QED
    BY <2>1 DEF TextsOf
<1>4. QED
  BY <1>2, <1>3 DEF ApiShown, AllShown

\* Normalizing leaves the words of a call's table.
LEMMA TableShown ==
    ASSUME NEW table, table.base \in TextSet, MapOf(table.columns, NameSet),
           AllShown(DOMAIN table.columns), AllShown(Paths(table))
    PROVE  LET t == NormalTable(table)
           IN  AllShown(DOMAIN t.columns) /\ AllShown(Paths(t))
<1> DEFINE names == DOMAIN table.columns
           t == NormalTable(table)
           New == {Trim(o) : o \in names}
           Old(n) == CHOOSE o \in names : Trim(o) = n
<1>1. /\ t.base = Trim(table.base)
      /\ t.columns = [n \in New |-> Trim(table.columns[Old(n)])]
  BY DEF NormalTable
<1>2. \A n \in names : n \in NameSet /\ n \in TextSet /\ table.columns[n] \in TextSet
  <2>1. NameSet \subseteq TextSet
    BY DEF NameSet, TextSet, Oddities
  <2>2. QED
    BY <2>1 DEF MapOf
<1>3. /\ table.base.word \in Shown
      /\ \A n \in names : n.word \in Shown /\ table.columns[n].word \in Shown
  BY DEF AllShown, Paths
<1>4. ASSUME NEW n \in New
      PROVE  n.word \in Shown /\ Old(n) \in names
  <2>1. PICK o \in names : n = Trim(o)
    OBVIOUS
  <2>2. QED
    BY <1>2, <1>3, <2>1, SameWord
<1> HIDE DEF t, New, Old
<1>5. DOMAIN t.columns = New
  BY <1>1
<1>6. t.base.word \in Shown
  BY <1>1, <1>3, SameWord
<1>7. ASSUME NEW n \in New
      PROVE  t.columns[n].word \in Shown
  <2> DEFINE old == table.columns[Old(n)]
  <2>1. old \in TextSet /\ old.word \in Shown
    BY <1>2, <1>3, <1>4
  <2>2. t.columns[n] = Trim(old)
    BY <1>1
  <2> HIDE DEF old
  <2>3. QED
    BY <2>1, <2>2, SameWord
<1>8. AllShown(DOMAIN t.columns) /\ AllShown(Paths(t))
  BY <1>4, <1>5, <1>6, <1>7 DEF AllShown, Paths
<1>9. QED
  BY <1>8 DEF t

\* The paths of a call are texts.
LEMMA PathsAreTexts ==
    ASSUME NEW in, TypedApi(in)
    PROVE  TextsOf(in.jsonpath) \cup UNION {Paths(t) : t \in TextsOf(in.table)} \in SUBSET TextSet
<1>1. TextsOf(in.jsonpath) \subseteq TextSet
  <2>1. in.jsonpath \in Seq(TextSet)
    BY DEF TypedApi
  <2>2. QED
    BY <2>1, ElementIn DEF TextsOf
<1>2. ASSUME NEW t \in TextsOf(in.table)
      PROVE  Paths(t) \subseteq TextSet
  <2>1. in.table # <<>>
    BY DEF TextsOf
  <2>2. /\ in.table = <<[base |-> in.table[1].base, columns |-> in.table[1].columns]>>
        /\ in.table[1].base \in TextSet /\ MapOf(in.table[1].columns, NameSet)
    BY <2>1 DEF TypedApi
  <2>3. t = in.table[1]
    <3>1. DOMAIN in.table = {1}
      BY <2>2
    <3>2. QED
      BY <3>1 DEF TextsOf
  <2>4. \A n \in DOMAIN t.columns : t.columns[n] \in TextSet
    BY <2>2, <2>3 DEF MapOf
  <2>5. QED
    BY <2>2, <2>3, <2>4 DEF Paths
<1>3. QED
  BY <1>1, <1>2

\* Normalizing leaves the words of a call.
LEMMA NormalApiShown ==
    ASSUME NEW in \in ApiInputs, NEW normal \in NormalApi(in)
    PROVE  ApiShown(normal)
<1>1. TypedApi(in) /\ ApiShown(in)
  BY InputsAssumption, NamedShown
<1>2. /\ normal.method = NormalMethod(in.method) /\ normal.alias = Trim(in.alias)
      /\ normal.query \in NormalQueries(in) /\ normal.headers \in NormalHeaders(in)
  BY <1>1, NormalApiFields
<1>3. /\ normal.jsonpath = [i \in DOMAIN in.jsonpath |-> Trim(in.jsonpath[i])]
      /\ normal.table = [i \in DOMAIN in.table |-> NormalTable(in.table[i])]
      /\ normal.purpose = Trim(in.purpose)
  BY <1>1, NormalLists
<1>4. /\ in.alias \in TextSet /\ in.purpose \in TextSet /\ in.method \in TextSet
      /\ in.jsonpath \in Seq(TextSet)
  BY <1>1 DEF TypedApi
<1>5. normal.alias.word \in Shown /\ normal.purpose.word \in Shown /\ normal.method.word \in Shown
  <2>1. in.alias.word \in Shown /\ in.purpose.word \in Shown /\ in.method.word \in Shown
    BY <1>1 DEF ApiShown, AllShown
  <2>2. "GET" \in Shown
    BY CodeIsShown
  <2>3. QED
    BY <1>2, <1>3, <1>4, <2>1, <2>2, SameWord
<1>6. AllShown(DOMAIN normal.query)
  <2> DEFINE to == [k \in DOMAIN in.query |-> Trim(k)]
  <2>1. normal.query \in Rekeyed(in.query, to)
    BY <1>2 DEF NormalQueries
  <2>2. ASSUME NEW k \in DOMAIN in.query
        PROVE  to[k].word \in Shown
    <3>1. k \in NameSet
      BY <1>1 DEF TypedApi, MapOf
    <3>2. k \in TextSet
      BY <3>1 DEF NameSet, TextSet, Oddities
    <3>3. k.word \in Shown
      BY <1>1 DEF ApiShown, AllShown
    <3>4. QED
      BY <3>2, <3>3, SameWord
  <2> HIDE DEF to
  <2>3. DOMAIN normal.query = {to[k] : k \in DOMAIN in.query}
    BY <2>1 DEF Rekeyed
  <2>4. QED
    BY <2>2, <2>3 DEF AllShown
<1>7. AllShown(DOMAIN normal.headers)
  <2> DEFINE to == [k \in DOMAIN in.headers |-> HeaderName(k)]
  <2>1. normal.headers \in Rekeyed(in.headers, to)
    BY <1>2 DEF NormalHeaders
  <2>2. ASSUME NEW k \in DOMAIN in.headers
        PROVE  to[k].word \in Shown
    <3>1. k \in TextSet
      BY <1>1 DEF TypedApi, MapOf
    <3>2. k.word \in Shown
      BY <1>1 DEF ApiShown, AllShown
    <3>3. QED
      BY <3>1, <3>2, SameWord
  <2> HIDE DEF to
  <2>3. DOMAIN normal.headers = {to[k] : k \in DOMAIN in.headers}
    BY <2>1 DEF Rekeyed
  <2>4. QED
    BY <2>2, <2>3 DEF AllShown
<1>8. AllShown(TextsOf(normal.jsonpath))
  <2>1. ASSUME NEW i \in DOMAIN in.jsonpath
        PROVE  Trim(in.jsonpath[i]).word \in Shown
    <3>1. in.jsonpath[i] \in TextSet
      BY <1>4, ElementIn
    <3>2. in.jsonpath[i].word \in Shown
      BY <1>1 DEF ApiShown, AllShown, TextsOf
    <3>3. QED
      BY <3>1, <3>2, SameWord
  <2>2. QED
    BY <1>3, <2>1 DEF AllShown, TextsOf
<1>9. ASSUME normal.table # <<>>
      PROVE  AllShown(DOMAIN normal.table[1].columns) /\ AllShown(Paths(normal.table[1]))
  <2>1. in.table # <<>>
    BY <1>3, <1>9
  <2>2. /\ in.table = <<[base |-> in.table[1].base, columns |-> in.table[1].columns]>>
        /\ in.table[1].base \in TextSet /\ MapOf(in.table[1].columns, NameSet)
    BY <1>1, <2>1 DEF TypedApi
  <2>3. 1 \in DOMAIN in.table
    BY <2>2
  <2>4. normal.table[1] = NormalTable(in.table[1])
    BY <1>3, <2>3
  <2>5. AllShown(DOMAIN in.table[1].columns) /\ AllShown(Paths(in.table[1]))
    BY <1>1, <2>1 DEF ApiShown
  <2>6. QED
    BY <2>2, <2>4, <2>5, TableShown
<1>10. AllShown({normal.alias, normal.purpose, normal.method})
  BY <1>5 DEF AllShown
<1>11. QED
  BY <1>6, <1>7, <1>8, <1>9, <1>10 DEF ApiShown

\* The audit row of an api_call shows what the call names.
LEMMA ApiAuditShown ==
    ASSUME NEW channel, NEW in, ApiShown(in), NEW snapshot, ShownSnapshot(snapshot),
           NEW result, ShownResult(result)
    PROVE  AllShown(AuditTexts(ApiAudit(channel, in, snapshot, result)))
<1> DEFINE alias == IF snapshot = <<>> THEN in.alias ELSE snapshot[1].alias
           a == [method |-> {in.method}, request_path |-> {in.path}, purpose |-> {in.purpose}]
           b == NonEmpty("query_keys", DOMAIN in.query)
           c == NonEmpty("request_header_keys", DOMAIN in.headers)
           d == NonEmpty("jsonpath", TextsOf(in.jsonpath))
           e == IF in.table = <<>> THEN <<>>
                ELSE [projection |-> DOMAIN in.table[1].columns \cup Paths(in.table[1])]
           f == CredentialDetail(snapshot)
           g == ReasonDetail(result)
<1>1. alias.word \in Shown
  BY DEF ShownSnapshot, ApiShown, AllShown
<1>2. ShownDetail(a)
  <2>1. AllShown({in.method}) /\ AllShown({in.purpose})
    BY DEF ApiShown, AllShown
  <2>2. DOMAIN a = {"method", "request_path", "purpose"}
    OBVIOUS
  <2>3. a["method"] = {in.method} /\ a["purpose"] = {in.purpose}
    OBVIOUS
  <2> HIDE DEF a
  <2>4. QED
    BY <2>1, <2>2, <2>3 DEF ShownDetail
<1>3. ShownDetail(b) /\ ShownDetail(c) /\ ShownDetail(d)
  BY ShownKey DEF ApiShown
<1>4. ShownDetail(e)
  <2>1. CASE in.table = <<>>
    BY <2>1 DEF ShownDetail
  <2>2. CASE in.table # <<>>
    BY <2>2 DEF ApiShown, ShownDetail, AllShown
  <2>3. QED
    BY <2>1, <2>2
<1>5. ShownDetail(f) /\ ShownDetail(g)
  BY ShownCredential, ShownReason DEF ShownResult
<1>6. ApiDetail(in, snapshot, result) = a ++ b ++ c ++ d ++ e ++ f ++ g
  BY DEF ApiDetail
<1>7. AllShown(TextsOf(<<in.purpose>>))
  BY DEF ApiShown, AllShown, TextsOf
<1> HIDE DEF alias, a, b, c, d, e, f, g
<1>8. ShownDetail(a ++ b ++ c ++ d)
  BY <1>2, <1>3, ShownUnion
<1>9. ShownDetail(a ++ b ++ c ++ d ++ e ++ f ++ g)
  BY <1>4, <1>5, <1>8, ShownUnion
<1>10. AllShown(AuditTexts(AuditRow("api.call", channel, result, alias, <<in.purpose>>,
                                    ApiDetail(in, snapshot, result))))
  BY <1>1, <1>6, <1>7, <1>9, AuditShown
<1>11. QED
  BY <1>10 DEF ApiAudit, alias

\* The api_call_history row shows what the call names.
LEMMA ApiHistoryShown ==
    ASSUME NEW channel, NEW in, ApiShown(in), NEW snapshot, ShownSnapshot(snapshot),
           NEW result, ShownResult(result)
    PROVE  AllShown(ApiHistoryTexts(ApiHistory(channel, in, snapshot, result)))
<1> DEFINE M == {SafeMessage(t) : t \in result.quotes}
           rest == [method |-> in.method.word, path |-> in.path, queryKeys |-> DOMAIN in.query,
                    headerKeys |-> DOMAIN in.headers, projection |-> ProjectionKeys(in),
                    maxBytes |-> Saturated(in.maxBytes), purpose |-> <<in.purpose>>,
                    outcome |-> result.outcome, status |-> OfOutput(result, "status"),
                    original |-> OfOutput(result, "original"),
                    returned |-> OfOutput(result, "returned"),
                    truncated |-> Truncated(result), kind |-> result.kind, message |-> M]
           F == {"queryKeys", "headerKeys", "projection", "purpose", "message"}
           h == ApiHistory(channel, in, snapshot, result)
<1>1. h = HistoryCredential(channel, snapshot, in.alias) ++ rest
  BY DEF ApiHistory
<1>2. AllShown(M)
  BY DEF ShownResult
<1> HIDE DEF M
<1>3. /\ F \subseteq DOMAIN rest /\ rest.queryKeys = DOMAIN in.query
      /\ rest.headerKeys = DOMAIN in.headers /\ rest.projection = ProjectionKeys(in)
      /\ rest.purpose = <<in.purpose>> /\ rest.message = M
  OBVIOUS
<1>4. in.alias.word \in Shown
  BY DEF ApiShown, AllShown
<1> HIDE DEF rest, h
<1>5. /\ h.alias.word \in Shown /\ h.provider.word \in Shown /\ h.env.word \in Shown
      /\ \A k \in DOMAIN rest \ {"channel", "alias", "category", "provider", "env"} :
            h[k] = rest[k]
  BY <1>1, <1>4, ShownColumns
<1>6. \A k \in F : h[k] = rest[k]
  BY <1>3, <1>5
<1>7. /\ h.queryKeys = DOMAIN in.query /\ h.headerKeys = DOMAIN in.headers
      /\ h.projection = ProjectionKeys(in) /\ h.purpose = <<in.purpose>> /\ h.message = M
  BY <1>3, <1>6
<1>8. AllShown(ProjectionKeys(in).texts)
  BY DEF ApiShown, ProjectionKeys
<1>9. AllShown(TextsOf(<<in.purpose>>))
  BY DEF ApiShown, AllShown, TextsOf
<1>10. AllShown(DOMAIN in.query) /\ AllShown(DOMAIN in.headers)
  BY DEF ApiShown
<1>11. AllShown(ApiHistoryTexts(h))
  BY <1>2, <1>5, <1>7, <1>8, <1>9, <1>10 DEF AllShown, ApiHistoryTexts
<1>12. QED
  BY <1>11 DEF h

\* What a call leaves behind shows nothing else.
RowsShown ==
    /\ \A i \in DOMAIN audit : AllShown(AuditTexts(audit[i]))
    /\ AllShown(HistoryTexts)

\* The recorder of api_call shows what the call names.
LEMMA RecordApiShown ==
    ASSUME IInv, NEW in, ApiShown(in), NEW result, ShownResult(result), RecordApi(in, result),
           asked'[1].tool = "api_call"
    PROVE  RowsShown'
<1>1. PICK channel \in Channels :
        StoreApi(ApiAudit(channel, in, SnapshotOf(in), result),
                 ApiHistory(channel, in, SnapshotOf(in), result))
  BY DEF RecordApi
<1> DEFINE a == ApiAudit(channel, in, SnapshotOf(in), result)
           h == ApiHistory(channel, in, SnapshotOf(in), result)
<1>2. AllShown(AuditTexts(a)) /\ AllShown(ApiHistoryTexts(h))
  BY SnapshotShown, ApiAuditShown, ApiHistoryShown
<1>3. audit' \in {<<a>>, <<>>} /\ history' \in {<<h>>, <<>>}
  BY <1>1 DEF StoreApi, Keep
<1> HIDE DEF a, h
<1>4. QED
  BY <1>2, <1>3 DEF RowsShown, HistoryTexts, AllShown

\* A verdict that stops an api_call tells of a word of the code.
LEMMA VerdictWords ==
    ASSUME NEW in, ApiVerdict(in).outcome # "send"
    PROVE  ApiVerdict(in).quotes = {} /\ ApiVerdict(in).kind \in CodeWords \cup {"none"}
<1>1. ASSUME NEW kind
      PROVE  /\ Denied(kind).kind = kind /\ Denied(kind).quotes = {}
             /\ Failed(kind).kind = kind /\ Failed(kind).quotes = {}
  BY DEF Denied, Failed
<1> DEFINE d == ApiDenial(Credential(row[1]).policy, in)
<1>2. d \in CodeWords \cup {"none"}
  BY DEF ApiDenial, CodeWords
<1> HIDE DEF d
<1>3. ApiVerdict(in) \in {Denied("credential_not_found"), Denied("wrong_credential_category"),
                         Denied(d), Failed("secret_open_failed"),
                         Denied("policy_request_header_not_allowed"), [outcome |-> "send"]}
  BY DEF ApiVerdict, d
<1>4. [outcome |-> "send"].outcome = "send"
  OBVIOUS
<1>5. {"credential_not_found", "wrong_credential_category", "secret_open_failed",
       "policy_request_header_not_allowed"} \subseteq CodeWords
  BY DEF CodeWords
<1>6. QED
  BY <1>1, <1>2, <1>3, <1>4, <1>5

\* After every api_call its rows show what the call names.
LEMMA CallApiShown ==
    ASSUME IInv, CallApi
    PROVE  RowsShown'
<1>1. PICK in \in ApiInputs :
        /\ Called("api_call", in)
        /\ \/ RefuseApi(in)
           \/ /\ ValidApi(in)
              /\ \E normal \in NormalApi(in) : FindFails(normal) \/ StopApi(normal) \/ SendApi(normal)
  BY DEF CallApi
<1>2. asked'[1].tool = "api_call" /\ TypedApi(in) /\ in.alias \in TextSet
  BY <1>1, InputsAssumption DEF Called, TypedApi
<1>3. CASE RefuseApi(in)
  <2> DEFINE paths == TextsOf(in.jsonpath) \cup UNION {Paths(t) : t \in TextsOf(in.table)}
  <2>1. PICK channel \in Channels, result \in BadInput(paths) :
            StoreApi(DenialRow("api.call", channel, SafeMessage(in.alias), result),
                     ApiDenialHistory(channel, SafeMessage(in.alias), result))
    BY <1>3 DEF RefuseApi
  <2>2. paths \in SUBSET TextSet
    BY <1>2, PathsAreTexts
  <2>3. AllShown(paths) /\ in.alias.word \in Shown
    BY NamedShown DEF AllShown, ApiShown
  <2> HIDE DEF paths
  <2>4. ShownResult(result)
    BY <2>2, <2>3, BadInputShown
  <2> DEFINE a == DenialRow("api.call", channel, SafeMessage(in.alias), result)
             h == ApiDenialHistory(channel, SafeMessage(in.alias), result)
  <2>5. AllShown(AuditTexts(a)) /\ AllShown(ApiHistoryTexts(h))
    BY <1>2, <2>3, <2>4, RefusedShown
  <2>6. audit' \in {<<a>>, <<>>} /\ history' \in {<<h>>, <<>>}
    BY <2>1 DEF StoreApi, Keep
  <2> HIDE DEF a, h
  <2>7. QED
    BY <1>2, <2>5, <2>6 DEF RowsShown, HistoryTexts, AllShown
<1>4. CASE ~RefuseApi(in)
  <2>1. PICK normal \in NormalApi(in) :
            FindFails(normal) \/ StopApi(normal) \/ SendApi(normal)
    BY <1>1, <1>4
  <2>2. ApiShown(normal)
    BY NormalApiShown
  <2>3. CASE FindFails(normal)
    BY <2>3 DEF FindFails, RowsShown, HistoryTexts, AllShown
  <2>4. CASE StopApi(normal)
    <3> DEFINE v == ApiVerdict(normal)
    <3>1. RecordApi(normal, v) /\ v.outcome # "send"
      BY <2>4 DEF StopApi
    <3>2. v.quotes = {} /\ v.kind \in CodeWords \cup {"none"}
      BY <3>1, VerdictWords
    <3> HIDE DEF v
    <3>3. ShownResult(v)
      BY <3>2, UnquotedShown
    <3>4. QED
      BY <1>2, <2>2, <3>1, <3>3, RecordApiShown
  <2>5. CASE SendApi(normal)
    <3>1. PICK result : /\ RecordApi(normal, result)
                        /\ \/ \E o : result = Answered(o)
                           \/ \E k \in HttpFailures : result = Failed(k)
      <4>1. "target_request_failed" \in HttpFailures
        BY DEF HttpFailures
      <4>2. QED
        BY <2>5, <4>1 DEF SendApi
    <3>2. result.quotes = {} /\ result.kind \in CodeWords \cup {"none"}
      <4>1. \A k : Failed(k).quotes = {} /\ Failed(k).kind = k
        BY DEF Failed
      <4>2. \A o : Answered(o).quotes = {} /\ Answered(o).kind = "none"
        BY DEF Answered
      <4>3. HttpFailures \subseteq CodeWords
        BY DEF CodeWords
      <4>4. CASE \E o : result = Answered(o)
        BY <4>2, <4>4
      <4>5. CASE \E k \in HttpFailures : result = Failed(k)
        BY <4>1, <4>3, <4>5
      <4>6. QED
        BY <3>1, <4>4, <4>5
    <3>3. ShownResult(result)
      BY <3>2, UnquotedShown
    <3>4. QED
      BY <1>2, <2>2, <3>1, <3>3, RecordApiShown
  <2>6. QED
    BY <2>1, <2>3, <2>4, <2>5
<1>5. QED
  BY <1>3, <1>4

-----------------------------------------------------------------------------
\* The SQL tools

\* A verdict that stops a call of a SQL tool tells of a word of the code.
LEMMA SqlVerdictWords ==
    ASSUME NEW in, NEW denied, SqlVerdict(in, denied).outcome # "send"
    PROVE  /\ SqlVerdict(in, denied).quotes = {}
           /\ SqlVerdict(in, denied).kind \in CodeWords \cup {"none"}
           /\ SqlVerdict(in, denied).output = <<>>
<1>1. ASSUME NEW kind
      PROVE  /\ Denied(kind).kind = kind /\ Denied(kind).quotes = {} /\ Denied(kind).output = <<>>
             /\ Failed(kind).kind = kind /\ Failed(kind).quotes = {} /\ Failed(kind).output = <<>>
  BY DEF Denied, Failed
<1>2. SqlVerdict(in, denied) \in
        {Denied("credential_not_found"), Denied("wrong_credential_provider"),
         Denied("policy_denied"), Failed("secret_open_failed"), [outcome |-> "send"]}
  BY DEF SqlVerdict
<1>3. [outcome |-> "send"].outcome = "send"
  OBVIOUS
<1>4. {"credential_not_found", "wrong_credential_provider", "policy_denied",
       "secret_open_failed"} \subseteq CodeWords
  BY DEF CodeWords
<1>5. QED
  BY <1>1, <1>2, <1>3, <1>4

\* A database that is named in a row is the one that was asked for.
LEMMA DatabaseShown ==
    ASSUME NEW database \in OptionSet(TextSet), AllShown(TextsOf(database))
    PROVE  AllShown(TextsOf(NormalDatabase(database)))
<1>1. CASE database = <<>> \/ IsEmpty(database[1])
  BY <1>1 DEF NormalDatabase, TextsOf, AllShown
<1>2. CASE ~(database = <<>> \/ IsEmpty(database[1]))
  <2>1. database \in Seq(TextSet)
    BY DEF OptionSet
  <2>2. 1 \in DOMAIN database
    <3>1. database # <<>>
      BY <1>2
    <3>2. QED
      BY <2>1, <3>1
  <2>3. database[1] \in TextSet /\ database[1].word \in Shown
    BY <2>1, <2>2, ElementIn DEF AllShown, TextsOf
  <2>4. NormalDatabase(database) = <<Trim(database[1])>>
    BY <1>2 DEF NormalDatabase
  <2>5. Trim(database[1]).word \in Shown
    BY <2>3, SameWord
  <2> DEFINE t == Trim(database[1])
  <2> HIDE DEF t
  <2>6. TextsOf(<<t>>) = {t}
    BY DEF TextsOf
  <2>7. QED
    BY <2>4, <2>5, <2>6 DEF AllShown, t
<1>3. QED
  BY <1>1, <1>2

\* What rows show of a query's own words
QueryShown(in) == AllShown({in.alias, in.purpose}) /\ AllShown(TextsOf(in.database))

\* What a query names may be shown, and normalizing leaves it.
LEMMA NormalQueryShown ==
    ASSUME NEW in \in QueryInputs
    PROVE  /\ QueryShown(NormalQueryInput(in))
           /\ in.alias.word \in Shown /\ AllShown(TextsOf(in.jsonpath))
<1>1. in \in QueryInput
  BY InputsAssumption
<1>2. /\ in.alias \in TextSet /\ in.purpose \in TextSet /\ in.database \in OptionSet(TextSet)
  BY <1>1 DEF QueryInput
<1> DEFINE T == {in.alias, in.purpose} \cup TextsOf(in.database) \cup TextsOf(in.jsonpath)
<1>3. WordsOf(T) \subseteq Shown
  <2>1. NamedIn("sql_query", in) \subseteq Shown
    BY DEF Shown
  <2>2. QED
    BY <2>1 DEF NamedIn
<1>4. AllShown(T)
  <2> HIDE DEF T
  <2>1. QED
    BY <1>3 DEF AllShown, WordsOf
<1>5. /\ in.alias.word \in Shown /\ in.purpose.word \in Shown
      /\ AllShown(TextsOf(in.database)) /\ AllShown(TextsOf(in.jsonpath))
  BY <1>4 DEF AllShown
<1> DEFINE normal == NormalQueryInput(in)
<1>6. /\ normal.alias = Trim(in.alias) /\ normal.purpose = Trim(in.purpose)
      /\ normal.database = NormalDatabase(in.database)
  BY <1>1 DEF NormalQueryInput, QueryInput
<1> HIDE DEF normal
<1>7. normal.alias.word \in Shown /\ normal.purpose.word \in Shown
  BY <1>2, <1>5, <1>6, SameWord
<1>8. AllShown(TextsOf(normal.database))
  BY <1>2, <1>5, <1>6, DatabaseShown
<1>9. QueryShown(normal)
  BY <1>7, <1>8 DEF QueryShown, AllShown
<1>10. QED
  BY <1>5, <1>9 DEF normal

\* The columns of an answer may be shown.
ShownOutput(output) == \A i \in DOMAIN output : AllShown(output[i].columns)

\* The audit row of a sql_query shows what the query names and the columns of
\* its answer.
LEMMA QueryAuditShown ==
    ASSUME NEW channel, NEW in, QueryShown(in), NEW snapshot, ShownSnapshot(snapshot),
           NEW result, ShownResult(result), ShownOutput(result.output),
           result.output # <<>> => 1 \in DOMAIN result.output
    PROVE  AllShown(AuditTexts(QueryAudit(channel, in, snapshot, result)))
<1> DEFINE alias == IF snapshot = <<>> THEN in.alias ELSE snapshot[1].alias
           a == [query_sha256 |-> Sha256(in.query), purpose |-> {in.purpose},
                 params_count |-> Len(in.params), max_rows |-> in.maxRows,
                 max_bytes |-> in.maxBytes, timeout_ms |-> in.timeout]
           b == DatabaseDetail(in)
           c == CredentialDetail(snapshot)
           d == ReasonDetail(result)
           e == IF result.output = <<>> THEN <<>>
                ELSE [result_columns |-> result.output[1].columns]
<1>1. alias.word \in Shown
  BY DEF ShownSnapshot, QueryShown, AllShown
<1>2. ShownDetail(a)
  <2>1. AllShown({in.purpose})
    BY DEF QueryShown, AllShown
  <2>2. DOMAIN a \ (Numbers \cup {"query_sha256", "request_path", "table"}) = {"purpose"}
    BY DEF Numbers
  <2>3. a["purpose"] = {in.purpose}
    OBVIOUS
  <2> HIDE DEF a
  <2>4. QED
    BY <2>1, <2>2, <2>3 DEF ShownDetail
<1>3. ShownDetail(b)
  BY ShownKey DEF DatabaseDetail, QueryShown
<1>4. ShownDetail(c) /\ ShownDetail(d)
  BY ShownCredential, ShownReason DEF ShownResult
<1>5. ShownDetail(e)
  <2>1. CASE result.output = <<>>
    BY <2>1 DEF ShownDetail
  <2>2. CASE result.output # <<>>
    <3>1. AllShown(result.output[1].columns)
      BY <2>2 DEF ShownOutput
    <3>2. QED
      BY <2>2, <3>1 DEF ShownDetail
  <2>3. QED
    BY <2>1, <2>2
<1>6. QueryDetail(in, snapshot, result) = a ++ b ++ c ++ d ++ e
  BY DEF QueryDetail
<1>7. AllShown(TextsOf(<<in.purpose>>))
  BY DEF QueryShown, AllShown, TextsOf
<1> HIDE DEF alias, a, b, c, d, e
<1>8. ShownDetail(a ++ b ++ c ++ d ++ e)
  BY <1>2, <1>3, <1>4, <1>5, ShownUnion
<1>9. AllShown(AuditTexts(AuditRow("sql.query", channel, result, alias, <<in.purpose>>,
                                   QueryDetail(in, snapshot, result))))
  BY <1>1, <1>6, <1>7, <1>8, AuditShown
<1>10. QED
  BY <1>9 DEF QueryAudit, alias

\* The sql_query_history row shows what the query names and the columns of its
\* answer; of the query itself it has a digest.
LEMMA QueryHistoryShown ==
    ASSUME NEW channel, NEW in, QueryShown(in), NEW snapshot, ShownSnapshot(snapshot),
           NEW result, ShownResult(result), ShownOutput(result.output)
    PROVE  AllShown(QueryHistoryTexts(QueryHistory(channel, in, snapshot, result)))
<1> DEFINE M == {SafeMessage(t) : t \in result.quotes}
           C == UNION {result.output[i].columns : i \in DOMAIN result.output}
           rest == [sha256 |-> <<Sha256(in.query)>>, paramsCount |-> Saturated(Len(in.params)),
                    maxRows |-> in.maxRows, maxBytes |-> Saturated(in.maxBytes),
                    timeout |-> Saturated(in.timeout), purpose |-> <<in.purpose>>,
                    outcome |-> result.outcome, rowCount |-> OfOutput(result, "rows"),
                    returned |-> OfOutput(result, "returned"), truncated |-> Truncated(result),
                    columns |-> C, kind |-> result.kind, message |-> M]
           F == {"purpose", "columns", "message"}
           h == QueryHistory(channel, in, snapshot, result)
<1>1. h = HistoryCredential(channel, snapshot, in.alias) ++ rest
  BY DEF QueryHistory
<1>2. AllShown(M) /\ AllShown(C)
  BY DEF ShownResult, ShownOutput, AllShown
<1> HIDE DEF M, C
<1>3. /\ F \subseteq DOMAIN rest /\ rest.purpose = <<in.purpose>> /\ rest.columns = C
      /\ rest.message = M
  OBVIOUS
<1>4. in.alias.word \in Shown
  BY DEF QueryShown, AllShown
<1> HIDE DEF rest, h
<1>5. /\ h.alias.word \in Shown /\ h.provider.word \in Shown /\ h.env.word \in Shown
      /\ \A k \in DOMAIN rest \ {"channel", "alias", "category", "provider", "env"} :
            h[k] = rest[k]
  BY <1>1, <1>4, ShownColumns
<1>6. h.purpose = <<in.purpose>> /\ h.columns = C /\ h.message = M
  <2>1. \A k \in F : h[k] = rest[k]
    BY <1>3, <1>5
  <2>2. QED
    BY <1>3, <2>1
<1>7. AllShown(TextsOf(<<in.purpose>>))
  BY DEF QueryShown, AllShown, TextsOf
<1>8. AllShown(QueryHistoryTexts(h))
  BY <1>2, <1>5, <1>6, <1>7 DEF AllShown, QueryHistoryTexts
<1>9. QED
  BY <1>8 DEF h

\* The recorder of sql_query shows what the query names and its answer's columns.
LEMMA RecordQueryShown ==
    ASSUME IInv, NEW in, QueryShown(in), NEW result, ShownResult(result),
           ShownOutput(result.output), result.output # <<>> => 1 \in DOMAIN result.output,
           RecordQuery(in, result), asked'[1].tool = "sql_query"
    PROVE  RowsShown'
<1>1. PICK channel \in Channels :
        StoreQuery(QueryAudit(channel, in, SnapshotOf(in), result),
                   QueryHistory(channel, in, SnapshotOf(in), result))
  BY DEF RecordQuery
<1> DEFINE a == QueryAudit(channel, in, SnapshotOf(in), result)
           h == QueryHistory(channel, in, SnapshotOf(in), result)
<1>2. AllShown(AuditTexts(a)) /\ AllShown(QueryHistoryTexts(h))
  BY SnapshotShown, QueryAuditShown, QueryHistoryShown
<1>3. audit' \in {<<a>>, <<>>} /\ history' \in {<<h>>, <<>>}
  BY <1>1 DEF StoreQuery, Keep
<1> HIDE DEF a, h
<1>4. QED
  BY <1>2, <1>3 DEF RowsShown, HistoryTexts, AllShown

\* After every sql_query its rows show what the query and its answer name.
LEMMA CallQueryShown ==
    ASSUME IInv, CallQuery
    PROVE  RowsShown'
<1>1. PICK in \in QueryInputs :
        /\ Called("sql_query", in)
        /\ \/ RefuseQuery(in)
           \/ /\ ValidQueryInput(in)
              /\ \/ FindFails(NormalQueryInput(in)) \/ StopQuery(NormalQueryInput(in))
                 \/ SendQuery(NormalQueryInput(in))
  BY DEF CallQuery
<1>2. asked'[1].tool = "sql_query" /\ in \in QueryInput
  BY <1>1, InputsAssumption DEF Called
<1>3. in.alias \in TextSet /\ in.jsonpath \in Seq(TextSet)
  BY <1>2 DEF QueryInput
<1>4. CASE RefuseQuery(in)
  <2>1. PICK channel \in Channels, result \in BadInput(TextsOf(in.jsonpath)) :
            StoreQuery(DenialRow("sql.query", channel, SafeMessage(in.alias), result),
                       QueryDenialHistory(channel, SafeMessage(in.alias), result))
    BY <1>4 DEF RefuseQuery
  <2>2. TextsOf(in.jsonpath) \in SUBSET TextSet
    BY <1>3, ElementIn DEF TextsOf
  <2>3. AllShown(TextsOf(in.jsonpath)) /\ in.alias.word \in Shown
    BY NormalQueryShown
  <2>4. ShownResult(result)
    BY <2>2, <2>3, BadInputShown
  <2> DEFINE a == DenialRow("sql.query", channel, SafeMessage(in.alias), result)
             h == QueryDenialHistory(channel, SafeMessage(in.alias), result)
  <2>5. AllShown(AuditTexts(a)) /\ AllShown(QueryHistoryTexts(h))
    BY <1>3, <2>3, <2>4, RefusedShown
  <2>6. audit' \in {<<a>>, <<>>} /\ history' \in {<<h>>, <<>>}
    BY <2>1 DEF StoreQuery, Keep
  <2> HIDE DEF a, h
  <2>7. QED
    BY <1>2, <2>5, <2>6 DEF RowsShown, HistoryTexts, AllShown
<1>5. CASE ~RefuseQuery(in)
  <2> DEFINE normal == NormalQueryInput(in)
  <2>1. FindFails(normal) \/ StopQuery(normal) \/ SendQuery(normal)
    BY <1>1, <1>5
  <2>2. QueryShown(normal)
    BY NormalQueryShown
  <2> HIDE DEF normal
  <2>3. CASE FindFails(normal)
    BY <2>3 DEF FindFails, RowsShown, HistoryTexts, AllShown
  <2>4. CASE StopQuery(normal)
    <3> DEFINE v == QueryVerdict(normal)
    <3>1. RecordQuery(normal, v) /\ v.outcome # "send"
      BY <2>4 DEF StopQuery
    <3>2. v.quotes = {} /\ v.kind \in CodeWords \cup {"none"} /\ v.output = <<>>
      BY <3>1, SqlVerdictWords DEF QueryVerdict
    <3> HIDE DEF v
    <3>3. ShownResult(v) /\ ShownOutput(v.output)
      BY <3>2, UnquotedShown DEF ShownOutput
    <3>4. QED
      BY <1>2, <2>2, <3>1, <3>2, <3>3, RecordQueryShown
  <2>5. CASE SendQuery(normal)
    <3>1. PICK result : /\ RecordQuery(normal, result)
                        /\ \/ \E o \in QueryOutputs : result = Answered(o)
                           \/ \E k \in SqlFailures : result = Failed(k)
      BY <2>5 DEF SendQuery
    <3>2. /\ result.quotes = {} /\ result.kind \in CodeWords \cup {"none"}
          /\ ShownOutput(result.output)
          /\ result.output # <<>> => 1 \in DOMAIN result.output
      <4>1. CASE \E k \in SqlFailures : result = Failed(k)
        <5>1. \A k : Failed(k).quotes = {} /\ Failed(k).kind = k /\ Failed(k).output = <<>>
          BY DEF Failed
        <5>2. SqlFailures \subseteq CodeWords
          BY DEF CodeWords
        <5>3. QED
          BY <4>1, <5>1, <5>2 DEF ShownOutput
      <4>2. CASE \E o \in QueryOutputs : result = Answered(o)
        <5>1. PICK o \in QueryOutputs : result = Answered(o)
          BY <4>2
        <5>2. result.quotes = {} /\ result.kind = "none" /\ result.output = <<o>>
          BY <5>1 DEF Answered
        <5>3. AllShown(o.columns)
          <6>1. WordsOf(o.columns) \subseteq Shown
            BY DEF Shown
          <6>2. QED
            BY <6>1 DEF AllShown, WordsOf
        <5>4. QED
          BY <5>2, <5>3 DEF ShownOutput
      <4>3. QED
        BY <3>1, <4>1, <4>2
    <3>3. ShownResult(result)
      BY <3>2, UnquotedShown
    <3>4. QED
      BY <1>2, <2>2, <3>1, <3>2, <3>3, RecordQueryShown
  <2>6. QED
    BY <2>1, <2>3, <2>4, <2>5
<1>6. QED
  BY <1>4, <1>5

\* What rows show of a listing's own words
SchemaShown(in) ==
    /\ AllShown({in.alias, in.purpose, in.mode, in.namespace})
    /\ AllShown(TextsOf(in.database))

\* What a listing names may be shown, and normalizing leaves it; a namespace may
\* be taken from in front of the table.
LEMMA NormalSchemaShown ==
    ASSUME NEW in \in SchemaInputs
    PROVE  SchemaShown(NormalSchemaInput(in)) /\ in.alias.word \in Shown
<1>1. in \in SchemaInput
  BY InputsAssumption
<1>2. /\ in.alias \in TextSet /\ in.purpose \in TextSet /\ in.mode \in TextSet
      /\ in.namespace \in TextSet /\ in.table \in PathSet /\ in.database \in OptionSet(TextSet)
  BY <1>1 DEF SchemaInput
<1> DEFINE T == {in.alias, in.purpose, in.mode, in.namespace} \cup TextsOf(in.database)
<1>3. WordsOf(T) \subseteq Shown /\ TextsOf(in.table.word) \subseteq Shown
  <2>1. NamedIn("sql_schema", in) \subseteq Shown
    BY DEF Shown
  <2>2. NamedIn("sql_schema", in) = WordsOf(T) \cup TextsOf(in.table.word)
    BY DEF NamedIn
  <2> HIDE DEF T
  <2>3. QED
    BY <2>1, <2>2
<1>4. AllShown(T)
  <2> HIDE DEF T
  <2>1. QED
    BY <1>3 DEF AllShown, WordsOf
<1>5. /\ in.alias.word \in Shown /\ in.purpose.word \in Shown /\ in.mode.word \in Shown
      /\ in.namespace.word \in Shown /\ AllShown(TextsOf(in.database))
  BY <1>4 DEF AllShown
<1> DEFINE normal == NormalSchemaInput(in)
<1>6. /\ normal.alias = Trim(in.alias) /\ normal.purpose = Trim(in.purpose)
      /\ normal.database = NormalDatabase(in.database) /\ normal.mode = NormalMode(in.mode)
      /\ normal.namespace = SchemaTarget(in).namespace
  BY <1>1 DEF NormalSchemaInput, SchemaInput
<1> HIDE DEF normal
<1>7. /\ normal.alias.word \in Shown /\ normal.purpose.word \in Shown /\ normal.mode.word \in Shown
  <2>1. "tables" \in Shown
    BY CodeIsShown
  <2>2. QED
    BY <1>2, <1>5, <1>6, <2>1, SameWord
<1>8. SchemaTarget(in).namespace.word \in Shown
  <2> DEFINE d == Default(Trim(in.namespace), "public")
             first == Text(Head(in.table.word), in.table.odd \ {"pad"})
  <2>1. Trim(in.namespace).word \in Shown
    BY <1>2, <1>5, SameWord
  <2>2. d.word \in Shown
    <3>1. Plain("public").word = "public" /\ "public" \in Shown
      BY CodeIsShown DEF Plain, Text
    <3>2. QED
      BY <2>1, <3>1 DEF Default
  <2>3. Len(in.table.word) > 1 => first.word \in Shown
    <3>1. in.table.word \in Seq(Words)
      BY <1>2 DEF PathSet
    <3>2. Len(in.table.word) > 1 => Head(in.table.word) \in TextsOf(in.table.word)
      BY <3>1 DEF TextsOf
    <3>3. first.word = Head(in.table.word)
      BY DEF Text
    <3>4. QED
      BY <1>3, <3>2, <3>3
  <2>4. \/ SchemaTarget(in).namespace = d
        \/ SchemaTarget(in).namespace = Trim(in.namespace)
        \/ SchemaTarget(in).namespace = first /\ Len(in.table.word) > 1
    BY DEF SchemaTarget
  <2> HIDE DEF d, first
  <2>5. QED
    BY <2>1, <2>2, <2>3, <2>4
<1>9. AllShown(TextsOf(normal.database))
  BY <1>2, <1>5, <1>6, DatabaseShown
<1>10. SchemaShown(normal)
  BY <1>6, <1>7, <1>8, <1>9 DEF SchemaShown, AllShown
<1>11. QED
  BY <1>5, <1>10 DEF normal

\* The audit row of a sql_schema shows what the listing names.
LEMMA SchemaAuditShown ==
    ASSUME NEW channel, NEW in, SchemaShown(in), NEW snapshot, ShownSnapshot(snapshot),
           NEW result, ShownResult(result)
    PROVE  AllShown(AuditTexts(SchemaAudit(channel, in, snapshot, result)))
<1> DEFINE alias == IF snapshot = <<>> THEN in.alias ELSE snapshot[1].alias
           a == [mode |-> {in.mode}, namespace |-> {in.namespace}, table |-> {in.table},
                 purpose |-> {in.purpose}, limit |-> in.limit, max_bytes |-> in.maxBytes,
                 timeout_ms |-> in.timeout]
           b == DatabaseDetail(in)
           c == CredentialDetail(snapshot)
           d == ReasonDetail(result)
<1>1. alias.word \in Shown
  BY DEF ShownSnapshot, SchemaShown, AllShown
<1>2. ShownDetail(a)
  <2>1. DOMAIN a \ (Numbers \cup {"query_sha256", "request_path", "table"})
          = {"mode", "namespace", "purpose"}
    BY DEF Numbers
  <2>2. AllShown(a["mode"]) /\ AllShown(a["namespace"]) /\ AllShown(a["purpose"])
    BY DEF SchemaShown, AllShown
  <2> HIDE DEF a
  <2>3. QED
    BY <2>1, <2>2 DEF ShownDetail
<1>3. ShownDetail(b)
  BY ShownKey DEF DatabaseDetail, SchemaShown
<1>4. ShownDetail(c) /\ ShownDetail(d)
  BY ShownCredential, ShownReason DEF ShownResult
<1>5. SchemaDetail(in, snapshot, result) = a ++ b ++ c ++ d
  BY DEF SchemaDetail
<1>6. AllShown(TextsOf(<<in.purpose>>))
  BY DEF SchemaShown, AllShown, TextsOf
<1> HIDE DEF alias, a, b, c, d
<1>7. ShownDetail(a ++ b ++ c ++ d)
  BY <1>2, <1>3, <1>4, ShownUnion
<1>8. AllShown(AuditTexts(AuditRow("sql.schema", channel, result, alias, <<in.purpose>>,
                                   SchemaDetail(in, snapshot, result))))
  BY <1>1, <1>5, <1>6, <1>7, AuditShown
<1>9. QED
  BY <1>8 DEF SchemaAudit, alias

\* The recorder of sql_schema shows what the listing names.
LEMMA RecordSchemaShown ==
    ASSUME IInv, NEW in, SchemaShown(in), NEW result, ShownResult(result),
           RecordSchema(in, result)
    PROVE  RowsShown'
<1> DEFINE a == SchemaAudit("mcp", in, SnapshotOf(in), result)
<1>1. AllShown(AuditTexts(a))
  BY SnapshotShown, SchemaAuditShown
<1>2. audit' \in {<<a>>, <<>>} /\ history' = <<>>
  BY DEF RecordSchema, StoreSchema, Keep
<1> HIDE DEF a
<1>3. QED
  BY <1>1, <1>2 DEF RowsShown, HistoryTexts, AllShown

\* After every sql_schema its row shows what the listing names.
LEMMA CallSchemaShown ==
    ASSUME IInv, CallSchema
    PROVE  RowsShown'
<1>1. PICK in \in SchemaInputs :
        /\ Called("sql_schema", in)
        /\ \/ RefuseSchema(in)
           \/ /\ ValidSchemaInput(in)
              /\ \/ FindFails(NormalSchemaInput(in)) \/ StopSchema(NormalSchemaInput(in))
                 \/ SendSchema(NormalSchemaInput(in))
  BY DEF CallSchema
<1>2. in.alias \in TextSet
  BY InputsAssumption DEF SchemaInput
<1>3. CASE RefuseSchema(in)
  <2> DEFINE a == DenialRow("sql.schema", "mcp", SafeMessage(in.alias), Denied("bad_input"))
  <2>1. ShownResult(Denied("bad_input"))
    <3>1. Denied("bad_input").kind = "bad_input" /\ Denied("bad_input").quotes = {}
      BY DEF Denied
    <3>2. "bad_input" \in CodeWords
      BY DEF CodeWords
    <3>3. QED
      BY <3>1, <3>2, UnquotedShown
  <2>2. AllShown(AuditTexts(a))
    BY <1>2, <2>1, NormalSchemaShown, RefusedShown
  <2>3. audit' \in {<<a>>, <<>>} /\ history' = <<>>
    BY <1>3 DEF RefuseSchema, StoreSchema, Keep
  <2> HIDE DEF a
  <2>4. QED
    BY <2>2, <2>3 DEF RowsShown, HistoryTexts, AllShown
<1>4. CASE ~RefuseSchema(in)
  <2> DEFINE normal == NormalSchemaInput(in)
  <2>1. FindFails(normal) \/ StopSchema(normal) \/ SendSchema(normal)
    BY <1>1, <1>4
  <2>2. SchemaShown(normal)
    BY NormalSchemaShown
  <2> HIDE DEF normal
  <2>3. CASE FindFails(normal)
    BY <2>3 DEF FindFails, RowsShown, HistoryTexts, AllShown
  <2>4. CASE StopSchema(normal)
    <3> DEFINE v == SchemaVerdict(normal)
    <3>1. RecordSchema(normal, v) /\ v.outcome # "send"
      BY <2>4 DEF StopSchema
    <3>2. v.quotes = {} /\ v.kind \in CodeWords \cup {"none"}
      BY <3>1, SqlVerdictWords DEF SchemaVerdict
    <3> HIDE DEF v
    <3>3. ShownResult(v)
      BY <3>2, UnquotedShown
    <3>4. QED
      BY <2>2, <3>1, <3>3, RecordSchemaShown
  <2>5. CASE SendSchema(normal)
    <3>1. PICK result : /\ RecordSchema(normal, result)
                        /\ \/ \E o \in QueryOutputs : result = Answered(o)
                           \/ result = Failed("schema_lookup_failed")
      BY <2>5 DEF SendSchema
    <3>2. result.quotes = {} /\ result.kind \in CodeWords \cup {"none"}
      <4>1. \A k : Failed(k).quotes = {} /\ Failed(k).kind = k
        BY DEF Failed
      <4>2. \A o : Answered(o).quotes = {} /\ Answered(o).kind = "none"
        BY DEF Answered
      <4>3. "schema_lookup_failed" \in CodeWords
        BY DEF CodeWords
      <4>4. QED
        BY <3>1, <4>1, <4>2, <4>3
    <3>3. ShownResult(result)
      BY <3>2, UnquotedShown
    <3>4. QED
      BY <2>2, <3>1, <3>3, RecordSchemaShown
  <2>6. QED
    BY <2>1, <2>3, <2>4, <2>5
<1>5. QED
  BY <1>3, <1>4

\* What a call is asked with in confidence, and what was registered in confidence
AskedKnown ==
    /\ asked # <<>> => AskedTexts(asked[1].tool, asked[1].in) \subseteq Confidential
    /\ \A i \in DOMAIN given : SecretTexts(given[i]) \subseteq Confidential

\* Everything the rows show may be shown, and everything confidential is known.
SafeInv == AskedKnown /\ (asked # <<>> => RowsShown)

\* Nothing that may be shown is confidential, hence the rows are safe.
LEMMA ShownIsSafe == SafeInv => RecordsAreSafe
<1>1. ASSUME SafeInv, asked # <<>>,
             NEW t \in Recorded,
             NEW c \in (UNION {SecretTexts(given[i]) : i \in DOMAIN given})
                          \cup AskedTexts(asked[1].tool, asked[1].in),
             ~IsEmpty(c)
      PROVE  t.word # c.word
  <2>1. c \in Confidential
    BY <1>1 DEF SafeInv, AskedKnown
  <2>2. c.word \notin Shown
    BY <1>1, <2>1, ApartAssumption
  <2>3. t.word \in Shown
    BY <1>1 DEF SafeInv, RowsShown, AllShown, Recorded
  <2>4. QED
    BY <2>2, <2>3
<1>2. QED
  BY <1>1 DEF RecordsAreSafe

\* What was registered is among the registrations.
LEMMA GivenKnown ==
    ASSUME NEW g, \/ g = <<>>
                  \/ \E reg \in Written : g = <<reg>>
    PROVE  \A i \in DOMAIN g : SecretTexts(g[i]) \subseteq Confidential
<1>1. CASE g = <<>>
  BY <1>1
<1>2. CASE \E reg \in Written : g = <<reg>>
  <2>1. PICK reg \in Written : g = <<reg>>
    BY <1>2
  <2>2. SecretTexts(reg) \subseteq Confidential
    <3>1. CASE reg \in {FromHttp(in) : in \in HttpRegistrations}
      BY <3>1 DEF Confidential
    <3>2. CASE reg \in {FromSql(in) : in \in SqlRegistrations}
      BY <3>2 DEF Confidential
    <3>3. QED
      BY <3>1, <3>2 DEF Written
  <2>3. \A i \in DOMAIN g : g[i] = reg
    BY <2>1
  <2>4. QED
    BY <2>2, <2>3
<1>3. QED
  BY <1>1, <1>2

\* RecordsAreSafe always holds: no row of audit_logs, api_call_history or
\* sql_query_history repeats a sealed header or login, a target's address, a query
\* or header value, a body, a parameter or the text of a query (audit_detail,
\* CallRecorder::record, QueryRecorder::record), as long as nobody writes the same
\* word where it is shown.
THEOREM RecordsHoldNoSecret == Spec => []RecordsAreSafe
<1>1. Init => SafeInv
  BY DEF Init, SafeInv, AskedKnown
<1>2. ASSUME IInv, IInv', SafeInv, [Next]_vars
      PROVE  SafeInv'
  <2>1. \A i \in DOMAIN given' : SecretTexts(given'[i]) \subseteq Confidential
    <3>1. given' = <<>> \/ \E reg \in Written : given' = <<reg>>
      BY <1>2 DEF IInv, Stored
    <3>2. QED
      BY <3>1, GivenKnown
  <2>2. CASE RegisterHttp \/ RegisterSql \/ Restart \/ Return
    <3>1. asked' = <<>>
      BY <2>2 DEF RegisterHttp, RegisterSql, Accept, Restart, Return, NoCall
    <3>2. QED
      BY <2>1, <3>1 DEF SafeInv, AskedKnown
  <2>3. CASE CallApi
    <3>1. \E in \in ApiInputs : asked'[1].tool = "api_call" /\ asked'[1].in = in
      BY <2>3 DEF CallApi, Called
    <3>2. AskedTexts(asked'[1].tool, asked'[1].in) \subseteq Confidential
      BY <3>1 DEF Confidential
    <3>3. QED
      BY <1>2, <2>1, <2>3, <3>2, CallApiShown DEF SafeInv, AskedKnown
  <2>4. CASE CallQuery
    <3>1. \E in \in QueryInputs : asked'[1].tool = "sql_query" /\ asked'[1].in = in
      BY <2>4 DEF CallQuery, Called
    <3>2. AskedTexts(asked'[1].tool, asked'[1].in) \subseteq Confidential
      BY <3>1 DEF Confidential
    <3>3. QED
      BY <1>2, <2>1, <2>4, <3>2, CallQueryShown DEF SafeInv, AskedKnown
  <2>5. CASE CallSchema
    <3>1. asked'[1].tool = "sql_schema"
      BY <2>5 DEF CallSchema, Called
    <3>2. AskedTexts(asked'[1].tool, asked'[1].in) = {}
      BY <3>1 DEF AskedTexts
    <3>3. QED
      BY <1>2, <2>1, <2>5, <3>2, CallSchemaShown DEF SafeInv, AskedKnown
  <2>6. CASE UNCHANGED vars
    BY <1>2, <2>6 DEF vars, SafeInv, AskedKnown, RowsShown, HistoryTexts
  <2>7. QED
    BY <1>2, <2>2, <2>3, <2>4, <2>5, <2>6 DEF Next
<1>3. QED
  BY <1>1, <1>2, ShownIsSafe, StoredAlways, PTL DEF Spec
=============================================================================
