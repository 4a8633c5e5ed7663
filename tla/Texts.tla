-------------------------------- MODULE Texts --------------------------------
(***************************************************************************)
(* The texts a caller sends, as the checks of core/src/validation.rs and   *)
(* model/src/credential see them: a word, and what is odd about the way it *)
(* is written.                                                             *)
(*                                                                         *)
(*   "pad"    white space around it       "case"    letters in other case  *)
(*   "title"  a header in canonical form  "crlf"    a CR or LF inside      *)
(*   "nul"    a NUL inside                "short"   less than its minimum  *)
(*   "long"   more than its maximum       "foreign" outside its alphabet   *)
(*                                                                         *)
(* The word of a path is the sequence of its segments: "/" is <<"">> and   *)
(* "/v1/" is <<"v1", "">>.  Further oddities of paths are "relative" (no   *)
(* leading slash), "dots" (..) and "query" (a ? or #).                     *)
(***************************************************************************)
EXTENDS Integers, Sequences, FiniteSets

Text(word, odd) == [word |-> word, odd |-> odd]

Plain(word) == Text(word, {})

NoText == Plain("")

IsEmpty(t) == t.word = ""

\* str::trim
Trim(t) == [t EXCEPT !.odd = @ \ {"pad"}]

\* to_ascii_lowercase; to_ascii_uppercase where capitals are the normal form.
Fold(t) == [t EXCEPT !.odd = @ \ {"case", "title"}]

\* Mutant: an exact comparison.
ContainsExact(items, want) == want \in items

\* contains_fold
ContainsFold(items, want) == \E item \in items : Fold(item) = Fold(want)

\* trim_required, reject_crlf and validate_text_len over one field.
ValidBounded(t) == ~IsEmpty(t) /\ t.odd \cap {"crlf", "short", "long"} = {}

\* Names that go into records refuse NUL as well.
ValidName(t) == ValidBounded(t) /\ "nul" \notin t.odd

\* A value, which may be empty.
ValidValue(t) == t.odd \cap {"crlf", "long"} = {}

\* Tokens of RFC 9110.
ValidToken(t) == ~IsEmpty(t) /\ t.odd \cap {"crlf", "nul", "foreign"} = {}

\* validate_range
InRange(n, low, high) == low <= n /\ n <= high

\* Two maps in one; of a key in both the first map's value is kept.
f ++ g == [k \in DOMAIN f \cup DOMAIN g |-> IF k \in DOMAIN f THEN f[k] ELSE g[k]]

-----------------------------------------------------------------------------
(* Paths *)

Root == <<"">>

HasDoubleSlash(path) == \E i \in 1 .. Len(path) - 1 : path[i] = ""

\* What validate_http_path refuses in a trimmed path.
ValidPath(p) ==
    p.odd \cap {"crlf", "relative", "dots", "query"} = {} /\ ~HasDoubleSlash(p.word)

\* Base paths and prefixes of policies refuse NUL as well.
ValidStoredPath(p) == p.word # <<>> /\ ValidPath(p) /\ "nul" \notin p.odd

\* trim_end_matches('/')
WithoutTail(path) ==
    LET named == {i \in DOMAIN path : path[i] # ""}
    IN  IF named = {} THEN <<>>
        ELSE SubSeq(path, 1, CHOOSE i \in named : \A j \in named : j <= i)

\* request_path_matches_prefix: the prefix itself or what is below it.
MatchesPrefix(path, prefix) ==
    LET above == WithoutTail(prefix)
    IN  \/ prefix = Root
        \/ path = prefix
        \/ Len(path) > Len(above) /\ SubSeq(path, 1, Len(above)) = above

JoinBasePath(base, path) == WithoutTail(base) \o path
=============================================================================
