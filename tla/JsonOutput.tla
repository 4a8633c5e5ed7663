----------------------------- MODULE JsonOutput -----------------------------
(***************************************************************************)
(* The answer of api_call and sql_query as a dialog: a caller asks for a   *)
(* JSON document under a byte budget, gets it whole, projected or not at   *)
(* all, and asks again with what the answer told it (json-output/src,      *)
(* api_call/target.rs, sql_query/output.rs).                               *)
(*                                                                         *)
(* A document maps the path of each of its nodes to the node's type.  A    *)
(* path is a sequence of steps, <<"name", n>> into an object and           *)
(* <<"item", i>> into an array.  The text of a JSONPath is a sequence too, *)
(* with <<"all">> for [*] and <<"call", f>> for a suffix .f(); the text    *)
(* .count is the step <<"name", "count">> whoever wrote it and whatever    *)
(* was meant.  What the JSONPath library selects is external, but for      *)
(* these steps.  A scalar has one length, and a member's name one in a     *)
(* document and in a path.                                                 *)
(***************************************************************************)
EXTENDS Naturals, Sequences, SequencesExt

CONSTANTS
    Docs,             \* documents that targets answer with
    Selections,       \* sets of JSONPaths that callers start with
    Projections,      \* table projections that callers start with
    Budgets,          \* max_bytes that callers start with
    Caps,             \* policy.max_bytes of SQL credentials; 0 is no limit
    MemberNames,      \* names of members of objects
    NameBytes,        \* their lengths, with what is around them
    DottedNames,      \* member names with .. in them
    ControlNames,     \* member names with a control character in them
    MaxAllowedBytes,  \* MAX_MAX_BYTES
    MaxJsonPaths,     \* MAX_JSON_PATHS
    MaxJsonPathLen,   \* MAX_JSON_PATH_LEN
    MaxPreviewPaths, MaxPreviewBytes, MaxPreviewDepth, ArraySample,
    MaxCalls,         \* bound on the length of a dialog
    None

ASSUME JsonOutputAssumption ==
    /\ MaxAllowedBytes \in Nat /\ Budgets \subseteq 1..MaxAllowedBytes
    /\ MaxJsonPaths \in Nat \ {0} /\ MaxJsonPathLen \in Nat
    /\ NameBytes \in [MemberNames -> Nat]
    /\ {MaxPreviewPaths, MaxPreviewBytes, MaxPreviewDepth, ArraySample, MaxCalls} \subseteq Nat
    /\ Caps \subseteq Nat
    /\ None \notin Nat \cup Projections

VARIABLES
    doc,      \* what the target answers, the same each time
    asked,    \* the latest call
    answer,   \* its answer
    calls     \* the number of calls

dialogVars == <<doc, asked, answer, calls>>

Name(n) == <<"name", n>>
All == <<"all">>
Prefix(p, i) == SubSeq(p, 1, i)
Parent(p) == Prefix(p, Len(p) - 1)

Under(d, p) == {q \in DOMAIN d : Len(q) >= Len(p) /\ Prefix(q, Len(p)) = p}
Children(d, p) == {q \in Under(d, p) : Len(q) = Len(p) + 1}

Steps == ({"name"} \X MemberNames) \cup ({"item"} \X Nat)

\* A tree: objects have members by name, arrays items by number, without gaps.
Document(d) ==
    /\ IsFiniteSet(DOMAIN d) /\ DOMAIN d \subseteq Seq(Steps) /\ <<>> \in DOMAIN d
    /\ \A p \in DOMAIN d : d[p] \in {"object", "array", "string", "number", "null"}
    /\ \A p \in DOMAIN d \ {<<>>} :
          LET step == p[Len(p)]
          IN  /\ Parent(p) \in DOMAIN d
              /\ d[Parent(p)] = IF step[1] = "name" THEN "object" ELSE "array"
              /\ step[1] = "item" =>
                    \A i \in 0 .. step[2] : Append(Parent(p), <<"item", i>>) \in DOMAIN d

\* What serde reads of an answer and of a call
ASSUME ReadAssumption ==
    /\ \A d \in Docs : Document(d)
    /\ \A texts \in Selections : IsFiniteSet(texts)
    /\ \A table \in Projections : table.columns \in Seq({table.columns[i] : i \in DOMAIN table.columns})

-----------------------------------------------------------------------------
(* Bytes *)

KeyBytes == 4   \* "n":

\* A step of a path, or a member's key
StepBytes(step) ==
    IF step[1] = "name" /\ step[2] \in MemberNames THEN NameBytes[step[2]] ELSE KeyBytes

\* The text of a path, with its $
TextBytes(text) == 1 + SumFunction([i \in DOMAIN text |-> StepBytes(text[i])])

Commas(n) == IF n = 0 THEN 0 ELSE n - 1

OwnBytes(d, p) ==
    CASE d[p] = "number" -> 1
      [] d[p] = "string" -> 3
      [] d[p] = "null"   -> 4
      [] OTHER           -> 2 + Commas(Cardinality(Children(d, p)))

\* compact_json_len of the node at p.
Bytes(d, p) ==
    LET own(q) == OwnBytes(d, q)
              + (IF q # p /\ d[Parent(q)] = "object" THEN StepBytes(q[Len(q)]) ELSE 0)
    IN  SumFunction([q \in Under(d, p) |-> own(q)])

ArrayBytes(d, nodes) ==
    2 + Commas(Cardinality(nodes)) + SumFunction([p \in nodes |-> Bytes(d, p)])

-----------------------------------------------------------------------------
(* Projection *)

\* split_jsonpath_operator
Operator(text) ==
    IF text # <<>> /\ text[Len(text)] \in {Name("count"), <<"call", "count">>} THEN "count"
    ELSE IF text # <<>> /\ text[Len(text)] \in {Name("length"), <<"call", "length">>}
         THEN "length"
         ELSE "none"

BasePath(text) == IF Operator(text) = "none" THEN text ELSE Parent(text)

\* validate_json_paths: two dots in a row are refused, and control characters
\* do not parse.
ValidPaths(texts) ==
    /\ Cardinality(texts) <= MaxJsonPaths
    /\ \A text \in texts :
          /\ TextBytes(text) <= MaxJsonPathLen
          /\ \A n \in DottedNames \cup ControlNames : Name(n) \notin {text[i] : i \in DOMAIN text}

ValidTable(table) ==
    /\ table.columns # <<>>
    /\ ValidPaths({table.base} \cup {table.columns[i] : i \in DOMAIN table.columns})
    /\ Operator(table.base) = "none"
    /\ \A i \in DOMAIN table.columns : Operator(table.columns[i]) = "none"

\* JsonPath::query of the document at p.
Query(d, p, text) ==
    {q \in Under(d, p) :
        /\ Len(q) = Len(p) + Len(text)
        /\ \A i \in DOMAIN text : text[i] \in {All, q[Len(p) + i]}}

Selected(d, text) == [operator |-> Operator(text), nodes |-> Query(d, <<>>, BasePath(text))]

\* project_json_paths, by the text of each path.
Keyed(d, texts) == [text \in texts |-> Selected(d, text)]

HasLength(d, p) == d[p] \in {"array", "object", "string"}

SelectedBytes(d, s) ==
    LET length(p) == IF HasLength(d, p) THEN 1 ELSE 4
        n == Cardinality(s.nodes)
    IN  CASE s.operator = "count" -> 1
          [] s.operator = "none"  -> ArrayBytes(d, s.nodes)
          [] OTHER -> (IF n = 1 THEN 0 ELSE 2 + Commas(n)) + SumFunction([p \in s.nodes |-> length(p)])

KeyedBytes(d, texts) ==
    2 + Commas(Cardinality(texts))
        + SumFunction([text \in texts |-> KeyBytes + SelectedBytes(d, Selected(d, text))])

\* project_table: one row for each node of the base, with every column.
Rows(d, table) ==
    [row \in Query(d, <<>>, table.base) |->
        [i \in DOMAIN table.columns |-> Query(d, row, table.columns[i])]]

\* collapse_field_nodes
CellBytes(d, nodes) ==
    IF nodes = {} THEN 4
    ELSE IF Cardinality(nodes) = 1 THEN Bytes(d, CHOOSE p \in nodes : TRUE)
    ELSE ArrayBytes(d, nodes)

TableBytes(d, table) ==
    LET rows == Rows(d, table)
        width == Len(table.columns)
        cell(x) == KeyBytes + CellBytes(d, rows[x[1]][x[2]])
    IN  2 + Commas(Cardinality(DOMAIN rows)) + Cardinality(DOMAIN rows) * (2 + Commas(width))
          + SumFunction([x \in (DOMAIN rows) \X (DOMAIN table.columns) |-> cell(x)])

-----------------------------------------------------------------------------
(* Preview *)

Arrays(d, p) == {i \in 0..(Len(p) - 1) : d[Prefix(p, i)] = "array"}

\* The nodes collect_preview comes to: not below MAX_PREVIEW_DEPTH, not past
\* the sample of an array, and not into an array in an array.
Visited(d) ==
    {p \in DOMAIN d :
        /\ Len(p) <= MaxPreviewDepth
        /\ Cardinality(Arrays(d, p)) <= 1
        /\ \A i \in Arrays(d, p) : p[i + 1][2] < ArraySample}

\* Mutant: the items of an array are counted under the array's own path.
PathOfNames(d, p) ==
    LET names == {i \in DOMAIN p : i - 1 \notin Arrays(d, p)}
    IN  [k \in 1..Cardinality(names) |->
            p[CHOOSE i \in names : Cardinality({j \in names : j <= i}) = k]]

\* The path a node is counted under.  jsonpath_name_segment writes backslashes
\* and quotes of a name so that they are read as what they are, and leaves a
\* control character as it is.
PathOf(d, p) == [i \in DOMAIN p |-> IF i - 1 \in Arrays(d, p) THEN All ELSE p[i]]

\* mark_stopped
Stopped(d, p) ==
    \/ Len(p) >= MaxPreviewDepth
    \/ d[p] = "array" /\ Arrays(d, p) # {}

\* add_preview, for all the nodes of a path.  The type is that of the first.
Stat(d, path) ==
    LET nodes  == {p \in Visited(d) : PathOf(d, p) = path}
        first  == CHOOSE p \in nodes :
                    \A q \in nodes, i \in Arrays(d, p) : p[i + 1][2] <= q[i + 1][2]
        sizes  == {Cardinality(Children(d, p)) : p \in {q \in nodes : d[q] = "array"}}
    IN  [path    |-> path,
         type    |-> d[first],
         present |-> Cardinality(nodes),
         nulls   |-> Cardinality({p \in nodes : d[p] = "null"}),
         min     |-> IF sizes = {} THEN None ELSE Min(sizes),
         max     |-> IF sizes = {} THEN None ELSE Max(sizes),
         stopped |-> \E p \in nodes : Stopped(d, p)]

Stats(d) == {Stat(d, path) : path \in {PathOf(d, p) : p \in Visited(d)}}

\* score_preview_path, moved up by 1200 to stay natural.
Score(e) ==
    (1200 + e.present) - ((IF e.stopped THEN 1000 ELSE 0)
      + (CASE e.type = "object" -> 200 [] e.type = "array" -> 100 [] OTHER -> 0))

\* best[k]: the first k entries by score.  The code breaks ties by text.
Ranked(entries) ==
    LET best[k \in 0..Cardinality(entries)] ==
          IF k = 0 THEN {}
          ELSE best[k - 1] \cup
                 {CHOOSE e \in entries \ best[k - 1] :
                    \A f \in entries \ best[k - 1] : Score(e) >= Score(f)}
    IN  best

\* An entry's text, by the length of its path.
EntryBytes(e) == KeyBytes + TextBytes(e.path)

\* build_preview: what is shown of the entries.
Shown(d) ==
    LET entries == Stats(d)
        best    == Ranked(entries)
        fits    == {k \in DOMAIN best : k <= MaxPreviewPaths
                                        /\ SumFunction([e \in best[k] |-> EntryBytes(e)]) <= MaxPreviewBytes}
    IN  best[Max(fits)]

Preview(d) == [shown |-> Shown(d), path_count |-> Cardinality(Stats(d))]

NoPreview == [shown |-> {}, path_count |-> 0]

\* suggested_json_paths
Suggested(shown) ==
    LET scalars == {e \in shown : e.type \notin {"object", "array"}}
    IN  {e.path : e \in Ranked(scalars)[Min({3, Cardinality(scalars)})]}

-----------------------------------------------------------------------------
(* Answers *)

Projected(c) == c.paths # {} \/ c.table # None

BodyBytes(d, c) ==
    IF c.table # None THEN TableBytes(d, c.table)
    ELSE IF c.paths # {} THEN KeyedBytes(d, c.paths) ELSE Bytes(d, <<>>)

Refused(state) ==
    [state |-> state, reason |-> "none", bytes |-> 0, next |-> "none", raise |-> None,
     preview |-> NoPreview, suggested |-> {}]

Returned(bytes) == [Refused("returned") EXCEPT !.bytes = bytes]

\* next_action
NextAction(reason, c) ==
    CASE reason = "source" -> "narrow_request"
      [] reason = "output" -> "add_jsonpath"
      [] reason = "projection" /\ c.table # None -> "narrow_table_projection"
      [] OTHER -> "narrow_jsonpath"

\* Mutant: the suggestion is not cut to what may be asked for.
SuggestedMaxBytesUncut(reason, bytes, c) ==
    IF reason # "source" /\ c.max_bytes < MaxAllowedBytes THEN bytes ELSE None

\* suggested_max_bytes
SuggestedMaxBytes(reason, bytes, c) ==
    IF reason # "source" /\ c.max_bytes < MaxAllowedBytes THEN Min({bytes, MaxAllowedBytes})
    ELSE None

\* truncated_output
Omitted(reason, bytes, preview, c) ==
    [state |-> "omitted", reason |-> reason, bytes |-> 0,
     next |-> NextAction(reason, c), raise |-> SuggestedMaxBytes(reason, bytes, c),
     preview |-> preview, suggested |-> Suggested(preview.shown)]

\* build_json_output, after the checks that come before the target is asked.
Answer(d, c) ==
    IF ~ValidPaths(c.paths) \/ (c.table # None /\ ~ValidTable(c.table))
       \/ c.max_bytes \notin 1..MaxAllowedBytes
    THEN Refused("invalid")
    ELSE IF c.cap > 0 /\ c.max_bytes > c.cap THEN Refused("denied")
    ELSE IF c.cut THEN Omitted("source", 0, NoPreview, c)
    ELSE LET bytes == BodyBytes(d, c)
         IN  IF bytes <= c.max_bytes THEN Returned(bytes)
             ELSE IF Projected(c) THEN Omitted("projection", bytes, NoPreview, c)
             ELSE Omitted("output", bytes, Preview(d), c)

-----------------------------------------------------------------------------
(* The dialog *)

NoCall == [max_bytes |-> 0, paths |-> {}, table |-> None, cap |-> 0, cut |-> FALSE]

DialogInit ==
    /\ doc \in Docs
    /\ asked = NoCall /\ answer = Refused("none") /\ calls = 0

Call(c) ==
    /\ calls < MaxCalls
    /\ asked' = c /\ answer' = Answer(doc, c) /\ calls' = calls + 1
    /\ UNCHANGED doc

\* The first call.  cut: the target's body is longer than opsgate reads.
Ask ==
    /\ calls = 0
    /\ \E max_bytes \in Budgets, cap \in Caps, cut \in BOOLEAN :
         /\ cut => cap = 0
         /\ \/ \E paths \in Selections :
                 Call([max_bytes |-> max_bytes, paths |-> paths, table |-> None,
                       cap |-> cap, cut |-> cut])
            \/ \E table \in Projections :
                 /\ cap = 0
                 /\ Call([max_bytes |-> max_bytes, paths |-> {}, table |-> table,
                          cap |-> cap, cut |-> cut])

\* The caller raises max_bytes to what is suggested.
Raise ==
    /\ answer.raise # None
    /\ Call([asked EXCEPT !.max_bytes = answer.raise])

\* The caller selects a path of the preview.
Follow(e) ==
    /\ answer.next = "add_jsonpath"
    /\ e \in answer.preview.shown
    /\ Call([asked EXCEPT !.paths = {e.path}])

Ended ==
    /\ calls > 0
    /\ UNCHANGED dialogVars

DialogNext ==
    \/ Ask \/ Raise
    \/ \E e \in answer.preview.shown : Follow(e)
    \/ Ended

DialogSpec == DialogInit /\ [][DialogNext]_dialogVars

-----------------------------------------------------------------------------
(* Correctness *)

\* json.rs:196: a suggested max_bytes is more than was asked for, may be asked
\* for, and is enough, unless it is all there is or the credential's policy
\* does not grant it; and then nothing is suggested again.
RaisingLeads ==
    [][Raise =>
        /\ asked'.max_bytes > asked.max_bytes
        /\ \/ answer'.state = "returned"
           \/ answer'.state = "denied" /\ asked.cap > 0
           \/ asked'.max_bytes = MaxAllowedBytes /\ answer'.raise = None]_dialogVars

\* What a path of the preview selects, asked for as the answer suggests, is
\* what was counted under it, and no more unless an array was sampled.
Selects(e) ==
    LET selected == Selected(doc, e.path)
        counted  == {p \in Visited(doc) : PathOf(doc, p) = e.path}
        all      == {p \in DOMAIN doc : PathOf(doc, p) = e.path}
    IN  /\ ValidPaths({e.path})
        /\ selected.operator = "none"
        /\ counted \subseteq selected.nodes /\ selected.nodes \subseteq all

\* A path that can be asked for and is not read as another.  The preview tells
\* of paths that are refused when they are asked for: one longer than 512 bytes
\* (projection.rs:19), one with two dots in a row in a name (27), and one with a
\* control character in a name (33, for preview.rs:170 does not escape it).  A
\* member named count or length at the end of a path is taken for an aggregate.
PlainPath(path) ==
    /\ TextBytes(path) <= MaxJsonPathLen
    /\ \A i \in DOMAIN path : path[i] \notin {Name(n) : n \in DottedNames \cup ControlNames}
    /\ path = <<>> \/ path[Len(path)] \notin {Name("count"), Name("length")}

\* e tells of node p: by p's own path, or by one above it that is marked as
\* stopped or has more items than are sampled.
TellsOf(e, p) ==
    \/ e.path = PathOf(doc, p)
    \/ /\ IsPrefix(e.path, PathOf(doc, p))
       /\ e.stopped \/ (e.max # None /\ e.max > ArraySample)

\* json.rs:213 tells the caller to inspect preview.paths and retry with some
\* of them.  A preview that is not cut tells of every node; and its paths are
\* accepted and select what they say, but for those that are too long, have two
\* dots in a row or a control character in a name, or end in count or length.
PreviewIsReliable ==
    LET shown == answer.preview.shown
    IN  /\ answer.reason = "output" /\ Cardinality(shown) = answer.preview.path_count =>
              \A p \in DOMAIN doc : \E e \in shown : TellsOf(e, p)
        /\ \A e \in shown : PlainPath(e.path) => Selects(e)
=============================================================================
