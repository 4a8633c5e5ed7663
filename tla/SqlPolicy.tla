------------------------------- MODULE SqlPolicy -------------------------------
(***************************************************************************)
(* What a credential's policy says to the text of a query                  *)
(* (service/src/sql_query/policy.rs), of which sqlparser makes a sequence  *)
(* of statements, and what Postgres does with a text that passes.          *)
(*                                                                         *)
(* A statement is a query, an EXPLAIN of a statement, or another.  A query *)
(* is a function from the places of its syntax tree to what is there.  A   *)
(* place is the way to it from the top, a sequence of steps <<where, n>>:  *)
(* into the n-th query of a WITH, a body, a side of a set operation, or,   *)
(* "inner", a query within the expressions or the FROM of a SELECT.  At a  *)
(* place is a query, a SELECT, a set operation, or another part, such as   *)
(* an INSERT that returns rows or a TABLE, with its sites, where a name is *)
(* written.  A site is one of                                              *)
(*   "relation"  a relation, or a function that a FROM calls               *)
(*   "call"      a function that an expression calls                       *)
(*   "value"     a column, or a function without brackets                  *)
(*   "table"     the relation of TABLE r, which sqlparser keeps as strings *)
(*   "lateral"   the function of FROM LATERAL f(..), a node of its own     *)
(*   "special"   a function with a syntax of its own, as in                *)
(*               substring(s from n) or (row).f, a node without its name   *)
(* A name is the sequence of its identifiers, and an identifier a text,    *)
(* with "quote" for one in quotes and "escape" for one written U&"..",     *)
(* whose word is what it stands for.                                       *)
(***************************************************************************)
EXTENDS Texts

CONSTANTS
    BuiltinDenied,     \* BUILTIN_DENIED_FUNCTIONS
    MetadataSchemas,   \* pg_catalog and information_schema
    PgWords,           \* identifiers that begin with pg_
    SearchPath,        \* schemas that Postgres looks an unqualified name up in
    Functions,         \* the database's functions, <<schema, name>>
    ValueFunctions     \* functions without brackets, such as current_user

\* None of BUILTIN_DENIED_FUNCTIONS can be called without brackets.
ASSUME SqlPolicyAssumption == ValueFunctions \cap BuiltinDenied = {}

IsSequence(s) == s \in Seq({s[i] : i \in DOMAIN s})

\* What can be at a site
IsSite(site) ==
    /\ site.at \in {"relation", "call", "value", "table", "lateral", "special"}
    /\ IsSequence(site.name) /\ site.name # <<>>
    /\ \A i \in DOMAIN site.name : site.name[i] = Text(site.name[i].word, site.name[i].odd)

Escaped(name) == {i \in DOMAIN name : "escape" \in name[i].odd}

\* What sqlparser makes of a name.  It reads U&".." as a value U, an operator
\* and an identifier in quotes, with which a name begins; the escapes in it
\* stay, and it is no word that a policy knows.
Read(name) ==
    IF Escaped(name) = {} THEN name
    ELSE LET last == CHOOSE i \in Escaped(name) : \A j \in Escaped(name) : j <= i
         IN  <<NoText>> \o SubSeq(name, last + 1, Len(name))

\* object_name_parts
Parts(name) == [i \in DOMAIN Read(name) |-> Fold(Trim(Read(name)[i])).word]

Short(parts) == parts[Len(parts)]

\* Every site of a query, at any depth
Written(syntax) == UNION {syntax[p].sites : p \in DOMAIN syntax}

\* Places that are not within a SELECT
Outer(syntax) == {p \in DOMAIN syntax : \A i \in DOMAIN p : p[i][1] # "inner"}

\* Sites for which the policy's visitor has a hook: sqlparser visits relations
\* and expressions, and not what it keeps as strings or as bare names.
Hooked == {"relation", "call", "value"}

\* Mutant: the query is looked at as validate_query_ast does, and what is
\* within the expressions and the FROM of a SELECT is not.
VisitedAtTop(syntax) ==
    {site \in UNION {syntax[p].sites : p \in Outer(syntax)} : site.at \in Hooked}

\* Statement::visit, which the policy's visitor goes with, at any depth
VisitedSites(syntax) == {site \in Written(syntax) : site.at \in Hooked}

\* validate_query_ast and validate_set_expr, which go from a query to those of
\* its WITH and to its body, and from there to the sides of a set operation,
\* and leave the queries within a SELECT to the transaction that only reads.
ValidQueryAst(syntax) ==
    \A p \in Outer(syntax) :
        LET part == syntax[p]
        IN  /\ part.kind \in {"query", "select", "union"}
            /\ part.kind = "query" => ~part.locks
            /\ part.kind = "select" => ~part.into

\* is_metadata_relation
IsMetadataRelation(parts) ==
    IF Len(parts) = 1 THEN parts[1] \in PgWords ELSE parts[Len(parts) - 1] \in MetadataSchemas

\* denied_policy_function: a name with a schema denies only that spelling.
DeniedByPolicy(policy, full, short) ==
    \E d \in policy.deniedFunctions : IF Len(d) > 1 THEN d = full ELSE d = <<short>>

\* check_function_candidates
Denied(policy, full, isCall) ==
    \/ isCall /\ ({<<Short(full)>>, full} \cap {<<f>> : f \in BuiltinDenied} # {})
    \/ DeniedByPolicy(policy, full, Short(full))

\* pre_visit_relation, pre_visit_expr and check_function_name
SiteRefused(policy, site) ==
    LET parts == Parts(site.name)
        foreign == ~policy.metadata /\ Len(parts) > 1 /\ parts[1] \in MetadataSchemas
    IN  CASE site.at = "relation" ->
               \/ ~policy.metadata /\ IsMetadataRelation(parts)
               \/ foreign
               \/ Denied(policy, parts, TRUE)
          [] site.at = "call" -> foreign \/ Denied(policy, parts, TRUE)
          [] OTHER -> Denied(policy, <<Short(parts)>>, FALSE)

\* enforce_sql_policy, of the statements that the text is parsed to
Granted(policy, statements) ==
    /\ Len(statements) = 1
    /\ LET s == statements[1]
       IN  /\ s.kind = "explain" =>
                 /\ policy.explain
                 /\ s.analyze => policy.analyze
           /\ s.kind \in {"query", "explain"} /\ s.of # <<>>
           /\ ValidQueryAst(s.of[1])
           /\ \A site \in VisitedSites(s.of[1]) : ~SiteRefused(policy, site)

-----------------------------------------------------------------------------
(* Postgres *)

InQuotes(ident) == ident.odd \cap {"quote", "escape"} # {}

\* An identifier in quotes keeps its capitals, and another is lowered.
Lookup(ident) == IF InQuotes(ident) THEN <<ident.word, ident.odd \cap {"case"}>>
                 ELSE <<ident.word, {}>>

\* The functions a call can be of: without a schema those on the search path.
Called(name) ==
    LET last == Lookup(name[Len(name)])
        schemas == IF Len(name) = 1 THEN SearchPath ELSE {name[Len(name) - 1].word}
    IN  {f \in Functions : f[1] \in schemas /\ last = <<f[2], {}>>}

\* A value in brackets or with a column's table before it is not of these.
ValueCalled(name) ==
    IF Len(name) = 1 /\ ~InQuotes(name[1])
    THEN {<<"", v>> : v \in ValueFunctions \cap {name[1].word}} ELSE {}

\* The functions that run where sites name them
Runs(sites) ==
    UNION {CASE site.at = "value" -> ValueCalled(site.name)
             [] site.at = "table" -> {}
             [] OTHER -> Called(site.name) : site \in sites}

\* Sites read relations of metadata schemas.
ReadsMetadata(sites) ==
    \E site \in {s \in sites : s.at \in {"relation", "table"}} :
        LET name == site.name
            last == Lookup(name[Len(name)])
        IN  IF Len(name) = 1 THEN last[2] = {} /\ last[1] \in PgWords
            ELSE name[Len(name) - 1].word \in MetadataSchemas
=============================================================================
