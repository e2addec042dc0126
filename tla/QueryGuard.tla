----------------------------- MODULE QueryGuard -----------------------------
(***************************************************************************)
(* services/query_service.py around authorization: a query is validated    *)
(* against the static policy of security/ (a guard here), authorized,      *)
(* validated again as it was rewritten, given a LIMIT and executed, and    *)
(* the names of the result's columns are compared with those authorized.   *)
(*                                                                         *)
(* The text of a query is the set of its words, its length their number;   *)
(* a pattern is the set of words that occur together where it matches.     *)
(* The slots for concurrent queries and the metrics are QueryService's.    *)
(***************************************************************************)
EXTENDS Authorization, FiniteSetsExt

CONSTANTS Guards,       \* what security/policy.py loads from security.yaml
          Statements    \* the kinds of text that arrive

ASSUME GuardAssumption ==
    /\ "select" \in Statements
    /\ Statements \subseteq {"empty", "unparsable", "several", "write", "select"}
    /\ \A g \in Guards :
          /\ g.blocked \cup g.denied \cup g.allowed \cup g.unnamable \subseteq Tables
          /\ \A t \in Tables : g.hidden[t] \cup g.listed[t] \subseteq Columns

VARIABLES guard,
          statement,  \* what the text is; "select": it is the SELECT query
          phase,      \* the step of _run() that comes next, or "answered" or "raised"
          limits,     \* the SELECTs that have a LIMIT
          reply       \* the code of the answer, "ok" for a result

guardVars == <<guard, statement, phase, limits, reply>>

-----------------------------------------------------------------------------
(* SqlValidator.validate() of a SELECT: the checks, in their order *)

\* The columns of row filters, qualified by the aliases of their tables.
RowColumns(fs, alias_map) == {<<alias_map[f[1][2]], f[2].column>> : f \in fs}

WordsOfScope(scope) ==
    DOMAIN scope.from \cup (Range(scope.from) \ {Derived})
    \cup UNION {{ref.name, ref.as} : ref \in scope.list \cup scope.where}
Words(q, fs) ==
    (UNION {WordsOfScope(q[p]) : p \in Parts(q)}) \cup CteNames(q) \cup {f[2].column : f \in fs}

Length(q, fs) ==
    Cardinality(fs) + MapThenSumSet(LAMBDA p : Cardinality(DOMAIN q[p].from) + Cardinality(q[p].list)
                                               + Cardinality(q[p].where), Parts(q))
Joins(q) == MapThenSumSet(LAMBDA p : Cardinality(DOMAIN q[p].from) - 1, Parts(q))

\* find_forbidden_columns(): a list of allowed columns is a list of all that are.
Forbidden(ref) ==
    LET t == ref[1] IN
    /\ t \in Tables
    /\ \/ ref[2] \in guard.hidden[t]
       \/ guard.listed[t] # {} /\ ref[2] \notin guard.listed[t]

ColumnsNamed(q, fs, alias_map) == extract_column_refs(q, alias_map) \cup RowColumns(fs, alias_map)

\* <<violated, code>>
Checks(q, fs, alias_map) == <<
    <<guard.maxLength # 0 /\ Length(q, fs) > guard.maxLength, "sql_too_long">>,
    <<guard.maxJoins # 0 /\ Joins(q) > guard.maxJoins, "too_many_joins">>,
    <<Words(q, fs) \cap guard.keywords # {}, "forbidden_keyword">>,
    <<\E pattern \in guard.patterns : pattern \subseteq Words(q, fs), "forbidden_pattern">>,
    <<extract_tables(q) \cap guard.blocked # {}, "blocked_schema">>,
    <<extract_tables(q) \cap guard.denied # {}, "table_denied">>,
    <<guard.allowed # {} /\ ~(extract_tables(q) \subseteq guard.allowed), "table_not_allowed">>,
    <<\E ref \in ColumnsNamed(q, fs, alias_map) : Forbidden(ref), "column_not_allowed">>,
    <<extract_tables(q) \cap guard.unnamable # {}, "bad_identifier">>>>

Violated(checks) == {i \in DOMAIN checks : checks[i][1]}

-----------------------------------------------------------------------------
(* QueryService._run() *)

QueryInit ==
    /\ Init
    /\ guard \in Guards
    /\ statement \in Statements
    /\ phase = "validate"
    /\ limits \in SUBSET Parts(query)
    /\ reply = ""

Answer(c) ==
    /\ phase' = "answered"
    /\ reply' = c
    /\ UNCHANGED <<vars, guard, statement, limits>>

Proceed(p) ==
    /\ phase' = p
    /\ UNCHANGED <<vars, guard, statement, limits, reply>>

Verdict(q, fs, next) ==
    \E alias_map \in AliasMaps(q) :
        LET checks == Checks(q, fs, alias_map) IN
        \/ Violated(checks) = {} /\ Proceed(next)
        \/ \E i \in Violated(checks) :
              (\A j \in Violated(checks) : i <= j) /\ Answer(checks[i][2])

NotASelect ==
    [kind \in Statements \ {"select"} |->
        CASE kind = "empty"      -> "empty"
          [] kind = "unparsable" -> "parse_error"
          [] kind = "several"    -> "multi_statement"
          [] kind = "write"      -> "not_readonly"]

Validate ==
    /\ phase = "validate"
    /\ IF statement = "select" THEN Verdict(query, {}, "authorize")
                               ELSE Answer(NotASelect[statement])

Authorize ==
    /\ phase = "authorize"
    /\ Next
    /\ phase' = CASE stage' = "approved" -> "recheck"
                  [] stage' = "rejected" -> "answered"
                  [] stage' = "raised"   -> "raised"
                  [] OTHER -> "authorize"
    /\ reply' = IF stage' = "rejected" THEN code' ELSE reply
    /\ UNCHANGED <<guard, statement, limits>>

Recheck_OfOriginal == phase = "recheck" /\ Verdict(query, {}, "limit")
Recheck == phase = "recheck" /\ Verdict(rewritten, filters, "limit")

\* _ensure_limit(): a LIMIT of any SELECT in the query counts.
AddLimit ==
    /\ phase = "limit"
    /\ limits' = IF guard.enforceLimit /\ limits = {} THEN {"main"} ELSE limits
    /\ phase' = "execute"
    /\ UNCHANGED <<vars, guard, statement, reply>>

\* _result_column_names(): nothing when a star is left.
ResultColumns(q) ==
    IF \E ref \in q.main.list : ref.name = Star THEN {} ELSE {ref.as : ref \in q.main.list}

ColumnsOfResult(q) == {o.name : o \in SelectedBy(q, "main", q.main.list, InnerOutputs(q))}

\* _result_column_guard()
Unexpected(q) ==
    IF ResultColumns(q) = {} THEN {} ELSE ColumnsOfResult(q) \ ResultColumns(q)

Execute ==
    /\ phase = "execute"
    /\ \/ Answer("query_error")
       \/ Answer(IF Unexpected(rewritten) # {} THEN "result_column_guard_denied" ELSE "ok")

QueryNext == Validate \/ Authorize \/ Recheck \/ AddLimit \/ Execute

QuerySpec == QueryInit /\ [][QueryNext]_<<vars, guardVars>>

-----------------------------------------------------------------------------
(* The static policy of the executed query *)

Explicitly(q) == \A p \in Parts(q) : \A ref \in q[p].list : ref.name # Star

\* The columns of the tables that the row filters compare.
Compared(q, fs) == {<<NameOf(q, f[1]), f[2].column>> : f \in fs}

\* A query that reached the database reads only tables the static policy allows, save the
\* table a CTE takes its name from, and joins no more than it allows.  When the names are
\* apart, once stars are expanded and row filters added, it reads no column the static
\* policy hides, and none but the listed ones of a table that has a list.  ("RLS and SELECT
\* * expanded, it is validated again.")
ExecutedIsValidated ==
    reply \in {"ok", "query_error", "result_column_guard_denied"} =>
        /\ \A t \in TablesRead(rewritten) \ CteNames(rewritten) :
              /\ t \notin guard.denied \cup guard.blocked \cup guard.unnamable
              /\ guard.allowed # {} => t \in guard.allowed
        /\ guard.maxJoins # 0 => ~(Joins(rewritten) > guard.maxJoins)
        /\ NamesApart(rewritten) =>
              \A c \in Compared(rewritten, filters)
                       \cup (IF Explicitly(rewritten) THEN Read(rewritten) ELSE {}) :
                  /\ c[2] \notin guard.hidden[c[1]]
                  /\ guard.listed[c[1]] # {} => c[2] \in guard.listed[c[1]]
=============================================================================
