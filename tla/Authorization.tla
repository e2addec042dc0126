---------------------------- MODULE Authorization ----------------------------
(***************************************************************************)
(* mcp_server/authorization/service.py and lineage.py: authorize_sql() of  *)
(* one query, one step per check in the order of the code, on the policy   *)
(* pinned in the request's context.                                        *)
(*                                                                         *)
(* A pattern of a rule is the set of names it matches; a principal is the  *)
(* set of its subject and its roles, and so are the subjects of a rule.    *)
(* A query is a SELECT over tables and over at most one CTE or derived     *)
(* table.  Any identifier can be a table's name, an alias and the name of  *)
(* the CTE or derived table at once, as it can in SQL.  An expression is   *)
(* the column it is computed from.                                         *)
(***************************************************************************)
EXTENDS FiniteSets, Functions

CONSTANTS Names,       \* the identifiers of tables, aliases, CTEs and derived tables
          Tables, Columns,
          Derived,     \* what an alias stands for that is not the alias of a name
          Anywhere,    \* the qualifier of a bare column
          Star,
          SchemaOf,    \* SchemaOf[t]: the columns of table t
          Principals,  \* sets of identities
          Policies,    \* what validation.py lets through
          Queries

References == [of : Names \cup {Anywhere}, name : Columns \cup {Star}, as : Columns \cup {Star}]

\* scope.from[a] is the name, among sources, that alias a stands for.  An unknown or an
\* ambiguous alias is an error of the database.
WellFormed(scope, sources) ==
    /\ scope = [from |-> scope.from, list |-> scope.list, where |-> scope.where]
    /\ DOMAIN scope.from \subseteq Names /\ scope.from \in [DOMAIN scope.from -> sources]
    /\ scope.list \cup scope.where \subseteq References
    /\ \A ref \in scope.list \cup scope.where : ref.of \in DOMAIN scope.from \cup {Anywhere}
    /\ \A ref \in scope.where : ref.name # Star

\* A "flat" query is its main SELECT; a "cte" is WITH q.name AS (inner) main; in a
\* "derived" one the FROM clause of main has (inner) AS q.name.
WellFormedQuery(q) ==
    /\ q = [kind |-> q.kind, name |-> q.name, inner |-> q.inner, main |-> q.main]
    /\ q.kind \in {"flat", "cte", "derived"} /\ q.name \in Names
    /\ q.kind # "flat" => WellFormed(q.inner, Tables)
    /\ WellFormed(q.main, Tables \cup CASE q.kind = "flat"    -> {}
                                        [] q.kind = "cte"     -> {q.name}
                                        [] q.kind = "derived" -> {Derived})
    /\ \A a \in DOMAIN q.main.from : q.main.from[a] = Derived => a = q.name

ASSUME AuthorizationAssumption ==
    /\ Tables \subseteq Names
    /\ Derived \notin Names /\ Anywhere \notin Names /\ Star \notin Columns
    /\ SchemaOf \in [Tables -> SUBSET Columns]
    /\ \A q \in Queries : WellFormedQuery(q)

VARIABLES policy, principal, query, catalog,   \* the arguments; catalog: is there one
          stage,      \* the check that comes next, or "approved", "rejected" or "raised"
          code,       \* AuthorizationResult.code
          rewritten,  \* the tree with its stars expanded
          pending,    \* the table nodes _apply_row_policies() has not looked at
          filters     \* the row policies each table node is filtered by

input == <<policy, principal, query, catalog>>
vars == <<input, stage, code, rewritten, pending, filters>>

-----------------------------------------------------------------------------
(* RBAC and ACL *)

Matches(rule) == rule.subjects \cap principal # {}

has_permission == policy.query \cap principal # {}
bypass_rls == policy.bypass \cap principal # {}

TableRules(t) == {r \in policy.acl : r.type = "table" /\ Matches(r) /\ t \in r.tables}
ColumnRules(t) == {r \in policy.acl : r.type = "column" /\ Matches(r) /\ t \in r.tables}

authorize_table(t) ==
    /\ \A r \in TableRules(t) : r.effect # "deny"
    /\ \E r \in TableRules(t) : r.effect = "allow"

column_policy_defined(t) == ColumnRules(t) # {}

\* Without column rules every column of an allowed table is visible; an allow rule makes
\* the others an allow list.
authorize_column_AllowWins(t, c) ==
    /\ authorize_table(t)
    /\ \/ \A r \in ColumnRules(t) : r.effect = "deny" => c \notin r.columns
       \/ \E r \in ColumnRules(t) : r.effect = "allow" /\ c \in r.columns
authorize_column(t, c) ==
    /\ authorize_table(t)
    /\ \A r \in ColumnRules(t) : r.effect = "deny" => c \notin r.columns
    /\ (\E r \in ColumnRules(t) : r.effect = "allow")
          => \E r \in ColumnRules(t) : r.effect = "allow" /\ c \in r.columns

-----------------------------------------------------------------------------
(* The syntax tree.  A source is <<part, alias>>; scope.list and scope.where are sets of   *)
(* references [of, name, as]; name is Star for * and t.*, as is the name of the output.    *)

Parts(q) == {"main"} \cup IF q.kind = "flat" THEN {} ELSE {"inner"}
Sources(q) == UNION {{p} \X DOMAIN q[p].from : p \in Parts(q)}
NameOf(q, source) == q[source[1]].from[source[2]]

\* find_all(exp.Table): the uses of the CTE, too, but not of a derived table.
TableNodes(q) == {n \in Sources(q) : NameOf(q, n) # Derived}

CteNames(q) == IF q.kind = "cte" THEN {q.name} ELSE {}
DerivedAliases(q) == IF q.kind = "flat" THEN {} ELSE {q.name}

\* A name that is the CTE's is left out wherever it stands, in the CTE's own body too.
extract_tables(q) == {NameOf(q, n) : n \in TableNodes(q)} \ CteNames(q)

IsStar(ref) == ref.name = Star /\ ref.of = Anywhere
Explicit(scope) == {ref \in scope.list : ref.name # Star}

\* The map from aliases to tables is one for the whole query: each table node enters its
\* alias and its name, the last one stays, and the order of the walk over the tree is left
\* open.  An alias that is not in the map stands for itself.
Claimants(q, a) == {NameOf(q, n) : n \in {m \in TableNodes(q) : a \in {m[2], NameOf(q, m)}}}
Aliases(q) == {source[2] : source \in Sources(q)}
AliasMaps(q) ==
    {f \in [Aliases(q) -> Names] :
        \A a \in Aliases(q) :
            f[a] \in IF Claimants(q, a) = {} THEN {a} ELSE Claimants(q, a)}

\* A bare column belongs to all tables of the query, and t.* is the column "*" of t.
RefsOf(ref, q, alias_map) ==
    IF ref.of = Anywhere THEN extract_tables(q) \X {ref.name}
                         ELSE {<<alias_map[ref.of], ref.name>>}

extract_column_refs(q, alias_map) ==
    UNION {RefsOf(ref, q, alias_map) :
             ref \in UNION {{r \in q[p].list : ~IsStar(r)} \cup q[p].where : p \in Parts(q)}}

-----------------------------------------------------------------------------
(* LineageResolver: what a source offers, and where a reference comes from *)

TableScope(t) ==
    [outputs |-> IF catalog THEN {[name |-> c, sources |-> {<<t, c>>}] : c \in SchemaOf[t]}
                            ELSE {},
     complete |-> catalog]

Named(sources, name) == {o \in UNION {s.outputs : s \in sources} : o.name = name}
SourcesOf(outputs) == UNION {o.sources : o \in outputs}

\* _resolve_column(): scopes maps the aliases in the FROM clause to what they offer,
\* physical those of table nodes to their names.
Resolve(ref, scopes, physical) ==
    LET where == IF ref.of = Anywhere THEN DOMAIN scopes ELSE {ref.of} \cap DOMAIN scopes
        found == Named({scopes[s] : s \in where}, ref.name)
        nodes == IF ref.of = Anywhere THEN DOMAIN physical ELSE DOMAIN physical \cap {ref.of}
    IN  CASE found # {} ->
               [sources |-> SourcesOf(found), complete |-> \A s \in where : scopes[s].complete]
          [] found = {} /\ Cardinality(nodes) = 1 ->
               [sources |-> {<<physical[a], ref.name>> : a \in nodes}, complete |-> TRUE]
          [] OTHER -> [sources |-> {}, complete |-> FALSE]

\* _resolve_select()
Lineage(scope, scopes, physical) ==
    LET offered(ref) ==
          IF ref.of = Anywhere THEN UNION {scopes[s].outputs : s \in DOMAIN scopes}
                               ELSE scopes[ref.of].outputs
        result(ref) == Resolve(ref, scopes, physical)
    IN  [outputs |-> (UNION {offered(ref) : ref \in scope.list \ Explicit(scope)})
                     \cup {[name |-> ref.as, sources |-> result(ref).sources] :
                             ref \in Explicit(scope)},
         complete |-> /\ \A s \in DOMAIN scopes : scopes[s].complete
                      /\ \A ref \in Explicit(scope) : result(ref).complete]

Physical(q, p) == RestrictValues(q[p].from, LAMBDA name : name # Derived)

\* resolve(): no CTE is known yet when the body of the CTE is looked at.
InnerScopes(q) == [a \in DOMAIN q.inner.from |-> TableScope(q.inner.from[a])]
InnerLineage(q) == Lineage(q.inner, InnerScopes(q), Physical(q, "inner"))

\* source_scopes() of a SELECT once the CTE is known: its name stands for what it selects,
\* in its own body too.
Scopes(q, p) ==
    [a \in DOMAIN q[p].from |->
        IF q[p].from[a] \in CteNames(q) \cup {Derived} THEN InnerLineage(q)
                                                       ELSE TableScope(q[p].from[a])]
ScopesResolved(q, p) == IF p = "inner" THEN InnerScopes(q) ELSE Scopes(q, p)

LineageOf(q, p) == Lineage(q[p], ScopesResolved(q, p), Physical(q, p))

\* source_columns(): what the explicit projections of all SELECTs come from.
Referenced(q) ==
    UNION {UNION {Resolve(ref, ScopesResolved(q, p), Physical(q, p)).sources :
                    ref \in Explicit(q[p])} : p \in Parts(q)}

\* Resolving a query asks the catalog for every table that is not the CTE by then.
AsksCatalog(q) ==
    catalog /\ \E n \in TableNodes(q) : n[1] = "inner" \/ NameOf(q, n) \notin CteNames(q)

-----------------------------------------------------------------------------
(* _authorize_sql_impl() *)

Init ==
    /\ policy \in Policies
    /\ principal \in Principals
    /\ query \in Queries
    /\ catalog \in BOOLEAN
    /\ stage = "permission"
    /\ code = ""
    /\ rewritten = query
    /\ pending = TableNodes(query)
    /\ filters = {}

Reject(c) ==
    /\ stage' = "rejected"
    /\ code' = c
    /\ UNCHANGED <<input, rewritten, pending, filters>>

Pass(s) ==
    /\ stage' = s
    /\ UNCHANGED <<input, code, rewritten, pending, filters>>

CheckPermission ==
    /\ stage = "permission"
    /\ IF has_permission THEN Pass("tables") ELSE Reject("permission_denied")

CheckTables ==
    /\ stage = "tables"
    /\ IF \A t \in extract_tables(query) : authorize_table(t)
         THEN Pass("columns") ELSE Reject("table_permission_denied")

\* What belongs to a CTE or a derived table, by the name it resolves to, is left to the
\* lineage.
CheckColumns ==
    /\ stage = "columns"
    /\ \E alias_map \in AliasMaps(query) :
          IF \A ref \in extract_column_refs(query, alias_map) :
                ref[1] \in DerivedAliases(query) \/ authorize_column(ref[1], ref[2])
            THEN Pass("lineage") ELSE Reject("column_permission_denied")

Traced_Always == TRUE
Traced ==
    /\ \E t \in extract_tables(query) : column_policy_defined(t)
    /\ catalog \/ query.kind # "flat"

\* _authorize_lineage()
CheckLineage ==
    /\ stage = "lineage"
    /\ IF ~Traced THEN Pass("stars")
       ELSE IF \E p \in Parts(query) : ~LineageOf(query, p).complete
              THEN Reject("authorization_rewrite_error")
       ELSE IF \E ref \in Referenced(query) : ~authorize_column(ref[1], ref[2])
              THEN Reject("column_permission_denied")
       ELSE Pass("stars")

\* A source of a SELECT is restricted if column rules apply to it or to what it offers.
Restricted(p) ==
    \/ \E t \in Range(Physical(query, p)) : column_policy_defined(t)
    \/ \E a \in DOMAIN query[p].from :
         \E o \in Scopes(query, p)[a].outputs :
            \E source \in o.sources : column_policy_defined(source[1])

\* _visible_scope_columns(): an output whose sources are all authorized.
Visible(p, s) ==
    {o \in Scopes(query, p)[s].outputs :
        \A source \in o.sources : authorize_column(source[1], source[2])}

Starred(p) ==
    {s \in DOMAIN query[p].from :
        \E ref \in query[p].list : ref.name = Star /\ ref.of \in {Anywhere, s}}

Expanded(p) ==
    [query[p] EXCEPT !.list =
        Explicit(query[p]) \cup
        UNION {{[of |-> s, name |-> o.name, as |-> o.name] : o \in Visible(p, s)} :
                 s \in Starred(p)}]

\* The CTE counts among the tables that are looked at first.
SomeColumnRule == \E n \in TableNodes(query) : column_policy_defined(NameOf(query, n))
Expanding == {p \in Parts(query) : SomeColumnRule /\ Restricted(p)}

Rewritten ==
    [query EXCEPT !.inner = IF "inner" \in Expanding THEN Expanded("inner") ELSE @,
                  !.main  = IF "main" \in Expanding THEN Expanded("main") ELSE @]

\* _expand_stars().
ExpandStars ==
    /\ stage = "stars"
    /\ LET incomplete == \E p \in Expanding :
                          \E s \in DOMAIN query[p].from : ~Scopes(query, p)[s].complete
           hidden == \E p \in Expanding : \E s \in Starred(p) : Visible(p, s) = {}
       IN  \/ incomplete /\ Reject("authorization_rewrite_error")
           \/ hidden /\ Reject("column_permission_denied")
           \/ /\ ~incomplete /\ ~hidden
              /\ rewritten' = Rewritten
              /\ stage' = "rows"
              /\ UNCHANGED <<input, code, pending, filters>>

\* The catalog's database fails while lineage is resolved; nothing catches its exception.
LookupFails ==
    /\ \/ stage = "lineage" /\ Traced
       \/ stage = "stars" /\ SomeColumnRule
    /\ AsksCatalog(query)
    /\ Pass("raised")

-----------------------------------------------------------------------------
(* _apply_row_policies(): the loop over the table nodes *)

RowPolicies(t) == {r \in policy.rows : t \in r.tables}
Applicable(t) == {r \in RowPolicies(t) : Matches(r)}

Unprotected(t) == RowPolicies(t) # {} /\ Applicable(t) = {}

\* A predicate cannot be built when the principal lacks the attribute it refers to, or
\* when the value of IN is not a list.  (Its column and its operator were validated with
\* the policy: the two ValueErrors of _row_predicate() cannot be raised.)
Buildable(r) == r.value

FiltersOf(n) == {n} \X Applicable(NameOf(query, n))

\* A node whose name is the CTE's is taken for the CTE.
IsTheCte_ByAlias(n) == n[2] \in CteNames(query)
IsTheCte(n) == NameOf(query, n) \in CteNames(query)

SkipNode(n) ==
    /\ IsTheCte(n) \/ bypass_rls
    /\ pending' = pending \ {n}
    /\ UNCHANGED <<input, stage, code, rewritten, filters>>

FilterNode(n) ==
    /\ ~IsTheCte(n) /\ ~bypass_rls
    /\ LET t == NameOf(query, n) IN
       IF Unprotected(t) \/ \E r \in Applicable(t) : ~Buildable(r)
         THEN Reject("row_policy_denied")
         ELSE /\ filters' = filters \cup FiltersOf(n)
              /\ pending' = pending \ {n}
              /\ UNCHANGED <<input, stage, code, rewritten>>

ApplyRowPolicies ==
    /\ stage = "rows"
    /\ \/ \E n \in pending : SkipNode(n) \/ FilterNode(n)
       \/ pending = {} /\ Pass("approved")

Next ==
    \/ CheckPermission \/ CheckTables \/ CheckColumns \/ CheckLineage \/ ExpandStars
    \/ LookupFails \/ ApplyRowPolicies

Spec == Init /\ [][Next]_vars

-----------------------------------------------------------------------------
(* What the database reads when it runs the rewritten query *)

\* What stands for the result of the inner SELECT in a FROM clause: the CTE is not known
\* in its own body.
Virtual(q, p) == IF p = "inner" THEN {} ELSE CteNames(q) \cup {Derived}

\* The sources that are tables of the database.
Occurrences(q) == {n \in Sources(q) : NameOf(q, n) \notin Virtual(q, n[1])}
TablesRead(q) == {NameOf(q, n) : n \in Occurrences(q)}

Rows(t) == {[name |-> c, sources |-> {<<t, c>>}] : c \in SchemaOf[t]}

\* The outputs of the source a reference names, or of all of them.
Offers(ref, from, virtual, inner) ==
    UNION {IF from[a] \in virtual THEN inner ELSE Rows(from[a]) :
             a \in IF ref.of = Anywhere THEN DOMAIN from ELSE DOMAIN from \cap {ref.of}}

\* What a reference selects; a column that does not exist is an error and reads nothing.
Selects(ref, from, virtual, inner) ==
    LET offers == Offers(ref, from, virtual, inner) IN
    IF ref.name = Star THEN offers
    ELSE LET found == {o \in offers : o.name = ref.name} IN
         IF found = {} THEN {} ELSE {[name |-> ref.as, sources |-> SourcesOf(found)]}

SelectedBy(q, p, refs, inner) ==
    UNION {Selects(ref, q[p].from, Virtual(q, p), inner) : ref \in refs}

InnerOutputs(q) == IF q.kind = "flat" THEN {} ELSE SelectedBy(q, "inner", q.inner.list, {})

\* The columns the result is computed from, and those its rows are chosen by.
Read(q) ==
    SourcesOf(SelectedBy(q, "main", q.main.list \cup q.main.where, InnerOutputs(q)))
    \cup IF q.kind = "flat" THEN {} ELSE SourcesOf(SelectedBy(q, "inner", q.inner.where, {}))

-----------------------------------------------------------------------------
\* "An explicit deny before an allow before the default, which is to deny", and the allow
\* list that the allow rules of a table's columns make.
Effects(rules) == {r.effect : r \in rules}
MayRead(t) == "deny" \notin Effects(TableRules(t)) /\ "allow" \in Effects(TableRules(t))
MaySee(t, c) ==
    LET onColumn == {r \in ColumnRules(t) : c \in r.columns} IN
    /\ MayRead(t)
    /\ "deny" \notin Effects(onColumn)
    /\ "allow" \in Effects(ColumnRules(t)) => "allow" \in Effects(onColumn)

\* No table that is read has the name of the CTE or derived table, and an alias stands for
\* one table wherever it is used, as an alias or as a name.
NamesApart(q) ==
    /\ TablesRead(q) \cap DerivedAliases(q) = {}
    /\ \A n \in TableNodes(q) : Claimants(q, n[2]) = {NameOf(q, n)}

\* An approved query runs for a principal that may query, and reads only tables the
\* principal may read, save that the table a CTE takes its name from escapes the check (see
\* TablesAreAuthorized).  When the names are apart, whatever it reads, through stars,
\* renamed columns, derived tables or conditions, are columns the policy lets the principal
\* see.
ReadsOnlyAuthorized ==
    stage = "approved" =>
        /\ has_permission
        /\ \A t \in TablesRead(rewritten) \ CteNames(rewritten) : MayRead(t)
        /\ NamesApart(query) => \A source \in Read(rewritten) : MaySee(source[1], source[2])

\* In an approved query every use of a table that has row policies, in the CTE or derived
\* table and under any alias, is filtered by all of those that are for the principal, and
\* by at least one, unless it bypasses them; save the table a CTE takes its name from.
RowsAreFiltered ==
    stage = "approved" /\ ~bypass_rls =>
        \A n \in Occurrences(rewritten) :
            LET t == NameOf(rewritten, n) IN
            t \notin CteNames(rewritten) =>
                /\ RowPolicies(t) # {} => \E r \in policy.rows : <<n, r>> \in filters
                /\ \A r \in RowPolicies(t) : Matches(r) => <<n, r>> \in filters

\* A query over allowed tables that no column rule and no row policy applies to is
\* approved as it is, with or without a catalog and when the catalog's database is down.
OpenQueryPasses ==
    /\ has_permission
    /\ \A t \in extract_tables(query) : authorize_table(t) /\ RowPolicies(t) = {}
    /\ \A t \in Names : ~column_policy_defined(t)
    => stage \notin {"rejected", "raised"} /\ rewritten = query

\* "A CTE's name is no real table; the real table its body refers to must be extracted":
\* the tables an approved query reads were checked, whatever the CTE is called.
TablesAreAuthorized ==
    stage = "approved" => \A t \in TablesRead(rewritten) : MayRead(t)

\* "A qualified column is resolved to the real table through the map of aliases in FROM and
\* JOIN": when no table has the derived table's name, an approved query reads the columns
\* the principal may see, whatever its aliases are.
AliasesAreResolved ==
    stage = "approved" /\ TablesRead(query) \cap DerivedAliases(query) = {} =>
        \A source \in Read(rewritten) : MaySee(source[1], source[2])
=============================================================================
